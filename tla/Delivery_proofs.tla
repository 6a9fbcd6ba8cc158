--------------------------- MODULE Delivery_proofs ---------------------------
(***************************************************************************)
(* The properties of Delivery for every number of lanes, workers and       *)
(* events, and every size of the queues.  The argument: an event moves     *)
(* from its lane to the handler, to the queue, to a worker; of two events  *)
(* of one lane the older is never behind the younger (Order), and what has *)
(* ended (Past) is not on the way any more (Gone).                         *)
(***************************************************************************)
EXTENDS Delivery, TLAPS

N == Cardinality(Event)
Past == letters \cup settled \cup command.todo \cup command.keep

\* The types of the variables, with the events for the numbers.
Types ==
    /\ emitted \in 0..N
    /\ lane \in [Lane -> Seq(Event)] /\ handling \in [Lane -> Event \cup {0}]
    /\ queue \in Seq(Event) /\ Len(queue) <= QueueSize
    /\ \A l \in Lane : Len(lane[l]) <= LaneSize
    /\ post \in [Worker -> [event : Event \cup {0}, failed : 0..(Attempts - 1)]]
    /\ letters \subseteq Event /\ settled \subseteq Event
    /\ command \in [on : BOOLEAN, todo : SUBSET Event, keep : SUBSET Event]
    /\ ~command.on => command = NoCommand
    /\ pusher \in {"running", "draining", "stopped"} /\ process \in {"up", "down"}
    /\ commands \in 0..MaxCommands

\* A lane has the events of its chats in order, after the one its worker handles.
LanesOK ==
    \A l \in Lane :
        /\ \A i \in 1..Len(lane[l]) : LaneOf[lane[l][i]] = l
        /\ \A i, j \in 1..Len(lane[l]) : i < j => lane[l][i] < lane[l][j]
        /\ handling[l] # 0 => LaneOf[handling[l]] = l /\ \A i \in 1..Len(lane[l]) : handling[l] < lane[l][i]

\* The queue has the events of a lane in order.
QueueOK == \A i, j \in 1..Len(queue) : i < j /\ LaneOf[queue[i]] = LaneOf[queue[j]] => queue[i] < queue[j]

\* An event that is further on is older than the events of its lane behind it.
Ahead ==
    \A e, f \in Event : LaneOf[e] = LaneOf[f] =>
        /\ (Queued(e) \/ Posted(e)) /\ (Handled(f) \/ InLane(f)) => e < f
        /\ Posted(e) /\ Queued(f) => e < f

PostedOnce == \A v, w \in Worker : post[v].event # 0 /\ post[v].event = post[w].event => v = w

Order == LanesOK /\ QueueOK /\ Ahead /\ PostedOnce

\* Only what was published is anywhere; what has ended is not on its way.
Published == \A e \in Event : Waiting(e) \/ e \in Past => e <= emitted
Gone == \A e \in Past : ~Waiting(e)

IInv == Types /\ Order /\ Published /\ Gone

-----------------------------------------------------------------------------
(* Sequences *)

LEMMA Appended ==
    ASSUME NEW S, NEW s \in Seq(S), NEW e \in S
    PROVE  /\ Append(s, e) \in Seq(S) /\ Len(Append(s, e)) = Len(s) + 1
           /\ \A i \in 1..Len(s) : Append(s, e)[i] = s[i]
           /\ Append(s, e)[Len(s) + 1] = e
OBVIOUS

LEMMA Tailed ==
    ASSUME NEW S, NEW s \in Seq(S), s # <<>>
    PROVE  /\ Len(s) \in Nat \ {0} /\ Head(s) = s[1] /\ s[1] \in S
           /\ Tail(s) \in Seq(S) /\ Len(Tail(s)) = Len(s) - 1
           /\ \A i \in 1..Len(Tail(s)) : Tail(s)[i] = s[i + 1]
OBVIOUS

\* What a bounded lane is after an event came in: d tells if the oldest was dropped.
LEMMA Pushed ==
    ASSUME NEW S, NEW s \in Seq(S), NEW e \in S, NEW n \in Nat \ {0}, Len(s) <= n,
           NEW t, t = Append(IF Len(s) = n THEN Tail(s) ELSE s, e)
    PROVE  /\ t \in Seq(S) /\ Len(t) <= n
           /\ \E d \in {0, 1} : /\ Len(t) = Len(s) - d + 1 /\ (d = 1 => Len(s) = n)
                                /\ \A i \in 1..(Len(s) - d) : t[i] = s[i + d]
                                /\ t[Len(s) - d + 1] = e
<1>0. Len(s) \in Nat
  OBVIOUS
<1>1. CASE Len(s) = n
  <2>1. s # <<>>
    BY <1>1
  <2>2. t = Append(Tail(s), e)
    BY <1>1
  <2>3. Tail(s) \in Seq(S) /\ Len(Tail(s)) = Len(s) - 1 /\ \A i \in 1..Len(Tail(s)) : Tail(s)[i] = s[i + 1]
    BY <2>1, Tailed
  <2>4. /\ t \in Seq(S) /\ Len(t) = Len(s)
        /\ \A i \in 1..(Len(s) - 1) : t[i] = s[i + 1]
        /\ t[Len(s)] = e
    <3> DEFINE u == Tail(s)
    <3>1. u \in Seq(S) /\ Len(u) = Len(s) - 1 /\ t = Append(u, e) /\ \A i \in 1..Len(u) : u[i] = s[i + 1]
      BY <2>2, <2>3
    <3> HIDE DEF u
    <3>2. /\ t \in Seq(S) /\ Len(t) = Len(u) + 1
          /\ \A i \in 1..Len(u) : t[i] = u[i]
          /\ t[Len(u) + 1] = e
      BY <3>1, Appended
    <3> QED
      BY <1>0, <3>1, <3>2
  <2> QED
    BY <1>0, <1>1, <2>4
<1>2. CASE Len(s) # n
  <2>1. t = Append(s, e)
    BY <1>2
  <2>2. /\ t \in Seq(S) /\ Len(t) = Len(s) + 1
        /\ \A i \in 1..Len(s) : t[i] = s[i] /\ t[Len(s) + 1] = e
    BY <2>1, Appended
  <2> QED
    BY <1>0, <1>2, <2>2
<1> QED
  BY <1>1, <1>2

LEMMA InitInv == Init => IInv
<1> SUFFICES ASSUME Init PROVE IInv
  OBVIOUS
<1> USE DEF Init
<1>1. Types
  BY DeliveryAssumption DEF Types, N, NoCommand, Idle
<1>2. Past = {} /\ \A e \in Event : ~Waiting(e)
  BY SMTT(30) DEF Past, NoCommand, Waiting, InLane, Handled, Queued, Posted, Idle, Event
<1>3. Order
  BY <1>2, DeliveryAssumption DEF Order, LanesOK, QueueOK, Ahead, PostedOnce, Waiting, Idle
<1> QED
  BY <1>1, <1>2, <1>3 DEF IInv, Published, Gone

-----------------------------------------------------------------------------
(* What the steps move *)

\* The event in a lane, handled, queued or posted, by index.
LEMMA Places ==
    ASSUME Types, NEW e \in Event
    PROVE  /\ InLane(e) <=> \E l \in Lane : \E i \in 1..Len(lane[l]) : lane[l][i] = e
           /\ Queued(e) <=> \E i \in 1..Len(queue) : queue[i] = e
           /\ e # 0 /\ e \in Nat
<1>1. \A l \in Lane : DOMAIN lane[l] = 1..Len(lane[l])
  BY DEF Types
<1>2. DOMAIN queue = 1..Len(queue)
  BY DEF Types
<1> QED
  BY <1>1, <1>2, DeliveryAssumption DEF InLane, Queued

\* Every action keeps the types.
LEMMA NextTypes == Types /\ [Next]_vars => Types'
<1> SUFFICES ASSUME Types, [Next]_vars PROVE Types'
  OBVIOUS
<1> USE DeliveryAssumption
<1>0. 0 \notin Event /\ Event \subseteq Nat /\ N \in Nat
  BY DEF N
<1>15. Idle \in [event : Event \cup {0}, failed : 0..(Attempts - 1)]
  BY DEF Idle
<1>16. NoCommand \in [on : BOOLEAN, todo : SUBSET Event, keep : SUBSET Event]
  BY DEF NoCommand
<1>1. CASE Publish
  <2> DEFINE l == LaneOf[emitted + 1]
             e == emitted + 1
  <2>1. e \in Event /\ l \in Lane /\ emitted' = e /\ e \in 0..N
    BY <1>0, <1>1 DEF Publish, Types, N
  <2>2. lane' = [lane EXCEPT ![l] = Append(IF Len(lane[l]) = LaneSize THEN Tail(lane[l]) ELSE lane[l], e)]
    BY <1>1 DEF Publish
  <2>3. lane'[l] = Append(IF Len(lane[l]) = LaneSize THEN Tail(lane[l]) ELSE lane[l], e)
    BY <2>1, <2>2 DEF Types
  <2>4. lane'[l] \in Seq(Event) /\ Len(lane'[l]) <= LaneSize
    <3> HIDE DEF l, e
    <3> QED
      BY <2>1, <2>3, Pushed DEF Types
  <2>5. lane' \in [Lane -> Seq(Event)] /\ \A k \in Lane : Len(lane'[k]) <= LaneSize
    <3> HIDE DEF l, e
    <3>1. \A k \in Lane \ {l} : lane'[k] = lane[k]
      BY <2>2 DEF Types
    <3>2. lane' \in [Lane -> Seq(Event)]
      BY <2>1, <2>2, <2>4 DEF Types
    <3> QED
      BY <3>1, <3>2, <2>4 DEF Types
  <2> QED
    BY <1>1, <2>1, <2>5 DEF Publish, Types, flow, NoCommand
<1>2. ASSUME NEW l \in Lane, Handle(l) PROVE Types'
  <2>1. Tail(lane[l]) \in Seq(Event) /\ Len(Tail(lane[l])) = Len(lane[l]) - 1 /\ Head(lane[l]) \in Event
    BY <1>2, Tailed DEF Handle, Types
  <2>2. lane' \in [Lane -> Seq(Event)] /\ \A k \in Lane : Len(lane'[k]) <= LaneSize
    BY <1>2, <2>1 DEF Handle, Types
  <2> QED
    BY <1>2, <2>1, <2>2 DEF Handle, Types, NoCommand
<1>3. ASSUME NEW l \in Lane, PassOver(l) PROVE Types'
  BY <1>3 DEF PassOver, Types, NoCommand
<1>4. ASSUME NEW l \in Lane, Enqueue(l) PROVE Types'
  <2>1. handling[l] \in Event
    BY <1>4 DEF Enqueue, Types
  <2>2. CASE Len(queue) < QueueSize
    <3>1. queue' \in Seq(Event) /\ Len(queue') <= QueueSize
      <4>1. queue' = Append(queue, handling[l])
        BY <1>4, <2>2 DEF Enqueue
      <4>2. queue \in Seq(Event) /\ Len(queue) \in Nat
        BY DEF Types
      <4>3. queue' \in Seq(Event) /\ Len(queue') = Len(queue) + 1
        BY <2>1, <4>1, <4>2, Appended
      <4> QED
        BY <2>2, <4>2, <4>3
    <3> QED
      BY <1>4, <2>1, <2>2, <3>1 DEF Enqueue, Types, NoCommand
  <2>3. CASE ~(Len(queue) < QueueSize)
    BY <1>4, <2>1, <2>3 DEF Enqueue, Types, NoCommand
  <2> QED
    BY <2>2, <2>3
<1>5. ASSUME NEW w \in Worker, Get(w) PROVE Types'
  <2>1. /\ Tail(queue) \in Seq(Event) /\ Len(Tail(queue)) = Len(queue) - 1 /\ Head(queue) \in Event
        /\ Len(queue) \in Nat
    BY <1>5, Tailed DEF Get, Types
  <2> QED
    BY <1>5, <2>1 DEF Get, Types, NoCommand
<1>6. ASSUME NEW w \in Worker, Acknowledged(w) PROVE Types'
  BY <1>6 DEF Acknowledged, Types, Idle, NoCommand
<1>7. ASSUME NEW w \in Worker, Failed(w) PROVE Types'
  <2>1. post[w].event \in Event /\ post[w] \in [event : Event \cup {0}, failed : 0..(Attempts - 1)]
    BY <1>7 DEF Failed, Types
  <2>2. CASE post[w].failed + 1 < Attempts
    <3> DEFINE p == [post[w] EXCEPT !.failed = post[w].failed + 1]
    <3>1. p \in [event : Event \cup {0}, failed : 0..(Attempts - 1)]
      BY <2>1, <2>2
    <3>2. post' = [post EXCEPT ![w] = p]
      BY <1>7, <2>2 DEF Failed, Types
    <3>3. post' \in [Worker -> [event : Event \cup {0}, failed : 0..(Attempts - 1)]]
      BY <3>1, <3>2 DEF Types
    <3> QED
      BY <1>7, <2>2, <3>3 DEF Failed, Types, NoCommand
  <2>3. CASE ~(post[w].failed + 1 < Attempts)
    <3>1. post' = [post EXCEPT ![w] = Idle] /\ letters' = letters \cup {post[w].event}
      BY <1>7, <2>3 DEF Failed
    <3> QED
      BY <1>7, <1>15, <2>1, <3>1 DEF Failed, Types, NoCommand
  <2> QED
    BY <2>2, <2>3
<1>8. ASSUME NEW chosen \in SUBSET letters, Resend(chosen) \/ Delete(chosen) PROVE Types'
  <2>1. CASE Resend(chosen)
    <3>1. [on |-> TRUE, todo |-> chosen, keep |-> letters \ chosen] \in [on : BOOLEAN, todo : SUBSET Event, keep : SUBSET Event]
      BY DEF Types
    <3>2. command' \in [on : BOOLEAN, todo : SUBSET Event, keep : SUBSET Event] /\ command'.on
      BY <2>1, <3>1 DEF Resend
    <3> QED
      BY <2>1, <3>2 DEF Resend, Types, flow
  <2>2. CASE Delete(chosen)
    BY <2>2 DEF Delete, Types, flow, NoCommand
  <2> QED
    BY <1>8, <2>1, <2>2
<1>9. ASSUME NEW e \in Event, ResendOne(e) PROVE Types'
  <2>1. command.on
    BY <1>9 DEF ResendOne, Types, NoCommand
  <2>2. PICK kept \in BOOLEAN :
          command' = [command EXCEPT !.todo = @ \ {e}, !.keep = IF kept THEN @ \cup {e} ELSE @]
    BY <1>9 DEF ResendOne
  <2>3. command' \in [on : BOOLEAN, todo : SUBSET Event, keep : SUBSET Event] /\ command'.on
    BY <2>1, <2>2 DEF Types
  <2> QED
    BY <1>9, <2>3 DEF ResendOne, Types, flow
<1>10. CASE WriteBack \/ Interrupt
  <2>1. command' = NoCommand /\ letters' \in {letters, command.keep} /\ UNCHANGED <<emitted, flow, pusher, process, settled, commands>>
    BY <1>10 DEF WriteBack, Interrupt
  <2>2. letters' \subseteq Event
    BY <2>1 DEF Types
  <2> QED
    BY <1>16, <2>1, <2>2 DEF Types, flow
<1>11. CASE Drain
  BY <1>11 DEF Drain, Types, flow, NoCommand
<1>12. CASE CutOff
  <2>1. post' \in [Worker -> [event : Event \cup {0}, failed : 0..(Attempts - 1)]]
    BY <1>12, <1>15 DEF CutOff
  <2>2. letters' \subseteq Event
    BY <1>12 DEF CutOff, Types
  <2> QED
    BY <1>12, <2>1, <2>2 DEF CutOff, Types
<1>13. CASE Exit
  <2>1. post' \in [Worker -> [event : Event \cup {0}, failed : 0..(Attempts - 1)]]
    BY <1>13, <1>15 DEF Exit
  <2> QED
    BY <1>13, <1>16, <2>1 DEF Exit, Types
<1>14. CASE UNCHANGED vars
  BY <1>14 DEF vars, flow, Types, NoCommand
<1> QED
  BY <1>1, <1>2, <1>3, <1>4, <1>5, <1>6, <1>7, <1>8, <1>9, <1>10, <1>11, <1>12, <1>13, <1>14
  DEF Next, LaneStep, WorkerStep, Shutdown

LEMMA PlacesNext ==
    ASSUME Types', NEW e \in Event
    PROVE  /\ InLane(e)' <=> \E l \in Lane : \E i \in 1..Len(lane'[l]) : lane'[l][i] = e
           /\ Queued(e)' <=> \E i \in 1..Len(queue') : queue'[i] = e
<1>1. \A l \in Lane : DOMAIN lane'[l] = 1..Len(lane'[l])
  BY DEF Types
<1>2. DOMAIN queue' = 1..Len(queue')
  BY DEF Types
<1> QED
  BY <1>1, <1>2 DEF InLane, Queued

\* An event is in one place, and one lane's worker handles it.
LEMMA Alone ==
    ASSUME Types, Order, NEW e \in Event
    PROVE  /\ ~(Handled(e) /\ InLane(e))
           /\ Queued(e) \/ Posted(e) => ~Handled(e) /\ ~InLane(e)
           /\ ~(Queued(e) /\ Posted(e))
           /\ \A l \in Lane : handling[l] = e => l = LaneOf[e]
<1>1. e \in Nat /\ e # 0
  BY Places
<1>2. \A l \in Lane : handling[l] = e => l = LaneOf[e]
  BY <1>1 DEF Order, LanesOK
<1>3. ~(Handled(e) /\ InLane(e))
  BY <1>1, <1>2, Places DEF Handled, Order, LanesOK
<1>4. (Queued(e) \/ Posted(e) => ~Handled(e) /\ ~InLane(e)) /\ ~(Queued(e) /\ Posted(e))
  BY <1>1 DEF Order, Ahead
<1> QED
  BY <1>2, <1>3, <1>4

\* A published event is the youngest, at the end of its lane.
LEMMA PublishMoves ==
    ASSUME Types, Order, Published, Publish, Types'
    PROVE  /\ emitted + 1 \in Event /\ emitted' = emitted + 1
           /\ \A f \in Event : InLane(f)' => InLane(f) \/ f = emitted + 1
           /\ \A f \in Event : /\ (Handled(f)' <=> Handled(f))
                               /\ (Queued(f)' <=> Queued(f)) /\ (Posted(f)' <=> Posted(f))
           /\ LanesOK'
<1> DEFINE e == emitted + 1
           l == LaneOf[e]
<1>1. e \in Event /\ l \in Lane /\ emitted' = e /\ UNCHANGED <<handling, queue, post>>
  BY DeliveryAssumption DEF Publish
<1>2. lane' = [lane EXCEPT ![l] = Append(IF Len(lane[l]) = LaneSize THEN Tail(lane[l]) ELSE lane[l], e)]
  BY DEF Publish
<1>3. /\ lane'[l] = Append(IF Len(lane[l]) = LaneSize THEN Tail(lane[l]) ELSE lane[l], e)
      /\ \A k \in Lane \ {l} : lane'[k] = lane[k]
  BY <1>1, <1>2 DEF Types
<1> HIDE DEF l
<1>4. lane[l] \in Seq(Event) /\ Len(lane[l]) <= LaneSize /\ LaneSize \in Nat \ {0} /\ Len(lane[l]) \in Nat
  BY <1>1, DeliveryAssumption DEF Types
<1>5. PICK d \in {0, 1} : /\ Len(lane'[l]) = Len(lane[l]) - d + 1 /\ (d = 1 => Len(lane[l]) = LaneSize)
                          /\ \A i \in 1..(Len(lane[l]) - d) : lane'[l][i] = lane[l][i + d]
                          /\ lane'[l][Len(lane[l]) - d + 1] = e
  <2> HIDE DEF e
  <2> QED
    BY <1>1, <1>3, <1>4, Pushed
<1>6. \A f \in Event : InLane(f)' => InLane(f) \/ f = e
  <2> SUFFICES ASSUME NEW f \in Event, InLane(f)', f # e PROVE InLane(f)
    OBVIOUS
  <2>1. PICK k \in Lane : \E i \in 1..Len(lane'[k]) : lane'[k][i] = f
    BY PlacesNext
  <2>2. PICK i \in 1..Len(lane'[k]) : lane'[k][i] = f
    BY <2>1
  <2>3. CASE k # l
    BY <1>3, <2>2, <2>3, Places
  <2>4. CASE k = l
    <3>1. i + d \in 1..Len(lane[l]) /\ lane[l][i + d] = f
      BY <1>4, <1>5, <2>2, <2>4
    <3> QED
      BY <1>1, <3>1, Places
  <2> QED
    BY <2>3, <2>4
<1>7. \A f \in Event : /\ (Handled(f)' <=> Handled(f))
                      /\ (Queued(f)' <=> Queued(f)) /\ (Posted(f)' <=> Posted(f))
  BY <1>1 DEF Handled, Queued, Posted
<1>8. \A i \in 1..Len(lane[l]) : lane[l][i] \in Event /\ lane[l][i] < e
  <2> SUFFICES ASSUME NEW i \in 1..Len(lane[l]) PROVE lane[l][i] \in Event /\ lane[l][i] < e
    OBVIOUS
  <2>1. lane[l][i] \in Event
    BY <1>4
  <2>2. InLane(lane[l][i])
    BY <1>1, <2>1, Places
  <2>3. lane[l][i] <= emitted /\ lane[l][i] \in Nat
    BY <2>1, <2>2, Places DEF Published, Waiting
  <2> QED
    BY <2>1, <2>3 DEF Types, N
<1>9. handling[l] # 0 => handling[l] < e
  <2> SUFFICES ASSUME handling[l] # 0 PROVE handling[l] < e
    OBVIOUS
  <2>1. handling[l] \in Event /\ Handled(handling[l])
    BY <1>1 DEF Types, Handled
  <2>2. handling[l] <= emitted /\ handling[l] \in Nat
    BY <2>1, Places DEF Published, Waiting
  <2> QED
    BY <2>2 DEF Types, N
<1>10. LanesOK'
  <2> SUFFICES ASSUME NEW k \in Lane
               PROVE  /\ \A i \in 1..Len(lane'[k]) : LaneOf[lane'[k][i]] = k
                      /\ \A i, j \in 1..Len(lane'[k]) : i < j => lane'[k][i] < lane'[k][j]
                      /\ handling[k] # 0 => /\ LaneOf[handling[k]] = k
                                             /\ \A i \in 1..Len(lane'[k]) : handling[k] < lane'[k][i]
    BY <1>1 DEF LanesOK
  <2>1. CASE k # l
    BY <1>3, <2>1 DEF Order, LanesOK
  <2>2. CASE k = l
    <3>1. LaneOf[e] = l
      BY DEF l
    <3>2. \A i \in 1..Len(lane'[l]) : i # Len(lane'[l]) => i + d \in 1..Len(lane[l]) /\ lane'[l][i] = lane[l][i + d]
      BY <1>4, <1>5
    <3>3. lane'[l][Len(lane'[l])] = e
      BY <1>5
    <3>4. Len(lane'[l]) \in Nat
      BY <1>4, <1>5
    <3>5. \A i \in 1..Len(lane'[l]) : LaneOf[lane'[l][i]] = l
      BY <1>1, <3>1, <3>2, <3>3 DEF Order, LanesOK
    <3>6. \A i, j \in 1..Len(lane'[l]) : i < j => lane'[l][i] < lane'[l][j]
      <4> SUFFICES ASSUME NEW i \in 1..Len(lane'[l]), NEW j \in 1..Len(lane'[l]), i < j
                   PROVE  lane'[l][i] < lane'[l][j]
        OBVIOUS
      <4>1. i # Len(lane'[l])
        BY <3>4
      <4>2. CASE j = Len(lane'[l])
        BY <1>8, <3>2, <3>3, <4>1, <4>2
      <4>3. CASE j # Len(lane'[l])
        BY <1>1, <1>4, <3>2, <4>1, <4>3 DEF Order, LanesOK
      <4> QED
        BY <4>2, <4>3
    <3>7. handling[l] # 0 => LaneOf[handling[l]] = l /\ \A i \in 1..Len(lane'[l]) : handling[l] < lane'[l][i]
      BY <1>1, <1>9, <3>2, <3>3 DEF Order, LanesOK
    <3> QED
      BY <2>2, <3>5, <3>6, <3>7
  <2> QED
    BY <2>1, <2>2
<1> QED
  BY <1>1, <1>6, <1>7, <1>10

\* A lane's worker takes the oldest event of its lane.
LEMMA HandleMoves ==
    ASSUME Types, Order, NEW l \in Lane, Handle(l), Types'
    PROVE  \E h \in Event :
             /\ InLane(h)
             /\ \A f \in Event : /\ (InLane(f)' <=> InLane(f) /\ f # h) /\ (Handled(f)' <=> Handled(f) \/ f = h)
                                 /\ (Queued(f)' <=> Queued(f)) /\ (Posted(f)' <=> Posted(f))
             /\ LanesOK' /\ UNCHANGED <<queue, post>>
<1> DEFINE h == Head(lane[l])
<1>1. /\ handling[l] = 0 /\ handling' = [handling EXCEPT ![l] = h]
      /\ lane' = [lane EXCEPT ![l] = Tail(lane[l])] /\ UNCHANGED <<queue, post>>
  BY DEF Handle
<1>2. /\ Len(lane[l]) \in Nat \ {0} /\ h = lane[l][1] /\ h \in Event
      /\ Len(lane'[l]) = Len(lane[l]) - 1
      /\ \A i \in 1..Len(lane'[l]) : lane'[l][i] = lane[l][i + 1]
      /\ \A k \in Lane \ {l} : lane'[k] = lane[k]
  <2>1. lane'[l] = Tail(lane[l]) /\ \A k \in Lane \ {l} : lane'[k] = lane[k]
    BY <1>1 DEF Types
  <2>2. lane[l] \in Seq(Event) /\ lane[l] # <<>>
    BY DEF Types, Handle
  <2> QED
    BY <2>1, <2>2, Tailed
<1> HIDE DEF h
<1>3. h # 0 /\ h \in Nat /\ InLane(h)
  BY <1>2, Places
<1>4. handling'[l] = h /\ \A k \in Lane \ {l} : handling'[k] = handling[k]
  BY <1>1 DEF Types
<1>5. \A f \in Event : (Handled(f)' <=> Handled(f) \/ f = h) /\ (Queued(f)' <=> Queued(f)) /\ (Posted(f)' <=> Posted(f))
  <2>1. \A f \in Event : f # 0
    BY Places
  <2> QED
    BY <1>1, <1>4, <2>1 DEF Handled, Queued, Posted
<1>6. \A i \in 1..Len(lane[l]) : i # 1 => i - 1 \in 1..Len(lane'[l]) /\ lane[l][i] = lane'[l][i - 1]
  BY <1>2
<1>7. \A i \in 1..Len(lane'[l]) : i + 1 \in 1..Len(lane[l]) /\ lane[l][i + 1] = lane'[l][i]
  BY <1>2
<1>8. \A i \in 1..Len(lane'[l]) : h < lane'[l][i] /\ lane'[l][i] \in Event
  <2> SUFFICES ASSUME NEW i \in 1..Len(lane'[l]) PROVE h < lane'[l][i] /\ lane'[l][i] \in Event
    OBVIOUS
  <2>1. lane[l][1] < lane[l][i + 1]
    BY <1>2, <1>7 DEF Order, LanesOK
  <2> QED
    BY <1>2, <1>7, <2>1 DEF Types
<1>9. \A f \in Event : InLane(f)' <=> InLane(f) /\ f # h
  <2> SUFFICES ASSUME NEW f \in Event PROVE InLane(f)' <=> InLane(f) /\ f # h
    OBVIOUS
  <2>1. ASSUME NEW k \in Lane, NEW i \in 1..Len(lane'[k]), lane'[k][i] = f PROVE InLane(f) /\ f # h
    <3>1. CASE k = l
      BY <1>3, <1>7, <1>8, <2>1, <3>1, Places
    <3>2. CASE k # l
      <4>1. i \in 1..Len(lane[k]) /\ lane[k][i] = f
        BY <1>2, <2>1, <3>2
      <4>2. LaneOf[f] = k /\ LaneOf[h] = l
        BY <1>2, <4>1 DEF Order, LanesOK
      <4> QED
        BY <3>2, <4>1, <4>2, Places
    <3> QED
      BY <3>1, <3>2
  <2>2. ASSUME NEW k \in Lane, NEW i \in 1..Len(lane[k]), lane[k][i] = f, f # h PROVE InLane(f)'
    <3>1. CASE k = l
      BY <1>2, <1>6, <2>2, <3>1, PlacesNext
    <3>2. CASE k # l
      BY <1>2, <2>2, <3>2, PlacesNext
    <3> QED
      BY <3>1, <3>2
  <2> QED
    BY <2>1, <2>2, Places, PlacesNext
<1>10. LanesOK'
  <2> SUFFICES ASSUME NEW k \in Lane
               PROVE  /\ \A i \in 1..Len(lane'[k]) : LaneOf[lane'[k][i]] = k
                      /\ \A i, j \in 1..Len(lane'[k]) : i < j => lane'[k][i] < lane'[k][j]
                      /\ handling'[k] # 0 => /\ LaneOf[handling'[k]] = k
                                              /\ \A i \in 1..Len(lane'[k]) : handling'[k] < lane'[k][i]
    BY DEF LanesOK
  <2>1. CASE k # l
    BY <1>2, <1>4, <2>1 DEF Order, LanesOK
  <2>2. CASE k = l
    <3>1. \A i \in 1..Len(lane'[l]) : LaneOf[lane'[l][i]] = l
      BY <1>7 DEF Order, LanesOK
    <3>2. \A i, j \in 1..Len(lane'[l]) : i < j => lane'[l][i] < lane'[l][j]
      BY <1>2, <1>7 DEF Order, LanesOK
    <3>3. LaneOf[h] = l
      BY <1>2 DEF Order, LanesOK
    <3> QED
      BY <1>4, <1>8, <2>2, <3>1, <3>2, <3>3
  <2> QED
    BY <2>1, <2>2
<1> QED
  BY <1>1, <1>2, <1>3, <1>5, <1>9, <1>10

\* A handler is done with its event, whatever becomes of it.
LEMMA HandledMoves ==
    ASSUME Types, Order, NEW l \in Lane, handling[l] # 0,
           handling' = [handling EXCEPT ![l] = 0], UNCHANGED lane
    PROVE  /\ handling[l] \in Event /\ Handled(handling[l])
           /\ \A f \in Event : /\ (Handled(f)' <=> Handled(f) /\ f # handling[l])
                               /\ (InLane(f)' <=> InLane(f))
           /\ LanesOK'
<1>1. handling[l] \in Event /\ Handled(handling[l])
  BY DEF Types, Handled
<1>2. handling'[l] = 0 /\ \A k \in Lane \ {l} : handling'[k] = handling[k]
  BY DEF Types
<1>3. \A f \in Event : InLane(f)' <=> InLane(f)
  BY DEF InLane
<1>4. \A f \in Event : Handled(f)' <=> Handled(f) /\ f # handling[l]
  <2>1. \A f \in Event : f # 0 /\ \A k \in Lane : handling[k] = f => k = LaneOf[f]
    BY Places, Alone
  <2> QED
    BY <1>1, <1>2, <2>1 DEF Handled
<1>5. LanesOK'
  BY <1>2 DEF Order, LanesOK
<1> QED
  BY <1>1, <1>3, <1>4, <1>5

\* The queue takes an event at its end.
LEMMA EnqueueMoves ==
    ASSUME Types, Order, Types', NEW e \in Event, Handled(e), queue' = Append(queue, e)
    PROVE  /\ \A f \in Event : Queued(f)' <=> Queued(f) \/ f = e
           /\ QueueOK'
<1>1. /\ queue \in Seq(Event) /\ Len(queue) \in Nat /\ Len(queue') = Len(queue) + 1
      /\ \A i \in 1..Len(queue) : queue'[i] = queue[i]
      /\ queue'[Len(queue) + 1] = e
  BY Appended DEF Types
<1>2. \A f \in Event : Queued(f)' <=> Queued(f) \/ f = e
  <2> SUFFICES ASSUME NEW f \in Event PROVE Queued(f)' <=> Queued(f) \/ f = e
    OBVIOUS
  <2>1. \A i \in 1..Len(queue') : i = Len(queue) + 1 \/ i \in 1..Len(queue)
    BY <1>1
  <2>2. \A i \in 1..Len(queue) : i \in 1..Len(queue')
    BY <1>1
  <2>3. Len(queue) + 1 \in 1..Len(queue')
    BY <1>1
  <2> QED
    BY <1>1, <2>1, <2>2, <2>3, Places, PlacesNext
<1>3. ASSUME NEW i \in 1..Len(queue), LaneOf[queue[i]] = LaneOf[e] PROVE queue[i] < e
  <2>1. queue[i] \in Event /\ Queued(queue[i])
    BY <1>1, Places
  <2> QED
    BY <1>3, <2>1 DEF Order, Ahead
<1>4. QueueOK'
  <2> SUFFICES ASSUME NEW i \in 1..Len(queue'), NEW j \in 1..Len(queue'), i < j,
                      LaneOf[queue'[i]] = LaneOf[queue'[j]]
               PROVE  queue'[i] < queue'[j]
    BY DEF QueueOK
  <2>1. i \in 1..Len(queue) /\ queue'[i] = queue[i]
    BY <1>1
  <2>2. CASE j = Len(queue) + 1
    BY <1>1, <1>3, <2>1, <2>2
  <2>3. CASE j # Len(queue) + 1
    BY <1>1, <2>1, <2>3 DEF Order, QueueOK
  <2> QED
    BY <2>2, <2>3
<1> QED
  BY <1>2, <1>4

\* A worker takes the oldest event of the queue.
LEMMA GetMoves ==
    ASSUME Types, Order, Types', NEW w \in Worker, Get(w)
    PROVE  \E h \in Event :
             /\ Queued(h)
             /\ \A f \in Event : /\ (Queued(f)' <=> Queued(f) /\ f # h) /\ (Posted(f)' <=> Posted(f) \/ f = h)
                                 /\ (InLane(f)' <=> InLane(f)) /\ (Handled(f)' <=> Handled(f))
             /\ \A f \in Event : Queued(f)' /\ LaneOf[f] = LaneOf[h] => h < f
             /\ LanesOK' /\ QueueOK' /\ PostedOnce'
<1> DEFINE h == Head(queue)
<1>1. /\ post[w].event = 0 /\ post' = [post EXCEPT ![w] = [event |-> h, failed |-> 0]]
      /\ queue' = Tail(queue) /\ UNCHANGED <<lane, handling>>
  BY DEF Get
<1>2. /\ Len(queue) \in Nat \ {0} /\ h = queue[1] /\ h \in Event
      /\ Len(queue') = Len(queue) - 1
      /\ \A i \in 1..Len(queue') : queue'[i] = queue[i + 1]
  <2>1. queue \in Seq(Event) /\ queue # <<>>
    BY DEF Types, Get
  <2> QED
    BY <1>1, <2>1, Tailed
<1> HIDE DEF h
<1>3. Queued(h) /\ h # 0
  BY <1>2, Places
<1>4. post'[w].event = h /\ \A v \in Worker \ {w} : post'[v] = post[v]
  BY <1>1 DEF Types
<1>5. \A f \in Event : (Posted(f)' <=> Posted(f) \/ f = h) /\ (InLane(f)' <=> InLane(f)) /\ (Handled(f)' <=> Handled(f))
  <2>1. \A f \in Event : f # 0
    BY Places
  <2> QED
    BY <1>1, <1>4, <2>1 DEF Handled, InLane, Posted
<1>6. \A i \in 1..Len(queue') : i + 1 \in 1..Len(queue) /\ queue[i + 1] = queue'[i]
  BY <1>2
<1>7. \A i \in 1..Len(queue) : i # 1 => i - 1 \in 1..Len(queue') /\ queue[i] = queue'[i - 1]
  BY <1>2
<1>8. \A i \in 1..Len(queue') : queue'[i] \in Event /\ (LaneOf[queue'[i]] = LaneOf[h] => h < queue'[i])
  <2> SUFFICES ASSUME NEW i \in 1..Len(queue')
               PROVE queue'[i] \in Event /\ (LaneOf[queue'[i]] = LaneOf[h] => h < queue'[i])
    OBVIOUS
  <2>1. 1 \in 1..Len(queue) /\ i + 1 \in 1..Len(queue) /\ 1 < i + 1
    BY <1>2, <1>6
  <2>2. queue[i + 1] \in Event /\ queue[i + 1] = queue'[i]
    BY <1>6, <2>1 DEF Types
  <2>3. LaneOf[queue[1]] = LaneOf[queue[i + 1]] => queue[1] < queue[i + 1]
    BY <2>1 DEF Order, QueueOK
  <2> QED
    BY <1>2, <2>2, <2>3
<1>9. \A f \in Event : Queued(f)' /\ LaneOf[f] = LaneOf[h] => h < f
  BY <1>8, PlacesNext
<1>10. \A f \in Event : Queued(f)' <=> Queued(f) /\ f # h
  <2> SUFFICES ASSUME NEW f \in Event PROVE Queued(f)' <=> Queued(f) /\ f # h
    OBVIOUS
  <2>1. ASSUME Queued(f)' PROVE Queued(f) /\ f # h
    <3>1. PICK i \in 1..Len(queue') : queue'[i] = f
      BY <2>1, PlacesNext
    <3>2. f # h
      BY <1>3, <1>8, <3>1, Places
    <3> QED
      BY <1>6, <3>1, <3>2, Places
  <2>2. ASSUME Queued(f), f # h PROVE Queued(f)'
    BY <1>2, <1>7, <2>2, Places, PlacesNext
  <2> QED
    BY <2>1, <2>2
<1>11. LanesOK'
  BY <1>1 DEF Order, LanesOK
<1>12. QueueOK'
  <2> SUFFICES ASSUME NEW i \in 1..Len(queue'), NEW j \in 1..Len(queue'), i < j,
                      LaneOf[queue'[i]] = LaneOf[queue'[j]]
               PROVE  queue'[i] < queue'[j]
    BY DEF QueueOK
  <2> QED
    BY <1>6 DEF Order, QueueOK
<1>13. PostedOnce'
  <2>1. \A v \in Worker : post[v].event # h
    BY <1>2, <1>3, Alone DEF Posted
  <2> QED
    BY <1>4, <2>1 DEF Order, PostedOnce
<1> QED
  BY <1>2, <1>3, <1>5, <1>9, <1>10, <1>11, <1>12, <1>13

\* A worker is done with its event, whatever the answer was.
LEMMA PostMoves ==
    ASSUME Types, Order, NEW w \in Worker, post[w].event # 0, post' = [post EXCEPT ![w] = Idle]
    PROVE  /\ post[w].event \in Event /\ Posted(post[w].event)
           /\ \A f \in Event : Posted(f)' <=> Posted(f) /\ f # post[w].event
           /\ PostedOnce'
<1>1. post[w].event \in Event /\ Posted(post[w].event)
  BY DEF Types, Posted
<1>2. post'[w].event = 0 /\ \A v \in Worker \ {w} : post'[v] = post[v]
  BY DEF Types, Idle
<1>3. \A f \in Event : f # 0
  BY Places
<1> QED
  BY <1>1, <1>2, <1>3 DEF Posted, Order, PostedOnce

\* Another failed attempt.
LEMMA RetryMoves ==
    ASSUME Types, Order, NEW w \in Worker, post[w].event # 0, post' = [post EXCEPT ![w].failed = @ + 1]
    PROVE  (\A f \in Event : Posted(f)' <=> Posted(f)) /\ PostedOnce'
<1>1. \A v \in Worker : post'[v].event = post[v].event
  BY DEF Types
<1> QED
  BY <1>1 DEF Posted, Order, PostedOnce

\* Nothing is on its way once the process has gone.
LEMMA ExitMoves ==
    ASSUME Types, Exit PROVE Order' /\ \A f \in Event : ~Waiting(f)'
<1>1. /\ lane' = [l \in Lane |-> <<>>] /\ handling' = [l \in Lane |-> 0]
      /\ queue' = <<>> /\ post' = [w \in Worker |-> Idle]
  BY DEF Exit
<1>2. /\ \A l \in Lane : lane'[l] = <<>> /\ handling'[l] = 0
      /\ \A w \in Worker : post'[w].event = 0
  BY <1>1 DEF Idle
<1>3. \A f \in Event : f # 0
  BY Places
<1>4. \A f \in Event : ~InLane(f)' /\ ~Handled(f)' /\ ~Queued(f)' /\ ~Posted(f)'
  BY <1>1, <1>2, <1>3 DEF InLane, Handled, Queued, Posted
<1>5. LanesOK' /\ QueueOK' /\ PostedOnce'
  BY <1>1, <1>2 DEF LanesOK, QueueOK, PostedOnce
<1>6. Ahead'
  BY <1>4 DEF Ahead
<1> QED
  BY <1>4, <1>5, <1>6 DEF Order, Waiting

\* The cut empties the queue and the workers' hands.
LEMMA CutOffMoves ==
    ASSUME Types, Order, CutOff
    PROVE  /\ \A f \in Event : /\ ~Queued(f)' /\ ~Posted(f)'
                               /\ (InLane(f)' <=> InLane(f)) /\ (Handled(f)' <=> Handled(f))
                               /\ (f \in letters' <=> f \in letters \/ Queued(f))
           /\ Order' /\ letters' \subseteq Event
<1>1. /\ queue' = <<>> /\ post' = [w \in Worker |-> Idle] /\ UNCHANGED <<lane, handling>>
      /\ letters' = letters \cup {queue[i] : i \in DOMAIN queue}
  BY DEF CutOff
<1>2. \A w \in Worker : post'[w].event = 0
  BY <1>1 DEF Idle
<1>3. \A f \in Event : f # 0
  BY Places
<1>4. \A f \in Event : /\ ~Queued(f)' /\ ~Posted(f)'
                      /\ (InLane(f)' <=> InLane(f)) /\ (Handled(f)' <=> Handled(f))
                      /\ (f \in letters' <=> f \in letters \/ Queued(f))
  BY <1>1, <1>2, <1>3 DEF InLane, Handled, Queued, Posted
<1>5. LanesOK' /\ QueueOK' /\ PostedOnce'
  BY <1>1, <1>2 DEF Order, LanesOK, QueueOK, PostedOnce
<1>6. Ahead'
  BY <1>4 DEF Ahead
<1>7. letters' \subseteq Event
  BY <1>1 DEF Types
<1> QED
  BY <1>4, <1>5, <1>6, <1>7 DEF Order

\* What does not touch the flow moves nothing.
LEMMA NothingMoves ==
    ASSUME Order, UNCHANGED flow
    PROVE  Order' /\ \A f \in Event : Waiting(f)' <=> Waiting(f)
<1>1. \A f \in Event : /\ (Queued(f)' <=> Queued(f)) /\ (Posted(f)' <=> Posted(f))
                      /\ (InLane(f)' <=> InLane(f)) /\ (Handled(f)' <=> Handled(f))
  BY DEF flow, InLane, Handled, Queued, Posted
<1>2. Order'
  BY DEF flow, Order, LanesOK, QueueOK, Ahead, PostedOnce, InLane, Handled, Queued, Posted
<1> QED
  BY <1>1, <1>2 DEF Waiting

-----------------------------------------------------------------------------
(* The invariant *)

LEMMA NextOrder == IInv /\ [Next]_vars => Order'
<1> SUFFICES ASSUME IInv, [Next]_vars PROVE Order'
  OBVIOUS
<1>0. Types /\ Types' /\ Order /\ Published
  BY NextTypes DEF IInv
<1>a. \A e \in Event : e \in Nat /\ e # 0
  BY <1>0, Places
<1>1. CASE Publish
  <2>1. /\ emitted + 1 \in Event
        /\ \A f \in Event : InLane(f)' => InLane(f) \/ f = emitted + 1
        /\ \A f \in Event : /\ (Handled(f)' <=> Handled(f))
                            /\ (Queued(f)' <=> Queued(f)) /\ (Posted(f)' <=> Posted(f))
        /\ LanesOK'
    BY <1>0, <1>1, PublishMoves
  <2>2. \A f \in Event : Waiting(f) => f < emitted + 1
    BY <1>0, <1>a DEF Published, Types
  <2>3. Ahead'
    BY <1>0, <2>1, <2>2 DEF Order, Ahead, Waiting
  <2>4. QueueOK' /\ PostedOnce'
    BY <1>0, <1>1 DEF Publish, Order, QueueOK, PostedOnce
  <2> QED
    BY <2>1, <2>3, <2>4 DEF Order
<1>2. ASSUME NEW l \in Lane, Handle(l) PROVE Order'
  <2>1. PICK h \in Event :
             /\ InLane(h)
             /\ \A f \in Event : /\ (InLane(f)' <=> InLane(f) /\ f # h) /\ (Handled(f)' <=> Handled(f) \/ f = h)
                                 /\ (Queued(f)' <=> Queued(f)) /\ (Posted(f)' <=> Posted(f))
             /\ LanesOK' /\ UNCHANGED <<queue, post>>
    BY <1>0, <1>2, HandleMoves
  <2>2. Ahead'
    BY <1>0, <2>1 DEF Order, Ahead
  <2>3. QueueOK' /\ PostedOnce'
    BY <1>0, <2>1 DEF Order, QueueOK, PostedOnce
  <2> QED
    BY <2>1, <2>2, <2>3 DEF Order
<1>3. ASSUME NEW l \in Lane, handling[l] # 0, handling' = [handling EXCEPT ![l] = 0], UNCHANGED <<lane, queue, post>>
      PROVE  Order'
  <2>1. /\ \A f \in Event : /\ (Handled(f)' <=> Handled(f) /\ f # handling[l]) /\ (InLane(f)' <=> InLane(f))
                            /\ (Queued(f)' <=> Queued(f)) /\ (Posted(f)' <=> Posted(f))
        /\ LanesOK'
    BY <1>0, <1>3, HandledMoves DEF Queued, Posted
  <2>2. Ahead'
    BY <1>0, <2>1 DEF Order, Ahead
  <2>3. QueueOK' /\ PostedOnce'
    BY <1>0, <1>3 DEF Order, QueueOK, PostedOnce
  <2> QED
    BY <2>1, <2>2, <2>3 DEF Order
<1>4. ASSUME NEW l \in Lane, Enqueue(l) PROVE Order'
  <2>1. CASE Len(queue) < QueueSize
    <3>1. handling[l] # 0 /\ queue' = Append(queue, handling[l]) /\ UNCHANGED <<lane, post>>
          /\ handling' = [handling EXCEPT ![l] = 0]
      BY <1>4, <2>1 DEF Enqueue
    <3> DEFINE e == handling[l]
    <3>2. /\ e \in Event /\ Handled(e)
          /\ \A f \in Event : (Handled(f)' <=> Handled(f) /\ f # e) /\ (InLane(f)' <=> InLane(f))
          /\ LanesOK'
      BY <1>0, <3>1, HandledMoves
    <3>3. QueueOK' /\ \A f \in Event : Queued(f)' <=> Queued(f) \/ f = e
      BY <1>0, <3>1, <3>2, EnqueueMoves
    <3>4. PostedOnce' /\ \A f \in Event : Posted(f)' <=> Posted(f)
      BY <1>0, <3>1 DEF Posted, Order, PostedOnce
    <3>5. \A f \in Event : LaneOf[f] = LaneOf[e] /\ (InLane(f) \/ (Handled(f) /\ f # e)) => e < f
      <4> SUFFICES ASSUME NEW f \in Event, LaneOf[f] = LaneOf[e], InLane(f) \/ (Handled(f) /\ f # e) PROVE e < f
        OBVIOUS
      <4>1. LaneOf[e] = l
        BY <1>0, <3>2, Alone
      <4>2. CASE Handled(f) /\ f # e
        BY <1>0, <4>1, <4>2, Alone DEF Handled
      <4>3. CASE InLane(f)
        <5>1. PICK k \in Lane : \E i \in 1..Len(lane[k]) : lane[k][i] = f
          BY <1>0, <4>3, Places
        <5>2. PICK i \in 1..Len(lane[k]) : lane[k][i] = f
          BY <5>1
        <5>3. k = l
          BY <1>0, <4>1, <5>2 DEF Order, LanesOK
        <5> QED
          BY <1>0, <3>1, <5>2, <5>3 DEF Order, LanesOK
      <4> QED
        BY <4>2, <4>3
    <3>6. \A f \in Event : LaneOf[f] = LaneOf[e] /\ Posted(f) => f < e
      BY <1>0, <3>2 DEF Order, Ahead
    <3> HIDE DEF e
    <3>7. Ahead'
      BY <1>0, <3>2, <3>3, <3>4, <3>5, <3>6 DEF Order, Ahead
    <3> QED
      BY <3>2, <3>3, <3>4, <3>7 DEF Order
  <2>2. CASE ~(Len(queue) < QueueSize)
    BY <1>3, <1>4, <2>2 DEF Enqueue
  <2> QED
    BY <2>1, <2>2
<1>5. ASSUME NEW w \in Worker, Get(w) PROVE Order'
  <2>1. PICK h \in Event :
             /\ Queued(h)
             /\ \A f \in Event : /\ (Queued(f)' <=> Queued(f) /\ f # h) /\ (Posted(f)' <=> Posted(f) \/ f = h)
                                 /\ (InLane(f)' <=> InLane(f)) /\ (Handled(f)' <=> Handled(f))
             /\ \A f \in Event : Queued(f)' /\ LaneOf[f] = LaneOf[h] => h < f
             /\ LanesOK' /\ QueueOK' /\ PostedOnce'
    BY <1>0, <1>5, GetMoves
  <2>2. Ahead'
    BY <1>0, <2>1 DEF Order, Ahead
  <2> QED
    BY <2>1, <2>2 DEF Order
<1>6. ASSUME NEW w \in Worker, post[w].event # 0, post' = [post EXCEPT ![w] = Idle], UNCHANGED <<lane, handling, queue>>
      PROVE  Order'
  <2>1. PostedOnce' /\ \A f \in Event : Posted(f)' => Posted(f)
    BY <1>0, <1>6, PostMoves
  <2>2. \A f \in Event : (Queued(f)' <=> Queued(f)) /\ (InLane(f)' <=> InLane(f)) /\ (Handled(f)' <=> Handled(f))
    BY <1>6 DEF Queued, InLane, Handled
  <2>3. LanesOK' /\ QueueOK'
    BY <1>0, <1>6 DEF Order, LanesOK, QueueOK
  <2>4. Ahead'
    BY <1>0, <2>1, <2>2 DEF Order, Ahead
  <2> QED
    BY <2>1, <2>3, <2>4 DEF Order
<1>7. ASSUME NEW w \in Worker, Failed(w) PROVE Order'
  <2>1. CASE post[w].failed + 1 < Attempts
    <3>1. post[w].event # 0 /\ post' = [post EXCEPT ![w].failed = @ + 1] /\ UNCHANGED <<lane, handling, queue>>
      BY <1>7, <2>1 DEF Failed
    <3>2. PostedOnce' /\ \A f \in Event : Posted(f)' <=> Posted(f)
      BY <1>0, <3>1, RetryMoves
    <3>3. \A f \in Event : (Queued(f)' <=> Queued(f)) /\ (InLane(f)' <=> InLane(f)) /\ (Handled(f)' <=> Handled(f))
      BY <3>1 DEF Queued, InLane, Handled
    <3>4. LanesOK' /\ QueueOK'
      BY <1>0, <3>1 DEF Order, LanesOK, QueueOK
    <3>5. Ahead'
      BY <1>0, <3>2, <3>3 DEF Order, Ahead
    <3> QED
      BY <3>2, <3>4, <3>5 DEF Order
  <2>2. CASE ~(post[w].failed + 1 < Attempts)
    BY <1>6, <1>7, <2>2 DEF Failed
  <2> QED
    BY <2>1, <2>2
<1>8. CASE UNCHANGED flow
  BY <1>0, <1>8, NothingMoves
<1>9. CASE CutOff
  BY <1>0, <1>9, CutOffMoves
<1>10. CASE Exit
  BY <1>0, <1>10, ExitMoves
<1>11. ASSUME NEW l \in Lane, PassOver(l) PROVE Order'
  BY <1>3, <1>11 DEF PassOver
<1>12. ASSUME NEW w \in Worker, Acknowledged(w) PROVE Order'
  BY <1>6, <1>12 DEF Acknowledged
<1>13. ASSUME NEW chosen \in SUBSET letters, Resend(chosen) \/ Delete(chosen) PROVE UNCHANGED flow
  BY <1>13 DEF Resend, Delete
<1>14. ASSUME NEW e \in Event, ResendOne(e) PROVE UNCHANGED flow
  BY <1>14 DEF ResendOne
<1>15. ASSUME WriteBack \/ Interrupt \/ Drain \/ UNCHANGED vars PROVE UNCHANGED flow
  BY <1>15 DEF WriteBack, Interrupt, Drain, vars
<1> QED
  BY <1>1, <1>2, <1>4, <1>5, <1>7, <1>8, <1>9, <1>10, <1>11, <1>12, <1>13, <1>14, <1>15
  DEF Next, LaneStep, WorkerStep, Shutdown

\* What is anywhere was published, and what has ended does not come back.
LEMMA NextPublished == IInv /\ [Next]_vars => Published' /\ Gone'
<1> SUFFICES ASSUME IInv, [Next]_vars PROVE Published' /\ Gone'
  OBVIOUS
<1>0. Types /\ Types' /\ Order /\ Published /\ Gone
  BY NextTypes DEF IInv
<1>a. \A e \in Event : e \in Nat /\ e # 0
  BY <1>0, Places
<1>b. Past \subseteq Event /\ emitted \in Nat
  BY <1>0 DEF Past, Types, N
<1>c. ASSUME emitted' = emitted, Past' \subseteq Event,
             \A f \in Event : Waiting(f)' => Waiting(f),
             \A f \in Event : f \in Past' => f \in Past \/ (Waiting(f) /\ ~Waiting(f)')
      PROVE  Published' /\ Gone'
  BY <1>0, <1>c DEF Published, Gone
<1>d. Past' \subseteq Event
  BY <1>0 DEF Past, Types
<1>1. CASE Publish
  <2>1. /\ emitted + 1 \in Event /\ emitted' = emitted + 1
        /\ \A f \in Event : Waiting(f)' => Waiting(f) \/ f = emitted + 1
    BY <1>0, <1>1, PublishMoves DEF Waiting
  <2>2. Past' = Past
    BY <1>1 DEF Publish, Past
  <2>3. \A f \in Event : f \in Past => f <= emitted
    BY <1>0 DEF Published
  <2>4. \A f \in Event : (Waiting(f) => f <= emitted) /\ (f <= emitted => f <= emitted + 1 /\ f # emitted + 1)
    BY <1>0, <1>a, <1>b DEF Published
  <2>5. Gone'
    BY <1>0, <1>b, <2>1, <2>2, <2>3, <2>4 DEF Gone
  <2>6. Published'
    BY <1>b, <2>1, <2>2, <2>3, <2>4 DEF Published
  <2> QED
    BY <2>5, <2>6
<1>2. ASSUME NEW l \in Lane, Handle(l) PROVE Published' /\ Gone'
  <2>1. \A f \in Event : Waiting(f)' => Waiting(f)
    BY <1>0, <1>2, HandleMoves DEF Waiting
  <2>2. Past' = Past /\ emitted' = emitted
    BY <1>2 DEF Handle, Past
  <2> QED
    BY <1>c, <1>d, <2>1, <2>2
<1>3. ASSUME NEW l \in Lane, handling[l] # 0, handling' = [handling EXCEPT ![l] = 0], UNCHANGED <<lane, queue, post>>
      PROVE  /\ \A f \in Event : Waiting(f)' => Waiting(f)
             /\ \E e \in Event : e = handling[l] /\ Waiting(e) /\ ~Waiting(e)'
  <2>1. /\ handling[l] \in Event /\ Handled(handling[l])
        /\ \A f \in Event : /\ (Handled(f)' <=> Handled(f) /\ f # handling[l]) /\ (InLane(f)' <=> InLane(f))
                            /\ (Queued(f)' <=> Queued(f)) /\ (Posted(f)' <=> Posted(f))
    BY <1>0, <1>3, HandledMoves DEF Queued, Posted
  <2>2. ~InLane(handling[l]) /\ ~Queued(handling[l]) /\ ~Posted(handling[l])
    BY <1>0, <2>1, Alone
  <2> QED
    BY <2>1, <2>2 DEF Waiting
<1>4. ASSUME NEW l \in Lane, PassOver(l) PROVE Published' /\ Gone'
  <2>1. /\ \A f \in Event : Waiting(f)' => Waiting(f)
        /\ \E e \in Event : e = handling[l] /\ Waiting(e) /\ ~Waiting(e)'
    BY <1>3, <1>4 DEF PassOver
  <2>2. Past' = Past \cup {handling[l]} /\ emitted' = emitted
    BY <1>4 DEF PassOver, Past
  <2> QED
    BY <1>c, <1>d, <2>1, <2>2
<1>5. ASSUME NEW l \in Lane, Enqueue(l) PROVE Published' /\ Gone'
  <2>1. CASE Len(queue) < QueueSize
    <3>1. handling[l] # 0 /\ queue' = Append(queue, handling[l]) /\ UNCHANGED <<lane, post, emitted, letters, settled, command>>
          /\ handling' = [handling EXCEPT ![l] = 0]
      BY <1>5, <2>1 DEF Enqueue
    <3>2. /\ handling[l] \in Event /\ Handled(handling[l])
          /\ \A f \in Event : (Handled(f)' <=> Handled(f) /\ f # handling[l]) /\ (InLane(f)' <=> InLane(f))
      BY <1>0, <3>1, HandledMoves
    <3>3. \A f \in Event : Queued(f)' <=> Queued(f) \/ f = handling[l]
      BY <1>0, <3>1, <3>2, EnqueueMoves
    <3>4. \A f \in Event : Posted(f)' <=> Posted(f)
      BY <3>1 DEF Posted
    <3>5. \A f \in Event : Waiting(f)' => Waiting(f)
      BY <3>2, <3>3, <3>4 DEF Waiting
    <3>6. Past' = Past /\ emitted' = emitted
      BY <3>1 DEF Past
    <3> QED
      BY <1>c, <1>d, <3>5, <3>6
  <2>2. CASE ~(Len(queue) < QueueSize)
    <3>1. /\ \A f \in Event : Waiting(f)' => Waiting(f)
          /\ \E e \in Event : e = handling[l] /\ Waiting(e) /\ ~Waiting(e)'
      BY <1>3, <1>5, <2>2 DEF Enqueue
    <3>2. Past' = Past \cup {handling[l]} /\ emitted' = emitted
      BY <1>5, <2>2 DEF Enqueue, Past
    <3> QED
      BY <1>c, <1>d, <3>1, <3>2
  <2> QED
    BY <2>1, <2>2
<1>6. ASSUME NEW w \in Worker, Get(w) PROVE Published' /\ Gone'
  <2>1. \A f \in Event : Waiting(f)' => Waiting(f)
    BY <1>0, <1>6, GetMoves DEF Waiting
  <2>2. Past' = Past /\ emitted' = emitted
    BY <1>6 DEF Get, Past
  <2> QED
    BY <1>c, <1>d, <2>1, <2>2
<1>7. ASSUME NEW w \in Worker, post[w].event # 0, post' = [post EXCEPT ![w] = Idle], UNCHANGED <<lane, handling, queue>>
      PROVE  /\ \A f \in Event : Waiting(f)' => Waiting(f)
             /\ \E e \in Event : e = post[w].event /\ Waiting(e) /\ ~Waiting(e)'
  <2>1. /\ post[w].event \in Event /\ Posted(post[w].event)
        /\ \A f \in Event : Posted(f)' <=> Posted(f) /\ f # post[w].event
    BY <1>0, <1>7, PostMoves
  <2>2. \A f \in Event : (Queued(f)' <=> Queued(f)) /\ (InLane(f)' <=> InLane(f)) /\ (Handled(f)' <=> Handled(f))
    BY <1>7 DEF Queued, InLane, Handled
  <2>3. ~InLane(post[w].event) /\ ~Queued(post[w].event) /\ ~Handled(post[w].event)
    BY <1>0, <2>1, Alone
  <2> QED
    BY <2>1, <2>2, <2>3 DEF Waiting
<1>8. ASSUME NEW w \in Worker, Acknowledged(w) PROVE Published' /\ Gone'
  <2>1. /\ \A f \in Event : Waiting(f)' => Waiting(f)
        /\ \E e \in Event : e = post[w].event /\ Waiting(e) /\ ~Waiting(e)'
    BY <1>7, <1>8 DEF Acknowledged
  <2>2. Past' = Past \cup {post[w].event} /\ emitted' = emitted
    BY <1>8 DEF Acknowledged, Past
  <2> QED
    BY <1>c, <1>d, <2>1, <2>2
<1>9. ASSUME NEW w \in Worker, Failed(w) PROVE Published' /\ Gone'
  <2>1. CASE post[w].failed + 1 < Attempts
    <3>1. post[w].event # 0 /\ post' = [post EXCEPT ![w].failed = @ + 1]
          /\ UNCHANGED <<lane, handling, queue, emitted, letters, settled, command>>
      BY <1>9, <2>1 DEF Failed
    <3>2. \A f \in Event : Posted(f)' <=> Posted(f)
      BY <1>0, <3>1, RetryMoves
    <3>3. \A f \in Event : (Queued(f)' <=> Queued(f)) /\ (InLane(f)' <=> InLane(f)) /\ (Handled(f)' <=> Handled(f))
      BY <3>1 DEF Queued, InLane, Handled
    <3>4. Past' = Past /\ emitted' = emitted /\ \A f \in Event : Waiting(f)' => Waiting(f)
      BY <3>1, <3>2, <3>3 DEF Past, Waiting
    <3> QED
      BY <1>c, <1>d, <3>4
  <2>2. CASE ~(post[w].failed + 1 < Attempts)
    <3>1. /\ \A f \in Event : Waiting(f)' => Waiting(f)
          /\ \E e \in Event : e = post[w].event /\ Waiting(e) /\ ~Waiting(e)'
      BY <1>7, <1>9, <2>2 DEF Failed
    <3>2. Past' = Past \cup {post[w].event} /\ emitted' = emitted
      BY <1>9, <2>2 DEF Failed, Past
    <3> QED
      BY <1>c, <1>d, <3>1, <3>2
  <2> QED
    BY <2>1, <2>2
<1>10. ASSUME UNCHANGED <<flow, emitted>>, Past' \subseteq Past PROVE Published' /\ Gone'
  <2>1. \A f \in Event : Waiting(f)' <=> Waiting(f)
    BY <1>0, <1>10, NothingMoves
  <2> QED
    BY <1>c, <1>d, <1>10, <2>1
<1>11. ASSUME NEW chosen \in SUBSET letters, Resend(chosen) \/ Delete(chosen) PROVE Published' /\ Gone'
  BY <1>10, <1>11 DEF Resend, Delete, Past
<1>12. ASSUME NEW e \in Event, ResendOne(e) PROVE Published' /\ Gone'
  <2>1. e \in command.todo /\ UNCHANGED <<flow, emitted, letters>>
    BY <1>12 DEF ResendOne
  <2>2. settled' \subseteq settled \cup {e}
    BY <1>12 DEF ResendOne
  <2>3. command'.todo \subseteq command.todo /\ command'.keep \subseteq command.keep \cup {e}
    BY <1>0, <1>12 DEF ResendOne, Types
  <2> QED
    BY <1>10, <2>1, <2>2, <2>3 DEF Past
<1>13. ASSUME WriteBack \/ Interrupt PROVE Published' /\ Gone'
  BY <1>10, <1>13 DEF WriteBack, Interrupt, Past, NoCommand
<1>14. ASSUME Drain \/ UNCHANGED vars PROVE Published' /\ Gone'
  BY <1>10, <1>14 DEF Drain, vars, Past
<1>15. CASE CutOff
  <2>1. /\ \A f \in Event : /\ ~Queued(f)' /\ ~Posted(f)'
                            /\ (InLane(f)' <=> InLane(f)) /\ (Handled(f)' <=> Handled(f))
                            /\ (f \in letters' <=> f \in letters \/ Queued(f))
    BY <1>0, <1>15, CutOffMoves
  <2>2. emitted' = emitted /\ \A f \in Event : f \in Past' => f \in Past \/ Queued(f)
    BY <1>15, <2>1 DEF CutOff, Past
  <2>3. \A f \in Event : Queued(f) => Waiting(f) /\ ~Waiting(f)'
    BY <1>0, <2>1, Alone DEF Waiting
  <2>4. \A f \in Event : Waiting(f)' => Waiting(f)
    BY <2>1 DEF Waiting
  <2> QED
    BY <1>c, <1>d, <2>2, <2>3, <2>4
<1>16. CASE Exit
  <2>1. \A f \in Event : ~Waiting(f)'
    BY <1>0, <1>16, ExitMoves
  <2>2. Past' \subseteq Past /\ emitted' = emitted
    BY <1>16 DEF Exit, Past, NoCommand
  <2> QED
    BY <1>c, <1>d, <2>1, <2>2
<1> QED
  BY <1>1, <1>2, <1>4, <1>5, <1>6, <1>8, <1>9, <1>11, <1>12, <1>13, <1>14, <1>15, <1>16
  DEF Next, LaneStep, WorkerStep, Shutdown

LEMMA AlwaysIInv == Spec => []IInv
<1>1. Init => IInv
  BY InitInv
<1>2. IInv /\ [Next]_vars => IInv'
  BY NextTypes, NextOrder, NextPublished DEF IInv
<1> QED
  BY <1>1, <1>2, PTL DEF Spec

-----------------------------------------------------------------------------
(* The properties *)

LEMMA Elements ==
    ASSUME NEW S, NEW T, NEW s \in Seq(S), \A i \in 1..Len(s) : s[i] \in T PROVE s \in Seq(T)
OBVIOUS

LEMMA TypesOfPublished == IInv => DeliveryTypeOK
<1> SUFFICES ASSUME IInv PROVE DeliveryTypeOK
  OBVIOUS
<1>0. Types /\ Order /\ Published
  BY DEF IInv
<1>1. \A e \in Event : e \in Nat \ {0} /\ (Waiting(e) \/ e \in Past => e \in 1..emitted)
  BY <1>0, Places DEF Published, Types
<1>2. \A l \in Lane : lane[l] \in Seq(1..emitted)
  <2> SUFFICES ASSUME NEW l \in Lane PROVE lane[l] \in Seq(1..emitted)
    OBVIOUS
  <2>1. lane[l] \in Seq(Event)
    BY <1>0 DEF Types
  <2>2. \A i \in 1..Len(lane[l]) : lane[l][i] \in 1..emitted
    <3> SUFFICES ASSUME NEW i \in 1..Len(lane[l]) PROVE lane[l][i] \in 1..emitted
      OBVIOUS
    <3>1. lane[l][i] \in Event
      BY <2>1
    <3>2. InLane(lane[l][i])
      BY <1>0, <3>1, Places
    <3> QED
      BY <1>1, <3>1, <3>2 DEF Waiting
  <2> QED
    BY <2>1, <2>2, Elements
<1>3. queue \in Seq(1..emitted)
  <2>1. queue \in Seq(Event)
    BY <1>0 DEF Types
  <2>2. \A i \in 1..Len(queue) : queue[i] \in 1..emitted
    <3> SUFFICES ASSUME NEW i \in 1..Len(queue) PROVE queue[i] \in 1..emitted
      OBVIOUS
    <3>1. queue[i] \in Event
      BY <2>1
    <3>2. Queued(queue[i])
      BY <1>0, <3>1, Places
    <3> QED
      BY <1>1, <3>1, <3>2 DEF Waiting
  <2> QED
    BY <2>1, <2>2, Elements
<1>4. handling \in [Lane -> 0..emitted]
  <2>1. \A l \in Lane : handling[l] = 0 \/ (handling[l] \in Event /\ Handled(handling[l]))
    BY <1>0 DEF Types, Handled
  <2>2. \A l \in Lane : handling[l] \in 0..emitted
    BY <1>0, <1>1, <2>1 DEF Waiting, Types
  <2> QED
    BY <1>0, <2>2 DEF Types
<1>5. post \in [Worker -> [event : 0..emitted, failed : 0..(Attempts - 1)]]
  <2>1. \A w \in Worker : post[w].event = 0 \/ (post[w].event \in Event /\ Posted(post[w].event))
    BY <1>0 DEF Types, Posted
  <2>2. \A w \in Worker : post[w].event \in 0..emitted
    BY <1>0, <1>1, <2>1 DEF Waiting, Types
  <2> QED
    BY <1>0, <2>2 DEF Types
<1>6. Past \subseteq 1..emitted
  BY <1>0, <1>1 DEF Past, Types
<1>7. command \in [on : BOOLEAN, todo : SUBSET (1..emitted), keep : SUBSET (1..emitted)]
  BY <1>0, <1>6 DEF Past, Types
<1> QED
  BY <1>0, <1>2, <1>3, <1>4, <1>5, <1>6, <1>7 DEF DeliveryTypeOK, Types, Past, N

\* The variables keep their types: no queue grows over its size and nothing is anywhere
\* that was not published.
THEOREM DeliveryTypeCorrect == Spec => []DeliveryTypeOK
BY AlwaysIInv, TypesOfPublished, PTL

\* For every number of lanes and workers, the pusher's queue keeps the order of each chat.
THEOREM AlwaysInOrder == Spec => []LaneOrderKept
<1>1. IInv => LaneOrderKept
  <2> SUFFICES ASSUME IInv, NEW e \in Event, NEW f \in Event, e < f, LaneOf[e] = LaneOf[f]
               PROVE  /\ \A i, j \in DOMAIN queue : queue[i] = e /\ queue[j] = f => i < j
                      /\ Queued(f) \/ Posted(f) => ~(Handled(e) \/ InLane(e))
    BY DEF LaneOrderKept
  <2>1. Types /\ Order /\ e \in Nat /\ f \in Nat
    BY Places DEF IInv
  <2>2. DOMAIN queue = 1..Len(queue) /\ Len(queue) \in Nat
    BY <2>1 DEF Types
  <2>3. ASSUME NEW i \in DOMAIN queue, NEW j \in DOMAIN queue, queue[i] = e, queue[j] = f PROVE i < j
    <3>1. i # j
      BY <2>1, <2>3
    <3>2. ~(j < i)
      BY <2>1, <2>2, <2>3 DEF Order, QueueOK
    <3> QED
      BY <2>2, <2>3, <3>1, <3>2
  <2>4. Queued(f) \/ Posted(f) => ~(Handled(e) \/ InLane(e))
    BY <2>1 DEF Order, Ahead
  <2> QED
    BY <2>3, <2>4
<1> QED
  BY <1>1, AlwaysIInv, PTL

\* No event is delivered from two places at once.
THEOREM AlwaysOnePlace == Spec => []OnePlace
<1>1. IInv => OnePlace
  <2> SUFFICES ASSUME IInv, NEW e \in Event
               PROVE  /\ \A i, j \in DOMAIN queue : queue[i] = e /\ queue[j] = e => i = j
                      /\ \A v, w \in Worker : post[v].event = e /\ post[w].event = e => v = w
                      /\ Posted(e) => ~Queued(e)
                      /\ Queued(e) \/ Posted(e) => e \notin letters \cup settled
    BY DEF OnePlace
  <2>1. Types /\ Order /\ e \in Nat /\ e # 0
    BY Places DEF IInv
  <2>2. DOMAIN queue = 1..Len(queue) /\ Len(queue) \in Nat
    BY <2>1 DEF Types
  <2>3. ASSUME NEW i \in DOMAIN queue, NEW j \in DOMAIN queue, queue[i] = e, queue[j] = e PROVE i = j
    <3>1. ~(i < j) /\ ~(j < i)
      BY <2>1, <2>2, <2>3 DEF Order, QueueOK
    <3> QED
      BY <2>2, <2>3, <3>1
  <2>4. \A v, w \in Worker : post[v].event = e /\ post[w].event = e => v = w
    BY <2>1 DEF Order, PostedOnce
  <2>5. Posted(e) => ~Queued(e)
    BY <2>1, Alone
  <2>6. Queued(e) \/ Posted(e) => e \notin letters \cup settled
    BY DEF IInv, Gone, Waiting, Past
  <2> QED
    BY <2>3, <2>4, <2>5, <2>6
<1> QED
  BY <1>1, AlwaysIInv, PTL

\* What Publish drops is the oldest event of a full lane.
LEMMA PublishDrops ==
    ASSUME Types, Types', Publish, NEW f \in Event, InLane(f), ~InLane(f)'
    PROVE  \E l \in Lane : Len(lane[l]) = LaneSize /\ f = Head(lane[l])
<1> DEFINE e == emitted + 1
           l == LaneOf[e]
<1>1. e \in Event /\ l \in Lane
  BY DeliveryAssumption DEF Publish
<1>2. /\ lane'[l] = Append(IF Len(lane[l]) = LaneSize THEN Tail(lane[l]) ELSE lane[l], e)
      /\ \A k \in Lane \ {l} : lane'[k] = lane[k]
  BY <1>1 DEF Publish, Types
<1> HIDE DEF l
<1>3. lane[l] \in Seq(Event) /\ Len(lane[l]) <= LaneSize /\ LaneSize \in Nat \ {0} /\ Len(lane[l]) \in Nat
  BY <1>1, DeliveryAssumption DEF Types
<1>4. PICK d \in {0, 1} : /\ Len(lane'[l]) = Len(lane[l]) - d + 1 /\ (d = 1 => Len(lane[l]) = LaneSize)
                          /\ \A i \in 1..(Len(lane[l]) - d) : lane'[l][i] = lane[l][i + d]
                          /\ lane'[l][Len(lane[l]) - d + 1] = e
  <2> HIDE DEF e
  <2> QED
    BY <1>1, <1>2, <1>3, Pushed
<1>5. PICK k \in Lane : \E i \in 1..Len(lane[k]) : lane[k][i] = f
  BY Places
<1>6. PICK i \in 1..Len(lane[k]) : lane[k][i] = f
  BY <1>5
<1>7. k = l
  BY <1>2, <1>6, PlacesNext
<1>8. ~(i - d \in 1..(Len(lane[l]) - d))
  <2> SUFFICES ASSUME i - d \in 1..(Len(lane[l]) - d) PROVE FALSE
    OBVIOUS
  <2>1. lane'[l][i - d] = f /\ i - d \in 1..Len(lane'[l])
    BY <1>3, <1>4, <1>6, <1>7
  <2> QED
    BY <1>1, <2>1, PlacesNext
<1>9. d = 1 /\ i = 1
  BY <1>3, <1>6, <1>7, <1>8
<1>10. lane[l] # <<>>
  BY <1>3, <1>6, <1>7
<1>11. Head(lane[l]) = lane[l][1]
  BY <1>3, <1>10, Tailed
<1> QED
  BY <1>1, <1>4, <1>6, <1>7, <1>9, <1>11

\* Where an event that was on its way can be after a step.
LEMMA LostOnWay ==
    ASSUME IInv, [Next]_vars, NEW e \in Event, Waiting(e), ~Waiting(e)', e \notin letters', e \notin settled'
    PROVE  \/ \E l \in Lane : Len(lane[l]) = LaneSize /\ e = Head(lane[l]) /\ emitted' # emitted
           \/ pusher = "draining" /\ Posted(e)
           \/ pusher = "stopped"
<1>0. Types /\ Types' /\ Order /\ Published /\ e \in Nat /\ e # 0
  BY NextTypes, Places DEF IInv
<1>1. CASE Publish
  <2>1. InLane(e) /\ ~InLane(e)'
    BY <1>0, <1>1, PublishMoves DEF Waiting
  <2>2. emitted' # emitted
    BY <1>0, <1>1 DEF Publish, Types
  <2> QED
    BY <1>0, <1>1, <2>1, <2>2, PublishDrops
<1>2. ASSUME NEW l \in Lane, Handle(l) PROVE FALSE
  BY <1>0, <1>2, HandleMoves DEF Waiting
<1>3. ASSUME NEW l \in Lane, PassOver(l) PROVE FALSE
  <2>1. /\ \A f \in Event : (Handled(f)' <=> Handled(f) /\ f # handling[l]) /\ (InLane(f)' <=> InLane(f))
        /\ settled' = settled \cup {handling[l]} /\ UNCHANGED <<queue, post>>
    BY <1>0, <1>3, HandledMoves DEF PassOver
  <2> QED
    BY <2>1 DEF Waiting, Queued, Posted
<1>4. ASSUME NEW l \in Lane, Enqueue(l) PROVE FALSE
  <2>1. /\ handling[l] \in Event /\ Handled(handling[l])
        /\ \A f \in Event : (Handled(f)' <=> Handled(f) /\ f # handling[l]) /\ (InLane(f)' <=> InLane(f))
    BY <1>0, <1>4, HandledMoves DEF Enqueue
  <2>2. Posted(e)' <=> Posted(e)
    BY <1>4 DEF Enqueue, Posted
  <2>3. CASE Len(queue) < QueueSize
    <3>1. queue' = Append(queue, handling[l])
      BY <1>4, <2>3 DEF Enqueue
    <3>2. \A f \in Event : Queued(f)' <=> Queued(f) \/ f = handling[l]
      BY <1>0, <2>1, <3>1, EnqueueMoves
    <3> QED
      BY <2>1, <2>2, <3>2 DEF Waiting
  <2>4. CASE ~(Len(queue) < QueueSize)
    <3>1. letters' = letters \cup {handling[l]} /\ UNCHANGED queue
      BY <1>4, <2>4 DEF Enqueue
    <3> QED
      BY <2>1, <2>2, <3>1 DEF Waiting, Queued
  <2> QED
    BY <2>3, <2>4
<1>5. ASSUME NEW w \in Worker, Get(w) PROVE FALSE
  BY <1>0, <1>5, GetMoves DEF Waiting
<1>6. ASSUME NEW w \in Worker, Acknowledged(w) PROVE FALSE
  <2>1. /\ \A f \in Event : Posted(f)' <=> Posted(f) /\ f # post[w].event
        /\ settled' = settled \cup {post[w].event} /\ UNCHANGED <<lane, handling, queue>>
    BY <1>0, <1>6, PostMoves DEF Acknowledged
  <2> QED
    BY <2>1 DEF Waiting, InLane, Handled, Queued
<1>7. ASSUME NEW w \in Worker, Failed(w) PROVE FALSE
  <2>1. post[w].event # 0 /\ UNCHANGED <<lane, handling, queue>>
    BY <1>7 DEF Failed
  <2>2. CASE post[w].failed + 1 < Attempts
    <3>1. post' = [post EXCEPT ![w].failed = @ + 1]
      BY <1>7, <2>2 DEF Failed
    <3> QED
      BY <1>0, <2>1, <3>1, RetryMoves DEF Waiting, InLane, Handled, Queued
  <2>3. CASE ~(post[w].failed + 1 < Attempts)
    <3>1. post' = [post EXCEPT ![w] = Idle] /\ letters' = letters \cup {post[w].event}
      BY <1>7, <2>3 DEF Failed
    <3>2. \A f \in Event : Posted(f)' <=> Posted(f) /\ f # post[w].event
      BY <1>0, <2>1, <3>1, PostMoves
    <3> QED
      BY <2>1, <3>1, <3>2 DEF Waiting, InLane, Handled, Queued
  <2> QED
    BY <2>2, <2>3
<1>8. ASSUME UNCHANGED flow PROVE FALSE
  BY <1>0, <1>8, NothingMoves
<1>9. ASSUME NEW chosen \in SUBSET letters, Resend(chosen) \/ Delete(chosen) PROVE FALSE
  BY <1>8, <1>9 DEF Resend, Delete
<1>10. ASSUME NEW f \in Event, ResendOne(f) PROVE FALSE
  BY <1>8, <1>10 DEF ResendOne
<1>11. ASSUME WriteBack \/ Interrupt \/ Drain \/ UNCHANGED vars PROVE FALSE
  BY <1>8, <1>11 DEF WriteBack, Interrupt, Drain, vars
<1>12. CASE CutOff
  <2>1. (InLane(e)' <=> InLane(e)) /\ (Handled(e)' <=> Handled(e)) /\ (e \in letters' <=> e \in letters \/ Queued(e))
    BY <1>0, <1>12, CutOffMoves
  <2> QED
    BY <1>12, <2>1 DEF CutOff, Waiting
<1>13. CASE Exit
  BY <1>13 DEF Exit
<1> QED
  BY <1>1, <1>2, <1>3, <1>4, <1>5, <1>6, <1>7, <1>9, <1>10, <1>11, <1>12, <1>13
  DEF Next, LaneStep, WorkerStep, Shutdown

\* How a dead letter goes.
LEMMA LettersLost ==
    ASSUME IInv, [Next]_vars, NEW e \in Event, e \in letters, e \notin letters', e \notin settled'
    PROVE  command.on /\ e \notin command.keep
<1>1. ASSUME letters \subseteq letters' PROVE FALSE
  BY <1>1
<1>2. CASE WriteBack
  BY <1>2 DEF WriteBack
<1>3. ASSUME NEW chosen \in SUBSET letters, Resend(chosen) \/ Delete(chosen) PROVE FALSE
  BY <1>3 DEF Resend, Delete
<1>4. ASSUME NEW l \in Lane, LaneStep(l) PROVE FALSE
  BY <1>1, <1>4 DEF LaneStep, Handle, PassOver, Enqueue
<1>5. ASSUME NEW w \in Worker, WorkerStep(w) PROVE FALSE
  BY <1>1, <1>5 DEF WorkerStep, Get, Acknowledged, Failed
<1>6. ASSUME NEW f \in Event, ResendOne(f) PROVE FALSE
  BY <1>1, <1>6 DEF ResendOne
<1>7. ASSUME Publish \/ Interrupt \/ Shutdown \/ UNCHANGED vars PROVE FALSE
  BY <1>1, <1>7 DEF Publish, Interrupt, Shutdown, Drain, CutOff, Exit, vars
<1> QED
  BY <1>2, <1>3, <1>4, <1>5, <1>6, <1>7 DEF Next

\* The only ways an event or a dead letter gets lost.
THEOREM LostNoOtherWay == Spec => LostOnlyWhen
<1>1. IInv /\ [Next]_vars =>
        [\A e \in Event :
           /\ Waiting(e) /\ ~(Waiting(e) \/ e \in letters \/ e \in settled)' =>
                \/ \E l \in Lane : Len(lane[l]) = LaneSize /\ e = Head(lane[l]) /\ emitted' # emitted
                \/ pusher = "draining" /\ Posted(e)
                \/ pusher = "stopped"
           /\ e \in letters /\ e \notin (letters \cup settled)' =>
                command.on /\ e \notin command.keep]_vars
  BY LostOnWay, LettersLost
<1> QED
  BY <1>1, AlwaysIInv, PTL DEF Spec, LostOnlyWhen
==============================================================================
