------------------------- MODULE EventStream_proofs -------------------------
(***************************************************************************)
(* The properties of EventStream for every number of accounts and every    *)
(* size of the rings and queues.  The argument is made account by account: *)
(* what is on its way to the watcher is within what the tally accounts for *)
(* (Accounted), and, as long as nothing failed, ahead of what it was shown *)
(* and within what the daemon will count on from (Ordered).                *)
(***************************************************************************)
EXTENDS EventStream, TLAPS, WellFoundedInduction

\* Which task belongs to which state of the stream.
TaskOK ==
    /\ stream # "serve" => looked = None
    /\ stream \notin {"wait", "cancel"} => getting = {}
    /\ stream # "cancel" => later = {}
    /\ stream \notin {"cancel", "serve"} => done = {}
    /\ stream = "cancel" => getting \subseteq later /\ later \cap done = {}
    /\ stream # "replay" => \A a \in Account : gap[a] = None /\ rest[a] = {}
    /\ stream = "closed" => watched = {} /\ queue = Empty
    /\ daemon = "down" => stream = "closed"

\* A ring has the newest numbers, with no hole.
RingOK ==
    \A a \in Account :
        /\ \A n \in ring[a] : n <= seq[a] /\ seq[a] \in ring[a]
        /\ \A m, n \in ring[a] : \A k \in m..n : k \in ring[a]

Structure == StreamTypeOK /\ TaskOK /\ RingOK

-----------------------------------------------------------------------------
(* Helpers *)

LEMMA OldestIsLeast ==
    ASSUME NEW N \in SUBSET Nat, N # {}
    PROVE  Oldest(N) \in N /\ \A n \in N : Oldest(N) <= n
<1> DEFINE Less == {p \in Nat \X Nat : p[1] < p[2]}
<1>1. IsWellFoundedOn(Less, Nat)
  BY NatLessThanWellFounded, Zenon DEF OpToRel
<1> HIDE DEF Less
<1>2. PICK x \in N : \A y \in N : <<y, x>> \notin Less
  BY <1>1, WFMin
<1>3. ASSUME NEW y \in N PROVE x <= y
  <2> DEFINE p == <<y, x>>
  <2>1. p \in Nat \X Nat /\ p[1] = y /\ p[2] = x /\ p \notin Less
    BY <1>2
  <2>2. ~(p[1] < p[2])
    BY <2>1, Zenon DEF Less
  <2> HIDE DEF p
  <2> QED
    BY <2>1, <2>2
<1> QED
  BY <1>3 DEF Oldest

LEMMA Appended ==
    ASSUME NEW S, NEW s \in Seq(S), NEW e \in S
    PROVE  /\ Append(s, e) \in Seq(S) /\ Len(Append(s, e)) = Len(s) + 1
           /\ \A i \in 1..Len(s) : Append(s, e)[i] = s[i]
           /\ Append(s, e)[Len(s) + 1] = e
OBVIOUS

LEMMA Tailed ==
    ASSUME NEW S, NEW s \in Seq(S), s # <<>>
    PROVE  /\ Len(s) \in Nat \ {0} /\ Head(s) = s[1] /\ s[1] \in S
           /\ Tail(s) \in Seq(S) /\ Len(Tail(s)) = Len(s) - 1
           /\ \A i \in 1..Len(Tail(s)) : Tail(s)[i] = s[i + 1]
OBVIOUS

\* What a queue is after an event was offered to it: d tells if the oldest was dropped.
LEMMA Pushed ==
    ASSUME NEW s \in Seq(Nat), NEW e \in Nat, NEW n \in Nat \ {0},
           NEW t, t = Append(IF Len(s) = n THEN Tail(s) ELSE s, e)
    PROVE  /\ t \in Seq(Nat)
           /\ \E d \in {0, 1} : /\ d = (IF Len(s) = n THEN 1 ELSE 0)
                                /\ Len(t) = Len(s) - d + 1 /\ Len(s) - d \in Nat
                                /\ \A i \in 1..(Len(s) - d) : t[i] = s[i + d]
                                /\ t[Len(s) - d + 1] = e
<1>0. Len(s) \in Nat
  OBVIOUS
<1>1. CASE Len(s) = n
  <2> DEFINE u == Tail(s)
  <2>1. u \in Seq(Nat) /\ Len(u) = Len(s) - 1 /\ t = Append(u, e) /\ \A i \in 1..Len(u) : u[i] = s[i + 1]
    BY <1>1, Tailed
  <2> HIDE DEF u
  <2>2. /\ t \in Seq(Nat) /\ Len(t) = Len(u) + 1
        /\ \A i \in 1..Len(u) : t[i] = u[i]
        /\ t[Len(u) + 1] = e
    BY <2>1, Appended
  <2> QED
    BY <1>0, <1>1, <2>1, <2>2
<1>2. CASE Len(s) # n
  <2>1. t = Append(s, e)
    BY <1>2
  <2>2. /\ t \in Seq(Nat) /\ Len(t) = Len(s) + 1
        /\ \A i \in 1..Len(s) : t[i] = s[i] /\ t[Len(s) + 1] = e
    BY <2>1, Appended
  <2> QED
    BY <1>0, <1>2, <2>2
<1> QED
  BY <1>1, <1>2

-----------------------------------------------------------------------------
(* The structure *)

LEMMA InitStructure == Init => Structure
BY StreamAssumption DEF Init, Structure, StreamTypeOK, TaskOK, RingOK, Empty, Zero, Nothing, Clear, Tally

\* The type invariant, in parts that a step leaves alone together.
BusTypes ==
    /\ daemon \in {"up", "stopping", "down"}
    /\ seq \in [Account -> Nat] /\ file \in [Account -> Nat] /\ dirty \subseteq Account
    /\ ring \in [Account -> SUBSET Nat]
    /\ spent \in [boots : Nat, faults : Nat, streams : Nat]

LEMMA NextBusTypes == Structure /\ [Next]_vars => (BusTypes /\ RingOK)'
<1> SUFFICES ASSUME Structure, [Next]_vars PROVE (BusTypes /\ RingOK)'
  OBVIOUS
<1>0. BusTypes /\ RingOK
  BY DEF Structure, StreamTypeOK, BusTypes
<1>1. ASSUME NEW a \in Account, Emit(a) PROVE (BusTypes /\ RingOK)'
  <2>1. /\ seq' = [seq EXCEPT ![a] = @ + 1] /\ dirty' = dirty \cup {a}
        /\ UNCHANGED <<daemon, file, spent>>
    BY <1>1 DEF Emit
  <2>2. PICK old \in SUBSET Nat :
          /\ old = IF Cardinality(ring[a]) = RingSize THEN ring[a] \ {Oldest(ring[a])} ELSE ring[a]
          /\ ring' = [ring EXCEPT ![a] = old \cup {seq[a] + 1}]
    BY <1>0, <1>1 DEF Emit, BusTypes
  <2>3. BusTypes'
    BY <1>0, <2>1, <2>2 DEF BusTypes
  <2>4. ASSUME NEW b \in Account
        PROVE  /\ \A n \in ring'[b] : n <= seq'[b] /\ seq'[b] \in ring'[b]
               /\ \A m, n \in ring'[b] : \A k \in m..n : k \in ring'[b]
    <3>1. CASE b # a
      <4>1. ring'[b] = ring[b] /\ seq'[b] = seq[b]
        BY <1>0, <2>1, <2>2, <3>1 DEF BusTypes
      <4> QED
        BY <1>0, <4>1 DEF RingOK
    <3>2. CASE b = a
      <4>1. ring'[b] = old \cup {seq[a] + 1} /\ seq'[b] = seq[a] + 1
        BY <1>0, <2>1, <2>2, <3>2 DEF BusTypes
      <4>2. /\ \A n \in old : n <= seq[a] /\ seq[a] \in old
            /\ \A m, n \in old : \A k \in m..n : k \in old
        <5>1. CASE old = ring[a]
          BY <1>0, <5>1 DEF RingOK
        <5>2. CASE old = ring[a] \ {Oldest(ring[a])} /\ ring[a] # {}
          <6> DEFINE o == Oldest(ring[a])
          <6>1. ring[a] \in SUBSET Nat /\ seq[a] \in Nat
            BY <1>0 DEF BusTypes
          <6>2. o \in ring[a] /\ \A n \in ring[a] : o <= n
            BY <5>2, <6>1, OldestIsLeast
          <6>3. old = ring[a] \ {o}
            BY <5>2
          <6> HIDE DEF o
          <6>4. ASSUME NEW n \in old PROVE n <= seq[a] /\ seq[a] \in old
            BY <1>0, <6>1, <6>2, <6>3 DEF RingOK
          <6>5. ASSUME NEW m \in old, NEW n \in old, NEW k \in m..n PROVE k \in old
            BY <1>0, <6>1, <6>2, <6>3 DEF RingOK
          <6> QED
            BY <6>4, <6>5
        <5>3. ring[a] = {} => old = {}
          BY <2>2
        <5> QED
          BY <2>2, <5>1, <5>2, <5>3
      <4>3. seq[a] \in Nat /\ old \subseteq Nat
        BY <1>0 DEF BusTypes
      <4> DEFINE new == old \cup {seq[a] + 1}
      <4>4. ASSUME NEW m \in new, NEW n \in new, NEW k \in m..n PROVE k \in new
        <5>1. CASE n \in old
          BY <4>2, <4>3, <5>1
        <5>2. CASE n = seq[a] + 1 /\ m \in old
          <6>1. seq[a] \in old /\ k \in Int
            BY <4>2, <4>3, <5>2
          <6>2. k \in m..seq[a] \/ k = seq[a] + 1
            BY <4>3, <5>2, <6>1
          <6> QED
            BY <4>2, <6>1, <6>2, <5>2
        <5>3. CASE n = seq[a] + 1 /\ m = seq[a] + 1
          BY <4>3, <5>3
        <5> QED
          BY <5>1, <5>2, <5>3
      <4>5. ASSUME NEW n \in new PROVE n <= seq[a] + 1
        BY <4>2, <4>3
      <4> QED
        BY <4>1, <4>4, <4>5
    <3> QED
      BY <3>1, <3>2
  <2> QED
    BY <2>3, <2>4 DEF RingOK
<1>2. ASSUME NEW failed \in SUBSET dirty, Flushed(failed), UNCHANGED <<seq, ring>>,
             daemon' \in {daemon, "stopping"} PROVE (BusTypes /\ RingOK)'
  BY <1>0, <1>2 DEF Flushed, BusTypes, RingOK
<1>3. CASE Flush
  BY <1>2, <1>3 DEF Flush
<1>4. CASE Stop
  BY <1>2, <1>4 DEF Stop
<1>5. CASE Exit
  BY <1>0, <1>5 DEF Exit, BusTypes, RingOK
<1>6. CASE Crash
  BY <1>0, <1>6 DEF Crash, BusTypes, RingOK
<1>7. CASE Boot
  BY <1>0, <1>7 DEF Boot, BusTypes, RingOK
<1>8. CASE UNCHANGED <<bus, spent>>
  BY <1>0, <1>8 DEF bus, BusTypes, RingOK
<1>9. ASSUME NEW accounts \in SUBSET Account, NEW resume \in BOOLEAN, Subscribe(accounts, resume)
      PROVE  (BusTypes /\ RingOK)'
  <2>1. spent' = [spent EXCEPT !.streams = @ + 1] /\ UNCHANGED bus
    BY <1>9 DEF Subscribe
  <2> QED
    BY <1>0, <2>1 DEF bus, BusTypes, RingOK
<1> QED
  BY <1>1, <1>3, <1>4, <1>5, <1>6, <1>7, <1>8, <1>9
     DEF Next, TellGap, ReplayOne, Take, CancelNext, TakeLag, Show, Wait, Wake, Serve, Close, vars

Tasks ==
    /\ watched \subseteq Account
    /\ stream \in {"closed", "replay", "wait", "cancel", "serve"}
    /\ getting \subseteq watched /\ later \subseteq watched /\ done \subseteq watched
    /\ looked \in {None} \cup done
    /\ hand \in [Account -> Nat \cup {None}]
    /\ \A a \in Account : hand[a] # None <=>
         \/ stream = "wait" /\ a \in watched \ getting
         \/ stream \in {"cancel", "serve"} /\ a \in done \cup (later \ getting)

Values ==
    /\ queue \in [Account -> Seq(Nat)] /\ dropped \in [Account -> Nat]
    /\ gap \in [Account -> Nat \cup {None}] /\ rest \in [Account -> SUBSET Nat]
    /\ cursor \in [Account -> Nat] /\ tally \in [Account -> Tally]

LEMMA Parts == StreamTypeOK <=> BusTypes /\ Tasks /\ Values
BY DEF StreamTypeOK, BusTypes, Tasks, Values

LEMMA EndedStream ==
    ASSUME EndStream
    PROVE  /\ Tasks' /\ (daemon' \in {"up", "stopping", "down"} => TaskOK')
           /\ (cursor' \in [Account -> Nat] => Values')
<1>1. Tasks' /\ (daemon' \in {"up", "stopping", "down"} => TaskOK')
  BY StreamAssumption DEF EndStream, Tasks, TaskOK, Nothing
<1>2. cursor' \in [Account -> Nat] => Values'
  BY StreamAssumption DEF EndStream, Values, Nothing, Empty, Zero, Clear, Tally
<1> QED
  BY <1>1, <1>2

\* The tasks of the stream are where its state says.
LEMMA NextTasks == Structure /\ [Next]_vars => (Tasks /\ TaskOK)'
<1> SUFFICES ASSUME Structure, [Next]_vars PROVE (Tasks /\ TaskOK)'
  OBVIOUS
<1>0. Tasks /\ TaskOK /\ Values /\ BusTypes
  BY Parts DEF Structure
<1> USE StreamAssumption DEF Tasks, TaskOK
<1>1. ASSUME NEW a \in Account, Emit(a) PROVE (Tasks /\ TaskOK)'
  <2>1. UNCHANGED <<daemon, watched, stream, gap, rest, getting, hand, later, done, looked>>
    BY <1>1 DEF Emit, watcher
  <2>2. watched = {} => queue' = queue
    BY <1>1 DEF Emit, Offer
  <2> QED
    BY <1>0, <2>1, <2>2
<1>2. ASSUME NEW a \in Account, TellGap(a) PROVE (Tasks /\ TaskOK)'
  BY <1>0, <1>2 DEF TellGap, bus
<1>3. ASSUME NEW a \in Account, ReplayOne(a) PROVE (Tasks /\ TaskOK)'
  BY <1>0, <1>3 DEF ReplayOne, bus
<1>4. ASSUME NEW a \in Account, Take(a) PROVE (Tasks /\ TaskOK)'
  <2>1. Head(queue[a]) \in Nat
    BY <1>0, <1>4, Tailed DEF Take, Values
  <2> QED
    BY <1>0, <1>4, <2>1 DEF Take, bus
<1>5. ASSUME NEW a \in Account, CancelNext(a) PROVE (Tasks /\ TaskOK)'
  BY <1>0, <1>5 DEF CancelNext, bus
<1>6. ASSUME NEW a \in Account, TakeLag(a) PROVE (Tasks /\ TaskOK)'
  BY <1>0, <1>6 DEF TakeLag, bus
<1>7. ASSUME NEW a \in Account, Show(a) PROVE (Tasks /\ TaskOK)'
  BY <1>0, <1>7 DEF Show, bus
<1>8. ASSUME NEW accounts \in SUBSET Account, NEW resume \in BOOLEAN, Subscribe(accounts, resume)
      PROVE  (Tasks /\ TaskOK)'
  BY <1>0, <1>8 DEF Subscribe, Open, bus
<1>9. CASE Flush
  BY <1>0, <1>9 DEF Flush, watcher
<1>10. CASE Stop
  BY <1>0, <1>10 DEF Stop, watcher
<1>11. CASE Exit
  BY <1>11, EndedStream DEF Exit
<1>12. CASE Crash
  BY <1>12, EndedStream DEF Crash
<1>13. CASE Close
  BY <1>0, <1>13, EndedStream DEF Close, bus, BusTypes
<1>14. CASE Boot
  BY <1>0, <1>14 DEF Boot, watcher
<1>15. CASE Wait
  BY <1>0, <1>15 DEF Wait, bus
<1>16. CASE Wake
  <2>1. CASE getting = {}
    BY <1>0, <1>16, <2>1 DEF Wake, bus
  <2>2. CASE getting # {}
    BY <1>0, <1>16, <2>2 DEF Wake, bus
  <2> QED
    BY <2>1, <2>2
<1>17. CASE Serve
  BY <1>0, <1>17 DEF Serve, bus
<1>18. CASE UNCHANGED vars
  BY <1>0, <1>18 DEF vars, bus, watcher
<1> QED
  BY <1>1, <1>2, <1>3, <1>4, <1>5, <1>6, <1>7, <1>8, <1>9, <1>10, <1>11, <1>12, <1>13, <1>14, <1>15, <1>16, <1>17, <1>18
     DEF Next

LEMMA TallyKept ==
    ASSUME Values, NEW a \in Account, NEW t \in Tally, tally' = [tally EXCEPT ![a] = t]
    PROVE  tally' \in [Account -> Tally]
BY DEF Values

LEMMA NextValues == Structure /\ [Next]_vars => Values'
<1> SUFFICES ASSUME Structure, [Next]_vars PROVE Values'
  OBVIOUS
<1>0. Tasks /\ TaskOK /\ Values /\ BusTypes
  BY Parts DEF Structure
<1>1. ASSUME NEW a \in Account, Emit(a) PROVE Values'
  <2>1. UNCHANGED <<gap, rest, cursor, tally>>
    BY <1>1 DEF Emit, watcher
  <2>2. CASE a \in watched /\ daemon = "up"
    <3>1. PICK t : t = Append(IF Len(queue[a]) = QueueSize THEN Tail(queue[a]) ELSE queue[a], seq[a] + 1)
      OBVIOUS
    <3>2. t \in Seq(Nat)
      BY <1>0, <3>1, StreamAssumption, Pushed DEF Values, BusTypes
    <3>3. queue' = [queue EXCEPT ![a] = t]
      BY <1>1, <2>2, <3>1 DEF Emit, Offer
    <3>4. dropped' \in [Account -> Nat]
      BY <1>0, <1>1, <2>2 DEF Emit, Offer, Values
    <3> QED
      BY <1>0, <2>1, <3>2, <3>3, <3>4 DEF Values
  <2>3. CASE ~(a \in watched /\ daemon = "up")
    BY <1>0, <1>1, <2>1, <2>3 DEF Emit, Offer, Values
  <2> QED
    BY <2>2, <2>3
<1>2. ASSUME NEW a \in Account, TellGap(a) PROVE Values'
  <2>1. gap[a] \in Nat /\ tally[a] \in Tally
    BY <1>0, <1>2 DEF TellGap, Values
  <2>2. [tally[a] EXCEPT !.told = @ + gap[a]] \in Tally
    BY <2>1 DEF Tally
  <2>3. tally' = [tally EXCEPT ![a] = [tally[a] EXCEPT !.told = @ + gap[a]]]
    BY <1>2 DEF TellGap
  <2> QED
    BY <1>0, <1>2, <2>2, <2>3, TallyKept DEF TellGap, Values
<1>3. ASSUME NEW a \in Account, NEW n \in Nat, NEW shown \in BOOLEAN, Handle(a, n, shown)
      PROVE  tally' \in [Account -> Tally] /\ cursor' \in [Account -> Nat]
  <2>1. tally[a] \in Tally
    BY <1>0 DEF Values
  <2>2. [tally[a] EXCEPT !.handled = @ + 1, !.at = n] \in Tally
    <3>1. PICK t \in Tally : t = tally[a]
      BY <2>1
    <3>2. PICK u \in Tally : u = [t EXCEPT !.handled = t.handled + 1]
      <4>1. t.handled + 1 \in Nat
        BY DEF Tally
      <4>2. [t EXCEPT !.handled = t.handled + 1] \in Tally
        BY <4>1 DEF Tally
      <4> QED
        BY <4>2
    <3>3. [u EXCEPT !.at = n] \in Tally
      BY <1>3 DEF Tally
    <3> QED
      BY <3>1, <3>2, <3>3, Zenon
  <2>3. tally' = [tally EXCEPT ![a] = [tally[a] EXCEPT !.handled = @ + 1, !.at = n]]
    BY <1>3 DEF Handle
  <2>4. tally' \in [Account -> Tally]
    BY <1>0, <2>2, <2>3, TallyKept
  <2>5. cursor' \in [Account -> Nat]
    BY <1>0, <1>3 DEF Handle, Values
  <2> QED
    BY <2>4, <2>5
<1>4. ASSUME NEW a \in Account, ReplayOne(a) PROVE Values'
  <2>1. rest[a] \in SUBSET Nat /\ rest[a] # {}
    BY <1>0, <1>4 DEF ReplayOne, Values
  <2>2. Oldest(rest[a]) \in Nat
    BY <2>1, OldestIsLeast
  <2>3. tally' \in [Account -> Tally] /\ cursor' \in [Account -> Nat]
    BY <1>3, <1>4, <2>2 DEF ReplayOne
  <2> QED
    BY <1>0, <1>4, <2>3 DEF ReplayOne, Values
<1>5. ASSUME NEW a \in Account, Take(a) PROVE Values'
  <2>1. Tail(queue[a]) \in Seq(Nat)
    BY <1>0, <1>5, Tailed DEF Take, Values
  <2> QED
    BY <1>0, <1>5, <2>1 DEF Take, Values
<1>6. ASSUME NEW a \in Account, CancelNext(a) PROVE Values'
  <2>1. tally[a] \in Tally
    BY <1>0 DEF Values
  <2>2. PICK k \in Nat : k = IF a \in getting THEN tally[a].discarded ELSE tally[a].discarded + 1
    BY <2>1 DEF Tally
  <2>3. [tally[a] EXCEPT !.discarded = k] \in Tally
    BY <2>1 DEF Tally
  <2>4. tally' = [tally EXCEPT ![a] = [tally[a] EXCEPT !.discarded = k]]
    BY <1>6, <2>2 DEF CancelNext
  <2> QED
    BY <1>0, <1>6, <2>3, <2>4, TallyKept DEF CancelNext, Values
<1>7. ASSUME NEW a \in Account, TakeLag(a) PROVE Values'
  <2>1. dropped[a] \in Nat /\ tally[a] \in Tally
    BY <1>0 DEF Values
  <2>2. [tally[a] EXCEPT !.told = @ + dropped[a]] \in Tally
    BY <2>1 DEF Tally
  <2>3. tally' = [tally EXCEPT ![a] = [tally[a] EXCEPT !.told = @ + dropped[a]]]
    BY <1>7 DEF TakeLag
  <2> QED
    BY <1>0, <1>7, <2>2, <2>3, TallyKept DEF TakeLag, Values
<1>8. ASSUME NEW a \in Account, Show(a) PROVE Values'
  <2>1. hand[a] \in Nat
    BY <1>0, <1>8, StreamAssumption DEF Show, Tasks
  <2>2. tally' \in [Account -> Tally] /\ cursor' \in [Account -> Nat]
    BY <1>3, <1>8, <2>1 DEF Show
  <2> QED
    BY <1>0, <1>8, <2>2 DEF Show, Values
<1>9. ASSUME NEW accounts \in SUBSET Account, NEW resume \in BOOLEAN, Subscribe(accounts, resume)
      PROVE  Values'
  <2>1. PICK since \in [Account -> Nat \cup {None}] :
          /\ gap' = [a \in Account |-> Lost(a, since[a])]
          /\ rest' = [a \in Account |-> Replayed(a, since[a])]
          /\ tally' = [a \in Account |->
               [Clear EXCEPT !.from = IF since[a] = None THEN seq[a] ELSE since[a],
                             !.at = IF since[a] = None THEN seq[a] ELSE since[a],
                             !.hidden = Hidden(a, since[a])]]
    <3> DEFINE since == [a \in Account |-> IF resume /\ a \in accounts THEN cursor[a] ELSE None]
    <3>1. since \in [Account -> Nat \cup {None}]
      BY <1>0 DEF Values
    <3> QED
      BY <1>9, <3>1 DEF Subscribe
  <2>2. ASSUME NEW a \in Account
        PROVE  /\ Lost(a, since[a]) \in Nat \cup {None} /\ Replayed(a, since[a]) \in SUBSET Nat
               /\ Hidden(a, since[a]) \in Nat
    <3>1. seq[a] \in Nat /\ ring[a] \in SUBSET Nat /\ since[a] \in Nat \cup {None}
      BY <1>0, <2>1 DEF BusTypes
    <3>2. ring[a] # {} => Oldest(ring[a]) \in Nat
      BY <3>1, OldestIsLeast
    <3> QED
      BY <3>1, <3>2 DEF Lost, Replayed, Hidden
  <2>3. ASSUME NEW a \in Account
        PROVE  [Clear EXCEPT !.from = IF since[a] = None THEN seq[a] ELSE since[a],
                             !.at = IF since[a] = None THEN seq[a] ELSE since[a],
                             !.hidden = Hidden(a, since[a])] \in Tally
    <3>1. (IF since[a] = None THEN seq[a] ELSE since[a]) \in Nat
      BY <1>0, <2>1 DEF BusTypes
    <3> QED
      BY <2>2, <3>1 DEF Clear, Tally
  <2>4. UNCHANGED <<queue, dropped, cursor>>
    BY <1>9 DEF Subscribe
  <2> QED
    BY <1>0, <2>1, <2>2, <2>3, <2>4 DEF Values
<1>10. CASE UNCHANGED <<queue, dropped, gap, rest, cursor, tally>>
  BY <1>0, <1>10 DEF Values
<1>11. CASE EndStream /\ UNCHANGED cursor
  BY <1>0, <1>11, EndedStream DEF Values
<1> QED
  BY <1>1, <1>2, <1>4, <1>5, <1>6, <1>7, <1>8, <1>9, <1>10, <1>11
     DEF Next, Flush, Stop, Exit, Crash, Boot, Wait, Wake, Serve, Close, vars, watcher

LEMMA NextStructure == Structure /\ [Next]_vars => Structure'
<1> SUFFICES ASSUME Structure, [Next]_vars PROVE Structure'
  OBVIOUS
<1>1. (BusTypes /\ RingOK)' /\ (Tasks /\ TaskOK)' /\ Values'
  BY NextBusTypes, NextTasks, NextValues
<1> QED
  BY <1>1, Parts DEF Structure, StreamTypeOK, BusTypes, Tasks, Values

\* Always, the variables have their types, and an event is in hand exactly for the get tasks
\* of `watch` that have finished and are not served or discarded yet.
THEOREM StreamTypeCorrect == Spec => []StreamTypeOK
<1>1. Init => Structure
  BY InitStructure
<1>2. Structure /\ [Next]_vars => Structure'
  BY NextStructure
<1>3. Structure => StreamTypeOK
  BY DEF Structure
<1> QED
  BY <1>1, <1>2, <1>3, PTL DEF Spec

-----------------------------------------------------------------------------
(* No number is lost without a word *)

H(a) == IF hand[a] = None THEN 0 ELSE 1
G(a) == IF gap[a] = None THEN 0 ELSE gap[a]

\* What the tally accounts for, and what it will account for when the replay is over.
Acc(a) == tally[a].from + tally[a].handled + tally[a].told + tally[a].hidden + tally[a].discarded
Reach(a, n) == n <= Acc(a) + G(a) \/ \E m \in rest[a] : n <= m

\* What is shown is accounted for; what is replayed, in hand, queued or still to be emitted
\* will be, less the events before it that will be counted first.
AccountedAt(a) ==
    /\ tally[a].at <= Acc(a)
    /\ \A n \in rest[a] : n - 1 \in rest[a] \/ n <= Acc(a) + G(a) + 1
    /\ hand[a] # None => hand[a] <= Acc(a) + 1 + (IF looked = a THEN 0 ELSE dropped[a])
    /\ \A i \in 1..Len(queue[a]) : Reach(a, queue[a][i] - dropped[a] - H(a) - i)
    /\ daemon = "up" /\ a \in watched => Reach(a, seq[a] - dropped[a] - H(a) - Len(queue[a]))

Accounted == \A a \in Account : AccountedAt(a)

\* The numbers of an account are numbers.
LEMMA Numbers ==
    ASSUME StreamTypeOK, NEW a \in Account
    PROVE  /\ tally[a] \in Tally /\ tally[a].at \in Nat /\ Acc(a) \in Nat /\ G(a) \in Nat /\ H(a) \in {0, 1}
           /\ dropped[a] \in Nat /\ seq[a] \in Nat /\ file[a] \in Nat /\ cursor[a] \in Nat
           /\ rest[a] \in SUBSET Nat /\ ring[a] \in SUBSET Nat
           /\ queue[a] \in Seq(Nat) /\ Len(queue[a]) \in Nat /\ \A i \in 1..Len(queue[a]) : queue[a][i] \in Nat
           /\ hand[a] # None => hand[a] \in Nat
           /\ gap[a] # None => gap[a] \in Nat
<1>1. /\ tally[a] \in Tally /\ gap[a] \in Nat \cup {None} /\ hand[a] \in Nat \cup {None}
      /\ queue[a] \in Seq(Nat)
  BY DEF StreamTypeOK
<1>2. Acc(a) \in Nat /\ tally[a].at \in Nat
  BY <1>1 DEF Acc, Tally
<1>3. G(a) \in Nat /\ H(a) \in {0, 1}
  BY <1>1 DEF G, H
<1>4. Len(queue[a]) \in Nat /\ \A i \in 1..Len(queue[a]) : queue[a][i] \in Nat
  BY <1>1
<1>5. /\ dropped[a] \in Nat /\ seq[a] \in Nat /\ file[a] \in Nat /\ cursor[a] \in Nat
      /\ rest[a] \in SUBSET Nat /\ ring[a] \in SUBSET Nat
  BY DEF StreamTypeOK
<1> QED
  BY <1>1, <1>2, <1>3, <1>4, <1>5

\* An account that a step does not touch.
LEMMA AccountedFrame ==
    ASSUME NEW a \in Account, AccountedAt(a),
           tally'[a] = tally[a], gap'[a] = gap[a], rest'[a] = rest[a], hand'[a] = hand[a],
           queue'[a] = queue[a], dropped'[a] = dropped[a],
           looked' = a <=> looked = a,
           daemon' = "up" /\ a \in watched' => daemon = "up" /\ a \in watched /\ seq'[a] = seq[a]
    PROVE  AccountedAt(a)'
<1>1. Acc(a)' = Acc(a) /\ G(a)' = G(a) /\ H(a)' = H(a)
  BY DEF Acc, G, H
<1> QED
  BY <1>1 DEF AccountedAt, Reach

\* An event that is offered to the queue: the numbers behind it move up.
LEMMA EmitAccounted ==
    ASSUME Structure, Accounted, NEW a \in Account, Emit(a)
    PROVE  Accounted'
<1>0. UNCHANGED <<daemon, watched, gap, rest, hand, looked, tally>>
  BY DEF Emit, watcher
<1>1. \A b \in Account \ {a} : seq'[b] = seq[b] /\ queue'[b] = queue[b] /\ dropped'[b] = dropped[b]
  BY DEF Emit, Offer, Structure, StreamTypeOK
<1>2. \A b \in Account \ {a} : AccountedAt(b)'
  BY <1>0, <1>1, AccountedFrame DEF Accounted
<1>3. CASE a \in watched /\ daemon = "up"
  <2> DEFINE t == queue'[a]
  <2>1. /\ t = Append(IF Len(queue[a]) = QueueSize THEN Tail(queue[a]) ELSE queue[a], seq[a] + 1)
        /\ dropped'[a] = IF Len(queue[a]) = QueueSize THEN dropped[a] + 1 ELSE dropped[a]
        /\ seq'[a] = seq[a] + 1
    BY <1>3 DEF Emit, Offer, Structure, StreamTypeOK
  <2>2. PICK d \in {0, 1} :
          /\ d = (IF Len(queue[a]) = QueueSize THEN 1 ELSE 0)
          /\ Len(t) = Len(queue[a]) - d + 1 /\ Len(queue[a]) - d \in Nat
          /\ \A i \in 1..(Len(queue[a]) - d) : t[i] = queue[a][i + d]
          /\ t[Len(queue[a]) - d + 1] = seq[a] + 1
    <3>1. queue[a] \in Seq(Nat) /\ seq[a] + 1 \in Nat
      BY Numbers DEF Structure
    <3> HIDE DEF t
    <3> QED
      BY <2>1, <3>1, StreamAssumption, Pushed
  <2>3. dropped'[a] = dropped[a] + d
    BY <2>1, <2>2, Numbers DEF Structure
  <2> HIDE DEF t
  <2>4. Acc(a)' = Acc(a) /\ G(a)' = G(a) /\ H(a)' = H(a)
    BY <1>0 DEF Acc, G, H
  <2>5. \A n : Reach(a, n)' <=> Reach(a, n)
    BY <1>0, <2>4 DEF Reach
  <2>6. PICK len \in Nat : len = Len(queue[a])
    BY Numbers DEF Structure
  <2>7. Acc(a) \in Nat /\ H(a) \in {0, 1} /\ seq[a] \in Nat /\ dropped[a] \in Nat
    BY Numbers DEF Structure
  <2>8. ASSUME NEW i \in 1..Len(t) PROVE Reach(a, t[i] - dropped'[a] - H(a) - i)
    <3>1. CASE i <= len - d
      <4>1. i + d \in 1..len /\ t[i] = queue[a][i + d] /\ queue[a][i + d] \in Nat
        BY <2>2, <2>6, <2>8, <3>1, Numbers DEF Structure
      <4>2. Reach(a, queue[a][i + d] - dropped[a] - H(a) - (i + d))
        BY <2>6, <4>1 DEF Accounted, AccountedAt
      <4>3. queue[a][i + d] - dropped[a] - H(a) - (i + d) = t[i] - dropped'[a] - H(a) - i
        <5>1. PICK h \in Int, x \in Int, y \in Int : h = H(a) /\ x = queue[a][i + d] /\ y = dropped[a]
          BY <2>7, <4>1
        <5>2. x - y - h - (i + d) = x - (y + d) - h - i
          BY <5>1
        <5> QED
          BY <2>3, <4>1, <5>1, <5>2
      <4> QED
        BY <4>2, <4>3
    <3>2. CASE i = len - d + 1
      <4>1. t[i] = seq[a] + 1
        BY <2>2, <2>6, <3>2
      <4>2. Reach(a, seq[a] - dropped[a] - H(a) - len)
        BY <1>3, <2>6 DEF Accounted, AccountedAt
      <4>3. seq[a] - dropped[a] - H(a) - len = t[i] - dropped'[a] - H(a) - i
        BY <2>3, <2>7, <3>2, <4>1
      <4> QED
        BY <4>2, <4>3
    <3> QED
      BY <2>2, <2>6, <2>8, <3>1, <3>2
  <2>9. Reach(a, seq'[a] - dropped'[a] - H(a) - Len(t))
    <3>1. seq'[a] - dropped'[a] - H(a) - Len(t) = seq[a] - dropped[a] - H(a) - len
      <4>1. Len(t) = len - d + 1
        BY <2>2, <2>6
      <4>2. seq'[a] = seq[a] + 1
        BY <2>1
      <4> QED
        <5>1. PICK h \in Int, l \in Int, x \in Int, y \in Int : h = H(a) /\ l = len /\ x = seq[a] /\ y = dropped[a]
          BY <2>7
        <5>2. (x + 1) - (y + d) - h - (l - d + 1) = x - y - h - l
          BY <5>1
        <5> QED
          BY <2>3, <4>1, <4>2, <5>1, <5>2
    <3> QED
      BY <1>3, <2>6, <3>1 DEF Accounted, AccountedAt
  <2>10. hand[a] # None => hand[a] <= Acc(a) + 1 + (IF looked = a THEN 0 ELSE dropped'[a])
    BY <2>3, <2>7, Numbers DEF Structure, Accounted, AccountedAt
  <2>11. AccountedAt(a)'
    <3>1. tally'[a].at <= Acc(a)'
      BY <1>0, <2>4 DEF Accounted, AccountedAt
    <3>2. \A n \in rest'[a] : n - 1 \in rest'[a] \/ n <= Acc(a)' + G(a)' + 1
      BY <1>0, <2>4 DEF Accounted, AccountedAt
    <3>3. hand'[a] # None => hand'[a] <= Acc(a)' + 1 + (IF looked' = a THEN 0 ELSE dropped'[a])
      BY <1>0, <2>4, <2>10
    <3> QED
      BY <2>4, <2>5, <2>8, <2>9, <3>1, <3>2, <3>3 DEF AccountedAt, t
  <2> QED
    BY <1>2, <2>11 DEF Accounted
<1>4. CASE ~(a \in watched /\ daemon = "up")
  <2>1. queue'[a] = queue[a] /\ dropped'[a] = dropped[a]
    BY <1>4 DEF Emit, Offer
  <2>2. AccountedAt(a)'
    BY <1>0, <1>4, <2>1, AccountedFrame DEF Accounted
  <2> QED
    BY <1>2, <2>2 DEF Accounted
<1> QED
  BY <1>3, <1>4

\* The replay: what is shown is the oldest of what is left, and no number lies between.
LEMMA ReplayAccounted ==
    ASSUME Structure, Accounted, NEW a \in Account, ReplayOne(a)
    PROVE  AccountedAt(a)'
<1> DEFINE M == Oldest(rest[a])
<1>1. /\ M \in rest[a] /\ M \in Nat /\ \A n \in rest[a] : M <= n
      /\ rest'[a] = rest[a] \ {M} /\ gap[a] = None /\ hand[a] = None
  <2>1. rest[a] # {} /\ rest[a] \in SUBSET Nat /\ gap[a] = None /\ stream = "replay"
    BY Numbers DEF ReplayOne, Structure
  <2>2. hand[a] = None
    BY <2>1 DEF Structure, StreamTypeOK
  <2>3. rest'[a] = rest[a] \ {M}
    BY DEF ReplayOne, Structure, StreamTypeOK
  <2> QED
    BY <2>1, <2>2, <2>3, OldestIsLeast
<1>2. UNCHANGED <<daemon, seq, watched, queue, dropped, gap, hand, looked>>
  BY DEF ReplayOne, bus
<1> HIDE DEF M
<1>3. tally'[a].at = M /\ Acc(a)' = Acc(a) + 1
  <2>1. tally' = [tally EXCEPT ![a].handled = @ + 1, ![a].at = M]
    BY DEF ReplayOne, Handle, M
  <2>2. tally[a] \in Tally /\ tally \in [Account -> Tally]
    BY DEF Structure, StreamTypeOK
  <2>3. /\ tally'[a].at = M /\ tally'[a].handled = tally[a].handled + 1
        /\ tally'[a].from = tally[a].from /\ tally'[a].told = tally[a].told
        /\ tally'[a].hidden = tally[a].hidden /\ tally'[a].discarded = tally[a].discarded
    BY <2>1, <2>2 DEF Tally
  <2> QED
    BY <2>2, <2>3 DEF Acc, Tally
<1>4. G(a) = 0 /\ G(a)' = 0 /\ H(a) = 0 /\ H(a)' = 0
  BY <1>1, <1>2 DEF G, H
<1>5. Acc(a) \in Nat /\ rest[a] \in SUBSET Nat
  BY Numbers DEF Structure
<1>6. M <= Acc(a) + 1
  BY <1>1, <1>4, <1>5 DEF Accounted, AccountedAt
<1>7. ASSUME NEW n \in Int, Reach(a, n) PROVE Reach(a, n)'
  <2>1. CASE n <= Acc(a)
    BY <1>3, <1>4, <1>5, <2>1 DEF Reach
  <2>2. CASE \E m \in rest[a] : n <= m
    BY <1>1, <1>3, <1>4, <1>5, <1>6, <2>2 DEF Reach
  <2> QED
    BY <1>4, <1>5, <1>7, <2>1, <2>2 DEF Reach
<1>8. \A n \in rest'[a] : n - 1 \in rest'[a] \/ n <= Acc(a)' + G(a)' + 1
  <2>1. ASSUME NEW n \in rest[a], n # M PROVE (n - 1 \in rest[a] /\ n - 1 # M) \/ n <= Acc(a) + 2
    BY <1>1, <1>4, <1>5, <1>6, <2>1 DEF Accounted, AccountedAt
  <2> QED
    BY <1>1, <1>3, <1>4, <1>5, <2>1
<1>9. ASSUME NEW i \in 1..Len(queue[a]) PROVE Reach(a, queue[a][i] - dropped[a] - H(a) - i)'
  <2>1. PICK n \in Int : n = queue[a][i] - dropped[a] - H(a) - i
    <3>1. queue[a][i] \in Nat /\ dropped[a] \in Nat /\ H(a) \in Int
      BY <1>4, Numbers DEF Structure
    <3> QED
      BY <3>1
  <2>2. Reach(a, n)
    BY <2>1 DEF Accounted, AccountedAt
  <2>3. Reach(a, n)'
    BY <1>7, <2>2
  <2>4. (queue[a][i] - dropped[a] - H(a) - i)' = n
    BY <1>2, <1>4, <2>1
  <2> QED
    BY <2>3, <2>4
<1>10. daemon' = "up" /\ a \in watched' => Reach(a, seq[a] - dropped[a] - H(a) - Len(queue[a]))'
  <2>1. PICK n \in Int : n = seq[a] - dropped[a] - H(a) - Len(queue[a])
    BY Numbers DEF Structure
  <2>2. (seq[a] - dropped[a] - H(a) - Len(queue[a]))' = n
    BY <1>2, <1>4, <2>1
  <2> QED
    BY <1>2, <1>7, <2>1, <2>2 DEF Accounted, AccountedAt
<1> QED
  BY <1>1, <1>2, <1>3, <1>5, <1>6, <1>8, <1>9, <1>10 DEF AccountedAt

\* A get task takes the oldest of its queue.
LEMMA TakeAccounted ==
    ASSUME Structure, Accounted, NEW a \in Account, Take(a)
    PROVE  AccountedAt(a)'
<1>1. /\ queue[a] # <<>> /\ hand[a] = None /\ hand'[a] = Head(queue[a]) /\ queue'[a] = Tail(queue[a])
      /\ UNCHANGED <<daemon, seq, watched, dropped, gap, rest, looked, tally>>
      /\ rest[a] = {} /\ gap[a] = None /\ looked = None
  <2>1. a \in getting /\ stream \in {"wait", "cancel"} /\ queue[a] # <<>>
    BY DEF Take
  <2>2. hand[a] = None
    BY <2>1 DEF Structure, StreamTypeOK, TaskOK
  <2>3. rest[a] = {} /\ gap[a] = None /\ looked = None
    BY <2>1 DEF Structure, StreamTypeOK, TaskOK
  <2>4. /\ hand'[a] = Head(queue[a]) /\ queue'[a] = Tail(queue[a])
        /\ UNCHANGED <<daemon, seq, watched, dropped, gap, rest, looked, tally>>
    BY DEF Take, bus, Structure, StreamTypeOK
  <2> QED
    BY <2>1, <2>2, <2>3, <2>4
<1>2. PICK len \in Nat \ {0} :
        /\ len = Len(queue[a]) /\ hand'[a] = queue[a][1] /\ queue[a][1] \in Nat
        /\ Len(queue'[a]) = len - 1 /\ \A i \in 1..(len - 1) : queue'[a][i] = queue[a][i + 1]
  <2>1. queue[a] \in Seq(Nat)
    BY Numbers DEF Structure
  <2>2. /\ Len(queue[a]) \in Nat \ {0} /\ Head(queue[a]) = queue[a][1] /\ queue[a][1] \in Nat
        /\ Len(Tail(queue[a])) = Len(queue[a]) - 1
        /\ \A i \in 1..Len(Tail(queue[a])) : Tail(queue[a])[i] = queue[a][i + 1]
    BY <1>1, <2>1, Tailed
  <2> QED
    BY <1>1, <2>2
<1>3. Acc(a)' = Acc(a) /\ Acc(a) \in Nat /\ dropped[a] \in Nat /\ seq[a] \in Nat
  BY <1>1, Numbers DEF Acc, Structure
<1>4. G(a) = 0 /\ G(a)' = 0 /\ H(a) = 0 /\ H(a)' = 1
  BY <1>1, <1>2, StreamAssumption DEF G, H
<1>5. \A n : Reach(a, n)' <=> Reach(a, n)
  BY <1>1, <1>3, <1>4 DEF Reach
<1>6. hand'[a] <= Acc(a) + 1 + dropped[a]
  <2>1. Reach(a, queue[a][1] - dropped[a] - H(a) - 1)
    BY <1>2 DEF Accounted, AccountedAt
  <2> QED
    BY <1>1, <1>2, <1>3, <1>4, <2>1 DEF Reach
<1>7. ASSUME NEW i \in 1..Len(queue'[a]) PROVE Reach(a, queue[a][i] - dropped[a] - H(a) - i)'
  <2>1. i + 1 \in 1..len /\ queue'[a][i] = queue[a][i + 1] /\ queue[a][i + 1] \in Nat
    BY <1>2, Numbers DEF Structure
  <2>2. PICK n \in Int : n = queue[a][i + 1] - dropped[a] - H(a) - (i + 1)
    BY <1>3, <1>4, <2>1
  <2>3. Reach(a, n)
    BY <1>2, <2>1, <2>2 DEF Accounted, AccountedAt
  <2>4. (queue[a][i] - dropped[a] - H(a) - i)' = n
    <3>1. PICK x \in Int, y \in Int : x = queue[a][i + 1] /\ y = dropped[a]
      BY <1>3, <2>1
    <3>2. n = x - y - 0 - (i + 1) /\ x - y - 1 - i = x - y - 0 - (i + 1) /\ i \in Int
      BY <1>4, <2>2, <3>1
    <3> QED
      BY <1>1, <1>4, <2>1, <3>1, <3>2
  <2> QED
    BY <1>5, <2>3, <2>4
<1>8. daemon' = "up" /\ a \in watched' => Reach(a, seq[a] - dropped[a] - H(a) - Len(queue[a]))'
  <2>1. PICK n \in Int : n = seq[a] - dropped[a] - H(a) - Len(queue[a])
    BY Numbers DEF Structure
  <2>2. (seq[a] - dropped[a] - H(a) - Len(queue[a]))' = n
    <3>1. PICK x \in Int, y \in Int : x = seq[a] /\ y = dropped[a]
      BY <1>3
    <3>2. x - y - 1 - (len - 1) = x - y - 0 - len
      BY <3>1
    <3> QED
      BY <1>1, <1>2, <1>4, <2>1, <3>1, <3>2
  <2> QED
    BY <1>1, <1>5, <2>1, <2>2 DEF Accounted, AccountedAt
<1>9. tally'[a].at <= Acc(a)'
  BY <1>1, <1>3 DEF Accounted, AccountedAt
<1>10. hand'[a] <= Acc(a)' + 1 + (IF looked' = a THEN 0 ELSE dropped'[a])
  BY <1>1, <1>3, <1>6, StreamAssumption
<1> QED
  BY <1>1, <1>7, <1>8, <1>9, <1>10 DEF AccountedAt

\* A step that counts what it takes from the hand or from what was dropped.
LEMMA Counted ==
    ASSUME Structure, Accounted, NEW a \in Account,
           UNCHANGED <<daemon, seq, watched, queue, gap, rest>>, rest[a] = {}, gap[a] = None,
           dropped'[a] \in Nat, H(a)' \in {0, 1}, Acc(a)' \in Nat,
           Acc(a)' + dropped'[a] + H(a)' >= Acc(a) + dropped[a] + H(a)
    PROVE  /\ \A n \in rest'[a] : n - 1 \in rest'[a] \/ n <= Acc(a)' + G(a)' + 1
           /\ \A i \in 1..Len(queue'[a]) : Reach(a, queue[a][i] - dropped[a] - H(a) - i)'
           /\ daemon' = "up" /\ a \in watched' => Reach(a, seq[a] - dropped[a] - H(a) - Len(queue[a]))'
<1>1. G(a) = 0 /\ G(a)' = 0 /\ Acc(a) \in Nat /\ dropped[a] \in Nat /\ H(a) \in {0, 1}
  BY Numbers DEF G, Structure
<1>2. PICK c \in Nat, d \in Nat, h \in Nat : c = Acc(a) /\ d = dropped[a] /\ h = H(a)
  BY <1>1
<1>3. PICK c1 \in Nat, d1 \in Nat, h1 \in Nat : c1 = Acc(a)' /\ d1 = dropped'[a] /\ h1 = H(a)'
  BY <1>1
<1>4. c1 + d1 + h1 >= c + d + h
  BY <1>2, <1>3
<1>5. ASSUME NEW x \in Int, NEW k \in Int, Reach(a, x - dropped[a] - H(a) - k)
      PROVE  x - dropped'[a] - H(a)' - k <= Acc(a)' + G(a)'
  <2>1. x - d - h - k <= c
    BY <1>1, <1>2, <1>5 DEF Reach
  <2>2. x - d1 - h1 - k <= c1
    BY <1>4, <2>1
  <2> QED
    BY <1>1, <1>3, <2>2
<1>6. ASSUME NEW i \in 1..Len(queue'[a]) PROVE Reach(a, queue[a][i] - dropped[a] - H(a) - i)'
  <2>1. queue[a][i] \in Int /\ i \in Int
    BY Numbers DEF Structure
  <2>2. Reach(a, queue[a][i] - dropped[a] - H(a) - i)
    BY DEF Accounted, AccountedAt
  <2> QED
    BY <1>5, <2>1, <2>2 DEF Reach
<1>7. daemon' = "up" /\ a \in watched' => Reach(a, seq[a] - dropped[a] - H(a) - Len(queue[a]))'
  <2>1. seq[a] \in Int /\ Len(queue[a]) \in Int
    BY Numbers DEF Structure
  <2>2. daemon = "up" /\ a \in watched => Reach(a, seq[a] - dropped[a] - H(a) - Len(queue[a]))
    BY DEF Accounted, AccountedAt
  <2> QED
    BY <1>5, <2>1, <2>2 DEF Reach
<1> QED
  BY <1>6, <1>7

\* A later get task is cancelled, or the event it took is thrown away and counted.
LEMMA CancelAccounted ==
    ASSUME Structure, Accounted, NEW a \in Account, CancelNext(a)
    PROVE  AccountedAt(a)'
<1>1. /\ UNCHANGED <<daemon, seq, watched, queue, gap, rest, dropped, looked>> /\ hand'[a] = None
      /\ rest[a] = {} /\ gap[a] = None /\ (hand[a] # None <=> a \notin getting)
  <2>1. a \in later /\ stream = "cancel" /\ a \notin done
    BY DEF CancelNext, Structure, TaskOK
  <2>2. /\ UNCHANGED <<daemon, seq, watched, queue, gap, rest, dropped, looked>> /\ hand'[a] = None
        /\ hand[a] # None <=> a \notin getting
    BY <2>1 DEF CancelNext, bus, Structure, StreamTypeOK
  <2>3. rest[a] = {} /\ gap[a] = None
    BY <2>1 DEF Structure, TaskOK
  <2> QED
    BY <2>2, <2>3
<1>2. H(a)' = 0 /\ H(a) = IF a \in getting THEN 0 ELSE 1
  BY <1>1 DEF H
<1>3. /\ tally'[a].at = tally[a].at /\ Acc(a) \in Nat
      /\ Acc(a)' = Acc(a) + H(a)
  <2>1. tally[a] \in Tally /\ tally \in [Account -> Tally]
    BY DEF Structure, StreamTypeOK
  <2>2. /\ tally'[a].at = tally[a].at /\ tally'[a].handled = tally[a].handled
        /\ tally'[a].from = tally[a].from /\ tally'[a].told = tally[a].told
        /\ tally'[a].hidden = tally[a].hidden
        /\ tally'[a].discarded = tally[a].discarded + H(a)
    BY <1>2, <2>1 DEF CancelNext, Tally
  <2>3. PICK h \in Nat : h = H(a)
    BY <1>2
  <2>4. Acc(a)' = Acc(a) + h /\ Acc(a) \in Nat
    BY <2>1, <2>2, <2>3 DEF Acc, Tally
  <2> QED
    BY <2>2, <2>3, <2>4
<1>4. dropped[a] \in Nat /\ tally[a].at \in Nat /\ tally[a].at <= Acc(a)
  BY Numbers DEF Structure, Accounted, AccountedAt
<1>5. H(a) \in {0, 1} /\ H(a)' \in {0, 1} /\ Acc(a)' \in Nat /\ tally'[a].at <= Acc(a)'
      /\ Acc(a)' + dropped'[a] + H(a)' >= Acc(a) + dropped[a] + H(a)
  BY <1>1, <1>2, <1>3, <1>4
<1> QED
  BY <1>1, <1>4, <1>5, Counted DEF AccountedAt

\* The lag is told before the event that is in hand.
LEMMA LagAccounted ==
    ASSUME Structure, Accounted, NEW a \in Account, TakeLag(a)
    PROVE  AccountedAt(a)'
<1>1. /\ UNCHANGED <<daemon, seq, watched, queue, gap, rest, hand>>
      /\ rest[a] = {} /\ gap[a] = None /\ looked = None /\ looked' = a /\ dropped'[a] = 0
  <2>1. stream = "serve"
    BY DEF TakeLag
  <2>2. /\ UNCHANGED <<daemon, seq, watched, queue, gap, rest, hand>>
        /\ looked = None /\ looked' = a /\ dropped'[a] = 0
    BY DEF TakeLag, bus, Structure, StreamTypeOK
  <2>3. rest[a] = {} /\ gap[a] = None
    BY <2>1 DEF Structure, TaskOK
  <2> QED
    BY <2>2, <2>3
<1>2. H(a)' = H(a)
  BY <1>1 DEF H
<1>3. tally'[a].at = tally[a].at /\ Acc(a)' = Acc(a) + dropped[a]
  <2>1. tally[a] \in Tally /\ tally \in [Account -> Tally] /\ dropped[a] \in Nat
    BY DEF Structure, StreamTypeOK
  <2>2. /\ tally'[a].at = tally[a].at /\ tally'[a].handled = tally[a].handled
        /\ tally'[a].from = tally[a].from /\ tally'[a].told = tally[a].told + dropped[a]
        /\ tally'[a].hidden = tally[a].hidden /\ tally'[a].discarded = tally[a].discarded
    BY <2>1 DEF TakeLag, Tally
  <2> QED
    BY <2>1, <2>2 DEF Acc, Tally
<1>4. /\ dropped[a] \in Nat /\ tally[a].at \in Nat /\ tally[a].at <= Acc(a) /\ H(a) \in {0, 1} /\ Acc(a) \in Nat
      /\ hand[a] # None => hand[a] \in Nat /\ hand[a] <= Acc(a) + 1 + dropped[a]
  BY <1>1, Numbers, StreamAssumption DEF Structure, Accounted, AccountedAt
<1>5. /\ H(a)' \in {0, 1} /\ Acc(a)' \in Nat /\ tally'[a].at <= Acc(a)'
      /\ Acc(a)' + dropped'[a] + H(a)' >= Acc(a) + dropped[a] + H(a)
      /\ hand'[a] # None => hand'[a] <= Acc(a)' + 1
  BY <1>1, <1>2, <1>3, <1>4
<1>6. Acc(a)' + 1 = Acc(a)' + 1 + (IF looked' = a THEN 0 ELSE dropped'[a])
  BY <1>1, <1>5
<1>7. dropped'[a] \in Nat
  BY <1>1
<1> QED
  BY <1>1, <1>5, <1>6, <1>7, Counted DEF AccountedAt

\* The event in hand is the next that is not accounted for, and is counted.
LEMMA ShowAccounted ==
    ASSUME Structure, Accounted, NEW a \in Account, Show(a)
    PROVE  AccountedAt(a)'
<1>1. /\ UNCHANGED <<daemon, seq, watched, queue, gap, rest, dropped>> /\ hand'[a] = None
      /\ rest[a] = {} /\ gap[a] = None /\ looked = a /\ hand[a] # None
  <2>1. stream = "serve" /\ looked = a /\ a \in done
    BY StreamAssumption DEF Show, Structure, StreamTypeOK
  <2>2. /\ UNCHANGED <<daemon, seq, watched, queue, gap, rest, dropped>> /\ hand'[a] = None
        /\ hand[a] # None
    BY <2>1 DEF Show, bus, Structure, StreamTypeOK
  <2>3. rest[a] = {} /\ gap[a] = None
    BY <2>1 DEF Structure, TaskOK
  <2> QED
    BY <2>1, <2>2, <2>3
<1>2. H(a) = 1 /\ H(a)' = 0
  BY <1>1 DEF H
<1>3. tally'[a].at = hand[a] /\ Acc(a)' = Acc(a) + 1
  <2>1. tally[a] \in Tally /\ tally \in [Account -> Tally]
    BY DEF Structure, StreamTypeOK
  <2>2. /\ tally'[a].at = hand[a] /\ tally'[a].handled = tally[a].handled + 1
        /\ tally'[a].from = tally[a].from /\ tally'[a].told = tally[a].told
        /\ tally'[a].hidden = tally[a].hidden /\ tally'[a].discarded = tally[a].discarded
    BY <2>1 DEF Show, Handle, Tally
  <2> QED
    BY <2>1, <2>2 DEF Acc, Tally
<1>4. dropped[a] \in Nat /\ Acc(a) \in Nat /\ hand[a] \in Nat /\ hand[a] <= Acc(a) + 1
  BY <1>1, Numbers DEF Structure, Accounted, AccountedAt
<1>5. /\ H(a)' \in {0, 1} /\ Acc(a)' \in Nat /\ tally'[a].at <= Acc(a)'
      /\ Acc(a)' + dropped'[a] + H(a)' >= Acc(a) + dropped[a] + H(a)
  BY <1>1, <1>2, <1>3, <1>4
<1> QED
  BY <1>1, <1>4, <1>5, Counted DEF AccountedAt

\* The gap frame tells what was still to be told.
LEMMA GapAccounted ==
    ASSUME Structure, Accounted, NEW a \in Account, TellGap(a)
    PROVE  AccountedAt(a)'
<1>1. /\ UNCHANGED <<daemon, seq, watched, queue, rest, dropped, hand, looked>>
      /\ gap[a] # None /\ gap'[a] = None
  BY DEF TellGap, bus, Structure, StreamTypeOK
<1>2. H(a)' = H(a) /\ G(a) = gap[a] /\ G(a)' = 0 /\ gap[a] \in Nat
  BY <1>1, Numbers DEF H, G, Structure
<1>3. tally'[a].at = tally[a].at /\ Acc(a)' = Acc(a) + gap[a]
  <2>1. tally[a] \in Tally /\ tally \in [Account -> Tally]
    BY DEF Structure, StreamTypeOK
  <2>2. /\ tally'[a].at = tally[a].at /\ tally'[a].handled = tally[a].handled
        /\ tally'[a].from = tally[a].from /\ tally'[a].told = tally[a].told + gap[a]
        /\ tally'[a].hidden = tally[a].hidden /\ tally'[a].discarded = tally[a].discarded
    BY <2>1 DEF TellGap, Tally
  <2> QED
    BY <1>2, <2>1, <2>2 DEF Acc, Tally
<1>4. /\ Acc(a) \in Nat /\ Acc(a)' + G(a)' = Acc(a) + G(a) /\ Acc(a) <= Acc(a)' /\ Acc(a)' \in Nat
      /\ dropped[a] \in Nat /\ tally[a].at \in Nat /\ tally[a].at <= Acc(a)
      /\ hand[a] # None => hand[a] \in Nat
  BY <1>2, <1>3, Numbers DEF Structure, Accounted, AccountedAt
<1>5. \A n : Reach(a, n)' <=> Reach(a, n)
  BY <1>1, <1>4 DEF Reach
<1>6. tally'[a].at <= Acc(a)'
  BY <1>3, <1>4
<1>7. hand'[a] # None => hand'[a] <= Acc(a)' + 1 + (IF looked' = a THEN 0 ELSE dropped'[a])
  <2>1. PICK k \in Nat : k = IF looked = a THEN 0 ELSE dropped[a]
    BY <1>4
  <2>2. hand[a] # None => hand[a] <= Acc(a) + 1 + k
    BY <2>1 DEF Accounted, AccountedAt
  <2>3. hand[a] # None => hand[a] <= Acc(a)' + 1 + k
    BY <1>4, <2>1, <2>2
  <2> QED
    BY <1>1, <2>1, <2>3
<1>8. \A n \in rest'[a] : n - 1 \in rest'[a] \/ n <= Acc(a)' + G(a)' + 1
  BY <1>1, <1>4 DEF Accounted, AccountedAt
<1> QED
  BY <1>1, <1>2, <1>5, <1>6, <1>7, <1>8 DEF Accounted, AccountedAt

\* A new stream: what the ring has after the cursor is contiguous, the gap frame has what lies
\* before it, and an empty ring hides the rest.
LEMMA SubscribeAccounted ==
    ASSUME Structure, NEW accounts \in SUBSET Account, NEW resume \in BOOLEAN,
           Subscribe(accounts, resume), NEW a \in Account
    PROVE  AccountedAt(a)'
<1> DEFINE c == IF resume /\ a \in accounts THEN cursor[a] ELSE None
<1>1. /\ UNCHANGED <<daemon, seq, ring, queue, dropped, hand, looked>> /\ hand[a] = None /\ queue[a] = <<>>
      /\ gap'[a] = Lost(a, c) /\ rest'[a] = Replayed(a, c)
      /\ tally'[a] = [Clear EXCEPT !.from = IF c = None THEN seq[a] ELSE c,
                                   !.at = IF c = None THEN seq[a] ELSE c, !.hidden = Hidden(a, c)]
  <2>1. UNCHANGED <<daemon, seq, ring, queue, dropped, hand, looked>> /\ stream = "closed"
    BY DEF Subscribe, bus, Open
  <2>2. hand[a] = None /\ queue[a] = <<>>
    BY <2>1 DEF Structure, StreamTypeOK, TaskOK, Empty
  <2>3. /\ gap'[a] = Lost(a, c) /\ rest'[a] = Replayed(a, c)
        /\ tally'[a] = [Clear EXCEPT !.from = IF c = None THEN seq[a] ELSE c,
                                     !.at = IF c = None THEN seq[a] ELSE c, !.hidden = Hidden(a, c)]
    BY DEF Subscribe
  <2> QED
    BY <2>1, <2>2, <2>3
<1>2. /\ c \in Nat \cup {None} /\ seq[a] \in Nat /\ ring[a] \in SUBSET Nat /\ dropped[a] \in Nat
  BY Numbers DEF Structure
<1> HIDE DEF c
<1>3. PICK from \in Nat : from = IF c = None THEN seq[a] ELSE c
  BY <1>2
<1>4. PICK hidden \in Nat : hidden = Hidden(a, c)
  BY <1>2 DEF Hidden
<1>5. tally'[a].at = from /\ Acc(a)' = from + hidden
  <2>1. tally'[a] = [from |-> from, at |-> from, handled |-> 0, told |-> 0, hidden |-> hidden, discarded |-> 0]
    BY <1>1, <1>3, <1>4 DEF Clear
  <2> QED
    BY <2>1 DEF Acc
<1>6. H(a)' = 0 /\ G(a)' \in Nat
  BY <1>1, <1>2, OldestIsLeast DEF H, G, Lost
<1>7. /\ \A n \in rest'[a] : n - 1 \in rest'[a] \/ n <= from + hidden + G(a)' + 1
      /\ seq[a] <= from + hidden \/ seq[a] \in rest'[a]
  <2>1. CASE c = None
    BY <1>1, <1>2, <1>3, <2>1 DEF Replayed
  <2>2. CASE c # None /\ ring[a] = {}
    BY <1>1, <1>2, <1>3, <1>4, <2>2 DEF Replayed, Hidden
  <2>3. CASE c # None /\ ring[a] # {}
    <3> DEFINE O == Oldest(ring[a])
    <3>1. O \in ring[a] /\ O \in Nat /\ \A n \in ring[a] : O <= n
      BY <1>2, <2>3, OldestIsLeast
    <3>2. gap'[a] = IF c + 1 >= O THEN None ELSE O - c - 1
      BY <1>1, <2>3 DEF Lost
    <3>3. rest'[a] = {n \in ring[a] : n > c} /\ from = c /\ c \in Nat
      BY <1>1, <1>2, <1>3, <2>3 DEF Replayed
    <3> HIDE DEF O
    <3>4. G(a)' = IF c + 1 >= O THEN 0 ELSE O - c - 1
      <4>1. CASE c + 1 >= O
        BY <3>2, <4>1 DEF G
      <4>2. CASE ~(c + 1 >= O)
        <5>1. gap'[a] = O - c - 1 /\ gap'[a] \in Nat
          BY <3>1, <3>2, <3>3, <4>2
        <5> QED
          BY <4>2, <5>1, StreamAssumption DEF G
      <4> QED
        BY <4>1, <4>2
    <3>5. \A n \in ring[a] : n > O => n - 1 \in ring[a]
      BY <1>2, <3>1 DEF Structure, RingOK
    <3>6. seq[a] \in ring[a]
      BY <2>3 DEF Structure, RingOK
    <3>7. ASSUME NEW n \in ring[a], n > c, n > c + hidden + G(a)' + 1
          PROVE  n - 1 \in ring[a] /\ n - 1 > c
      BY <1>2, <3>1, <3>3, <3>4, <3>5, <3>7
    <3> QED
      BY <1>2, <1>6, <3>3, <3>6, <3>7
  <2> QED
    BY <2>1, <2>2, <2>3
<1>8. Reach(a, seq[a] - dropped[a] - H(a) - Len(queue[a]))'
  <2>1. (seq[a] - dropped[a] - H(a) - Len(queue[a]))' = seq[a] - dropped[a]
    BY <1>1, <1>2, <1>6
  <2>2. seq[a] - dropped[a] <= from + hidden + G(a)' \/ \E m \in rest'[a] : seq[a] - dropped[a] <= m
    BY <1>2, <1>6, <1>7
  <2> QED
    BY <1>5, <2>1, <2>2 DEF Reach
<1> QED
  BY <1>1, <1>5, <1>7, <1>8 DEF AccountedAt

LEMMA EndAccounted ==
    ASSUME EndStream, NEW a \in Account
    PROVE  AccountedAt(a)'
<1>1. /\ tally'[a] = Clear /\ rest'[a] = {} /\ hand'[a] = None /\ queue'[a] = <<>> /\ a \notin watched'
  BY DEF EndStream, Nothing, Empty
<1>2. Acc(a)' = 0 /\ tally'[a].at = 0
  BY <1>1 DEF Acc, Clear
<1> QED
  BY <1>1, <1>2 DEF AccountedAt

LEMMA InitAccounted == Init => Accounted
<1> SUFFICES ASSUME Init, NEW a \in Account PROVE AccountedAt(a)
  BY DEF Accounted
<1>1. /\ tally[a] = Clear /\ rest[a] = {} /\ hand[a] = None /\ queue[a] = <<>> /\ a \notin watched
  BY DEF Init, Nothing, Empty
<1>2. Acc(a) = 0 /\ tally[a].at = 0
  BY <1>1 DEF Acc, Clear
<1> QED
  BY <1>1, <1>2 DEF AccountedAt

\* Every step keeps what is on its way to the watcher within what its tally accounts for.
LEMMA NextAccounted == Structure /\ Accounted /\ [Next]_vars => Accounted'
<1> SUFFICES ASSUME Structure, Accounted, [Next]_vars PROVE Accounted'
  OBVIOUS
<1>0. ASSUME NEW a \in Account, AccountedAt(a)',
             \A b \in Account \ {a} :
                  /\ tally'[b] = tally[b] /\ gap'[b] = gap[b] /\ rest'[b] = rest[b] /\ hand'[b] = hand[b]
                  /\ queue'[b] = queue[b] /\ dropped'[b] = dropped[b] /\ seq'[b] = seq[b],
             UNCHANGED <<daemon, watched>>, \A b \in Account \ {a} : looked' = b <=> looked = b
      PROVE  Accounted'
  <2>1. ASSUME NEW b \in Account, b # a PROVE AccountedAt(b)'
    BY <1>0, <2>1, AccountedFrame DEF Accounted
  <2> QED
    BY <1>0, <2>1 DEF Accounted
<1>1. ASSUME NEW a \in Account, TellGap(a) PROVE Accounted'
  BY <1>0, <1>1, GapAccounted DEF TellGap, bus, Structure, StreamTypeOK
<1>2. ASSUME NEW a \in Account, ReplayOne(a) PROVE Accounted'
  BY <1>0, <1>2, ReplayAccounted DEF ReplayOne, Handle, bus, Structure, StreamTypeOK
<1>3. ASSUME NEW a \in Account, Take(a) PROVE Accounted'
  BY <1>0, <1>3, TakeAccounted DEF Take, bus, Structure, StreamTypeOK
<1>4. ASSUME NEW a \in Account, CancelNext(a) PROVE Accounted'
  BY <1>0, <1>4, CancelAccounted DEF CancelNext, bus, Structure, StreamTypeOK
<1>5. ASSUME NEW a \in Account, TakeLag(a) PROVE Accounted'
  BY <1>0, <1>5, LagAccounted, StreamAssumption DEF TakeLag, bus, Structure, StreamTypeOK
<1>6. ASSUME NEW a \in Account, Show(a) PROVE Accounted'
  <2>1. /\ tally' = [tally EXCEPT ![a].handled = @ + 1, ![a].at = hand[a]]
        /\ hand' = [hand EXCEPT ![a] = None] /\ looked = a /\ looked' = None
        /\ UNCHANGED <<daemon, seq, watched, queue, gap, rest, dropped>>
    BY <1>6 DEF Show, Handle, bus
  <2>2. \A b \in Account \ {a} : tally'[b] = tally[b] /\ hand'[b] = hand[b]
    BY <2>1 DEF Structure, StreamTypeOK
  <2> QED
    BY <1>0, <1>6, <2>1, <2>2, ShowAccounted, StreamAssumption
<1>7. ASSUME NEW accounts \in SUBSET Account, NEW resume \in BOOLEAN, Subscribe(accounts, resume) PROVE Accounted'
  BY <1>7, SubscribeAccounted DEF Accounted
<1>8. CASE EndStream
  BY <1>8, EndAccounted DEF Accounted
<1>9. CASE Boot
  <2>1. watched' = {} /\ UNCHANGED <<tally, gap, rest, hand, queue, dropped, looked>>
    BY <1>9 DEF Boot, watcher, Structure, TaskOK
  <2> QED
    BY <2>1, AccountedFrame DEF Accounted
<1>10. CASE /\ UNCHANGED <<seq, watched, queue, dropped, gap, rest, hand, looked, tally>>
            /\ daemon' = "up" => daemon = "up"
  BY <1>10, AccountedFrame DEF Accounted
<1> QED
  BY <1>1, <1>2, <1>3, <1>4, <1>5, <1>6, <1>7, <1>8, <1>9, <1>10, EmitAccounted
     DEF Next, Flush, Stop, Exit, Crash, Wait, Wake, Serve, Close, bus, watcher, vars

LEMMA AccountedIsEnough == Structure /\ Accounted => NoSilentLoss
<1> SUFFICES ASSUME Structure, Accounted, NEW a \in Account
             PROVE  LET t == tally[a] IN t.at - t.from <= t.handled + t.told + t.hidden + t.discarded
  BY DEF NoSilentLoss
<1>1. tally[a] \in Tally /\ tally[a].at <= Acc(a)
  BY Numbers DEF Structure, Accounted, AccountedAt
<1> QED
  BY <1>1 DEF Acc, Tally

\* Always, up to the event a stream is at, every number was looked at, or told in a gap or lag
\* frame, or is one of those that an empty ring hides or that `watch` throws away with the
\* result of a get task: there is no other way an event of the bus can miss a watcher.
THEOREM NothingLostSilently == Spec => []NoSilentLoss
<1>1. Init => Structure /\ Accounted
  BY InitStructure, InitAccounted
<1>2. Structure /\ Accounted /\ [Next]_vars => (Structure /\ Accounted)'
  BY NextStructure, NextAccounted
<1>3. Structure /\ Accounted => NoSilentLoss
  BY AccountedIsEnough
<1> QED
  BY <1>1, <1>2, <1>3, PTL DEF Spec

-----------------------------------------------------------------------------
(* Numbers go up *)

\* What the daemon counts on from.
Bound(a) == IF daemon = "up" THEN seq[a] ELSE file[a]

\* A number that was not saved is marked; what the watcher was shown is within the bound; what
\* is on its way to it is newer than what it was shown, and in order.
OrderedAt(a) ==
    /\ daemon = "up" => a \in dirty \/ file[a] = seq[a]
    /\ daemon # "down" => file[a] <= seq[a]
    /\ cursor[a] <= Bound(a) /\ tally[a].at <= Bound(a)
    /\ \A n \in rest[a] : tally[a].at < n /\ n <= Bound(a)
    /\ hand[a] # None => tally[a].at < hand[a] /\ hand[a] <= Bound(a)
    /\ \A i \in 1..Len(queue[a]) :
         /\ tally[a].at < queue[a][i] /\ queue[a][i] <= Bound(a)
         /\ \A n \in rest[a] : n < queue[a][i]
         /\ hand[a] # None => hand[a] < queue[a][i]
         /\ \A j \in 1..Len(queue[a]) : i < j => queue[a][i] < queue[a][j]

Ordered == spent.faults = 0 => \A a \in Account : OrderedAt(a)

\* A step that does not touch the account's watcher and keeps or raises its bound.
LEMMA OrderedFrame ==
    ASSUME NEW a \in Account, StreamTypeOK, OrderedAt(a), seq'[a] \in Nat, file'[a] \in Nat,
           daemon' = "up" => a \in dirty' \/ file'[a] = seq'[a],
           daemon' # "down" => file'[a] <= seq'[a],
           Bound(a)' >= Bound(a),
           tally'[a] = tally[a], rest'[a] = rest[a], hand'[a] = hand[a],
           queue'[a] = queue[a], cursor'[a] = cursor[a]
    PROVE  OrderedAt(a)'
<1>1. PICK b \in Nat, b1 \in Nat : b = Bound(a) /\ b1 = Bound(a)' /\ b <= b1
  BY Numbers DEF Bound
<1>2. /\ cursor[a] \in Nat /\ tally[a].at \in Nat /\ rest[a] \in SUBSET Nat
      /\ hand[a] # None => hand[a] \in Nat
      /\ \A i \in 1..Len(queue[a]) : queue[a][i] \in Nat
  BY Numbers
<1>3. cursor[a] <= b1 /\ tally[a].at <= b1 /\ \A n \in rest[a] : n <= b1
  BY <1>1, <1>2 DEF OrderedAt
<1>4. /\ hand[a] # None => hand[a] <= b1
      /\ \A i \in 1..Len(queue[a]) : queue[a][i] <= b1
  BY <1>1, <1>2 DEF OrderedAt
<1> QED
  BY <1>1, <1>3, <1>4 DEF OrderedAt

LEMMA EmitOrdered ==
    ASSUME Structure, \A b \in Account : OrderedAt(b), NEW a \in Account, Emit(a)
    PROVE  \A b \in Account : OrderedAt(b)'
<1>1. UNCHANGED <<daemon, file, watched, rest, hand, tally, cursor>> /\ dirty' = dirty \cup {a} /\ daemon # "down"
  BY DEF Emit, watcher
<1>2. seq'[a] = seq[a] + 1 /\ seq[a] \in Nat /\ file[a] \in Nat /\ file[a] <= seq[a]
  BY <1>1, Numbers DEF Emit, Structure, StreamTypeOK, OrderedAt
<1>3. \A b \in Account \ {a} : seq'[b] = seq[b] /\ queue'[b] = queue[b]
  BY DEF Emit, Offer, Structure, StreamTypeOK
<1>4. Bound(a)' \in Nat /\ Bound(a) \in Nat /\ Bound(a)' >= Bound(a) /\ (daemon = "up" => Bound(a)' = Bound(a) + 1)
  BY <1>1, <1>2 DEF Bound
<1>5. ASSUME NEW b \in Account \ {a} PROVE OrderedAt(b)'
  <2>1. Bound(b)' = Bound(b) /\ Bound(b) \in Nat
    BY <1>1, <1>3, Numbers DEF Bound, Structure
  <2>2. OrderedAt(b) /\ seq'[b] = seq[b] /\ seq[b] \in Nat /\ file[b] \in Nat /\ file' = file
    BY <1>1, <1>3, Numbers DEF Structure
  <2>3. daemon' = "up" => b \in dirty' \/ file'[b] = seq'[b]
    BY <1>1, <2>2 DEF OrderedAt
  <2>4. daemon' # "down" => file'[b] <= seq'[b]
    BY <1>1, <2>2 DEF OrderedAt
  <2> QED
    BY <1>1, <1>3, <2>1, <2>2, <2>3, <2>4, OrderedFrame DEF Structure
<1>6. CASE a \in watched /\ daemon = "up"
  <2> DEFINE t == queue'[a]
  <2>1. t = Append(IF Len(queue[a]) = QueueSize THEN Tail(queue[a]) ELSE queue[a], seq[a] + 1)
    BY <1>6 DEF Emit, Offer, Structure, StreamTypeOK
  <2>2. PICK d \in {0, 1} :
          /\ d = (IF Len(queue[a]) = QueueSize THEN 1 ELSE 0)
          /\ Len(t) = Len(queue[a]) - d + 1 /\ Len(queue[a]) - d \in Nat
          /\ \A i \in 1..(Len(queue[a]) - d) : t[i] = queue[a][i + d]
          /\ t[Len(queue[a]) - d + 1] = seq[a] + 1
    <3>1. queue[a] \in Seq(Nat) /\ seq[a] + 1 \in Nat
      BY Numbers DEF Structure
    <3> HIDE DEF t
    <3> QED
      BY <2>1, <3>1, StreamAssumption, Pushed
  <2> HIDE DEF t
  <2>3. PICK len \in Nat : len = Len(queue[a])
    BY Numbers DEF Structure
  <2>4. Bound(a) = seq[a] /\ Bound(a)' = seq[a] + 1
    BY <1>1, <1>2, <1>6 DEF Bound
  <2>5. /\ tally[a].at \in Nat /\ rest[a] \in SUBSET Nat /\ cursor[a] \in Nat
        /\ hand[a] # None => hand[a] \in Nat
        /\ tally[a].at <= seq[a] /\ cursor[a] <= seq[a]
        /\ \A n \in rest[a] : tally[a].at < n /\ n <= seq[a]
        /\ hand[a] # None => tally[a].at < hand[a] /\ hand[a] <= seq[a]
    BY <2>4, Numbers DEF Structure, OrderedAt
  <2>0. d \in Nat /\ len - d \in Nat /\ Len(t) = len - d + 1
    BY <2>2, <2>3
  <2>6. ASSUME NEW i \in 1..Len(t), i <= len - d
        PROVE  /\ i + d \in 1..len /\ t[i] = queue[a][i + d] /\ t[i] \in Nat
               /\ tally[a].at < t[i] /\ t[i] <= seq[a]
               /\ \A n \in rest[a] : n < t[i]
               /\ hand[a] # None => hand[a] < t[i]
    <3>0. i \in Nat /\ 1 <= i /\ i \in 1..(len - d)
      BY <2>0, <2>6
    <3>1. i + d \in 1..len /\ t[i] = queue[a][i + d]
      <4>1. t[i] = queue[a][i + d]
        BY <2>2, <2>3, <3>0
      <4>2. i + d \in 1..len
        BY <2>0, <3>0
      <4> QED
        BY <4>1, <4>2
    <3> QED
      BY <2>3, <2>4, <3>1, Numbers DEF Structure, OrderedAt
  <2>7. t[len - d + 1] = seq[a] + 1 /\ Len(t) = len - d + 1
    BY <2>2, <2>3
  <2>8. ASSUME NEW i \in 1..Len(t)
        PROVE  /\ t[i] \in Nat /\ tally[a].at < t[i] /\ t[i] <= seq[a] + 1
               /\ \A n \in rest[a] : n < t[i]
               /\ hand[a] # None => hand[a] < t[i]
    <3>1. CASE i <= len - d
      BY <1>2, <2>6, <3>1
    <3>2. CASE i = len - d + 1
      BY <1>2, <2>5, <2>7, <3>2
    <3> QED
      BY <2>0, <3>1, <3>2
  <2>9. ASSUME NEW i \in 1..Len(t), NEW j \in 1..Len(t), i < j PROVE t[i] < t[j]
    <3>1. i <= len - d
      BY <2>0, <2>9
    <3>2. CASE j <= len - d
      <4>1. i + d \in 1..Len(queue[a]) /\ j + d \in 1..Len(queue[a]) /\ i + d < j + d
        BY <2>0, <2>3, <2>6, <2>9, <3>1, <3>2
      <4>2. queue[a][i + d] < queue[a][j + d]
        BY <4>1 DEF OrderedAt
      <4> QED
        BY <2>6, <3>1, <3>2, <4>2
    <3>3. CASE j = len - d + 1
      BY <1>2, <2>6, <2>7, <3>1, <3>3
    <3> QED
      BY <2>0, <2>7, <3>2, <3>3
  <2>10. /\ cursor[a] <= seq[a] + 1 /\ tally[a].at <= seq[a] + 1
         /\ \A n \in rest[a] : tally[a].at < n /\ n <= seq[a] + 1
         /\ hand[a] # None => tally[a].at < hand[a] /\ hand[a] <= seq[a] + 1
    BY <1>2, <2>5
  <2>11. OrderedAt(a)'
    BY <1>1, <1>2, <2>4, <2>8, <2>9, <2>10 DEF OrderedAt, t
  <2> QED
    BY <1>5, <2>11
<1>7. CASE ~(a \in watched /\ daemon = "up")
  <2>1. queue'[a] = queue[a]
    BY <1>7 DEF Emit, Offer
  <2>2. OrderedAt(a)'
    BY <1>1, <1>2, <1>4, <2>1, OrderedFrame DEF Structure
  <2> QED
    BY <1>5, <2>2
<1> QED
  BY <1>6, <1>7

LEMMA ReplayOrdered ==
    ASSUME Structure, NEW a \in Account, OrderedAt(a), ReplayOne(a)
    PROVE  OrderedAt(a)' /\ tally'[a].at > tally[a].at
<1> DEFINE M == Oldest(rest[a])
<1>1. /\ M \in rest[a] /\ M \in Nat /\ \A n \in rest[a] : M <= n
      /\ rest'[a] = rest[a] \ {M} /\ hand[a] = None
  <2>1. rest[a] # {} /\ rest[a] \in SUBSET Nat /\ stream = "replay"
    BY Numbers DEF ReplayOne, Structure
  <2>2. hand[a] = None
    BY <2>1 DEF Structure, StreamTypeOK
  <2>3. rest'[a] = rest[a] \ {M}
    BY DEF ReplayOne, Structure, StreamTypeOK
  <2> QED
    BY <2>1, <2>2, <2>3, OldestIsLeast
<1>2. UNCHANGED <<daemon, seq, file, dirty, queue, hand>>
  BY DEF ReplayOne, bus
<1> HIDE DEF M
<1>3. tally'[a].at = M /\ cursor'[a] \in {cursor[a], M}
  <2>1. tally' = [tally EXCEPT ![a].handled = @ + 1, ![a].at = M]
    BY DEF ReplayOne, Handle, M
  <2>2. tally[a] \in Tally /\ tally \in [Account -> Tally] /\ cursor \in [Account -> Nat]
    BY DEF Structure, StreamTypeOK
  <2>3. tally'[a].at = M
    BY <2>1, <2>2 DEF Tally
  <2>4. \E shown \in BOOLEAN : cursor' = IF shown THEN [cursor EXCEPT ![a] = M] ELSE cursor
    BY DEF ReplayOne, Handle, M
  <2> QED
    BY <2>2, <2>3, <2>4
<1>4. Bound(a)' = Bound(a) /\ M <= Bound(a) /\ cursor[a] <= Bound(a) /\ tally[a].at < M
  BY <1>1, <1>2 DEF Bound, OrderedAt
<1>5. \A n \in rest'[a] : M < n /\ n <= Bound(a)
  BY <1>1, Numbers DEF OrderedAt, Structure
<1>6. \A i \in 1..Len(queue[a]) : M < queue[a][i] /\ \A n \in rest'[a] : n < queue[a][i]
  BY <1>1 DEF OrderedAt
<1>7. tally[a].at \in Nat
  BY Numbers DEF Structure
<1> QED
  BY <1>1, <1>2, <1>3, <1>4, <1>5, <1>6, <1>7 DEF OrderedAt

LEMMA TakeOrdered ==
    ASSUME Structure, NEW a \in Account, OrderedAt(a), Take(a)
    PROVE  OrderedAt(a)'
<1>1. /\ queue[a] # <<>> /\ hand'[a] = Head(queue[a]) /\ queue'[a] = Tail(queue[a])
      /\ UNCHANGED <<daemon, seq, file, dirty, rest, tally, cursor>> /\ rest[a] = {}
  <2>1. stream \in {"wait", "cancel"}
    BY DEF Take
  <2>2. rest[a] = {}
    BY <2>1 DEF Structure, TaskOK
  <2> QED
    BY <2>2 DEF Take, bus, Structure, StreamTypeOK
<1>2. PICK len \in Nat \ {0} :
        /\ len = Len(queue[a]) /\ hand'[a] = queue[a][1] /\ queue[a][1] \in Nat
        /\ Len(queue'[a]) = len - 1 /\ \A i \in 1..(len - 1) : queue'[a][i] = queue[a][i + 1]
  <2>1. queue[a] \in Seq(Nat)
    BY Numbers DEF Structure
  <2>2. /\ Len(queue[a]) \in Nat \ {0} /\ Head(queue[a]) = queue[a][1] /\ queue[a][1] \in Nat
        /\ Len(Tail(queue[a])) = Len(queue[a]) - 1
        /\ \A i \in 1..Len(Tail(queue[a])) : Tail(queue[a])[i] = queue[a][i + 1]
    BY <1>1, <2>1, Tailed
  <2> QED
    BY <1>1, <2>2
<1>3. Bound(a)' = Bound(a)
  BY <1>1 DEF Bound
<1>4. \A i \in 1..(len - 1) : i + 1 \in 1..len
  BY <1>2
<1>5. ASSUME NEW i \in 1..(len - 1)
      PROVE  /\ tally[a].at < queue'[a][i] /\ queue'[a][i] <= Bound(a) /\ hand'[a] < queue'[a][i]
             /\ \A j \in 1..(len - 1) : i < j => queue'[a][i] < queue'[a][j]
  <2>1. 1 \in 1..len /\ i + 1 \in 1..len /\ 1 < i + 1
    BY <1>2, <1>4
  <2>2. /\ tally[a].at < queue[a][i + 1] /\ queue[a][i + 1] <= Bound(a) /\ queue[a][1] < queue[a][i + 1]
    BY <1>2, <2>1 DEF OrderedAt
  <2>3. \A j \in 1..(len - 1) : i < j => queue[a][i + 1] < queue[a][j + 1]
    BY <1>2, <1>4, <2>1 DEF OrderedAt
  <2> QED
    BY <1>2, <2>2, <2>3
<1>6. tally[a].at < hand'[a] /\ hand'[a] <= Bound(a)
  <2>1. 1 \in 1..len
    BY <1>2
  <2> QED
    BY <1>2, <2>1 DEF OrderedAt
<1> QED
  BY <1>1, <1>2, <1>3, <1>5, <1>6 DEF OrderedAt

LEMMA ShowOrdered ==
    ASSUME Structure, NEW a \in Account, OrderedAt(a), Show(a)
    PROVE  OrderedAt(a)' /\ tally'[a].at > tally[a].at
<1>1. /\ UNCHANGED <<daemon, seq, file, dirty, queue, rest>> /\ hand'[a] = None
      /\ rest[a] = {} /\ hand[a] \in Nat
  <2>1. stream = "serve" /\ looked = a /\ a \in done
    BY StreamAssumption DEF Show, Structure, StreamTypeOK
  <2>2. UNCHANGED <<daemon, seq, file, dirty, queue, rest>> /\ hand'[a] = None /\ hand[a] # None
    BY <2>1 DEF Show, bus, Structure, StreamTypeOK
  <2> QED
    BY <2>1, <2>2, Numbers DEF Structure, TaskOK
<1>2. tally'[a].at = hand[a] /\ cursor'[a] \in {cursor[a], hand[a]}
  <2>1. tally' = [tally EXCEPT ![a].handled = @ + 1, ![a].at = hand[a]]
    BY DEF Show, Handle
  <2>2. tally[a] \in Tally /\ tally \in [Account -> Tally] /\ cursor \in [Account -> Nat]
    BY DEF Structure, StreamTypeOK
  <2>3. tally'[a].at = hand[a]
    BY <2>1, <2>2 DEF Tally
  <2>4. \E shown \in BOOLEAN : cursor' = IF shown THEN [cursor EXCEPT ![a] = hand[a]] ELSE cursor
    BY DEF Show, Handle
  <2> QED
    BY <2>2, <2>3, <2>4
<1>3. Bound(a)' = Bound(a) /\ hand[a] # None /\ tally[a].at < hand[a] /\ hand[a] <= Bound(a)
  BY <1>1, StreamAssumption DEF Bound, OrderedAt
<1>4. \A i \in 1..Len(queue[a]) : hand[a] < queue[a][i]
  BY <1>3 DEF OrderedAt
<1>5. tally[a].at \in Nat
  BY Numbers DEF Structure
<1> QED
  BY <1>1, <1>2, <1>3, <1>4, <1>5 DEF OrderedAt

LEMMA SubscribeOrdered ==
    ASSUME Structure, NEW accounts \in SUBSET Account, NEW resume \in BOOLEAN,
           Subscribe(accounts, resume), NEW a \in Account, OrderedAt(a)
    PROVE  OrderedAt(a)'
<1> DEFINE c == IF resume /\ a \in accounts THEN cursor[a] ELSE None
<1>1. /\ UNCHANGED <<daemon, seq, file, dirty, queue, hand, cursor>> /\ hand[a] = None /\ queue[a] = <<>>
      /\ rest'[a] = Replayed(a, c) /\ daemon = "up"
      /\ tally'[a] = [Clear EXCEPT !.from = IF c = None THEN seq[a] ELSE c,
                                   !.at = IF c = None THEN seq[a] ELSE c, !.hidden = Hidden(a, c)]
  <2>1. UNCHANGED <<daemon, seq, file, dirty, queue, hand, cursor>> /\ stream = "closed" /\ daemon = "up"
    BY DEF Subscribe, bus, Open
  <2>2. hand[a] = None /\ queue[a] = <<>>
    BY <2>1 DEF Structure, StreamTypeOK, TaskOK, Empty
  <2>3. /\ rest'[a] = Replayed(a, c)
        /\ tally'[a] = [Clear EXCEPT !.from = IF c = None THEN seq[a] ELSE c,
                                     !.at = IF c = None THEN seq[a] ELSE c, !.hidden = Hidden(a, c)]
    BY DEF Subscribe
  <2> QED
    BY <2>1, <2>2, <2>3
<1>2. /\ c \in {cursor[a], None} /\ seq[a] \in Nat /\ ring[a] \in SUBSET Nat /\ cursor[a] \in Nat
  BY Numbers DEF Structure
<1> HIDE DEF c
<1>3. Bound(a) = seq[a] /\ Bound(a)' = seq[a]
  BY <1>1 DEF Bound
<1>4. cursor[a] <= seq[a]
  BY <1>3 DEF OrderedAt
<1>5. PICK at \in Nat : at = IF c = None THEN seq[a] ELSE c
  BY <1>2
<1>6. tally'[a].at = at /\ at <= seq[a]
  BY <1>1, <1>2, <1>4, <1>5 DEF Clear
<1>7. \A n \in rest'[a] : at < n /\ n <= seq[a]
  <2>1. CASE c = None
    BY <1>1, <2>1 DEF Replayed
  <2>2. CASE c # None
    BY <1>1, <1>2, <1>5, <2>2 DEF Replayed, Structure, RingOK
  <2> QED
    BY <2>1, <2>2
<1> QED
  BY <1>1, <1>3, <1>4, <1>6, <1>7 DEF OrderedAt

\* The stream ends: nothing is on its way.
LEMMA EndOrdered ==
    ASSUME StreamTypeOK, EndStream, UNCHANGED <<seq, file, dirty, cursor>>, NEW a \in Account, OrderedAt(a),
           daemon' = daemon \/ (daemon = "stopping" /\ daemon' = "down")
    PROVE  OrderedAt(a)'
<1>1. /\ tally'[a] = Clear /\ rest'[a] = {} /\ hand'[a] = None /\ queue'[a] = <<>>
  BY DEF EndStream, Nothing, Empty
<1>2. tally'[a].at = 0
  BY <1>1 DEF Clear
<1>3. Bound(a)' = Bound(a) /\ Bound(a) \in Nat
  BY Numbers DEF Bound
<1> QED
  BY <1>1, <1>2, <1>3 DEF OrderedAt

\* With no failed write every number that was not saved is written.
LEMMA FlushOrdered ==
    ASSUME Structure, NEW a \in Account, OrderedAt(a), NEW failed \in SUBSET dirty,
           Flushed(failed), spent'.faults = 0, daemon = "up", daemon' \in {"up", "stopping"},
           UNCHANGED <<seq, tally, rest, hand, queue, cursor>>
    PROVE  OrderedAt(a)'
<1>1. failed = {}
  <2>1. spent.faults \in Nat /\ spent \in [boots : Nat, faults : Nat, streams : Nat]
    BY DEF Structure, StreamTypeOK
  <2>2. failed # {} => spent'.faults = spent.faults + 1
    BY <2>1 DEF Flushed
  <2> QED
    BY <2>1, <2>2
<1>2. file'[a] = IF a \in dirty THEN seq[a] ELSE file[a]
  BY <1>1 DEF Flushed
<1>3. file'[a] = seq[a] /\ seq[a] \in Nat
  BY <1>2, Numbers DEF OrderedAt, Structure
<1>4. Bound(a)' = Bound(a) /\ Bound(a) \in Nat
  BY <1>3 DEF Bound
<1> QED
  BY <1>3, <1>4, OrderedFrame DEF Structure

LEMMA InitOrdered == Init => Ordered
<1> SUFFICES ASSUME Init, NEW a \in Account PROVE OrderedAt(a)
  BY DEF Ordered
<1>1. /\ tally[a] = Clear /\ rest[a] = {} /\ hand[a] = None /\ queue[a] = <<>>
      /\ seq[a] = 0 /\ file[a] = 0 /\ cursor[a] = 0
  BY DEF Init, Nothing, Empty, Zero
<1>2. tally[a].at = 0 /\ Bound(a) = 0
  BY <1>1 DEF Clear, Bound
<1> QED
  BY <1>1, <1>2 DEF OrderedAt

\* Every step that fails nothing keeps the order.
LEMMA NextOrdered == Structure /\ Ordered /\ [Next]_vars => Ordered'
<1> SUFFICES ASSUME Structure, Ordered, [Next]_vars, spent'.faults = 0
             PROVE  \A a \in Account : OrderedAt(a)'
  BY DEF Ordered
<1>0. spent.faults = 0
  <2>1. spent \in [boots : Nat, faults : Nat, streams : Nat]
    BY DEF Structure, StreamTypeOK
  <2>2. spent' = spent \/ (\E f \in {"boots", "streams"} : spent' = [spent EXCEPT ![f] = @ + 1])
          \/ (\E k \in {spent.faults, spent.faults + 1} : spent' = [spent EXCEPT !.faults = k])
    <3>1. ASSUME NEW failed \in SUBSET dirty, Flushed(failed)
          PROVE  \E k \in {spent.faults, spent.faults + 1} : spent' = [spent EXCEPT !.faults = k]
      BY <3>1 DEF Flushed
    <3>2. CASE Flush \/ Stop
      BY <3>1, <3>2 DEF Flush, Stop
    <3>3. CASE Crash
      BY <3>3 DEF Crash
    <3>4. CASE Boot
      <4>1. spent' = [spent EXCEPT !["boots"] = @ + 1]
        BY <3>4 DEF Boot
      <4> QED
        BY <4>1
    <3>5. ASSUME NEW accounts \in SUBSET Account, NEW resume \in BOOLEAN, Subscribe(accounts, resume)
          PROVE  \E f \in {"boots", "streams"} : spent' = [spent EXCEPT ![f] = @ + 1]
      <4>1. spent' = [spent EXCEPT !["streams"] = @ + 1]
        BY <3>5 DEF Subscribe
      <4> QED
        BY <4>1
    <3>6. CASE UNCHANGED spent
      BY <3>6
    <3> QED
      BY <3>2, <3>3, <3>4, <3>5, <3>6
         DEF Next, Emit, TellGap, ReplayOne, Take, CancelNext, TakeLag, Show, Exit, Wait, Wake, Serve, Close, vars
  <2>3. spent'.faults >= spent.faults /\ spent.faults \in Nat
    BY <2>1, <2>2
  <2> QED
    BY <2>3
<1>1. \A a \in Account : OrderedAt(a) /\ seq[a] \in Nat /\ file[a] \in Nat /\ Bound(a) \in Nat
  BY <1>0, Numbers DEF Ordered, Structure, Bound
<1>2. ASSUME NEW a \in Account, OrderedAt(a)', UNCHANGED bus,
             \A b \in Account \ {a} :
                  /\ tally'[b] = tally[b] /\ rest'[b] = rest[b] /\ hand'[b] = hand[b]
                  /\ queue'[b] = queue[b] /\ cursor'[b] = cursor[b]
      PROVE  \A b \in Account : OrderedAt(b)'
  <2>1. ASSUME NEW b \in Account, b # a PROVE OrderedAt(b)'
    <3>1. Bound(b)' = Bound(b)
      BY <1>2 DEF Bound, bus
    <3>2. /\ daemon' = "up" => b \in dirty' \/ file'[b] = seq'[b]
          /\ daemon' # "down" => file'[b] <= seq'[b]
      BY <1>1, <1>2, <2>1 DEF bus, OrderedAt
    <3> QED
      BY <1>1, <1>2, <2>1, <3>1, <3>2, OrderedFrame DEF bus, Structure
  <2> QED
    BY <1>2, <2>1
<1>3. ASSUME NEW a \in Account, ReplayOne(a) PROVE \A b \in Account : OrderedAt(b)'
  <2> DEFINE M == Oldest(rest[a])
  <2>1. /\ tally' = [tally EXCEPT ![a].handled = @ + 1, ![a].at = M]
        /\ rest' = [rest EXCEPT ![a] = @ \ {M}]
        /\ cursor' = [cursor EXCEPT ![a] = M] \/ cursor' = cursor
        /\ UNCHANGED <<bus, queue, hand>>
    BY <1>3 DEF ReplayOne, Handle
  <2> HIDE DEF M
  <2>2. \A b \in Account \ {a} : tally'[b] = tally[b] /\ rest'[b] = rest[b] /\ cursor'[b] = cursor[b]
    BY <2>1 DEF Structure, StreamTypeOK
  <2> QED
    BY <1>1, <1>2, <1>3, <2>1, <2>2, ReplayOrdered
<1>4. ASSUME NEW a \in Account, Take(a) PROVE \A b \in Account : OrderedAt(b)'
  BY <1>1, <1>2, <1>4, TakeOrdered DEF Take, Structure, StreamTypeOK
<1>5. ASSUME NEW a \in Account, Show(a) PROVE \A b \in Account : OrderedAt(b)'
  <2>1. /\ tally' = [tally EXCEPT ![a].handled = @ + 1, ![a].at = hand[a]]
        /\ hand' = [hand EXCEPT ![a] = None]
        /\ cursor' = [cursor EXCEPT ![a] = hand[a]] \/ cursor' = cursor
        /\ UNCHANGED <<bus, queue, rest>>
    BY <1>5 DEF Show, Handle
  <2>2. \A b \in Account \ {a} : tally'[b] = tally[b] /\ hand'[b] = hand[b] /\ cursor'[b] = cursor[b]
    BY <2>1 DEF Structure, StreamTypeOK
  <2> QED
    BY <1>1, <1>2, <1>5, <2>1, <2>2, ShowOrdered
<1>6. ASSUME NEW a \in Account, hand'[a] \in {hand[a], None}, \A b \in Account \ {a} : hand'[b] = hand[b],
             UNCHANGED <<bus, queue, rest, cursor>>, \A b \in Account : tally'[b].at = tally[b].at
      PROVE  \A b \in Account : OrderedAt(b)'
  <2>1. ASSUME NEW b \in Account PROVE OrderedAt(b)'
    <3>1. Bound(b)' = Bound(b)
      BY <1>6 DEF Bound, bus
    <3>2. hand'[b] \in {hand[b], None}
      BY <1>6
    <3> QED
      BY <1>1, <1>6, <3>1, <3>2 DEF OrderedAt, bus
  <2> QED
    BY <2>1
<1>7. ASSUME NEW a \in Account, TellGap(a) PROVE \A b \in Account : OrderedAt(b)'
  <2>1. tally' = [tally EXCEPT ![a].told = @ + gap[a]] /\ UNCHANGED <<bus, queue, rest, cursor, hand>>
    BY <1>7 DEF TellGap
  <2>2. \A b \in Account : tally'[b].at = tally[b].at
    BY <2>1 DEF Structure, StreamTypeOK, Tally
  <2> QED
    BY <1>6, <2>1, <2>2
<1>8. ASSUME NEW a \in Account, TakeLag(a) PROVE \A b \in Account : OrderedAt(b)'
  <2>1. tally' = [tally EXCEPT ![a].told = @ + dropped[a]] /\ UNCHANGED <<bus, queue, rest, cursor, hand>>
    BY <1>8 DEF TakeLag
  <2>2. \A b \in Account : tally'[b].at = tally[b].at
    BY <2>1 DEF Structure, StreamTypeOK, Tally
  <2> QED
    BY <1>6, <2>1, <2>2
<1>9. ASSUME NEW a \in Account, CancelNext(a) PROVE \A b \in Account : OrderedAt(b)'
  <2>1. /\ hand' = [hand EXCEPT ![a] = None] /\ UNCHANGED <<bus, queue, rest, cursor>>
        /\ tally' = [tally EXCEPT ![a].discarded = IF a \in getting THEN @ ELSE @ + 1]
    BY <1>9 DEF CancelNext
  <2>2. \A b \in Account : tally'[b].at = tally[b].at
    BY <2>1 DEF Structure, StreamTypeOK, Tally
  <2>3. hand'[a] = None /\ \A b \in Account \ {a} : hand'[b] = hand[b]
    BY <2>1 DEF Structure, StreamTypeOK
  <2> QED
    BY <1>6, <2>1, <2>2, <2>3
<1>10. ASSUME NEW accounts \in SUBSET Account, NEW resume \in BOOLEAN, Subscribe(accounts, resume)
       PROVE  \A a \in Account : OrderedAt(a)'
  BY <1>1, <1>10, SubscribeOrdered
<1>11. CASE Exit \/ Close
  <2>1. /\ EndStream /\ UNCHANGED <<seq, file, dirty, cursor>> /\ StreamTypeOK
        /\ daemon' = daemon \/ (daemon = "stopping" /\ daemon' = "down")
    BY <1>11 DEF Exit, Close, bus, Structure
  <2> QED
    BY <1>1, <2>1, EndOrdered
<1>12. ~Crash
  <2>1. spent.faults \in Nat /\ spent \in [boots : Nat, faults : Nat, streams : Nat]
    BY DEF Structure, StreamTypeOK
  <2>2. Crash => spent'.faults = spent.faults + 1
    BY <2>1 DEF Crash
  <2> QED
    BY <2>1, <2>2
<1>13. CASE Flush \/ Stop
  BY <1>1, <1>13, FlushOrdered DEF Flush, Stop, watcher
<1>14. CASE Boot
  <2>1. ASSUME NEW a \in Account PROVE OrderedAt(a)'
    <3>1. daemon = "down" /\ daemon' = "up" /\ seq' = file /\ file' = file
          /\ UNCHANGED <<tally, rest, hand, queue, cursor>>
      BY <1>14 DEF Boot, watcher
    <3>2. Bound(a) = file[a] /\ Bound(a)' = file[a] /\ file[a] \in Nat /\ OrderedAt(a)
      BY <1>1, <3>1 DEF Bound
    <3> QED
      BY <3>1, <3>2, OrderedFrame DEF Structure
  <2> QED
    BY <2>1
<1>15. CASE UNCHANGED <<bus, tally, rest, hand, queue, cursor>>
  <2>1. ASSUME NEW a \in Account PROVE OrderedAt(a)'
    <3>1. Bound(a)' = Bound(a)
      BY <1>15 DEF Bound, bus
    <3> QED
      BY <1>1, <1>15, <3>1 DEF bus, OrderedAt
  <2> QED
    BY <2>1
<1>16. ASSUME NEW a \in Account, Emit(a) PROVE \A b \in Account : OrderedAt(b)'
  BY <1>1, <1>16, EmitOrdered
<1> QED
  BY <1>3, <1>4, <1>5, <1>7, <1>8, <1>9, <1>10, <1>11, <1>12, <1>13, <1>14, <1>15, <1>16
     DEF Next, Wait, Wake, Serve, vars, watcher

IInv == Structure /\ Ordered

\* Always, as long as no crash and no failed write happened, the daemon counts on from a number
\* no watcher was shown a higher one than, also when it is down: the cursor a watcher keeps
\* asks a restarted daemon for nothing it has already seen.
THEOREM CursorAlwaysSurvives == Spec => []CursorSurvives
<1>1. Init => IInv
  BY InitStructure, InitOrdered DEF IInv
<1>2. IInv /\ [Next]_vars => IInv'
  BY NextStructure, NextOrdered DEF IInv
<1>3. IInv => CursorSurvives
  <2> SUFFICES ASSUME IInv, spent.faults = 0, NEW a \in Account
               PROVE  cursor[a] <= IF daemon = "down" THEN file[a] ELSE seq[a]
    BY DEF CursorSurvives
  <2>1. OrderedAt(a)
    BY DEF IInv, Ordered
  <2>2. cursor[a] \in Nat /\ file[a] \in Nat /\ seq[a] \in Nat /\ daemon \in {"up", "stopping", "down"}
    BY Numbers DEF IInv, Structure, StreamTypeOK
  <2> QED
    BY <2>1, <2>2 DEF OrderedAt, Bound
<1> QED
  BY <1>1, <1>2, <1>3, PTL DEF Spec

\* In every step in which a watcher looks at an event, the event has a higher number than the
\* one it looked at before, in a stream or from the cursor of one before: an event is not
\* shown twice or late, as long as nothing crashed and no number failed to be written.
THEOREM AlwaysOnceInOrder == Spec => OnceInOrder
<1>1. Init => IInv
  BY InitStructure, InitOrdered DEF IInv
<1>2. IInv /\ [Next]_vars => IInv'
  BY NextStructure, NextOrdered DEF IInv
<1>3. IInv /\ [Next]_vars =>
        [\A a \in Account : (tally'[a].handled > tally[a].handled /\ spent.faults = 0) => tally'[a].at > tally[a].at]_vars
  <2> SUFFICES ASSUME IInv, [Next]_vars, NEW a \in Account, tally'[a].handled > tally[a].handled, spent.faults = 0
               PROVE  tally'[a].at > tally[a].at
    OBVIOUS
  <2>0. OrderedAt(a) /\ Structure /\ tally[a] \in Tally /\ tally[a].handled \in Nat
    BY Numbers DEF IInv, Ordered, Structure, Tally
  <2>1. ASSUME NEW b \in Account, b # a, tally'[a] = tally[a] PROVE FALSE
    BY <2>0, <2>1
  <2>2. tally'[a].handled # tally[a].handled
    BY <2>0
  <2>3. ASSUME NEW b \in Account, TellGap(b) \/ TakeLag(b) \/ CancelNext(b) PROVE FALSE
    <3>1. tally[b] \in Tally /\ tally \in [Account -> Tally]
      BY <2>0 DEF Structure, StreamTypeOK
    <3>2. CASE TellGap(b)
      BY <2>2, <3>1, <3>2 DEF TellGap, Tally
    <3>3. CASE TakeLag(b)
      BY <2>2, <3>1, <3>3 DEF TakeLag, Tally
    <3>4. CASE CancelNext(b)
      BY <2>2, <3>1, <3>4 DEF CancelNext, Tally
    <3> QED
      BY <2>3, <3>2, <3>3, <3>4
  <2>4. ASSUME NEW b \in Account, b # a, ReplayOne(b) \/ Show(b) PROVE FALSE
    <3>1. tally'[a] = tally[a]
      BY <2>0, <2>4 DEF ReplayOne, Show, Handle, Structure, StreamTypeOK
    <3> QED
      BY <2>2, <3>1
  <2>5. CASE ReplayOne(a)
    BY <2>0, <2>5, ReplayOrdered
  <2>6. CASE Show(a)
    BY <2>0, <2>6, ShowOrdered
  <2>7. ASSUME EndStream PROVE FALSE
    <3>1. tally'[a].handled = 0
      BY <2>7 DEF EndStream, Clear
    <3> QED
      BY <2>0, <3>1
  <2>8. ASSUME NEW accounts \in SUBSET Account, NEW resume \in BOOLEAN, Subscribe(accounts, resume) PROVE FALSE
    <3>1. tally'[a].handled = 0
      BY <2>8 DEF Subscribe, Clear
    <3> QED
      BY <2>0, <3>1
  <2>9. ASSUME UNCHANGED tally PROVE FALSE
    BY <2>2, <2>9
  <2> QED
    BY <2>3, <2>4, <2>5, <2>6, <2>7, <2>8, <2>9
       DEF Next, Emit, Take, Flush, Stop, Exit, Crash, Boot, Wait, Wake, Serve, Close, vars
<1> QED
  BY <1>1, <1>2, <1>3, PTL DEF Spec, OnceInOrder
=============================================================================
