------------------------ MODULE DurableScheduler_proofs ------------------------
(***************************************************************************)
(* Proofs about DurableScheduler, for every value of the constants: the    *)
(* queue, the writes on their way and the file stay well formed through    *)
(* crashes and restarts; nothing unsettled leaves the file; nothing is     *)
(* repeated that was not lost in a crash; no change is left unsaved.       *)
(*                                                                         *)
(* The file is cut at MAX_PENDING items and RECENT_KEYS keys.  What is     *)
(* promised about its content holds while nothing is cut off (ItemsFit,    *)
(* KeysFit); SmallWorkload says when that is certain.                      *)
(***************************************************************************)
EXTENDS DurableScheduler, ActionScheduler_proofs

USE DEF JobOf, Kind, KeyOf, AlbumOf, Pushed, Alarmed, WorkerState

-----------------------------------------------------------------------------
(* Finite sets and their cuts.                                             *)

\* The keys of finitely many items are finitely many.
LEMMA FiniteKeys ==
    ASSUME NEW S, IsFiniteSet(S)
    PROVE  IsFiniteSet({KeyOf(i) : i \in S})
<1> DEFINE T == {KeyOf(i) : i \in S}
           f == [i \in S |-> KeyOf(i)]
<1>1. f \in Surjection(S, T)
  BY DEF Surjection
<1> QED
  BY <1>1, FS_Surjection

\* A finite set has a subset of every smaller size.
LEMMA CutExists ==
    ASSUME NEW S, IsFiniteSet(S), NEW n \in Nat, n <= Cardinality(S)
    PROVE  \E u \in SUBSET S : IsFiniteSet(u) /\ Cardinality(u) = n
<1>1. Cardinality(S) \in Nat
  BY FS_CardinalityType
<1>2. PICK f \in Bijection(1 .. Cardinality(S), S) : TRUE
  BY FS_CardinalityType DEF ExistsBijection
<1> DEFINE u == {f[m] : m \in 1 .. n}
           g == [m \in 1 .. n |-> f[m]]
<1>3. 1 .. n \subseteq 1 .. Cardinality(S)
  BY <1>1
<1>4. g \in Bijection(1 .. n, u)
  <2>1. f \in [1 .. Cardinality(S) -> S] /\ \A x, y \in 1 .. Cardinality(S) : f[x] = f[y] => x = y
    BY <1>2 DEF Bijection, Injection, IsInjective
  <2>2. g \in [1 .. n -> u] /\ \A t \in u : \E m \in 1 .. n : g[m] = t
    OBVIOUS
  <2>3. \A x, y \in 1 .. n : g[x] = g[y] => x = y
    BY <1>3, <2>1
  <2> QED
    BY <2>2, <2>3 DEF Bijection, Injection, IsInjective, Surjection
<1>5. IsFiniteSet(1 .. n) /\ Cardinality(1 .. n) = n
  BY FS_Interval
<1>6. ExistsBijection(1 .. n, u)
  BY <1>4 DEF ExistsBijection
<1>7. IsFiniteSet(u) /\ Cardinality(u) = n
  BY <1>5, <1>6, FS_Bijection
<1>8. u \subseteq S
  BY <1>2, <1>3 DEF Bijection, Injection, Surjection
<1> QED
  BY <1>7, <1>8

\* save_raw's cut exists: as many as fit, those of S before the others.
LEMMA FirstExists ==
    ASSUME NEW U, NEW S \in SUBSET U, IsFiniteSet(U), NEW n \in Nat, n < Cardinality(U)
    PROVE  \E u \in SUBSET U : Cardinality(u) = n /\ (S \subseteq u \/ u \subseteq S)
<1>1. PICK R : R = U \ S
  OBVIOUS
<1>2. /\ IsFiniteSet(S) /\ IsFiniteSet(R)
      /\ Cardinality(S) \in Nat /\ Cardinality(R) \in Nat /\ Cardinality(U) \in Nat
  <2>1. R \in SUBSET U
    BY <1>1
  <2> QED
    BY <2>1, FS_Subset, FS_CardinalityType
<1>3. Cardinality(U) = Cardinality(S) + Cardinality(R)
  <2>1. PICK I : I = S \cap R
    OBVIOUS
  <2>2. I = {}
    BY <1>1, <2>1
  <2>3. Cardinality(I) = 0
    BY <2>2, FS_EmptySet, Zenon
  <2>4. U = S \cup R
    BY <1>1
  <2>5. Cardinality(S \cup R) = Cardinality(S) + Cardinality(R) - Cardinality(S \cap R)
    BY <1>2, FS_Union
  <2>6. Cardinality(U) = Cardinality(S) + Cardinality(R) - Cardinality(I)
    BY <2>1, <2>4, <2>5, Zenon
  <2> QED
    BY <1>2, <2>3, <2>6
<1>4. CASE n <= Cardinality(S)
  <2>1. PICK u \in SUBSET S : Cardinality(u) = n
    BY <1>2, <1>4, CutExists
  <2> QED
    BY <2>1
<1>5. CASE n > Cardinality(S)
  <2>1. PICK m \in Nat : n = Cardinality(S) + m /\ m <= Cardinality(R)
    <3>1. n - Cardinality(S) \in Nat /\ n - Cardinality(S) <= Cardinality(R)
      BY <1>2, <1>3, <1>5
    <3> QED
      BY <1>2, <3>1
  <2>2. PICK v \in SUBSET R : IsFiniteSet(v) /\ Cardinality(v) = m
    BY <1>2, <2>1, CutExists
  <2>3. PICK I : I = S \cap v
    OBVIOUS
  <2>4. I = {}
    BY <1>1, <2>2, <2>3
  <2>5. Cardinality(I) = 0
    BY <2>4, FS_EmptySet, Zenon
  <2>6. Cardinality(S \cup v) = Cardinality(S) + Cardinality(v) - Cardinality(S \cap v)
    BY <1>2, <2>2, FS_Union
  <2>7. Cardinality(S \cup v) = Cardinality(S) + m - Cardinality(I)
    BY <2>2, <2>3, <2>6, Zenon
  <2>8. Cardinality(S \cup v) = n
    BY <1>2, <2>1, <2>5, <2>7
  <2> QED
    BY <1>1, <2>2, <2>8
<1> QED
  BY <1>2, <1>4, <1>5

\* What is saved is a part of what there is, and all of it when it fits.
LEMMA FirstOfPart ==
    ASSUME NEW S, NEW T, IsFiniteSet(S \cup T), NEW n \in Nat
    PROVE  /\ FirstOf(S, T, n) \subseteq S \cup T /\ IsFiniteSet(FirstOf(S, T, n))
           /\ Cardinality(S \cup T) <= n => FirstOf(S, T, n) = S \cup T
<1>1. CASE Cardinality(S \cup T) <= n
  BY <1>1 DEF FirstOf
<1>2. CASE ~(Cardinality(S \cup T) <= n)
  <2>1. PICK U : U = S \cup T
    OBVIOUS
  <2>2. IsFiniteSet(U) /\ ~(Cardinality(U) <= n)
    BY <1>2, <2>1, Zenon
  <2>3. n < Cardinality(U) /\ S \in SUBSET U
    <3>1. Cardinality(U) \in Nat
      BY <2>2, FS_CardinalityType
    <3> QED
      BY <2>1, <2>2, <3>1
  <2>4. \E u \in SUBSET U : Cardinality(u) = n /\ (S \subseteq u \/ u \subseteq S)
    BY <2>2, <2>3, FirstExists
  <2>5. FirstOf(S, T, n) = CHOOSE u \in SUBSET U : Cardinality(u) = n /\ (S \subseteq u \/ u \subseteq S)
    BY <1>2, <2>1, Zenon DEF FirstOf
  <2>6. FirstOf(S, T, n) \in SUBSET U
    BY <2>4, <2>5
  <2>7. IsFiniteSet(FirstOf(S, T, n))
    BY <2>2, <2>6, FS_Subset
  <2> QED
    BY <1>2, <2>1, <2>6, <2>7
<1> QED
  BY <1>1, <1>2

-----------------------------------------------------------------------------
(* The files.                                                              *)

InMem == Live \cup HeldItems

\* What a file may hold: finitely many items with what they gained.
Snapshots ==
    {s \in [items : SUBSET Item, body : UNION {[T -> Body] : T \in SUBSET Item},
            msg : UNION {[T -> Msg] : T \in SUBSET Item}, recent : SUBSET Key] :
       /\ s.body \in [s.items -> Body] /\ s.msg \in [s.items -> Msg]
       /\ IsFiniteSet(s.items) /\ IsFiniteSet(s.recent)}

\* The queue with its file: the queue's own invariant, and finite files.
DInv ==
    /\ IInv
    /\ IsFiniteSet(InMem) /\ IsFiniteSet(recent)
    /\ timer \in BOOLEAN /\ resumed \in BOOLEAN
    /\ disk \in Snapshots /\ writes \in Seq(Snapshots)
    /\ life \in {"up", "saving", "flushed"}
    /\ awaited \in 0 .. Len(writes)
    /\ boots \in [crashes : Nat, restarts : Nat]
    /\ sent \in [Key -> Nat] /\ doomed \subseteq Item

\* The fields of a file.
LEMMA SnapshotFields ==
    ASSUME NEW s \in Snapshots
    PROVE  /\ IsSnapshot(s)
           /\ s.items \subseteq Item /\ s.recent \subseteq Key
           /\ IsFiniteSet(s.items) /\ IsFiniteSet(s.recent)
           /\ s.body \in [s.items -> Body] /\ s.msg \in [s.items -> Msg]
<1>1. /\ s.items \subseteq Item /\ s.recent \subseteq Key
      /\ IsFiniteSet(s.items) /\ IsFiniteSet(s.recent)
      /\ s.body \in [s.items -> Body] /\ s.msg \in [s.items -> Msg]
  BY DEF Snapshots
<1>2. DOMAIN s = {"items", "body", "msg", "recent"}
  BY DEF Snapshots
<1>3. s.msg \in [s.items -> Nat]
  BY <1>1, ConstantsAssumption
<1> QED
  BY <1>1, <1>2, <1>3 DEF IsSnapshot

\* What is saved is a file, and the whole queue when it fits.
LEMMA SnapshotIsFile ==
    ASSUME TypeOK, IsFiniteSet(InMem), IsFiniteSet(recent)
    PROVE  /\ Snapshot \in Snapshots
           /\ Snapshot.items \subseteq InMem
           /\ Cardinality(InMem) <= MaxPending => Snapshot.items = InMem
           /\ Cardinality(recent) <= RecentKeys => Snapshot.recent = recent
<1>0. MaxPending \in Nat /\ RecentKeys \in Nat
  BY LimitTypes
<1>1. /\ SavedItems \subseteq InMem /\ IsFiniteSet(SavedItems)
      /\ Cardinality(InMem) <= MaxPending => SavedItems = InMem
  BY <1>0, FirstOfPart DEF SavedItems, InMem
<1> DEFINE S == {KeyOf(i) : i \in HeldItems} \cap recent
           r == FirstOf(S, recent, RecentKeys)
<1>2. S \cup recent = recent
  OBVIOUS
<1>3. /\ r \subseteq recent /\ IsFiniteSet(r)
      /\ Cardinality(recent) <= RecentKeys => r = recent
  <2> HIDE DEF S
  <2> QED
    BY <1>0, <1>2, FirstOfPart
<1>4. SavedItems \in SUBSET Item /\ r \in SUBSET Key
  BY <1>1, <1>3 DEF InMem, Live, HeldItems, TypeOK
<1> DEFINE b == [i \in SavedItems |-> body[i]]
           m == [i \in SavedItems |-> msg[i]]
<1>5. b \in [SavedItems -> Body] /\ m \in [SavedItems -> Msg]
  BY <1>4 DEF TypeOK
<1>6. /\ b \in UNION {[T -> Body] : T \in SUBSET Item}
      /\ m \in UNION {[T -> Msg] : T \in SUBSET Item}
  BY <1>4, <1>5
<1>7. Snapshot = [items |-> SavedItems, body |-> b, msg |-> m, recent |-> r]
  BY DEF Snapshot
<1> HIDE DEF b, m, r
<1>8. Snapshot \in Snapshots
  BY <1>1, <1>3, <1>4, <1>5, <1>6, <1>7 DEF Snapshots
<1> QED
  BY <1>1, <1>3, <1>7, <1>8

\* Without pending.json the daemon starts as with an empty one.
LEMMA NoFileIsFile == NoFile \in Snapshots
<1>1. IsFiniteSet({})
  BY FS_EmptySet
<1>2. [i \in {} |-> Fresh] \in [{} -> Body] /\ [i \in {} |-> 0] \in [{} -> Msg]
  OBVIOUS
<1> DEFINE b == [i \in {} |-> Fresh]
           m == [i \in {} |-> 0]
<1>3. /\ b \in UNION {[T -> Body] : T \in SUBSET Item}
      /\ m \in UNION {[T -> Msg] : T \in SUBSET Item}
  BY <1>2
<1>4. NoFile = [items |-> {}, body |-> b, msg |-> m, recent |-> {}]
  BY DEF NoFile
<1>5. b \in [{} -> Body] /\ m \in [{} -> Msg]
  BY <1>2
<1> HIDE DEF b, m
<1> QED
  BY <1>1, <1>3, <1>4, <1>5 DEF Snapshots

\* The writes that wait, after one more and after the first landed.
LEMMA WriteQueue ==
    ASSUME writes \in Seq(Snapshots)
    PROVE  /\ Len(writes) \in Nat
           /\ \A n \in 1 .. Len(writes) : writes[n] \in Snapshots
           /\ \A s \in Snapshots : LET w == Append(writes, s)
                 IN  /\ w \in Seq(Snapshots) /\ Len(w) = Len(writes) + 1
                     /\ w[Len(writes) + 1] = s
                     /\ \A n \in 1 .. Len(writes) : w[n] = writes[n]
           /\ writes # <<>> => LET w == Tail(writes)
                 IN  /\ w \in Seq(Snapshots) /\ Len(w) = Len(writes) - 1 /\ Len(writes) > 0
                     /\ Head(writes) = writes[1]
                     /\ \A n \in 1 .. Len(w) : w[n] = writes[n + 1]
OBVIOUS

-----------------------------------------------------------------------------
(* What a step of the queue means to the file.                             *)

\* The steps of the queue are those of ActionScheduler.
LEMMA SchedulesNext ==
    ASSUME Schedules
    PROVE  Next
<1>1. ASSUME NEW i \in Item, Plans(i) PROVE RollOut(i) \/ PlanNothing(i) \/ Submit(i)
  BY <1>1 DEF Plans, Submit
<1>2. ASSUME NEW k \in Kinds, Works(k) \/ Ends(k) \/ Finishes(k)
      PROVE  Step(k) \/ Woken(k) \/ Leave(k) \/ Abort(k) \/ EndOfBatch(k)
  BY <1>2 DEF Works, Ends, Finishes, EndOfBatch
<1> QED
  BY <1>1, <1>2 DEF Schedules, Steps, Commands, Overtakes, Passing, Next

\* A step that takes an item in.
TakesIn == \E i \in Item : /\ status[i] = "new" /\ Live' = Live \cup {i}
                           /\ recent' = recent /\ KeyOf(i) \notin recent

\* A step that ends the items of `gone`, which are remembered, and drops others.
LetsGo(gone) ==
    /\ gone \subseteq Live \ Live' /\ Live' \subseteq Live
    /\ recent' \in Remember({KeyOf(i) : i \in gone})
    /\ \A i \in Live \ Live' : i \in gone \/ status'[i] = "dropped"

\* With nothing to remember, nothing is forgotten.
LEMMA RememberNothing == recent \in Remember({KeyOf(i) : i \in {}})
<1>1. {KeyOf(i) : i \in {}} = {}
  OBVIOUS
<1> QED
  BY <1>1 DEF Remember

\* A memory that is not full forgot nothing.
LEMMA RememberFits ==
    ASSUME NEW new, NEW r \in Remember(new), Cardinality(r) < RecentKeys
    PROVE  r = recent \cup new
BY LimitTypes DEF Remember

\* A step that moves nothing lets nothing go.
LEMMA NothingGone ==
    ASSUME Live' = Live, recent' = recent
    PROVE  \E gone : LetsGo(gone)
<1>1. LetsGo({})
  BY RememberNothing DEF LetsGo
<1> QED
  BY <1>1

\* What any step of the queue does to what is in memory.
LEMMA Effect ==
    ASSUME IInv, [Next]_vars
    PROVE  /\ HeldItems' = HeldItems
           /\ \A i \in Item : status'[i] = "new" => status[i] = "new"
           /\ TakesIn \/ \E gone : LetsGo(gone)
<1> DEFINE Calm == /\ HeldItems' = HeldItems
                   /\ \A i \in Item : status'[i] = "new" => status[i] = "new"
<1>0. TypeOK
  BY DEF IInv
<1>1. CASE Unmoved
  <2>1. Live' = Live /\ recent' = recent /\ Calm
    BY <1>1 DEF Unmoved, Live, HeldItems
  <2> QED
    BY <2>1, NothingGone
<1>2. ASSUME NEW i \in Item, RollOut(i) \/ PlanNothing(i) \/ Submit(i)
      PROVE  Calm /\ (TakesIn \/ \E gone : LetsGo(gone))
  <2>1. status[i] = "new" /\ recent' = recent
    BY <1>2 DEF RollOut, PlanNothing, Skip, Submit, RolledIn, Duplicate, Sibling, Full, Refuse, Insert
  <2>2. CASE \E why \in Refused \cup {"skipped"} : status' = [status EXCEPT ![i] = why]
    <3>1. Live' = Live /\ Calm
      BY <1>0, <2>1, <2>2 DEF Live, HeldItems, Refused, TypeOK
    <3> QED
      BY <2>1, <3>1, NothingGone
  <2>3. CASE Insert(i)
    <3>1. Live' = Live \cup {i} /\ Calm
      BY <1>0, <2>1, <2>3 DEF Insert, Live, HeldItems, TypeOK
    <3> QED
      BY <2>1, <2>3, <3>1 DEF TakesIn, Insert, KeyKnown
  <2> QED
    BY <1>2, <2>2, <2>3 DEF RollOut, PlanNothing, Skip, Submit, Duplicate, Sibling, Full, Refuse, Refused
<1>3. ASSUME NEW k \in Kinds, NEW i \in Queued(k), Start(k, i)
      PROVE  Calm /\ \E gone : LetsGo(gone)
  <2>1. PICK b \in Batches(i) : status' = [j \in Item |-> IF j \in b THEN "running" ELSE status[j]]
    BY <1>3 DEF Start
  <2>2. \A j \in b : status[j] = "pending"
    BY DEF Batches, Companions, Queued, Pending
  <2>3. Live' = Live /\ recent' = recent /\ Calm
    BY <1>3, <2>1, <2>2 DEF Live, HeldItems, Start
  <2> QED
    BY <2>3, NothingGone
<1>4. ASSUME NEW fate, Settles(fate)
      PROVE  Calm /\ \E gone : LetsGo(gone)
  <2> DEFINE back == {i \in DOMAIN fate : fate[i] = "pending"}
             gone == {j \in DOMAIN fate \ back : fate[j] # "dropped"}
  <2>1. /\ DOMAIN fate \subseteq Live
        /\ \A i \in DOMAIN fate : fate[i] \in Ended \cup {"pending"}
        /\ status' = [i \in Item |-> IF i \in DOMAIN fate THEN fate[i] ELSE status[i]]
        /\ recent' \in Remember({KeyOf(i) : i \in gone})
    BY <1>4 DEF Settles, DecidesLive, Resolve
  <2>2. Live' = Live \ {i \in DOMAIN fate : fate[i] # "pending"}
    BY <2>1 DEF Live, Ended, Outcomes, Refused
  <2>3. Calm
    BY <2>1 DEF Live, HeldItems, Ended, Outcomes, Refused
  <2>4. gone \subseteq Live \ Live' /\ Live' \subseteq Live
    BY <2>1, <2>2
  <2>5. \A i \in Live \ Live' : i \in gone \/ status'[i] = "dropped"
    BY <2>1, <2>2 DEF Live
  <2>6. LetsGo(gone)
    BY <2>1, <2>4, <2>5 DEF LetsGo
  <2> QED
    BY <2>3, <2>6
<1>5. ASSUME NEW k \in Kinds, Abort(k)
      PROVE  Calm /\ \E gone : LetsGo(gone)
  <2>1. Live' = Live /\ recent' = recent /\ Calm
    BY <1>5 DEF Abort, Running, Live, HeldItems
  <2> QED
    BY <2>1, NothingGone
<1> QED
  BY <1>1, <1>2, <1>3, <1>4, <1>5, Shape

\* A worker that left never comes back by itself.
LEMMA OffStaysOff ==
    ASSUME IInv, [Next]_vars, NEW k \in Kinds, worker[k] = "off"
    PROVE  worker'[k] = "off"
<1>1. ASSUME NEW j \in Kinds, Step(j) PROVE worker'[k] = worker[k]
  BY <1>1 DEF Step, Idle, WaitDue, WaitSlot, Sleep, Drop, Hold, Start, IInv, TypeOK
<1>2. ASSUME NEW j \in Kinds, EndOfBatch(j) PROVE worker'[k] = worker[k]
  BY <1>2 DEF EndOfBatch, Succeed, TypeFirst, Flood, Fail, End, IInv, TypeOK
<1>3. ASSUME NEW j \in Kinds, Woken(j) \/ Leave(j) \/ Abort(j) PROVE worker'[k] = "off"
  BY <1>3 DEF Woken, Leave, Abort, IInv, TypeOK
<1>4. ASSUME NEW i \in Item, ReadFirst(i) PROVE worker'[k] = worker[k]
  BY <1>4 DEF ReadFirst, IInv, TypeOK
<1>5. CASE \/ \E i \in Item : \/ RollOut(i) \/ PlanNothing(i) \/ Submit(i)
                              \/ ComesDue(i) \/ GoesLate(i)
           \/ \E j \in Kinds : SlotOpens(j)
           \/ \E r \in CancelRequests : Cancel(r)
           \/ \E j \in Job : ForgetJob(j)
           \/ \E c \in Chat, t \in Topic \cup {None}, m \in Msg : Takeover(c, t, m)
           \/ Close \/ QuietBegins \/ QuietEnds
           \/ UNCHANGED vars
  BY <1>5 DEF RollOut, PlanNothing, Skip, Submit, Duplicate, Sibling, Full, Refuse, Insert,
              ComesDue, GoesLate, SlotOpens, Cancel, ForgetJob, Takeover, Supersede, Close,
              QuietBegins, QuietEnds, vars
<1> QED
  BY <1>1, <1>2, <1>3, <1>4, <1>5 DEF Next

-----------------------------------------------------------------------------
(* The queue and its files are well formed, also across restarts.          *)

\* An empty queue over an empty file.
LEMMA DurableInitInv == DurableInit => DInv
<1> SUFFICES ASSUME DurableInit PROVE DInv
  OBVIOUS
<1>1. IInv
  BY InitInv DEF DurableInit
<1>2. InMem = {} /\ recent = {}
  BY DEF DurableInit, Init, InMem, Live, HeldItems
<1>3. IsFiniteSet(InMem) /\ IsFiniteSet(recent)
  BY <1>2, FS_EmptySet, Zenon
<1>4. writes \in Seq(Snapshots) /\ awaited \in 0 .. Len(writes)
  BY DEF DurableInit
<1>5. boots \in [crashes : Nat, restarts : Nat] /\ sent \in [Key -> Nat] /\ doomed \subseteq Item
  BY DEF DurableInit
<1> QED
  BY <1>1, <1>3, <1>4, <1>5, NoFileIsFile DEF DurableInit, DInv

\* What a step of the queue does to its histories.
LEMMA SchedulesHistory ==
    ASSUME Schedules
    PROVE  /\ timer' = TRUE \/ timer' \in {timer, timer \/ FALSE}
           /\ doomed' \subseteq doomed \cup cancelled'
           /\ \/ sent' = [k \in Key |-> sent[k]]
              \/ \E w \in Kinds : /\ Finishes(w)
                    /\ sent' = [k \in Key |-> IF \E i \in {i \in Running(w) : ~Attr[i].dry} : KeyOf(i) = k
                                              THEN sent[k] + 1 ELSE sent[k]]
           /\ UNCHANGED <<writes, disk, life, resumed, awaited, boots>>
<1>1. CASE Steps
  <2>1. timer' = TRUE \/ timer' \in {timer, timer \/ FALSE}
    BY <1>1 DEF Steps, Plans, Works, Ends, Commands, Overtakes, Passing, Dirty, DirtyIf, Clean
  <2> QED
    BY <1>1, <2>1 DEF Schedules, Steps, History
<1>2. ASSUME NEW w \in Kinds, Finishes(w)
      PROVE  /\ timer' = TRUE /\ doomed' \subseteq doomed \cup cancelled'
             /\ sent' = [k \in Key |-> IF \E i \in {i \in Running(w) : ~Attr[i].dry} : KeyOf(i) = k
                                       THEN sent[k] + 1 ELSE sent[k]]
  BY <1>2 DEF Finishes, Dirty, History
<1> QED
  BY <1>1, <1>2 DEF Schedules

\* Steps of the queue.
LEMMA SchedulesDInv ==
    ASSUME DInv, Schedules
    PROVE  DInv'
<1>0. IInv /\ TypeOK /\ Next
  BY SchedulesNext DEF DInv, IInv
<1>1. IInv'
  BY <1>0, NextInv
<1>2. /\ HeldItems' = HeldItems
      /\ TakesIn \/ \E gone : LetsGo(gone)
  BY <1>0, Effect
<1>3. IsFiniteSet(InMem') /\ IsFiniteSet(recent')
  <2>1. CASE TakesIn
    <3>1. PICK i \in Item : Live' = Live \cup {i} /\ recent' = recent
      BY <2>1 DEF TakesIn
    <3>2. InMem' = InMem \cup {i}
      BY <1>2, <3>1 DEF InMem
    <3> QED
      BY <3>1, <3>2, FS_AddElement DEF DInv
  <2>2. ASSUME NEW gone, LetsGo(gone) PROVE IsFiniteSet(InMem') /\ IsFiniteSet(recent')
    <3>1. gone \subseteq InMem /\ InMem' \subseteq InMem
      BY <1>2, <2>2 DEF LetsGo, InMem
    <3>2. PICK new : new = {KeyOf(i) : i \in gone}
      OBVIOUS
    <3>3. IsFiniteSet(new)
      <4>1. IsFiniteSet(gone)
        BY <3>1, FS_Subset DEF DInv
      <4> QED
        BY <3>2, <4>1, FiniteKeys
    <3>4. IsFiniteSet(recent \cup new)
      BY <3>3, FS_Union DEF DInv
    <3>5. recent' \in Remember(new)
      BY <2>2, <3>2 DEF LetsGo
    <3>6. recent' \subseteq recent \cup new
      BY <3>5, RememberKeys
    <3> QED
      BY <3>1, <3>4, <3>6, FS_Subset DEF DInv
  <2> QED
    BY <1>2, <2>1, <2>2
<1>4. timer' \in BOOLEAN
  BY SchedulesHistory DEF DInv
<1>5. sent' \in [Key -> Nat]
  BY SchedulesHistory DEF DInv
<1>6. doomed' \subseteq Item
  BY <1>1, SchedulesHistory DEF DInv, IInv, TypeOK
<1>7. UNCHANGED <<writes, disk, life, resumed, awaited, boots>>
  BY SchedulesHistory
<1> QED
  BY <1>1, <1>3, <1>4, <1>5, <1>6, <1>7 DEF DInv

\* Saving, writing, and stopping.
LEMMA SavesDInv ==
    ASSUME DInv, SaveSoon \/ WriteLands \/ AwaitSave \/ Flush
    PROVE  DInv'
<1>1. UNCHANGED vars
  BY DEF SaveSoon, WriteLands, AwaitSave, Flush
<1>2. IInv'
  BY <1>1, NextInv DEF DInv
<1>3. InMem' = InMem /\ recent' = recent
  BY <1>1 DEF vars, queueVars, InMem, Live, HeldItems
<1>4. IsFiniteSet(InMem') /\ IsFiniteSet(recent')
  BY <1>3 DEF DInv
<1>5. Snapshot \in Snapshots
  BY SnapshotIsFile DEF DInv, IInv
<1>6. CASE SaveSoon
  <2>1. writes' \in Seq(Snapshots) /\ Len(writes') = Len(writes) + 1
    BY <1>5, <1>6, WriteQueue DEF SaveSoon, DInv
  <2>2. awaited' \in 0 .. Len(writes')
    BY <1>6, <2>1, WriteQueue DEF SaveSoon, DInv
  <2> QED
    BY <1>2, <1>4, <1>6, <2>1, <2>2 DEF SaveSoon, DInv
<1>7. CASE WriteLands
  <2>1. /\ writes' \in Seq(Snapshots) /\ Len(writes') = Len(writes) - 1
        /\ Len(writes) \in Nat /\ Len(writes) > 0 /\ disk' \in Snapshots
    BY <1>7, WriteQueue DEF WriteLands, DInv
  <2>2. awaited' \in 0 .. Len(writes')
    BY <1>7, <2>1 DEF WriteLands, DInv
  <2> QED
    BY <1>2, <1>4, <1>7, <2>1, <2>2 DEF WriteLands, DInv
<1>8. CASE AwaitSave
  <2>1. awaited' \in 0 .. Len(writes')
    BY <1>8, WriteQueue DEF AwaitSave, saveVars, DInv
  <2> QED
    BY <1>2, <1>4, <1>8, <2>1 DEF AwaitSave, saveVars, DInv
<1>9. CASE Flush
  BY <1>2, <1>4, <1>5, <1>9 DEF Flush, DInv
<1> QED
  BY <1>6, <1>7, <1>8, <1>9

\* What a boot has in memory is what the file holds.
LEMMA BootMemory ==
    ASSUME DInv, Boot
    PROVE  /\ Live' = {} /\ HeldItems' = disk.items /\ InMem' = disk.items
           /\ status' \in [Item -> Status]
<1>1. disk.items \subseteq Item
  BY SnapshotFields DEF DInv
<1>2. \A i \in Item : /\ i \in disk.items => status'[i] = "held"
                      /\ i \notin disk.items => status'[i] \notin {"pending", "running", "held"}
  BY DEF Boot, Live, HeldItems
<1>3. status' \in [Item -> Status]
  BY DEF Boot, DInv, IInv, TypeOK, Status
<1> QED
  BY <1>1, <1>2, <1>3 DEF InMem, Live, HeldItems

\* A boot starts an empty queue beside the held items.
LEMMA BootDInv ==
    ASSUME DInv, Crash \/ Restart
    PROVE  DInv'
<1>0. Boot /\ boots' \in [crashes : Nat, restarts : Nat]
  <2>1. boots.crashes + 1 \in Nat /\ boots.restarts + 1 \in Nat /\ boots \in [crashes : Nat, restarts : Nat]
    BY DEF DInv
  <2> QED
    BY <2>1 DEF Crash, Restart
<1>1. /\ disk.items \subseteq Item /\ disk.recent \subseteq Key
      /\ IsFiniteSet(disk.items) /\ IsFiniteSet(disk.recent)
      /\ disk.body \in [disk.items -> Body] /\ disk.msg \in [disk.items -> Msg]
  BY SnapshotFields DEF DInv
<1>2. /\ Live' = {} /\ InMem' = disk.items /\ status' \in [Item -> Status]
  BY <1>0, BootMemory
<1>3. TypeOK'
  <2>1. \A i \in Item : Attr[i].msg \in Msg /\ KeyOf(i) \in Key
    BY ConstantsAssumption DEF Attributes
  <2>2. msg' \in [Item -> Msg]
    BY <1>0, <1>1, <2>1 DEF Boot
  <2>3. body' \in [Item -> Body]
    <3>1. Fresh \in Body
      BY DEF Fresh, Body
    <3> QED
      BY <1>0, <1>1, <3>1 DEF Boot
  <2>4. recent' \subseteq Key
    BY <1>0, <1>1, <2>1 DEF Boot, PreloadedKeys
  <2>5. albums' \in [Album -> AlbumMemo]
    BY <1>0 DEF Boot, AlbumMemo
  <2>6. keys' \in [Key -> Item \cup {None}] /\ worker' \in [Kinds -> WorkerState]
    BY <1>0 DEF Boot
  <2>7. quiet' \in [on : BOOLEAN, left : Nat]
    BY <1>0 DEF Boot, DInv, IInv, TypeOK
  <2> QED
    BY <1>0, <1>2, <2>2, <2>3, <2>4, <2>5, <2>6, <2>7 DEF Boot, TypeOK
<1>4. \A k \in Kinds : Running(k)' = {}
  BY <1>2 DEF Live, Running
<1>5. IInv'
  BY <1>0, <1>2, <1>3, <1>4
     DEF Boot, IInv, LiveQueued, NoLostWakeup, OneItemPerKey, SoundBatches
<1>6. IsFiniteSet(InMem') /\ IsFiniteSet(recent')
  <2>1. PICK held : held = {KeyOf(i) : i \in disk.items}
    OBVIOUS
  <2>2. IsFiniteSet(held)
    BY <1>1, <2>1, FiniteKeys
  <2>3. recent' = disk.recent \cup held
    BY <1>0, <2>1 DEF Boot, PreloadedKeys
  <2> QED
    BY <1>1, <1>2, <2>2, <2>3, FS_Union
<1>7. <<>> \in Seq(Snapshots) /\ Len(<<>>) = 0
  OBVIOUS
<1>8. /\ timer' \in BOOLEAN /\ resumed' \in BOOLEAN
      /\ disk' \in Snapshots /\ writes' \in Seq(Snapshots)
      /\ life' \in {"up", "saving", "flushed"} /\ awaited' \in 0 .. Len(writes')
      /\ sent' \in [Key -> Nat] /\ doomed' \subseteq Item
  <2>1. /\ timer' = FALSE /\ resumed' = FALSE /\ writes' = <<>> /\ life' = "up" /\ awaited' = 0
        /\ UNCHANGED <<disk, sent, doomed>>
    BY <1>0 DEF Boot
  <2>2. Len(writes') = 0 /\ writes' \in Seq(Snapshots)
    BY <1>7, <2>1, Zenon
  <2>3. awaited' \in 0 .. Len(writes')
    BY <2>1, <2>2
  <2> QED
    BY <2>1, <2>2, <2>3 DEF DInv
<1> QED
  BY <1>0, <1>5, <1>6, <1>8 DEF DInv

\* A resumed item takes a key nobody has.
LEMMA ResumeDInv ==
    ASSUME DInv, NEW active \in SUBSET Job, Resume(active)
    PROVE  DInv'
<1> DEFINE known == {i \in HeldItems : JobOf(i) \in active}
           free  == {i \in known : keys[KeyOf(i)] = None}
<1>1. PICK back \in SUBSET free :
        /\ \A i, j \in back : KeyOf(i) = KeyOf(j) => i = j
        /\ status' = [i \in Item |-> IF i \in back THEN "pending"
                                     ELSE IF i \in HeldItems THEN "dropped" ELSE status[i]]
        /\ recent' = recent \ {KeyOf(i) : i \in back}
        /\ keys' = [k \in Key |-> IF \E i \in back : KeyOf(i) = k
                                  THEN CHOOSE i \in back : KeyOf(i) = k ELSE keys[k]]
        /\ heap' = Pushed(heap, back)
        /\ \E d \in SUBSET back : due' = due \cup d
        /\ \E l \in SUBSET {i \in back : Expires(Kind(i))} : late' = late \cup l
        /\ wake' = Alarmed(wake, back)
        /\ timer' = (timer \/ back # {} \/ HeldItems \ known # {})
  BY DEF Resume
<1>2. /\ UNCHANGED <<body, cancelled, worker, slot, msg, albums, quiet, closed,
                     writes, disk, life, awaited, boots, sent, doomed>>
      /\ resumed' = TRUE
  BY DEF Resume
<1>3. /\ back \subseteq HeldItems /\ back \subseteq Item
      /\ \A i \in back : keys[KeyOf(i)] = None /\ KeyOf(i) \in Key /\ Kind(i) \in Kinds
  BY ConstantsAssumption DEF HeldItems, Attributes
<1>4. Live' = Live \cup back /\ HeldItems' = {} /\ back \cap Live = {}
  BY <1>1, <1>3 DEF Live, HeldItems
<1>5. \A i \in back : keys'[KeyOf(i)] = i
  <2>1. ASSUME NEW i \in back PROVE (CHOOSE j \in back : KeyOf(j) = KeyOf(i)) = i
    <3>1. \E j \in back : KeyOf(j) = KeyOf(i)
      BY <2>1
    <3>2. PICK c : c = CHOOSE j \in back : KeyOf(j) = KeyOf(i)
      OBVIOUS
    <3>3. c \in back /\ KeyOf(c) = KeyOf(i)
      BY <3>1, <3>2
    <3> QED
      BY <1>1, <3>2, <3>3
  <2> QED
    BY <1>1, <1>3, <2>1
<1>6. \A k \in Key : (\A i \in back : KeyOf(i) # k) => keys'[k] = keys[k]
  BY <1>1
<1>7. TypeOK'
  <2>1. keys' \in [Key -> Item \cup {None}]
    <3>1. ASSUME NEW k \in Key PROVE keys'[k] \in Item \cup {None}
      <4>1. CASE \E i \in back : KeyOf(i) = k
        BY <1>3, <1>5, <4>1
      <4>2. CASE \A i \in back : KeyOf(i) # k
        BY <1>6, <4>2 DEF DInv, IInv, TypeOK
      <4> QED
        BY <4>1, <4>2
    <3> QED
      BY <1>1, <3>1
  <2>2. status' \in [Item -> Status]
    BY <1>1 DEF DInv, IInv, TypeOK, Status, Ended
  <2>3. due' \subseteq Item /\ late' \subseteq Item /\ heap' \subseteq Item /\ wake' \subseteq Kinds
        /\ recent' \subseteq Key
    BY <1>1, <1>3 DEF DInv, IInv, TypeOK
  <2> QED
    BY <1>2, <2>1, <2>2, <2>3 DEF DInv, IInv, TypeOK
<1>8. \A k \in Kinds : Running(k)' = Running(k)
  BY <1>1, <1>3 DEF Running, HeldItems
<1>9. LiveQueued' /\ SoundBatches'
  BY <1>1, <1>2, <1>4, <1>8 DEF DInv, IInv, LiveQueued, SoundBatches
<1>10. NoLostWakeup'
  <2> SUFFICES ASSUME NEW k \in Kinds, worker'[k] = "idle", NEW i \in Queued(k)' PROVE k \in wake'
    BY DEF NoLostWakeup
  <2>1. CASE i \in back
    BY <1>1, <2>1 DEF Queued
  <2>2. CASE i \notin back
    <3>1. i \in Queued(k)
      BY <1>1, <2>2 DEF Queued, DInv, IInv, TypeOK, HeldItems
    <3> QED
      BY <1>1, <1>2, <3>1 DEF DInv, IInv, NoLostWakeup
  <2> QED
    BY <2>1, <2>2
<1>11. OneItemPerKey'
  <2>1. ASSUME NEW i \in Live' PROVE keys'[KeyOf(i)] = i /\ KeyOf(i) \notin recent'
    <3>1. CASE i \in back
      BY <1>1, <1>5, <3>1
    <3>2. CASE i \in Live
      <4>1. keys[KeyOf(i)] = i /\ KeyOf(i) \notin recent /\ i # None /\ KeyOf(i) \in Key
        BY <3>2, ConstantsAssumption DEF DInv, IInv, OneItemPerKey, Live, Attributes
      <4> QED
        BY <1>1, <1>3, <1>6, <4>1
    <3> QED
      BY <1>4, <3>1, <3>2
  <2>2. ASSUME NEW k \in Key, keys'[k] # None PROVE keys'[k] \in Live' /\ KeyOf(keys'[k]) = k
    <3>1. CASE \E i \in back : KeyOf(i) = k
      BY <1>4, <1>5, <3>1
    <3>2. CASE \A i \in back : KeyOf(i) # k
      BY <1>4, <1>6, <2>2, <3>2 DEF DInv, IInv, OneItemPerKey
    <3> QED
      BY <3>1, <3>2
  <2> QED
    BY <2>1, <2>2 DEF OneItemPerKey
<1>12. IsFiniteSet(InMem') /\ IsFiniteSet(recent')
  <2>1. InMem' \subseteq InMem /\ recent' \subseteq recent
    BY <1>1, <1>3, <1>4 DEF InMem
  <2> QED
    BY <2>1, FS_Subset DEF DInv
<1>13. timer' \in BOOLEAN
  BY <1>1 DEF DInv
<1> QED
  BY <1>2, <1>7, <1>9, <1>10, <1>11, <1>12, <1>13 DEF DInv, IInv

\* Every step of the queue, its file and its process keeps both well formed.
LEMMA DurableNextInv ==
    ASSUME DInv, [DurableNext]_allVars
    PROVE  DInv'
<1>1. CASE UNCHANGED allVars
  <2>1. IInv'
    BY <1>1, NextInv DEF allVars, DInv
  <2>2. InMem' = InMem /\ recent' = recent
    BY <1>1 DEF allVars, vars, queueVars, InMem, Live, HeldItems
  <2>3. IsFiniteSet(InMem') /\ IsFiniteSet(recent')
    BY <2>2 DEF DInv
  <2> QED
    BY <1>1, <2>1, <2>3 DEF DInv, allVars, durableVars, saveVars
<1> QED
  BY <1>1, SchedulesDInv, SavesDInv, BootDInv, ResumeDInv DEF DurableNext

\* The queue and its files are well formed in every state of every run.
THEOREM DurableInductive == DurableSpec => []DInv
<1>1. DurableInit => DInv
  BY DurableInitInv
<1>2. DInv /\ [DurableNext]_allVars => DInv'
  BY DurableNextInv
<1> QED
  BY <1>1, <1>2, PTL DEF DurableSpec

\* Types of the files and of what stop() and the boots count.
THEOREM DurableTypeCorrect == DurableSpec => []DurableTypeOK
<1>1. DInv => DurableTypeOK
  BY SnapshotFields, WriteQueue DEF DInv, DurableTypeOK
<1> QED
  BY <1>1, DurableInductive, PTL

\* The queue of a daemon that crashes and restarts keeps what the queue alone
\* keeps: no pending action is invisible, no wake-up lost, no work in it twice.
THEOREM QueueSurvivesRestarts ==
    DurableSpec => [](TypeOK /\ Scheduled /\ NoLostWakeup /\ OneItemPerKey /\ SoundBatches)
<1>1. DInv => TypeOK /\ Scheduled /\ NoLostWakeup /\ OneItemPerKey /\ SoundBatches
  BY DEF DInv, IInv, LiveQueued, Scheduled, Live, Pending
<1> QED
  BY <1>1, DurableInductive, PTL

-----------------------------------------------------------------------------
(* What holds as long as a bound is not reached.                           *)

\* No key has been forgotten: a memory that was trimmed is full.
KeysFit == Cardinality(recent) < RecentKeys
\* Every item fits into the file.
ItemsFit == Cardinality(InMem) <= MaxPending

\* Both hold throughout when there is not more work than the bounds allow.
THEOREM SmallWorkload ==
    ASSUME IsFiniteSet(Item), Cardinality(Item) <= MaxPending,
           IsFiniteSet(Key), Cardinality(Key) < RecentKeys
    PROVE  DurableSpec => [](KeysFit /\ ItemsFit)
<1>1. ASSUME DInv PROVE KeysFit /\ ItemsFit
  <2>1. InMem \in SUBSET Item /\ recent \in SUBSET Key
    BY <1>1 DEF DInv, IInv, TypeOK, InMem, Live, HeldItems
  <2>2. Cardinality(InMem) <= Cardinality(Item) /\ Cardinality(recent) <= Cardinality(Key)
    BY <2>1, FS_Subset
  <2>3. /\ Cardinality(InMem) \in Nat /\ Cardinality(Item) \in Nat
        /\ Cardinality(recent) \in Nat /\ Cardinality(Key) \in Nat
    BY <1>1, FS_CardinalityType DEF DInv
  <2> QED
    BY <2>2, <2>3, LimitTypes DEF KeysFit, ItemsFit
<1> QED
  BY <1>1, DurableInductive, PTL

\* While no key is forgotten, what ends is remembered unless it is dropped.
LEMMA KeysRemembered ==
    ASSUME DInv, Schedules, KeysFit'
    PROVE  /\ recent \subseteq recent'
           /\ \A i \in Live \ Live' : KeyOf(i) \in recent' \/ status'[i] = "dropped"
<1>1. TakesIn \/ \E gone : LetsGo(gone)
  BY SchedulesNext, Effect DEF DInv
<1>2. CASE TakesIn
  BY <1>2 DEF TakesIn
<1>3. ASSUME NEW gone, LetsGo(gone)
      PROVE  /\ recent \subseteq recent'
             /\ \A i \in Live \ Live' : KeyOf(i) \in recent' \/ status'[i] = "dropped"
  <2>1. PICK new : new = {KeyOf(i) : i \in gone}
    OBVIOUS
  <2>2. recent' \in Remember(new)
    BY <1>3, <2>1 DEF LetsGo
  <2>3. recent' = recent \cup new
    BY <2>2, RememberFits DEF KeysFit
  <2> QED
    BY <1>3, <2>1, <2>3 DEF LetsGo
<1> QED
  BY <1>1, <1>2, <1>3

\* The keys of held items count as known.
HeldKnown == \A i \in HeldItems : KeyOf(i) \in recent

\* What saves, writes and stops leaves the queue alone.
LEMMA SavesLeave ==
    ASSUME SaveSoon \/ WriteLands \/ AwaitSave \/ Flush
    PROVE  /\ Live' = Live /\ HeldItems' = HeldItems /\ InMem' = InMem
           /\ UNCHANGED <<vars, resumed, boots, sent>>
<1>1. UNCHANGED <<vars, resumed, boots, sent>>
  BY DEF SaveSoon, WriteLands, AwaitSave, Flush
<1> QED
  BY <1>1 DEF vars, queueVars, Live, HeldItems, InMem

\* What resuming does to the held items and the memory of their keys.
LEMMA ResumeEffect ==
    ASSUME DInv, NEW active, Resume(active)
    PROVE  \E back \in SUBSET HeldItems :
               /\ HeldItems' = {} /\ Live' = Live \cup back
               /\ recent' = recent \ {KeyOf(i) : i \in back}
               /\ UNCHANGED <<sent, boots, life, awaited, closed, worker, writes, disk, body, msg>>
               /\ life = "up"
               /\ \A i \in Item : status'[i] = "new" => status[i] = "new"
<1>1. PICK back \in SUBSET {i \in {i \in HeldItems : JobOf(i) \in active} : keys[KeyOf(i)] = None} :
        /\ status' = [i \in Item |-> IF i \in back THEN "pending"
                                     ELSE IF i \in HeldItems THEN "dropped" ELSE status[i]]
        /\ recent' = recent \ {KeyOf(i) : i \in back}
  BY DEF Resume
<1>2. back \in SUBSET HeldItems
  OBVIOUS
<1>3. HeldItems' = {} /\ Live' = Live \cup back
  BY <1>1, <1>2 DEF Live, HeldItems
<1>4. \A i \in Item : status'[i] = "new" => status[i] = "new"
  BY <1>1
<1> QED
  BY <1>1, <1>2, <1>3, <1>4 DEF Resume

\* A held key stays known until the item is resumed.
LEMMA HeldKnownStep ==
    ASSUME DInv, HeldKnown, [DurableNext]_allVars, KeysFit'
    PROVE  HeldKnown'
<1>1. CASE Schedules
  <2>1. HeldItems' = HeldItems
    BY <1>1, SchedulesNext, Effect DEF DInv
  <2> QED
    BY <1>1, <2>1, KeysRemembered DEF HeldKnown
<1>2. CASE SaveSoon \/ WriteLands \/ AwaitSave \/ Flush
  BY <1>2, SavesLeave DEF HeldKnown, vars, queueVars
<1>3. CASE Crash \/ Restart
  <2>1. HeldItems' = disk.items /\ recent' = PreloadedKeys
    BY <1>3, BootMemory DEF Crash, Restart, Boot
  <2> QED
    BY <2>1 DEF PreloadedKeys, HeldKnown
<1>4. ASSUME NEW active, Resume(active) PROVE HeldKnown'
  BY <1>4, ResumeEffect DEF HeldKnown
<1>5. CASE UNCHANGED allVars
  BY <1>5 DEF HeldKnown, HeldItems, allVars, vars, queueVars
<1> QED
  BY <1>1, <1>2, <1>3, <1>4, <1>5 DEF DurableNext

\* From the boot that held them to the resume that frees them.
LEMMA HeldKnownAlways == DurableSpec /\ []KeysFit => []HeldKnown
<1>1. DurableInit => HeldKnown
  BY DEF DurableInit, Init, HeldKnown, HeldItems
<1>2. DInv /\ HeldKnown /\ [DurableNext]_allVars /\ KeysFit' => HeldKnown'
  BY HeldKnownStep
<1> QED
  BY <1>1, <1>2, DurableInductive, PTL DEF DurableSpec

\* A replayed update never queues a copy of what the file holds ("Held keys count as
\* pending: a replay must not schedule a copy", preload), as long as the memory of
\* keys, which held keys share with finished ones, has not been trimmed.
THEOREM HeldNeverCopied == DurableSpec /\ []KeysFit => []HeldNotCopied
<1>1. DInv /\ HeldKnown => HeldNotCopied
  BY DEF DInv, IInv, OneItemPerKey, HeldKnown, HeldNotCopied
<1> QED
  BY <1>1, HeldKnownAlways, DurableInductive, PTL

-----------------------------------------------------------------------------
(* Repetition.                                                             *)

\* Once stop() waits for its save no worker is left.
Stopped == life # "up" => closed /\ \A k \in Kinds : worker[k] = "off"

\* The scheduler stays closed, and workers stay gone, until the next boot.
LEMMA StoppedStep ==
    ASSUME DInv, Stopped, [DurableNext]_allVars
    PROVE  Stopped'
<1>1. CASE Schedules
  <2>1. Next /\ life' = life
    BY <1>1, SchedulesNext, SchedulesHistory
  <2>2. closed => closed'
    BY <2>1 DEF Next, RollOut, PlanNothing, Skip, Submit, Duplicate, Sibling, Full, Refuse, Insert,
       ReadFirst, ComesDue, GoesLate, Step, Idle, WaitDue, WaitSlot, Sleep, Drop, Hold, Start,
       Woken, Leave, EndOfBatch, Succeed, TypeFirst, Flood, Fail, End, Abort, SlotOpens,
       Cancel, ForgetJob, Takeover, Supersede, Close, QuietBegins, QuietEnds
  <2> QED
    BY <2>1, <2>2, OffStaysOff DEF Stopped, DInv
<1>2. CASE SaveSoon \/ WriteLands \/ AwaitSave \/ Flush
  BY <1>2 DEF SaveSoon, WriteLands, AwaitSave, Flush, Stopped, vars
<1>3. CASE Crash \/ Restart
  BY <1>3 DEF Crash, Restart, Boot, Stopped
<1>4. ASSUME NEW active, Resume(active) PROVE Stopped'
  BY <1>4 DEF Resume, Stopped
<1>5. CASE UNCHANGED allVars
  BY <1>5 DEF Stopped, allVars, vars, durableVars
<1> QED
  BY <1>1, <1>2, <1>3, <1>4, <1>5 DEF DurableNext

\* Nothing was sent oftener than once and once more for each crash, and what may be
\* sent again, because its key is not known or its item is held, not even that often.
FewSends ==
    /\ \A k \in Key : /\ sent[k] <= 1 + boots.crashes
                      /\ k \notin recent => sent[k] <= boots.crashes
    /\ \A i \in HeldItems : sent[KeyOf(i)] <= boots.crashes

\* A file a restart may read: what was sent that often is known there, and not held.
Restful(s) ==
    \A k \in Key : sent[k] > boots.crashes =>
        k \in s.recent /\ \A i \in s.items : KeyOf(i) # k

\* What stop() leaves behind, and the writes it does not wait for, are such files.
RestfulStop ==
    /\ life # "up" => \A n \in 1 .. Len(writes) : n > awaited => Restful(writes[n])
    /\ life = "flushed" => Restful(disk) /\ awaited = 0

\* What is saved now is such a file.
LEMMA SnapshotRests ==
    ASSUME DInv, KeysFit, FewSends
    PROVE  Restful(Snapshot)
<1>1. Snapshot.items \subseteq InMem /\ Snapshot.recent = recent
  <2>1. Cardinality(recent) \in Nat
    BY FS_CardinalityType DEF DInv
  <2>2. Cardinality(recent) <= RecentKeys
    BY <2>1, LimitTypes DEF KeysFit
  <2> QED
    BY <2>2, SnapshotIsFile DEF DInv, IInv
<1>2. SUFFICES ASSUME NEW k \in Key, sent[k] > boots.crashes
               PROVE  k \in recent /\ \A i \in InMem : KeyOf(i) # k
  BY <1>1 DEF Restful
<1>3. sent[k] \in Nat /\ boots.crashes \in Nat
  BY DEF DInv
<1>4. k \in recent
  BY <1>2, <1>3 DEF FewSends
<1>5. \A i \in HeldItems : KeyOf(i) # k
  BY <1>2, <1>3 DEF FewSends
<1>6. \A i \in Live : KeyOf(i) # k
  BY <1>4 DEF DInv, IInv, OneItemPerKey
<1> QED
  BY <1>4, <1>5, <1>6 DEF InMem

\* Files rest while nothing is sent and nothing crashes.
LEMMA RestfulKept ==
    ASSUME NEW s, Restful(s), sent' = sent, boots'.crashes = boots.crashes
    PROVE  \A k \in Key : sent'[k] > boots'.crashes =>
               k \in s.recent /\ \A i \in s.items : KeyOf(i) # k
BY DEF Restful

\* A batch that went out is remembered, and was not known before.
LEMMA SendingStep ==
    ASSUME DInv, HeldKnown, FewSends, NEW w \in Kinds, Finishes(w), Schedules, KeysFit',
           sent' = [k \in Key |-> IF \E i \in {i \in Running(w) : ~Attr[i].dry} : KeyOf(i) = k
                                  THEN sent[k] + 1 ELSE sent[k]]
    PROVE  FewSends'
<1>1. recent \subseteq recent' /\ HeldItems' = HeldItems /\ boots' = boots
  BY SchedulesNext, Effect, KeysRemembered, SchedulesHistory DEF DInv
<1>2. \A i \in Running(w) : status'[i] \in {"done", "superseded"} /\ i \in Live /\ i \in Item
  BY DEF Finishes, Succeed, End, Resolve, Fate, All, Running, Live
<1>3. \A i \in Running(w) : i \in Live \ Live' /\ status'[i] # "dropped"
  BY <1>2 DEF Live
<1>4. \A i \in Running(w) : KeyOf(i) \in recent' /\ KeyOf(i) \notin recent
  BY <1>2, <1>3, KeysRemembered DEF DInv, IInv, OneItemPerKey
<1>5. \A k \in Key : sent[k] \in Nat /\ boots.crashes \in Nat
  BY DEF DInv
<1>6. ASSUME NEW k \in Key
      PROVE  sent'[k] <= 1 + boots.crashes /\ (k \notin recent' => sent'[k] <= boots.crashes)
  <2>1. CASE \E i \in {i \in Running(w) : ~Attr[i].dry} : KeyOf(i) = k
    <3>1. sent'[k] = sent[k] + 1 /\ k \in recent' /\ k \notin recent
      BY <1>4, <2>1
    <3>2. sent[k] <= boots.crashes
      BY <3>1 DEF FewSends
    <3> QED
      BY <1>5, <3>1, <3>2
  <2>2. CASE ~\E i \in {i \in Running(w) : ~Attr[i].dry} : KeyOf(i) = k
    BY <1>1, <2>2 DEF FewSends
  <2> QED
    BY <2>1, <2>2
<1>7. ASSUME NEW j \in HeldItems PROVE sent'[KeyOf(j)] <= boots.crashes
  <2>1. KeyOf(j) \in recent /\ KeyOf(j) \in Key
    BY ConstantsAssumption DEF HeldKnown, HeldItems, Attributes
  <2>2. ~\E i \in {i \in Running(w) : ~Attr[i].dry} : KeyOf(i) = KeyOf(j)
    BY <1>4, <2>1
  <2>3. sent'[KeyOf(j)] = sent[KeyOf(j)]
    BY <2>1, <2>2
  <2> QED
    BY <2>3 DEF FewSends
<1> QED
  BY <1>1, <1>6, <1>7 DEF FewSends

\* A step of the queue that sends nothing frees no key that was sent too often.
LEMMA QuietStep ==
    ASSUME DInv, HeldKnown, FewSends, Schedules, KeysFit', sent' = [k \in Key |-> sent[k]]
    PROVE  FewSends'
<1>1. /\ recent \subseteq recent' /\ HeldItems' = HeldItems /\ boots' = boots
  BY SchedulesNext, Effect, KeysRemembered, SchedulesHistory DEF DInv
<1>2. sent' = sent
  BY DEF DInv
<1> QED
  BY <1>1, <1>2 DEF FewSends

\* What may be sent again was sent once for each crash at most.
LEMMA FewSendsStep ==
    ASSUME DInv, HeldKnown, FewSends, RestfulStop, [DurableNext]_allVars, KeysFit'
    PROVE  FewSends'
<1>0. \A k \in Key : sent[k] \in Nat /\ boots.crashes \in Nat
  BY DEF DInv
<1>1. CASE Schedules
  <2>1. ASSUME NEW w \in Kinds, Finishes(w),
               sent' = [k \in Key |-> IF \E i \in {i \in Running(w) : ~Attr[i].dry} : KeyOf(i) = k
                                      THEN sent[k] + 1 ELSE sent[k]]
        PROVE  FewSends'
    BY <1>1, <2>1, SendingStep
  <2> QED
    BY <1>1, <2>1, QuietStep, SchedulesHistory
<1>2. CASE SaveSoon \/ WriteLands \/ AwaitSave \/ Flush
  <2>1. UNCHANGED <<vars, boots, sent>> /\ HeldItems' = HeldItems
    BY <1>2, SavesLeave
  <2> QED
    BY <2>1 DEF FewSends, vars, queueVars
<1>3. CASE Crash
  <2>1. boots'.crashes = boots.crashes + 1 /\ sent' = sent /\ HeldItems' = disk.items
    BY <1>3, BootMemory DEF Crash, Boot, DInv
  <2>2. \A i \in disk.items : KeyOf(i) \in Key
    BY SnapshotFields, ConstantsAssumption DEF DInv, Attributes
  <2> QED
    BY <1>0, <2>1, <2>2 DEF FewSends
<1>4. CASE Restart
  <2>1. /\ boots'.crashes = boots.crashes /\ sent' = sent /\ HeldItems' = disk.items
        /\ recent' = PreloadedKeys /\ Restful(disk)
    BY <1>4, BootMemory DEF Restart, Boot, DInv, RestfulStop
  <2>2. \A i \in disk.items : KeyOf(i) \in Key
    BY SnapshotFields, ConstantsAssumption DEF DInv, Attributes
  <2>3. \A k \in Key : k \notin recent' => sent[k] <= boots.crashes
    BY <1>0, <2>1 DEF Restful, PreloadedKeys
  <2>4. \A i \in disk.items : sent[KeyOf(i)] <= boots.crashes
    BY <1>0, <2>1, <2>2 DEF Restful
  <2> QED
    BY <2>1, <2>3, <2>4 DEF FewSends
<1>5. ASSUME NEW active, Resume(active) PROVE FewSends'
  <2>1. PICK back \in SUBSET HeldItems :
           /\ HeldItems' = {} /\ recent' = recent \ {KeyOf(i) : i \in back}
           /\ sent' = sent /\ boots' = boots
    BY <1>5, ResumeEffect
  <2> QED
    BY <2>1 DEF FewSends
<1>6. CASE UNCHANGED allVars
  BY <1>6 DEF FewSends, HeldItems, allVars, vars, queueVars, durableVars
<1> QED
  BY <1>1, <1>2, <1>3, <1>4, <1>5, <1>6 DEF DurableNext

\* Whatever file a restart finds is one that rests.
LEMMA RestfulStopStep ==
    ASSUME DInv, Stopped, FewSends, RestfulStop, KeysFit, [DurableNext]_allVars
    PROVE  RestfulStop'
<1>0. Len(writes) \in Nat /\ awaited \in 0 .. Len(writes)
  BY WriteQueue DEF DInv
<1>1. CASE Schedules
  <2>1. UNCHANGED <<writes, disk, life, awaited, boots>>
    BY <1>1, SchedulesHistory
  <2>2. CASE life = "up"
    BY <2>1, <2>2 DEF RestfulStop
  <2>3. CASE life # "up"
    <3>1. \A w \in Kinds : ~Finishes(w)
      BY <2>3 DEF Stopped, Finishes, Succeed, End
    <3>2. sent' = sent
      BY <1>1, <3>1, SchedulesHistory DEF DInv
    <3> QED
      BY <2>1, <3>2 DEF RestfulStop, Restful
  <2> QED
    BY <2>2, <2>3
<1>2. CASE SaveSoon
  <2>1. /\ Snapshot \in Snapshots /\ Restful(Snapshot)
    BY SnapshotIsFile, SnapshotRests DEF DInv, IInv
  <2>2. /\ Len(writes') = Len(writes) + 1
        /\ writes'[Len(writes) + 1] = Snapshot
        /\ \A n \in 1 .. Len(writes) : writes'[n] = writes[n]
    BY <1>2, <2>1, WriteQueue DEF SaveSoon, DInv
  <2>3. UNCHANGED <<life, awaited, disk, sent, boots>>
    BY <1>2 DEF SaveSoon
  <2>4. ASSUME life # "up", NEW n \in 1 .. Len(writes'), n > awaited
        PROVE  Restful(writes'[n])
    <3>1. CASE n = Len(writes) + 1
      BY <2>1, <2>2, <3>1
    <3>2. CASE n \in 1 .. Len(writes)
      BY <2>2, <2>4, <3>2 DEF RestfulStop
    <3> QED
      BY <1>0, <2>2, <3>1, <3>2
  <2> QED
    BY <2>3, <2>4 DEF RestfulStop, Restful
<1>3. CASE WriteLands
  <2>1. /\ Len(writes') = Len(writes) - 1 /\ Len(writes) > 0
        /\ disk' = writes[1]
        /\ \A n \in 1 .. Len(writes') : writes'[n] = writes[n + 1]
        /\ awaited' = IF awaited > 0 THEN awaited - 1 ELSE 0
        /\ UNCHANGED <<life, sent, boots>>
    BY <1>3, WriteQueue DEF WriteLands, DInv
  <2>2. ASSUME life # "up", NEW n \in 1 .. Len(writes'), n > awaited'
        PROVE  Restful(writes'[n])
    <3>1. n + 1 \in 1 .. Len(writes) /\ n + 1 > awaited
      BY <1>0, <2>1, <2>2
    <3> QED
      BY <2>1, <2>2, <3>1 DEF RestfulStop
  <2>3. ASSUME life = "flushed" PROVE Restful(disk') /\ awaited' = 0
    <3>1. awaited = 0 /\ 1 \in 1 .. Len(writes)
      BY <1>0, <2>1, <2>3 DEF RestfulStop
    <3> QED
      BY <2>1, <2>3, <3>1 DEF RestfulStop
  <2> QED
    BY <2>1, <2>2, <2>3 DEF RestfulStop, Restful
<1>4. CASE AwaitSave
  <2>1. life' = "saving" /\ awaited' = Len(writes) /\ writes' = writes
    BY <1>4 DEF AwaitSave, saveVars
  <2> QED
    BY <1>0, <2>1 DEF RestfulStop
<1>5. CASE Flush
  <2>1. /\ Restful(Snapshot) /\ disk' = Snapshot /\ awaited = 0 /\ life = "saving"
        /\ UNCHANGED <<writes, awaited, sent, boots>>
    BY <1>5, SnapshotRests DEF Flush
  <2> QED
    BY <2>1 DEF RestfulStop, Restful
<1>6. CASE Crash \/ Restart
  BY <1>6 DEF Crash, Restart, Boot, RestfulStop
<1>7. ASSUME NEW active, Resume(active) PROVE RestfulStop'
  BY <1>7 DEF Resume, RestfulStop
<1>8. CASE UNCHANGED allVars
  BY <1>8 DEF RestfulStop, Restful, allVars, durableVars, saveVars
<1> QED
  BY <1>1, <1>2, <1>3, <1>4, <1>5, <1>6, <1>7, <1>8 DEF DurableNext

\* A clean restart repeats nothing and a crash repeats a piece of work once at most,
\* as long as no key is trimmed from the memory of what is finished.
THEOREM RepeatsAreCrashes == DurableSpec /\ []KeysFit => []RepeatsOnlyAfterCrash
<1>1. DurableInit => Stopped /\ FewSends /\ RestfulStop
  BY DEF DurableInit, Init, Stopped, FewSends, HeldItems, RestfulStop
<1>2. DInv /\ HeldKnown /\ Stopped /\ FewSends /\ RestfulStop /\ KeysFit
          /\ [DurableNext]_allVars /\ KeysFit'
      => (Stopped /\ FewSends /\ RestfulStop)'
  BY StoppedStep, FewSendsStep, RestfulStopStep
<1>3. FewSends => RepeatsOnlyAfterCrash
  BY DEF FewSends, RepeatsOnlyAfterCrash
<1> QED
  BY <1>1, <1>2, <1>3, DurableInductive, HeldKnownAlways, PTL DEF DurableSpec

-----------------------------------------------------------------------------
(* What is on disk stays there.                                            *)

\* File t holds what file s holds of the queue as it is now.
Keeps(s, t) == s.items \cap InMem \subseteq t.items

\* No file names an item that was never planned.
FilesOld ==
    /\ \A i \in disk.items : status[i] # "new"
    /\ \A n \in 1 .. Len(writes) : \A i \in writes[n].items : status[i] # "new"

\* Each write keeps what the file and the writes before it hold.
WritesKeep ==
    \A n \in 1 .. Len(writes) :
        /\ Keeps(disk, writes[n])
        /\ \A m \in 1 .. Len(writes) : m < n => Keeps(writes[m], writes[n])

\* The writes stop() does not wait for hold the whole queue, and so does its own.
StopKeeps ==
    /\ life # "up" => \A n \in 1 .. Len(writes) : n > awaited => InMem \subseteq writes[n].items
    /\ life = "flushed" => awaited = 0 /\ InMem \subseteq disk.items

FilesKeep == FilesOld /\ WritesKeep /\ StopKeeps

\* A stopped queue takes nothing in.
LEMMA NothingNew ==
    ASSUME DInv, Stopped, life # "up", Schedules, NEW i \in Item, status[i] = "new"
    PROVE  status'[i] = "new"
<1>1. \A k \in Kinds : worker[k] = "off"
  BY DEF Stopped
<1>2. \A k \in Kinds : ~Works(k) \/ UNCHANGED status
  BY <1>1 DEF Works, Step, Woken, Leave, Abort, queueVars
<1>3. \A k \in Kinds : ~Ends(k) /\ ~Finishes(k)
  BY <1>1 DEF Ends, TypeFirst, Flood, Fail, Finishes, Succeed, End
<1>4. \A j \in Item : ~Plans(j) /\ ~ReadFirst(j)
  <2>1. \A j \in Item : Kind(j) \in Kinds
    BY ConstantsAssumption
  <2> QED
    BY <1>1, <2>1 DEF Plans, ReadFirst
<1>5. CASE Overtakes
  <2>1. PICK S : S \subseteq Pending /\ Supersede(S, {}, "superseded")
    BY <1>5 DEF Overtakes, Takeover, TakenOver
  <2>2. i \notin S
    BY <2>1 DEF Pending
  <2> QED
    BY <2>1, <2>2 DEF Supersede, Resolve
<1>6. CASE Passing
  BY <1>6 DEF Passing, ComesDue, GoesLate, SlotOpens, QuietBegins, QuietEnds, queueVars
<1>7. CASE \E k \in Kinds : Works(k)
  BY <1>2, <1>7
<1> QED
  BY <1>3, <1>4, <1>5, <1>6, <1>7 DEF Schedules, Steps

\* Steps of the queue: what comes in is in no file.
LEMMA SchedulesKeeps ==
    ASSUME DInv, Stopped, FilesKeep, Schedules
    PROVE  FilesKeep'
<1>1. /\ UNCHANGED <<writes, disk, life, awaited>>
      /\ HeldItems' = HeldItems
      /\ \A i \in Item : status'[i] = "new" => status[i] = "new"
      /\ TakesIn \/ \E gone : LetsGo(gone)
  BY SchedulesHistory, SchedulesNext, Effect DEF DInv
<1>2. /\ disk.items \subseteq Item
      /\ \A n \in 1 .. Len(writes) : writes[n].items \subseteq Item
  BY SnapshotFields, WriteQueue DEF DInv
<1>3. FilesOld'
  BY <1>1, <1>2 DEF FilesKeep, FilesOld
<1>4. \A i \in InMem' : i \in InMem \/ (i \in Item /\ status[i] = "new")
  BY <1>1 DEF TakesIn, LetsGo, InMem
<1>5. WritesKeep'
  <2>1. \A i \in disk.items \cap InMem' : i \in InMem
    BY <1>4 DEF FilesKeep, FilesOld
  <2>2. \A n \in 1 .. Len(writes) : \A i \in writes[n].items \cap InMem' : i \in InMem
    BY <1>4 DEF FilesKeep, FilesOld
  <2> QED
    BY <1>1, <2>1, <2>2 DEF FilesKeep, WritesKeep, Keeps
<1>6. ASSUME life # "up" PROVE InMem' \subseteq InMem
  <2>1. \A i \in Item : status[i] = "new" => status'[i] = "new"
    BY <1>6, NothingNew
  <2> QED
    BY <1>4, <2>1 DEF InMem, Live, HeldItems
<1>7. StopKeeps'
  BY <1>1, <1>6 DEF FilesKeep, StopKeeps
<1> QED
  BY <1>3, <1>5, <1>7 DEF FilesKeep

\* Saving and writing.
LEMMA SavesKeep ==
    ASSUME DInv, FilesKeep, ItemsFit, SaveSoon \/ WriteLands \/ AwaitSave \/ Flush
    PROVE  FilesKeep'
<1>0. Len(writes) \in Nat /\ awaited \in 0 .. Len(writes)
  BY WriteQueue DEF DInv
<1>1. InMem' = InMem /\ status' = status
  BY SavesLeave DEF vars, queueVars
<1>2. Snapshot \in Snapshots /\ Snapshot.items = InMem
  BY SnapshotIsFile DEF DInv, IInv, ItemsFit
<1>3. \A i \in InMem : status[i] # "new"
  BY DEF InMem, Live, HeldItems
<1>4. CASE SaveSoon
  <2>1. /\ Len(writes') = Len(writes) + 1
        /\ writes'[Len(writes) + 1] = Snapshot
        /\ \A n \in 1 .. Len(writes) : writes'[n] = writes[n]
        /\ UNCHANGED <<life, awaited, disk>>
    BY <1>2, <1>4, WriteQueue DEF SaveSoon, DInv
  <2>2. \A n \in 1 .. Len(writes') : n \in 1 .. Len(writes) \/ n = Len(writes) + 1
    BY <1>0, <2>1
  <2>3. FilesOld'
    BY <1>1, <1>2, <1>3, <2>1, <2>2 DEF FilesKeep, FilesOld
  <2>4. WritesKeep'
    <3> SUFFICES ASSUME NEW n \in 1 .. Len(writes')
                 PROVE  /\ disk'.items \cap InMem' \subseteq writes'[n].items
                        /\ \A m \in 1 .. Len(writes') :
                              m < n => writes'[m].items \cap InMem' \subseteq writes'[n].items
      BY DEF WritesKeep, Keeps
    <3>1. CASE n = Len(writes) + 1
      BY <1>1, <1>2, <2>1, <3>1
    <3>2. CASE n \in 1 .. Len(writes)
      <4>1. \A m \in 1 .. Len(writes') : m < n => m \in 1 .. Len(writes)
        BY <1>0, <2>1, <3>2
      <4> QED
        BY <1>1, <2>1, <3>2, <4>1 DEF FilesKeep, WritesKeep, Keeps
    <3> QED
      BY <2>2, <3>1, <3>2
  <2>5. StopKeeps'
    BY <1>1, <1>2, <2>1, <2>2 DEF FilesKeep, StopKeeps
  <2> QED
    BY <2>3, <2>4, <2>5 DEF FilesKeep
<1>5. CASE WriteLands
  <2>1. /\ Len(writes') = Len(writes) - 1 /\ Len(writes) > 0
        /\ disk' = writes[1]
        /\ \A n \in 1 .. Len(writes') : writes'[n] = writes[n + 1]
        /\ awaited' = IF awaited > 0 THEN awaited - 1 ELSE 0
        /\ life' = life
    BY <1>5, WriteQueue DEF WriteLands, DInv
  <2>2. /\ 1 \in 1 .. Len(writes)
        /\ \A n \in 1 .. Len(writes') :
              n + 1 \in 1 .. Len(writes) /\ 1 < n + 1 /\ (n > awaited' => n + 1 > awaited)
        /\ \A m, n \in 1 .. Len(writes') : m < n => m + 1 < n + 1
    BY <1>0, <2>1
  <2>3. FilesOld'
    BY <1>1, <2>1, <2>2 DEF FilesKeep, FilesOld
  <2>4. WritesKeep'
    BY <1>1, <2>1, <2>2 DEF FilesKeep, WritesKeep, Keeps
  <2>5. StopKeeps'
    <3>1. ASSUME life # "up", NEW n \in 1 .. Len(writes'), n > awaited'
          PROVE  InMem' \subseteq writes'[n].items
      BY <1>1, <2>1, <2>2, <3>1 DEF FilesKeep, StopKeeps
    <3>2. ASSUME life = "flushed" PROVE awaited' = 0 /\ InMem' \subseteq disk'.items
      <4>1. awaited = 0 /\ 1 > awaited
        BY <3>2 DEF FilesKeep, StopKeeps
      <4> QED
        BY <1>1, <2>1, <2>2, <3>2, <4>1 DEF FilesKeep, StopKeeps
    <3> QED
      BY <2>1, <3>1, <3>2 DEF StopKeeps
  <2> QED
    BY <2>3, <2>4, <2>5 DEF FilesKeep
<1>6. CASE AwaitSave
  <2>1. UNCHANGED <<writes, disk>> /\ awaited' = Len(writes) /\ life' = "saving"
    BY <1>6 DEF AwaitSave, saveVars
  <2> QED
    BY <1>0, <1>1, <2>1 DEF FilesKeep, FilesOld, WritesKeep, Keeps, StopKeeps
<1>7. CASE Flush
  <2>1. disk' = Snapshot /\ writes' = writes /\ awaited' = awaited /\ awaited = 0 /\ life # "up"
    BY <1>7 DEF Flush
  <2>2. \A n \in 1 .. Len(writes) : InMem \subseteq writes[n].items
    BY <2>1 DEF FilesKeep, StopKeeps
  <2> QED
    BY <1>1, <1>2, <1>3, <2>1, <2>2 DEF FilesKeep, FilesOld, WritesKeep, Keeps, StopKeeps
<1> QED
  BY <1>4, <1>5, <1>6, <1>7

\* No step takes from a file, or from a write on its way, what is not settled.
LEMMA FilesKeepStep ==
    ASSUME DInv, Stopped, FilesKeep, ItemsFit, [DurableNext]_allVars
    PROVE  FilesKeep'
<1>1. CASE Crash \/ Restart
  <2>1. /\ writes' = <<>> /\ disk' = disk /\ life' = "up" /\ HeldItems' = disk.items
    BY <1>1, BootMemory DEF Crash, Restart, Boot
  <2>2. \A i \in disk'.items : status'[i] # "new"
    BY <2>1 DEF HeldItems
  <2> QED
    BY <2>1, <2>2 DEF FilesKeep, FilesOld, WritesKeep, StopKeeps
<1>2. ASSUME NEW active, Resume(active) PROVE FilesKeep'
  <2>1. /\ UNCHANGED <<writes, disk, life, awaited>> /\ life = "up"
        /\ InMem' \subseteq InMem
        /\ \A i \in Item : status'[i] = "new" => status[i] = "new"
    BY <1>2, ResumeEffect DEF InMem
  <2>2. /\ disk.items \subseteq Item
        /\ \A n \in 1 .. Len(writes) : writes[n].items \subseteq Item
    BY SnapshotFields, WriteQueue DEF DInv
  <2> QED
    BY <2>1, <2>2 DEF FilesKeep, FilesOld, WritesKeep, Keeps, StopKeeps
<1>3. CASE UNCHANGED allVars
  BY <1>3 DEF FilesKeep, FilesOld, WritesKeep, Keeps, StopKeeps, InMem, Live, HeldItems,
              allVars, durableVars, saveVars, vars, queueVars
<1> QED
  BY <1>1, <1>2, <1>3, SchedulesKeeps, SavesKeep DEF DurableNext

\* The files keep the queue in every state in which everything fits.
LEMMA FilesKeepAlways == DurableSpec /\ []ItemsFit => []FilesKeep
<1>1. DurableInit => Stopped /\ FilesKeep
  BY DEF DurableInit, Init, Stopped, FilesKeep, FilesOld, WritesKeep, StopKeeps, NoFile
<1>2. DInv /\ Stopped /\ FilesKeep /\ ItemsFit /\ [DurableNext]_allVars
      => (Stopped /\ FilesKeep)'
  BY StoppedStep, FilesKeepStep
<1> QED
  BY <1>1, <1>2, DurableInductive, PTL DEF DurableSpec

\* What is on disk and neither finished nor cancelled stays on disk, as long as the
\* queue fits into the file: no save drops held items, no older write lands over a
\* newer one, and stop()'s last write is the newest.
THEOREM DiskKeepsUntilSettled == DurableSpec /\ []ItemsFit => DurableUntilSettled
<1>1. DInv /\ FilesKeep /\ ItemsFit /\ [DurableNext]_allVars
      => [\A i \in disk.items \cap (Live \cup HeldItems) : i \in disk'.items]_allVars
  <2> SUFFICES ASSUME DInv, FilesKeep, ItemsFit, DurableNext,
                      NEW i \in disk.items \cap (Live \cup HeldItems)
               PROVE  i \in disk'.items
    OBVIOUS
  <2>0. Len(writes) \in Nat
    BY WriteQueue DEF DInv
  <2>1. CASE WriteLands
    <3>1. disk' = writes[1] /\ 1 \in 1 .. Len(writes)
      BY <2>0, <2>1, WriteQueue DEF WriteLands, DInv
    <3> QED
      BY <3>1 DEF FilesKeep, WritesKeep, Keeps, InMem
  <2>2. CASE Flush
    <3>1. disk' = Snapshot /\ Snapshot.items = InMem
      BY <2>2, SnapshotIsFile DEF Flush, DInv, IInv, ItemsFit
    <3> QED
      BY <3>1 DEF InMem
  <2>3. CASE Schedules \/ SaveSoon \/ AwaitSave \/ Crash \/ Restart
               \/ \E active \in SUBSET Job : Resume(active)
    BY <2>3 DEF Schedules, SaveSoon, AwaitSave, saveVars, Crash, Restart, Boot, Resume
  <2> QED
    BY <2>1, <2>2, <2>3 DEF DurableNext
<1> QED
  BY <1>1, FilesKeepAlways, DurableInductive, PTL DEF DurableSpec, DurableUntilSettled

\* A clean stop and start loses nothing: everything in memory, also what a worker was
\* made to give up, is held by the next process.
THEOREM CleanRestartKeepsAll ==
    DurableSpec /\ []ItemsFit => [][Restart => InMem \subseteq HeldItems']_allVars
<1>1. DInv /\ FilesKeep => [Restart => InMem \subseteq HeldItems']_allVars
  BY BootMemory DEF Restart, FilesKeep, StopKeeps
<1> QED
  BY <1>1, FilesKeepAlways, DurableInductive, PTL

-----------------------------------------------------------------------------
(* The save timer.                                                         *)

\* What a file holds when everything fits: all there is.
Whole == [items |-> InMem, body |-> [i \in InMem |-> body[i]],
          msg |-> [i \in InMem |-> msg[i]], recent |-> recent]

\* With nothing cut off, what is saved is all there is.
LEMMA SnapshotIsWhole ==
    ASSUME DInv, KeysFit, ItemsFit
    PROVE  Snapshot = Whole
<1>1. Cardinality(recent) <= RecentKeys
  <2>1. Cardinality(recent) \in Nat
    BY FS_CardinalityType DEF DInv
  <2> QED
    BY <2>1, LimitTypes DEF KeysFit
<1>2. Snapshot.items = InMem /\ Snapshot.recent = recent
  BY <1>1, SnapshotIsFile DEF DInv, IInv, ItemsFit
<1>3. SavedItems = InMem
  BY <1>2 DEF Snapshot
<1>4. FirstOf({KeyOf(i) : i \in HeldItems} \cap recent, recent, RecentKeys) = recent
  BY <1>2 DEF Snapshot
<1> QED
  BY <1>3, <1>4, Zenon DEF Snapshot, Whole

\* What is in memory and would be saved is as it was.
Undisturbed ==
    /\ InMem' = InMem /\ recent' = recent
    /\ \A i \in InMem : body'[i] = body[i] /\ msg'[i] = msg[i]

\* What is undisturbed would be saved as it was before.
LEMMA SameSnapshot ==
    ASSUME DInv, KeysFit, ItemsFit, DInv', KeysFit', ItemsFit', Undisturbed
    PROVE  Snapshot' = Snapshot
<1>1. Snapshot = Whole /\ Snapshot' = Whole'
  <2>1. Snapshot = Whole
    BY SnapshotIsWhole
  <2>2. (DInv /\ KeysFit /\ ItemsFit => Snapshot = Whole)'
    BY SnapshotIsWhole, PTL
  <2> QED
    BY <2>1, <2>2
<1>2. Whole' = Whole
  BY DEF Whole, Undisturbed
<1> QED
  BY <1>1, <1>2

\* Settling nothing changes nothing that is saved.
LEMMA SettledNothing ==
    ASSUME DInv, NEW fate, DOMAIN fate = {}, NEW awake, NEW marks,
           Resolve(fate, awake, marks), Progress(fate, body), msg' = msg
    PROVE  Undisturbed
<1>1. status' = status
  BY DEF Resolve, DInv, IInv, TypeOK
<1>2. recent' = recent
  <2>1. PICK new : new = {KeyOf(i) : i \in {j \in DOMAIN fate \ {i \in DOMAIN fate : fate[i] = "pending"} :
                                            fate[j] # "dropped"}}
    OBVIOUS
  <2>2. recent' \in Remember(new)
    BY <2>1 DEF Resolve
  <2>3. new = {}
    BY <2>1
  <2> QED
    BY <2>2, <2>3 DEF Remember
<1>3. body' = body
  BY DEF Progress, DInv, IInv, TypeOK
<1> QED
  BY <1>1, <1>2, <1>3 DEF Undisturbed, InMem, Live, HeldItems

\* A step of the queue that asks for no save changes nothing that is saved.
LEMMA CleanStep ==
    ASSUME DInv, Schedules, ~timer'
    PROVE  ~timer /\ Undisturbed
<1>0. TypeOK
  BY DEF DInv, IInv
<1>1. \A k \in Kinds : ~Finishes(k) /\ ~Ends(k)
  BY DEF Finishes, Ends, Dirty
<1>2. Steps
  BY <1>1 DEF Schedules
<1>3. ASSUME NEW i \in Item, Plans(i) PROVE ~timer /\ Undisturbed
  <2>1. RollOut(i) \/ PlanNothing(i) \/ Duplicate(i) \/ Sibling(i) \/ Full(i)
    BY <1>3 DEF Plans, Dirty
  <2>2. status[i] = "new"
    BY <1>3 DEF Plans, RollOut, PlanNothing, Skip, RolledIn
  <2>3. ~timer /\ msg' = msg
    <3>1. CASE Sibling(i) /\ DirtyIf(msg' # msg)
      BY <3>1 DEF DirtyIf
    <3>2. CASE (RollOut(i) \/ PlanNothing(i) \/ Duplicate(i) \/ Full(i)) /\ Clean
      BY <3>2 DEF Clean, RollOut, PlanNothing, Skip, Duplicate, Full
    <3> QED
      BY <1>3, <3>1, <3>2 DEF Plans, Dirty
  <2>4. recent' = recent /\ body' = body
    BY <2>1 DEF RollOut, PlanNothing, Skip, Duplicate, Sibling, Full, Refuse
  <2>5. \E why \in Refused \cup {"skipped"} : status' = [status EXCEPT ![i] = why]
    BY <2>1 DEF RollOut, PlanNothing, Skip, Duplicate, Sibling, Full, Refuse, Refused
  <2>6. Live' = Live /\ HeldItems' = HeldItems
    BY <1>0, <2>2, <2>5 DEF Live, HeldItems, Refused, TypeOK
  <2> QED
    BY <2>3, <2>4, <2>6 DEF Undisturbed, InMem
<1>4. ASSUME NEW k \in Kinds, Step(k), DirtyIf(due' # due) PROVE ~timer /\ Undisturbed
  <2>1. ~timer /\ due' = due
    BY <1>4 DEF DirtyIf
  <2>2. \A i \in Queued(k) \cap due : ~Drop(k, i) /\ ~Hold(k, i)
    BY <2>1 DEF Drop, Hold, Resolve
  <2>3. CASE \E how : Sleep(k, how)
    BY <2>1, <2>3 DEF Sleep, Undisturbed, InMem, Live, HeldItems
  <2>4. ASSUME NEW i \in Queued(k), Start(k, i) PROVE Undisturbed
    <3>1. PICK b \in Batches(i) : status' = [j \in Item |-> IF j \in b THEN "running" ELSE status[j]]
      BY <2>4 DEF Start
    <3>2. \A j \in b : status[j] = "pending"
      BY DEF Batches, Companions, Queued, Pending
    <3>3. InMem' = InMem
      BY <3>1, <3>2 DEF InMem, Live, HeldItems
    <3> QED
      BY <2>4, <3>3 DEF Undisturbed, Start
  <2> QED
    BY <1>4, <2>1, <2>2, <2>3, <2>4 DEF Step, Idle, WaitDue, WaitSlot
<1>5. ASSUME NEW k \in Kinds, Woken(k) \/ Leave(k) \/ Abort(k), Clean PROVE ~timer /\ Undisturbed
  <2>1. recent' = recent /\ body' = body /\ msg' = msg
    BY <1>5 DEF Woken, Leave, Abort, queueVars
  <2>2. InMem' = InMem
    BY <1>5 DEF Woken, Leave, Abort, Running, queueVars, InMem, Live, HeldItems
  <2> QED
    BY <1>5, <2>1, <2>2 DEF Clean, Undisturbed
<1>6. ASSUME NEW i \in Item, ReadFirst(i), DirtyIf(status' # status) PROVE ~timer /\ Undisturbed
  <2>1. ~timer /\ status' = status
    BY <1>6 DEF DirtyIf
  <2> DEFINE fate == [j \in CoveredReads(i) |-> "done"]
  <2>2. Resolve(fate, wake, cancelled) /\ Progress(fate, body) /\ msg' = msg
    BY <1>6 DEF ReadFirst
  <2>3. \A j \in CoveredReads(i) : status[j] = "pending" /\ status'[j] = "done"
    BY <2>2 DEF Resolve, CoveredReads, Pending
  <2>4. DOMAIN fate = {}
    BY <2>1, <2>3
  <2> QED
    BY <2>1, <2>2, <2>4, SettledNothing
<1>7. ASSUME NEW r \in CancelRequests, Cancel(r), DirtyIf(status' # status) PROVE ~timer /\ Undisturbed
  <2>1. ~timer /\ status' = status
    BY <1>7 DEF DirtyIf
  <2> DEFINE S == {i \in Pending : Matches(r, i)}
             D == {i \in RunningItems : Dooms(r, i)}
             fate == [j \in S |-> "superseded"]
  <2>2. Resolve(fate, wake, cancelled \cup D) /\ Progress(fate, body) /\ msg' = msg
    BY <1>7 DEF Cancel, Supersede
  <2>3. \A j \in S : status[j] = "pending" /\ status'[j] = "superseded"
    BY <2>2 DEF Resolve, Pending
  <2>4. DOMAIN fate = {}
    BY <2>1, <2>3
  <2> HIDE DEF D
  <2> QED
    BY <2>1, <2>2, <2>4, SettledNothing
<1>8. ASSUME Close, Clean PROVE ~timer /\ Undisturbed
  BY <1>8 DEF Close, Clean, Undisturbed, InMem, Live, HeldItems
<1>9. ASSUME Passing PROVE ~timer /\ Undisturbed
  BY <1>9 DEF Passing, Clean, ComesDue, GoesLate, SlotOpens, QuietBegins, QuietEnds, queueVars,
              Undisturbed, InMem, Live, HeldItems
<1>10. ~Overtakes /\ \A j \in Job : ~(ForgetJob(j) /\ Dirty)
  BY DEF Overtakes, Dirty
<1> QED
  BY <1>1, <1>2, <1>3, <1>4, <1>5, <1>6, <1>7, <1>8, <1>9, <1>10 DEF Steps, Works, Commands

\* Resuming asks for no save only where nothing is held.
LEMMA CleanResume ==
    ASSUME DInv, HeldKnown, NEW active \in SUBSET Job, Resume(active), ~timer'
    PROVE  ~timer /\ Undisturbed
<1> DEFINE known == {i \in HeldItems : JobOf(i) \in active}
           free  == {i \in known : keys[KeyOf(i)] = None}
<1>1. PICK back \in SUBSET free :
        /\ \A i \in free : \E j \in back : KeyOf(j) = KeyOf(i)
        /\ status' = [i \in Item |-> IF i \in back THEN "pending"
                                     ELSE IF i \in HeldItems THEN "dropped" ELSE status[i]]
        /\ recent' = recent \ {KeyOf(i) : i \in back}
        /\ timer' = (timer \/ back # {} \/ HeldItems \ known # {})
        /\ UNCHANGED <<body, msg>>
  BY DEF Resume
<1>2. ~timer /\ back = {} /\ HeldItems = known
  BY <1>1
<1>3. free = {}
  BY <1>1, <1>2
<1>4. \A i \in HeldItems : keys[KeyOf(i)] = None
  <2>1. \A i \in HeldItems : KeyOf(i) \in Key /\ KeyOf(i) \in recent
    BY ConstantsAssumption DEF HeldItems, HeldKnown, Attributes
  <2> QED
    BY <2>1 DEF DInv, IInv, OneItemPerKey
<1>5. HeldItems = {}
  BY <1>2, <1>3, <1>4
<1>6. status' = status
  BY <1>1, <1>2, <1>5 DEF DInv, IInv, TypeOK
<1>7. recent' = recent
  BY <1>1, <1>2
<1> QED
  BY <1>1, <1>2, <1>6, <1>7 DEF Undisturbed, InMem, Live, HeldItems

\* What a boot has in memory is what it read.
LEMMA BootIsRestored ==
    ASSUME DInv, Boot, DInv', KeysFit', ItemsFit'
    PROVE  Restores(Latest') = Restores(Snapshot')
<1>1. Snapshot' = Whole'
  <2>1. (DInv /\ KeysFit /\ ItemsFit => Snapshot = Whole)'
    BY SnapshotIsWhole, PTL
  <2> QED
    BY <2>1
<1> DEFINE b == disk.body
           m == disk.msg
           ks == {KeyOf(i) : i \in disk.items}
<1>2. InMem' = disk.items /\ recent' = disk.recent \cup ks /\ Latest' = disk
  BY BootMemory DEF Boot, PreloadedKeys, Latest
<1>3. /\ disk.items \subseteq Item
      /\ disk.body \in [disk.items -> Body] /\ disk.msg \in [disk.items -> Msg]
  BY SnapshotFields DEF DInv
<1>4. [i \in InMem' |-> body'[i]] = b /\ [i \in InMem' |-> msg'[i]] = m
  BY <1>2, <1>3 DEF Boot
<1>5. Whole' = [items |-> disk.items, body |-> b, msg |-> m, recent |-> disk.recent \cup ks]
  BY <1>2, <1>4 DEF Whole
<1>6. disk = [items |-> disk.items, body |-> b, msg |-> m, recent |-> disk.recent]
  BY DEF DInv, Snapshots
<1>7. Restores(disk) = Restores(Whole')
  <2> HIDE DEF b, m
  <2> QED
    BY <1>5, <1>6 DEF Restores
<1> QED
  BY <1>1, <1>2, <1>7, Zenon

\* With no save pending, the newest write restores what is in memory.
LEMMA SavedStep ==
    ASSUME DInv, HeldKnown, EveryChangeSaved, KeysFit, ItemsFit,
           [DurableNext]_allVars, DInv', KeysFit', ItemsFit'
    PROVE  EveryChangeSaved'
<1>0. Len(writes) \in Nat
  BY WriteQueue DEF DInv
<1>1. ASSUME Undisturbed, ~timer, life # "flushed", Latest' = Latest
      PROVE  EveryChangeSaved'
  <2>1. Snapshot' = Snapshot
    BY <1>1, SameSnapshot
  <2>2. Restores(Latest) = Restores(Snapshot)
    BY <1>1 DEF EveryChangeSaved
  <2>3. Restores(Latest') = Restores(Snapshot')
    BY <1>1, <2>1, <2>2, Zenon
  <2> QED
    BY <2>3 DEF EveryChangeSaved, Restores
<1>2. ASSUME UNCHANGED vars PROVE Undisturbed
  BY <1>2 DEF Undisturbed, InMem, Live, HeldItems, vars, queueVars
<1>3. ASSUME life' # "flushed", UNCHANGED <<writes, disk, life>>, ~timer, Undisturbed
      PROVE  EveryChangeSaved'
  <2>1. Latest' = Latest
    BY <1>3 DEF Latest
  <2> QED
    BY <1>1, <1>3, <2>1
<1>4. CASE life' = "flushed" \/ timer'
  BY <1>4 DEF EveryChangeSaved
<1>5. CASE life' # "flushed" /\ ~timer'
  <2>1. CASE Schedules
    BY <1>3, <1>5, <2>1, CleanStep, SchedulesHistory
  <2>2. CASE SaveSoon
    <3>1. Latest' = Snapshot
      <4>1. Snapshot \in Snapshots
        BY SnapshotIsFile DEF DInv, IInv
      <4>2. Len(writes') = Len(writes) + 1 /\ writes'[Len(writes) + 1] = Snapshot
        BY <2>2, <4>1, WriteQueue DEF SaveSoon, DInv
      <4>3. writes' # <<>>
        BY <1>0, <4>2
      <4> QED
        BY <4>2, <4>3 DEF Latest
    <3>2. Snapshot' = Snapshot
      BY <1>2, <2>2, SameSnapshot DEF SaveSoon
    <3>3. Restores(Latest') = Restores(Snapshot')
      BY <3>1, <3>2, Zenon
    <3> QED
      BY <3>3 DEF EveryChangeSaved, Restores
  <2>3. CASE WriteLands
    <3>1. /\ Len(writes') = Len(writes) - 1 /\ Len(writes) > 0 /\ disk' = writes[1]
          /\ \A n \in 1 .. Len(writes') : writes'[n] = writes[n + 1]
          /\ writes # <<>> /\ writes' \in Seq(Snapshots)
      BY <2>3, WriteQueue DEF WriteLands, DInv
    <3>2. Latest' = writes[Len(writes)]
      <4>1. CASE writes' = <<>>
        <5>1. Latest' = disk'
          BY <4>1 DEF Latest
        <5>2. Len(writes') = 0
          BY <4>1
        <5>3. Len(writes) = 1
          BY <1>0, <3>1, <5>2
        <5> QED
          BY <3>1, <5>1, <5>3
      <4>2. CASE writes' # <<>>
        <5>1. Len(writes') \in 1 .. Len(writes') /\ Len(writes') + 1 = Len(writes)
          BY <1>0, <3>1, <4>2
        <5>2. Latest' = writes'[Len(writes')]
          BY <4>2 DEF Latest
        <5>3. writes'[Len(writes')] = writes[Len(writes') + 1]
          BY <3>1, <5>1
        <5> QED
          BY <5>1, <5>2, <5>3
      <4> QED
        BY <4>1, <4>2
    <3>3. Latest' = Latest
      BY <3>1, <3>2 DEF Latest
    <3> QED
      BY <1>1, <1>2, <1>5, <2>3, <3>3 DEF WriteLands
  <2>4. CASE AwaitSave
    <3>1. Latest' = Latest /\ timer' = timer /\ life = "up"
      BY <2>4 DEF AwaitSave, saveVars, Latest
    <3> QED
      BY <1>1, <1>2, <1>5, <2>4, <3>1 DEF AwaitSave
  <2>5. CASE Flush
    BY <1>5, <2>5 DEF Flush
  <2>6. CASE Crash \/ Restart
    <3>1. Restores(Latest') = Restores(Snapshot')
      BY <2>6, BootIsRestored DEF Crash, Restart
    <3> QED
      BY <3>1 DEF EveryChangeSaved, Restores
  <2>7. ASSUME NEW active \in SUBSET Job, Resume(active) PROVE EveryChangeSaved'
    <3>1. ~timer /\ Undisturbed
      BY <1>5, <2>7, CleanResume
    <3>2. UNCHANGED <<writes, disk, life>>
      BY <2>7 DEF Resume
    <3> QED
      BY <1>3, <1>5, <3>1, <3>2
  <2>8. CASE UNCHANGED allVars
    BY <1>2, <1>3, <1>5, <2>8 DEF allVars, durableVars, saveVars
  <2> QED
    BY <2>1, <2>2, <2>3, <2>4, <2>5, <2>6, <2>7, <2>8 DEF DurableNext
<1> QED
  BY <1>4, <1>5

\* Every change of the queue is saved: nothing that alters what the file holds
\* forgets to arm the timer, as long as nothing is trimmed from the file.
THEOREM ChangesAreSaved == DurableSpec /\ [](KeysFit /\ ItemsFit) => []EveryChangeSaved
<1>1. DInv /\ KeysFit /\ ItemsFit /\ DurableInit => EveryChangeSaved
  <2> SUFFICES ASSUME DInv, KeysFit, ItemsFit, DurableInit
               PROVE  Restores(Latest) = Restores(Snapshot)
    BY DEF EveryChangeSaved
  <2>1. Snapshot = Whole
    BY SnapshotIsWhole
  <2>2. InMem = {} /\ recent = {} /\ Latest = NoFile
    BY DEF DurableInit, Init, InMem, Live, HeldItems, Latest
  <2>3. [i \in InMem |-> body[i]] = [i \in {} |-> Fresh] /\ [i \in InMem |-> msg[i]] = [i \in {} |-> 0]
    BY <2>2
  <2>4. Whole = NoFile
    BY <2>2, <2>3, Zenon DEF Whole, NoFile
  <2> QED
    BY <2>1, <2>2, <2>4, Zenon
<1>2. DInv /\ HeldKnown /\ EveryChangeSaved /\ KeysFit /\ ItemsFit
          /\ [DurableNext]_allVars /\ DInv' /\ KeysFit' /\ ItemsFit'
      => EveryChangeSaved'
  BY SavedStep
<1> QED
  BY <1>1, <1>2, HeldKnownAlways, DurableInductive, PTL DEF DurableSpec
===============================================================================
