----------------------- MODULE ActionScheduler_proofs -----------------------
(***************************************************************************)
(* Proofs about ActionScheduler, for every set of items, kinds, jobs and   *)
(* keys and every bound: its type invariant and the four invariants that   *)
(* make its queue correct.  They are one inductive invariant, because each *)
(* needs the others: an entry may be dropped from the heap only because no *)
(* item of a kind runs while its worker looks at the heap, and that holds  *)
(* because only the worker itself starts and ends batches.                 *)
(* On it rest the bounds of batches and retries, the albums, what a step   *)
(* never does, and the refinement of ActionPromise.                        *)
(***************************************************************************)
EXTENDS ActionScheduler, FiniteSetTheorems, TLAPS

\* Every live item, the running ones included, has its heap entry.  Stronger
\* than Scheduled: Abort makes running items pending without pushing them.
LiveQueued == Live \subseteq heap

IInv == TypeOK /\ LiveQueued /\ NoLostWakeup /\ OneItemPerKey /\ SoundBatches

USE DEF JobOf, Kind, KeyOf, AlbumOf, Pushed, Alarmed, WorkerState

-----------------------------------------------------------------------------
(* What Resolve does, whatever the fate.                                   *)

\* A fate decides about live items only, and every item it decides about ends
\* or is pending again.
DecidesLive(fate) ==
    /\ DOMAIN fate \subseteq Live
    /\ \A i \in DOMAIN fate : fate[i] \in Ended \cup {"pending"}

\* The recent keys only grow by the new ones.
LEMMA RememberKeys ==
    ASSUME NEW new, NEW r \in Remember(new)
    PROVE  r \subseteq recent \cup new
BY DEF Remember

\* Settling or requeueing keeps every queue variable in its type.
LEMMA ResolveType ==
    ASSUME TypeOK, NEW fate, NEW awake, NEW doomed,
           DecidesLive(fate), awake \subseteq Kinds, doomed \subseteq Item,
           Resolve(fate, awake, doomed)
    PROVE  /\ status' \in [Item -> Status]
           /\ due' \subseteq Item /\ late' \subseteq Item /\ heap' \subseteq Item
           /\ wake' \subseteq Kinds
           /\ keys' \in [Key -> Item \cup {None}]
           /\ recent' \subseteq Key
           /\ cancelled' \subseteq Item
<1>1. DOMAIN fate \subseteq Item
  BY DEF DecidesLive, Live
<1>2. status' \in [Item -> Status]
  BY <1>1 DEF Resolve, TypeOK, DecidesLive, Status
<1>3. due' \subseteq Item /\ late' \subseteq Item /\ heap' \subseteq Item /\ cancelled' \subseteq Item
  BY <1>1 DEF Resolve, TypeOK
<1>4. wake' \subseteq Kinds
  BY <1>1, ConstantsAssumption DEF Resolve
<1>5. keys' \in [Key -> Item \cup {None}]
  BY DEF Resolve, TypeOK
<1>6. recent' \subseteq Key
  <2> DEFINE new == {Attr[i].key : i \in {j \in {j \in DOMAIN fate : fate[j] # "pending"} : fate[j] # "dropped"}}
  <2>1. new \subseteq Key
    BY <1>1, ConstantsAssumption DEF Attributes
  <2>2. recent' \subseteq recent \cup {KeyOf(i) : i \in {j \in DOMAIN fate \ {i \in DOMAIN fate : fate[i] = "pending"} : fate[j] # "dropped"}}
    BY RememberKeys DEF Resolve
  <2> QED
    BY <2>1, <2>2 DEF TypeOK
<1> QED
  BY <1>2, <1>3, <1>4, <1>5, <1>6

\* Every live item stays queued: what comes back is pushed, what ends is not live.
LEMMA ResolveQueued ==
    ASSUME TypeOK, LiveQueued, NEW fate, NEW awake, NEW doomed, DecidesLive(fate),
           Resolve(fate, awake, doomed)
    PROVE  LiveQueued'
BY DEF Resolve, LiveQueued, Live, DecidesLive, Ended, Outcomes, Refused

\* A key is freed with its item and may only then be remembered as finished.
LEMMA ResolveKeys ==
    ASSUME TypeOK, OneItemPerKey, NEW fate, NEW awake, NEW doomed, DecidesLive(fate),
           Resolve(fate, awake, doomed)
    PROVE  OneItemPerKey'
<1> DEFINE gone == {i \in DOMAIN fate : fate[i] # "pending"}
<1>1. gone \subseteq Live /\ Live' = Live \ gone
  BY DEF Resolve, Live, DecidesLive, Ended, Outcomes, Refused, TypeOK
<1>2. keys' = [k \in Key |-> IF keys[k] \in gone THEN None ELSE keys[k]]
  BY DEF Resolve
<1>3. recent' \subseteq recent \cup {KeyOf(i) : i \in gone}
  BY RememberKeys DEF Resolve
<1>4. \A i \in Item : KeyOf(i) \in Key
  BY ConstantsAssumption DEF Attributes
<1>5. ASSUME NEW i \in Live' PROVE keys'[KeyOf(i)] = i /\ KeyOf(i) \notin recent'
  <2>1. i \in Live /\ i \notin gone /\ i \in Item
    BY <1>1, <1>5 DEF Live
  <2>2. keys[KeyOf(i)] = i /\ KeyOf(i) \notin recent
    BY <2>1 DEF OneItemPerKey
  <2>3. \A j \in gone : KeyOf(j) # KeyOf(i)
    BY <1>1, <2>1, <2>2 DEF OneItemPerKey
  <2> QED
    BY <1>2, <1>3, <1>4, <2>1, <2>2, <2>3
<1>6. ASSUME NEW k \in Key, keys'[k] # None PROVE keys'[k] \in Live' /\ KeyOf(keys'[k]) = k
  <2>1. keys[k] # None /\ keys[k] \notin gone /\ keys'[k] = keys[k]
    BY <1>2, <1>6
  <2> QED
    BY <1>1, <2>1 DEF OneItemPerKey
<1> QED
  BY <1>5, <1>6 DEF OneItemPerKey

\* Awake for what comes back, and for what was queued before.
LEMMA ResolveWakeup ==
    ASSUME TypeOK, NEW fate, NEW awake, NEW doomed, DecidesLive(fate),
           Resolve(fate, awake, doomed),
           \A k \in Kinds : worker'[k] = "idle" /\ Queued(k) # {} => k \in awake
    PROVE  NoLostWakeup'
<1> SUFFICES ASSUME NEW k \in Kinds, worker'[k] = "idle", Queued(k)' # {}
             PROVE  k \in wake'
  BY DEF NoLostWakeup
<1>1. PICK i \in Queued(k)' : TRUE
  OBVIOUS
<1>2. CASE i \in DOMAIN fate /\ fate[i] = "pending"
  BY <1>1, <1>2 DEF Resolve, Queued
<1>3. CASE ~(i \in DOMAIN fate /\ fate[i] = "pending")
  <2>1. i \in Queued(k)
    BY <1>1, <1>3 DEF Resolve, Queued, DecidesLive, Ended, Outcomes, Refused, Live, TypeOK
  <2> QED
    BY <2>1 DEF Resolve
<1> QED
  BY <1>2, <1>3

\* Ending items never adds one to a batch.
LEMMA ResolveBatches ==
    ASSUME TypeOK, SoundBatches, NEW fate, NEW awake, NEW doomed, DecidesLive(fate),
           Resolve(fate, awake, doomed),
           \A k \in Kinds : \/ worker'[k] \in {worker[k], "busy", "acting"}
                             \/ Running(k) \subseteq DOMAIN fate
    PROVE  SoundBatches'
<1>1. \A k \in Kinds : Running(k)' = Running(k) \ DOMAIN fate
  BY DEF Resolve, Running, DecidesLive, Ended, Outcomes, Refused, Live
<1> QED
  BY <1>1 DEF SoundBatches

\* What is left to show for an action that resolves a fate.
LEMMA ResolveInv ==
    ASSUME IInv, NEW fate, NEW awake, NEW doomed, DecidesLive(fate),
           awake \subseteq Kinds, doomed \subseteq Item,
           Resolve(fate, awake, doomed),
           \A k \in Kinds : worker'[k] = "idle" /\ Queued(k) # {} => k \in awake,
           \A k \in Kinds : \/ worker'[k] \in {worker[k], "busy", "acting"}
                             \/ Running(k) \subseteq DOMAIN fate,
           worker' \in [Kinds -> WorkerState],
           slot' \subseteq Kinds, body' \in [Item -> Body],
           UNCHANGED <<msg, albums, quiet, closed>>
    PROVE  IInv'
<1>1. TypeOK'
  BY ResolveType DEF IInv, TypeOK
<1>2. LiveQueued' /\ OneItemPerKey'
  BY ResolveQueued, ResolveKeys DEF IInv
<1>3. NoLostWakeup'
  BY ResolveWakeup DEF IInv
<1>4. SoundBatches'
  BY ResolveBatches DEF IInv
<1> QED
  BY <1>1, <1>2, <1>3, <1>4 DEF IInv

\* What an item gains as it runs stays a body.
LEMMA ProgressType ==
    ASSUME TypeOK, NEW fate, NEW more \in [Item -> Body], Progress(fate, more)
    PROVE  body' \in [Item -> Body]
BY DEF Progress, TypeOK, Body, Fresh

-----------------------------------------------------------------------------
(* The initial state.                                                      *)

\* The empty queue satisfies the invariant.
LEMMA InitInv == Init => IInv
<1> SUFFICES ASSUME Init PROVE IInv
  OBVIOUS
<1>1. TypeOK
  BY ConstantsAssumption DEF Init, TypeOK, Status, Body, Fresh, AlbumMemo, Attributes
<1>2. Live = {} /\ \A k \in Kinds : Running(k) = {}
  BY DEF Init, Live, Running
<1> QED
  BY <1>1, <1>2 DEF Init, IInv, LiveQueued, NoLostWakeup, OneItemPerKey, SoundBatches, Queued

-----------------------------------------------------------------------------
(* Planning.                                                               *)

\* A refused or rolled-out item never becomes live, and nothing else moves.
LEMMA RefusedInv ==
    ASSUME IInv, NEW i \in Item, status[i] = "new", NEW why \in Ended,
           status' = [status EXCEPT ![i] = why],
           msg' \in [Item -> Msg], albums' \in [Album -> AlbumMemo],
           UNCHANGED <<due, late, heap, wake, body, keys, recent, cancelled, worker, slot,
                       quiet, closed>>
    PROVE  IInv'
<1>1. TypeOK'
  BY DEF IInv, TypeOK, Status
<1>2. Live' = Live /\ (\A k : Running(k)' = Running(k) /\ Queued(k)' = Queued(k))
  BY DEF IInv, TypeOK, Live, Running, Queued, Ended, Outcomes, Refused
<1> QED
  BY <1>1, <1>2 DEF IInv, LiveQueued, NoLostWakeup, OneItemPerKey, SoundBatches

\* The memory of an album message is a memo.
LEMMA MemoType ==
    ASSUME TypeOK, NEW i \in Item, AlbumOf(i) # None
    PROVE  AlbumOf(i) \in Album /\ Memo(i) \in AlbumMemo
BY ConstantsAssumption DEF TypeOK, Memo, Attributes

\* Writing a memo keeps the albums in their type.
LEMMA RecordedType ==
    ASSUME TypeOK, NEW i \in Item, NEW memo, AlbumOf(i) # None => memo \in AlbumMemo
    PROVE  Recorded(i, memo) \in [Album -> AlbumMemo]
BY MemoType DEF TypeOK, Recorded

\* Rolling, refusing and inserting preserve the invariant.
LEMMA PlanInv ==
    ASSUME IInv, NEW i \in Item, RollOut(i) \/ PlanNothing(i) \/ Submit(i)
    PROVE  IInv'
<1> USE DEF IInv
<1>0. /\ AlbumOf(i) # None => /\ [Memo(i) EXCEPT !.roll = "out"] \in AlbumMemo
                              /\ [Memo(i) EXCEPT !.roll = "in"] \in AlbumMemo
                              /\ [Memo(i) EXCEPT !.caption = TRUE] \in AlbumMemo
      /\ [roll |-> "in", item |-> i, caption |-> Attr[i].caption] \in AlbumMemo
  BY MemoType, ConstantsAssumption DEF AlbumMemo, Attributes
<1>1. CASE RollOut(i) \/ PlanNothing(i)
  <2>1. PICK said \in {"in", "out"} : Skip(i, said)
    BY <1>1 DEF RollOut, PlanNothing
  <2>2. albums' \in [Album -> AlbumMemo]
    BY <1>0, <2>1, RecordedType DEF Skip, TypeOK
  <2> QED
    BY <2>1, <2>2, RefusedInv DEF Skip, Ended, Outcomes, TypeOK
<1>2. CASE RolledIn(i) /\ Duplicate(i)
  BY <1>0, <1>2, RefusedInv, RecordedType DEF RolledIn, Duplicate, Refuse, Ended, Refused, TypeOK
<1>3. CASE RolledIn(i) /\ Full(i)
  BY <1>0, <1>3, RefusedInv, RecordedType DEF RolledIn, Full, Refuse, Ended, Refused, TypeOK
<1>4. CASE RolledIn(i) /\ Sibling(i)
  <2>1. msg' \in [Item -> Msg]
    BY <1>4, ConstantsAssumption DEF Sibling, Moves, TypeOK, Attributes
  <2>2. albums' \in [Album -> AlbumMemo]
    BY <1>0, <1>4, RecordedType DEF Sibling, TypeOK
  <2> QED
    BY <1>4, <2>1, <2>2, RefusedInv DEF RolledIn, Sibling, Refuse, Ended, Refused
<1>5. CASE RolledIn(i) /\ Insert(i)
  <2> USE <1>5 DEF RolledIn, Insert
  <2>1. TypeOK'
    <3>1. albums' \in [Album -> AlbumMemo]
      BY <1>0, RecordedType
    <3>2. Kind(i) \in Kinds /\ KeyOf(i) \in Key
      BY ConstantsAssumption DEF Attributes
    <3> QED
      BY <3>1, <3>2 DEF TypeOK, Status
  <2>2. Live' = Live \cup {i} /\ i \notin Live
    BY DEF Live, TypeOK
  <2>3. \A k : Running(k)' = Running(k)
    BY DEF Running, TypeOK
  <2>4. LiveQueued' /\ SoundBatches'
    BY <2>2, <2>3 DEF LiveQueued, SoundBatches
  <2>5. NoLostWakeup'
    BY DEF NoLostWakeup, Queued, TypeOK
  <2>6. OneItemPerKey'
    <3>1. KeyOf(i) \in Key /\ keys[KeyOf(i)] = None /\ KeyOf(i) \notin recent
      BY ConstantsAssumption DEF KeyKnown, Attributes
    <3>2. \A j \in Live : KeyOf(j) \in Key /\ KeyOf(j) # KeyOf(i)
      BY <3>1, ConstantsAssumption DEF OneItemPerKey, Live, Attributes
    <3>3. /\ keys'[KeyOf(i)] = i
          /\ \A k \in Key : k # KeyOf(i) => keys'[k] = keys[k]
      BY <3>1 DEF TypeOK
    <3> QED
      BY <2>2, <3>1, <3>2, <3>3 DEF OneItemPerKey
  <2> QED
    BY <2>1, <2>4, <2>5, <2>6
<1> QED
  BY <1>1, <1>2, <1>3, <1>4, <1>5 DEF Submit

-----------------------------------------------------------------------------
(* The workers.                                                            *)

\* A worker at its step has no item running, so what _peek drops is not live.
LEMMA StaleNotLive ==
    ASSUME IInv, NEW k \in Kinds, worker[k] = "step"
    PROVE  StaleEntries(k) \cap Live = {}
BY DEF IInv, SoundBatches, StaleEntries, Live, Running

\* Going to sleep clears the event and loses no push.
LEMMA SleepInv ==
    ASSUME IInv, NEW k \in Kinds, worker[k] = "step", NEW how \in {"idle", "timed"},
           Sleep(k, how), how = "idle" => Queued(k) = {}
    PROVE  IInv'
<1> USE DEF IInv
<1>1. TypeOK'
  BY DEF Sleep, TypeOK
<1>2. Live' = Live /\ (\A j : Running(j)' = Running(j) /\ Queued(j)' \subseteq Queued(j))
  BY DEF Sleep, Live, Running, Queued
<1>3. LiveQueued'
  BY <1>2, StaleNotLive DEF Sleep, LiveQueued
<1>4. NoLostWakeup'
  BY <1>2 DEF Sleep, NoLostWakeup, TypeOK
<1>5. OneItemPerKey'
  BY <1>2 DEF Sleep, OneItemPerKey
<1>6. SoundBatches'
  BY <1>2 DEF Sleep, SoundBatches, TypeOK
<1> QED
  BY <1>1, <1>3, <1>4, <1>5, <1>6

\* Starting a batch takes live items that belong together.
LEMMA StartInv ==
    ASSUME IInv, NEW k \in Kinds, worker[k] = "step", NEW i \in Queued(k), Start(k, i)
    PROVE  IInv'
<1> USE DEF IInv
<1>1. i \in Pending /\ i \in Item /\ Kind(i) = k
  BY DEF Queued, Pending, TypeOK
<1>2. PICK b \in Batches(i) : status' = [j \in Item |-> IF j \in b THEN "running" ELSE status[j]]
  BY DEF Start
<1>3. b \subseteq Pending /\ \A j \in b : j = i \/ SameBatch(i, j)
  BY <1>1 DEF Batches, Companions
<1>4. TypeOK'
  BY <1>2 DEF Start, TypeOK, Status
<1>5. Live' = Live
  BY <1>2, <1>3 DEF Live, Pending
<1>6. LiveQueued'
  BY <1>5, StaleNotLive DEF Start, LiveQueued
<1>7. NoLostWakeup'
  BY <1>2 DEF Start, NoLostWakeup, Queued, TypeOK
<1>8. OneItemPerKey'
  BY <1>5 DEF Start, OneItemPerKey
<1>9. SoundBatches'
  <2>1. Running(k)' = b /\ \A j \in Kinds : j # k => Running(j)' = Running(j)
    BY <1>1, <1>2, <1>3 DEF SoundBatches, Running, SameBatch, Pending
  <2>2. \A x, y \in b : x = y \/ SameBatch(x, y)
    BY <1>3 DEF SameBatch
  <2> QED
    BY <2>1, <2>2 DEF Start, SoundBatches, TypeOK
<1> QED
  BY <1>4, <1>6, <1>7, <1>8, <1>9

\* Every step of a worker preserves the invariant.
LEMMA StepInv ==
    ASSUME IInv, NEW k \in Kinds, Step(k)
    PROVE  IInv'
<1>1. CASE Idle(k) \/ WaitDue(k)
  BY <1>1, SleepInv DEF Step, Idle, WaitDue
<1>2. ASSUME NEW i \in Queued(k) \cap due, WaitSlot(k, i) PROVE IInv'
  BY <1>2, SleepInv DEF Step, WaitSlot
<1>3. ASSUME NEW i \in Queued(k) \cap due, Start(k, i) PROVE IInv'
  BY <1>3, StartInv DEF Step
<1>4. ASSUME NEW i \in Queued(k) \cap due, Drop(k, i) \/ Hold(k, i) PROVE IInv'
  <2>1. PICK fate \in {[j \in {i} |-> "expired"], [j \in {i} |-> "pending"]} :
            Resolve(fate, wake \ {k}, cancelled) /\ (Progress(fate, body) \/ UNCHANGED body)
    BY <1>4 DEF Drop, Hold
  <2>2. DecidesLive(fate)
    BY DEF DecidesLive, Queued, Live, IInv, TypeOK, Ended, Outcomes
  <2>3. body' \in [Item -> Body]
    BY <2>1, ProgressType DEF IInv, TypeOK
  <2>4. UNCHANGED <<worker, slot, msg, albums, quiet, closed>>
    BY <1>4 DEF Drop, Hold
  <2>5. \A j \in Kinds : worker'[j] = "idle" /\ Queued(j) # {} => j \in wake \ {k}
    BY <2>4 DEF Step, IInv, NoLostWakeup
  <2> QED
    BY <2>1, <2>2, <2>3, <2>4, <2>5, ResolveInv DEF IInv, TypeOK
<1> QED
  BY <1>1, <1>2, <1>3, <1>4 DEF Step

\* Waking, leaving and the pacer touch no item.
LEMMA LoopInv ==
    ASSUME IInv, NEW k \in Kinds, Woken(k) \/ Leave(k)
    PROVE  IInv'
<1>1. UNCHANGED <<queueVars, slot, msg, albums, quiet, closed>>
  BY DEF Woken, Leave
<1>2. \E w \in {"step", "off"} : worker' = [worker EXCEPT ![k] = w]
  BY DEF Woken, Leave
<1>3. worker[k] \notin {"busy", "acting"}
  BY DEF Woken, Leave
<1>4. Live' = Live /\ \A j : Running(j)' = Running(j) /\ Queued(j)' = Queued(j)
  BY <1>1 DEF queueVars, Live, Running, Queued
<1> QED
  BY <1>1, <1>2, <1>3, <1>4
     DEF IInv, TypeOK, LiveQueued, NoLostWakeup, OneItemPerKey, SoundBatches, queueVars

\* A cancelled worker leaves its batch pending and still queued.
LEMMA AbortInv ==
    ASSUME IInv, NEW k \in Kinds, Abort(k)
    PROVE  IInv'
<1> USE DEF IInv, Abort
<1>1. TypeOK'
  BY DEF TypeOK, Status
<1>2. Live' = Live
  BY DEF Live, Running
<1>3. \A j \in Kinds \ {k} : Running(j)' = Running(j) /\ Queued(j)' = Queued(j)
  BY DEF Running, Queued, TypeOK
<1>4. Running(k)' = {}
  BY DEF Running
<1> QED
  BY <1>1, <1>2, <1>3, <1>4
     DEF TypeOK, LiveQueued, NoLostWakeup, OneItemPerKey, SoundBatches

-----------------------------------------------------------------------------
(* The end of a batch, the commands and the passing of time.               *)

\* Whatever a batch is told, a cancelled item of it ends.
LEMMA FateDecides ==
    ASSUME TypeOK, NEW k \in Kinds, NEW fate,
           \A i \in Running(k) : fate[i] \in Ended \cup {"pending"}
    PROVE  DecidesLive(Fate(k, fate)) /\ DOMAIN Fate(k, fate) = Running(k)
BY DEF Fate, DecidesLive, Running, Live, Ended, Outcomes

\* The end of a batch preserves the invariant, whatever its fate.
LEMMA EndInv ==
    ASSUME IInv, NEW k \in Kinds, NEW fate, NEW more \in [Item -> Body],
           End(k, fate, more), slot' \subseteq Kinds,
           \A i \in Running(k) : fate[i] \in Ended \cup {"pending"}
    PROVE  IInv'
<1>1. DecidesLive(Fate(k, fate)) /\ DOMAIN Fate(k, fate) = Running(k)
  BY FateDecides DEF IInv
<1>2. body' \in [Item -> Body]
  BY ProgressType DEF End, IInv
<1>3. \A j \in Kinds : worker'[j] = "idle" /\ Queued(j) # {} => j \in wake
  BY DEF End, IInv, TypeOK, NoLostWakeup
<1>4. \A j \in Kinds : worker'[j] = worker[j] \/ Running(j) \subseteq DOMAIN Fate(k, fate)
  BY <1>1 DEF End, IInv, TypeOK
<1>5. worker' \in [Kinds -> WorkerState]
  BY DEF End, IInv, TypeOK
<1> QED
  BY <1>1, <1>2, <1>3, <1>4, <1>5, ResolveInv DEF End, IInv, TypeOK

\* Success, typing first, FLOOD_WAIT and failure are ends of a batch.
LEMMA EndOfBatchInv ==
    ASSUME IInv, NEW k \in Kinds, EndOfBatch(k)
    PROVE  IInv'
<1> DEFINE sends   == [i \in Item |-> [body[i] EXCEPT !.phase = "send"]]
           floods  == [i \in Item |-> [body[i] EXCEPT !.floods = @ + 1]]
           fails   == [i \in Item |-> [body[i] EXCEPT !.fails = @ + 1]]
<1>1. body \in [Item -> Body] /\ slot \subseteq Kinds
  BY DEF IInv, TypeOK
<1>2. /\ sends \in [Item -> Body]
      /\ floods \in [Item -> Body]
      /\ fails \in [Item -> Body]
  <2>1. ASSUME NEW b \in Body
        PROVE  /\ [b EXCEPT !.phase = "send"] \in Body
               /\ [b EXCEPT !.floods = @ + 1] \in Body
               /\ [b EXCEPT !.fails = @ + 1] \in Body
    <3>1. b.floods \in Nat /\ b.fails \in Nat
      BY DEF Body
    <3>2. PICK n \in Nat : n = b.floods + 1
      BY <3>1
    <3>3. PICK m \in Nat : m = b.fails + 1
      BY <3>1
    <3>4. /\ [b EXCEPT !.phase = "send"] \in Body
          /\ [b EXCEPT !.floods = n] \in Body
          /\ [b EXCEPT !.fails = m] \in Body
      BY DEF Body
    <3> QED
      BY <3>2, <3>3, <3>4
  <2>2. \A i \in Item : body[i] \in Body
    BY <1>1
  <2> HIDE DEF Body
  <2>3. sends \in [Item -> Body]
    BY <2>1, <2>2
  <2>4. floods \in [Item -> Body]
    BY <2>1, <2>2
  <2>5. fails \in [Item -> Body]
    BY <2>1, <2>2
  <2> QED
    BY <2>3, <2>4, <2>5
<1> HIDE DEF sends, floods, fails
<1>3. CASE Succeed(k)
  <2>1. End(k, All(k, "done"), body) /\ slot' \subseteq Kinds
    BY <1>1, <1>3 DEF Succeed
  <2>2. \A i \in Running(k) : All(k, "done")[i] \in Ended \cup {"pending"}
    BY DEF All, Ended, Outcomes
  <2> QED
    BY <1>1, <2>1, <2>2, EndInv
<1>4. CASE TypeFirst(k)
  BY <1>1, <1>2, <1>4, EndInv DEF TypeFirst, All, sends
<1>5. CASE Flood(k)
  <2> DEFINE fate == [i \in Running(k) |-> IF body[i].floods + 1 > MaxFloods THEN "errors" ELSE "pending"]
  <2>1. End(k, fate, floods) /\ slot' \subseteq Kinds
    BY <1>1, <1>5 DEF Flood, floods
  <2>2. \A i \in Running(k) : fate[i] \in Ended \cup {"pending"}
    BY DEF Ended, Outcomes
  <2> QED
    BY <1>2, <2>1, <2>2, EndInv
<1>6. ASSUME NEW retryable \in BOOLEAN, Fail(k, retryable) PROVE IInv'
  <2> DEFINE fate == [i \in Running(k) |-> IF retryable /\ body[i].fails + 1 <= Limit(k)
                                           THEN "pending" ELSE "errors"]
  <2>1. End(k, fate, fails) /\ slot' \subseteq Kinds
    BY <1>1, <1>6 DEF Fail, fails
  <2>2. \A i \in Running(k) : fate[i] \in Ended \cup {"pending"}
    BY DEF Ended, Outcomes
  <2> QED
    BY <1>2, <2>1, <2>2, EndInv
<1> QED
  BY <1>3, <1>4, <1>5, <1>6 DEF EndOfBatch

\* Ending pending items disturbs no worker.
LEMMA EndPendingInv ==
    ASSUME IInv, NEW S \in SUBSET Pending, NEW outcome \in Ended, NEW doomed \in SUBSET Item,
           Resolve([i \in S |-> outcome], wake, doomed),
           Progress([i \in S |-> outcome], body), slot' \subseteq Kinds,
           worker' \in [Kinds -> WorkerState],
           \A k \in Kinds : worker'[k] \in {worker[k], "acting"},
           UNCHANGED <<msg, albums, quiet, closed>>
    PROVE  IInv'
<1> DEFINE fate == [i \in S |-> outcome]
<1>1. DecidesLive(fate)
  BY DEF DecidesLive, Pending, Live
<1>2. body' \in [Item -> Body]
  BY ProgressType DEF IInv, TypeOK
<1>3. \A k \in Kinds : worker'[k] = "idle" /\ Queued(k) # {} => k \in wake
  BY DEF IInv, NoLostWakeup
<1> QED
  BY <1>1, <1>2, <1>3, ResolveInv DEF IInv, TypeOK

\* A read before a reaction ends only pending reads.
LEMMA ReadFirstInv ==
    ASSUME IInv, NEW i \in Item, ReadFirst(i)
    PROVE  IInv'
<1> DEFINE S == CoveredReads(i)
<1>1. S \in SUBSET Pending /\ "done" \in Ended /\ cancelled \in SUBSET Item
  BY DEF CoveredReads, Ended, Outcomes, IInv, TypeOK
<1>2. Resolve([j \in S |-> "done"], wake, cancelled) /\ Progress([j \in S |-> "done"], body)
  BY DEF ReadFirst
<1>3. slot' \subseteq Kinds
  BY DEF ReadFirst, IInv, TypeOK
<1>4. /\ worker' \in [Kinds -> WorkerState]
      /\ \A k \in Kinds : worker'[k] \in {worker[k], "acting"}
  BY DEF ReadFirst, IInv, TypeOK
<1>5. UNCHANGED <<msg, albums, quiet, closed>>
  BY DEF ReadFirst
<1> QED
  BY <1>1, <1>2, <1>3, <1>4, <1>5, EndPendingInv

\* Withdrawing ends pending items and marks running ones.
LEMMA SupersedeInv ==
    ASSUME IInv, NEW S \in SUBSET Pending, NEW D \in SUBSET Item, NEW outcome \in Ended,
           Supersede(S, D, outcome)
    PROVE  IInv'
<1>1. cancelled \cup D \in SUBSET Item
  BY DEF IInv, TypeOK
<1>2. /\ Resolve([i \in S |-> outcome], wake, cancelled \cup D)
      /\ Progress([i \in S |-> outcome], body)
      /\ UNCHANGED <<worker, slot, msg, albums, quiet, closed>>
  BY DEF Supersede
<1>3. slot' \subseteq Kinds /\ worker' \in [Kinds -> WorkerState]
  BY <1>2 DEF IInv, TypeOK
<1> QED
  BY <1>1, <1>2, <1>3, EndPendingInv

\* cancel, forget_job and a takeover are withdrawals.
LEMMA CommandInv ==
    /\ \A r \in CancelRequests : IInv /\ Cancel(r) => IInv'
    /\ \A j \in Job : IInv /\ ForgetJob(j) => IInv'
    /\ \A c \in Chat, t \in Topic \cup {None}, m \in Msg : IInv /\ Takeover(c, t, m) => IInv'
<1>1. ASSUME NEW r \in CancelRequests, IInv, Cancel(r) PROVE IInv'
  BY <1>1, SupersedeInv DEF Cancel, RunningItems, Ended, Outcomes
<1>2. ASSUME NEW j \in Job, IInv, ForgetJob(j) PROVE IInv'
  BY <1>2, SupersedeInv DEF ForgetJob, RunningItems, Ended
<1>3. ASSUME NEW c \in Chat, NEW t \in Topic \cup {None}, NEW m \in Msg, IInv, Takeover(c, t, m)
      PROVE  IInv'
  BY <1>3, SupersedeInv DEF Takeover, TakenOver, Ended, Outcomes
<1> QED
  BY <1>1, <1>2, <1>3

\* Time, quiet hours and close() change nothing the queue's structure rests on.
LEMMA PassingInv ==
    ASSUME IInv,
           \/ \E i \in Item : ComesDue(i) \/ GoesLate(i)
           \/ \E k \in Kinds : SlotOpens(k)
           \/ QuietBegins \/ QuietEnds \/ Close
           \/ UNCHANGED vars
    PROVE  IInv'
<1>1. UNCHANGED <<status, heap, worker, msg, body, keys, recent, albums, cancelled>>
  BY DEF ComesDue, GoesLate, SlotOpens, QuietBegins, QuietEnds, Close, vars, queueVars
<1>2. /\ due' \subseteq Item /\ late' \subseteq Item /\ slot' \subseteq Kinds
      /\ wake' \in {wake, Kinds} /\ closed' \in BOOLEAN
  BY DEF ComesDue, GoesLate, SlotOpens, QuietBegins, QuietEnds, Close, vars, queueVars,
         IInv, TypeOK, Pending, Live
<1>3. quiet' \in [on : BOOLEAN, left : Nat]
  <2>1. quiet \in [on : BOOLEAN, left : Nat]
    BY DEF IInv, TypeOK
  <2>2. CASE QuietBegins
    BY <2>1, <2>2 DEF QuietBegins
  <2>3. CASE QuietEnds
    BY <2>1, <2>3 DEF QuietEnds
  <2>4. CASE UNCHANGED quiet
    BY <2>1, <2>4
  <2> QED
    BY <2>2, <2>3, <2>4 DEF ComesDue, GoesLate, SlotOpens, Close, vars
<1>5. TypeOK'
  BY <1>1, <1>2, <1>3 DEF IInv, TypeOK
<1>4. Live' = Live /\ \A k \in Kinds : Running(k)' = Running(k) /\ Queued(k)' = Queued(k)
  BY <1>1 DEF Live, Running, Queued
<1> QED
  BY <1>1, <1>2, <1>4, <1>5 DEF IInv, LiveQueued, NoLostWakeup, OneItemPerKey, SoundBatches

-----------------------------------------------------------------------------
(* The theorems.                                                           *)

\* Every action of the scheduler preserves the invariant.
LEMMA NextInv ==
    ASSUME IInv, [Next]_vars
    PROVE  IInv'
<1>1. ASSUME NEW i \in Item, RollOut(i) \/ PlanNothing(i) \/ Submit(i) PROVE IInv'
  BY <1>1, PlanInv
<1>2. ASSUME NEW i \in Item, ReadFirst(i) PROVE IInv'
  BY <1>2, ReadFirstInv
<1>3. ASSUME NEW k \in Kinds, Step(k) PROVE IInv'
  BY <1>3, StepInv
<1>4. ASSUME NEW k \in Kinds, Woken(k) \/ Leave(k) PROVE IInv'
  BY <1>4, LoopInv
<1>5. ASSUME NEW k \in Kinds, EndOfBatch(k) PROVE IInv'
  BY <1>5, EndOfBatchInv
<1>6. ASSUME NEW k \in Kinds, Abort(k) PROVE IInv'
  BY <1>6, AbortInv
<1>7. ASSUME \/ \E r \in CancelRequests : Cancel(r)
             \/ \E j \in Job : ForgetJob(j)
             \/ \E c \in Chat, t \in Topic \cup {None}, m \in Msg : Takeover(c, t, m)
      PROVE  IInv'
  BY <1>7, CommandInv
<1>8. CASE \/ \E i \in Item : ComesDue(i) \/ GoesLate(i)
           \/ \E k \in Kinds : SlotOpens(k)
           \/ QuietBegins \/ QuietEnds \/ Close
           \/ UNCHANGED vars
  BY <1>8, PassingInv
<1> QED
  BY <1>1, <1>2, <1>3, <1>4, <1>5, <1>6, <1>7, <1>8 DEF Next

\* In every reachable state of the scheduler its inductive invariant holds.
THEOREM Inductive == Spec => []IInv
<1>1. Init => IInv
  BY InitInv
<1>2. IInv /\ [Next]_vars => IInv'
  BY NextInv
<1> QED
  BY <1>1, <1>2, PTL DEF Spec

\* Every variable of the scheduler keeps its type, for every instance.
THEOREM TypeCorrect == Spec => []TypeOK
<1>1. IInv => TypeOK
  BY DEF IInv
<1> QED
  BY <1>1, Inductive, PTL

\* No pending action is ever invisible to its worker (_reschedule, _peek).
THEOREM AlwaysScheduled == Spec => []Scheduled
<1>1. IInv => Scheduled
  BY DEF IInv, LiveQueued, Scheduled, Live, Pending
<1> QED
  BY <1>1, Inductive, PTL

\* No wake-up is lost between _push and the wait of _step.
THEOREM NeverLostWakeup == Spec => []NoLostWakeup
<1>1. IInv => NoLostWakeup
  BY DEF IInv
<1> QED
  BY <1>1, Inductive, PTL

\* No piece of work is in the queue twice, and the key table names what is there.
THEOREM OneItemForEachKey == Spec => []OneItemPerKey
<1>1. IInv => OneItemPerKey
  BY DEF IInv
<1> QED
  BY <1>1, Inductive, PTL

\* Whatever runs as one call is one conversation's, in one mode, by one worker.
THEOREM BatchesAreSound == Spec => []SoundBatches
<1>1. IInv => SoundBatches
  BY DEF IInv
<1> QED
  BY <1>1, Inductive, PTL

-----------------------------------------------------------------------------
(* The shape of a step, for the proofs of the other properties.            *)

\* An item's progress stays within its retry budget.
InBudget(i, b) == b.fails <= Limit(Kind(i)) /\ b.floods <= MaxFloods

\* A step that resolves a fate: it leaves messages and albums alone, requeues no
\* running item that was cancelled, and starts none.
Settles(fate) ==
    /\ DecidesLive(fate)
    /\ \E awake, doomed : Resolve(fate, awake, doomed)
    /\ \A i \in DOMAIN fate : status[i] = "running" /\ fate[i] = "pending" => i \notin cancelled
    /\ \A i \in Item : \/ body'[i] = body[i]
                       \/ InBudget(i, body[i]) => InBudget(i, body'[i])
    /\ UNCHANGED <<msg, albums>>

\* A step that leaves the items, their keys and the albums alone.
Unmoved == UNCHANGED <<status, msg, body, keys, recent, albums>>

\* The limits are numbers.
LEMMA LimitTypes ==
    /\ MaxPending \in Nat \ {0} /\ RecentKeys \in Nat \ {0} /\ BatchMax \in Nat \ {0}
    /\ MaxFloods \in Nat /\ \A k \in Kinds : Limit(k) \in Nat
BY ConstantsAssumption DEF Limit

\* What an item gains within its budget, or loses with its end, stays within it.
LEMMA ProgressBudget ==
    ASSUME NEW fate, NEW more, Progress(fate, more),
           \A i \in Item : i \in DOMAIN fate /\ fate[i] = "pending" =>
               (InBudget(i, body[i]) => InBudget(i, more[i]))
    PROVE  \A i \in Item : \/ body'[i] = body[i]
                           \/ InBudget(i, body[i]) => InBudget(i, body'[i])
<1> SUFFICES ASSUME NEW i \in Item, body'[i] # body[i], InBudget(i, body[i])
             PROVE  InBudget(i, body'[i])
  OBVIOUS
<1>1. CASE fate[i] = "pending"
  BY <1>1 DEF Progress
<1>2. CASE fate[i] # "pending"
  <2>1. body'[i] = Fresh
    BY <1>2 DEF Progress
  <2>2. Kind(i) \in Kinds
    BY ConstantsAssumption
  <2>3. Limit(Kind(i)) \in Nat /\ MaxFloods \in Nat
    BY <2>2, LimitTypes
  <2>4. Fresh.fails = 0 /\ Fresh.floods = 0
    BY DEF Fresh
  <2>5. InBudget(i, Fresh)
    BY <2>3, <2>4 DEF InBudget
  <2> QED
    BY <2>1, <2>5
<1> QED
  BY <1>1, <1>2

\* Ending a batch settles it.
LEMMA EndSettles ==
    ASSUME IInv, NEW k \in Kinds, NEW fate, NEW more, End(k, fate, more),
           \A i \in Running(k) : fate[i] \in Ended \cup {"pending"},
           \A i \in Running(k) : fate[i] = "pending" =>
               (InBudget(i, body[i]) => InBudget(i, more[i]))
    PROVE  Settles(Fate(k, fate))
<1>1. DecidesLive(Fate(k, fate)) /\ DOMAIN Fate(k, fate) = Running(k)
  BY FateDecides DEF IInv
<1>2. \A i \in Running(k) : Fate(k, fate)[i] = "pending" => fate[i] = "pending" /\ i \notin cancelled
  BY DEF Fate
<1>3. \A i \in Item : \/ body'[i] = body[i]
                      \/ InBudget(i, body[i]) => InBudget(i, body'[i])
  BY <1>1, <1>2, ProgressBudget DEF End
<1> QED
  BY <1>1, <1>2, <1>3 DEF Settles, End

\* Every end of a batch settles it within the budgets.
LEMMA EndOfBatchSettles ==
    ASSUME IInv, NEW k \in Kinds, EndOfBatch(k)
    PROVE  \E fate : Settles(fate)
<1>0. \A i \in Running(k) : i \in Item /\ Kind(i) = k /\ body[i] \in Body
  BY DEF Running, IInv, TypeOK
<1>1. CASE Succeed(k)
  <2>1. \A i \in Running(k) : All(k, "done")[i] = "done"
    BY DEF All
  <2> QED
    BY <1>1, <2>1, EndSettles DEF Succeed, Ended, Outcomes
<1>2. CASE TypeFirst(k)
  <2>1. \A i \in Running(k) : All(k, "pending")[i] = "pending"
    BY DEF All
  <2>2. \A i \in Running(k) : InBudget(i, body[i]) =>
            InBudget(i, [j \in Item |-> [body[j] EXCEPT !.phase = "send"]][i])
    BY <1>0 DEF InBudget, Body
  <2> QED
    BY <1>2, <2>1, <2>2, EndSettles DEF TypeFirst
<1>3. CASE Flood(k)
  <2> DEFINE fate == [i \in Running(k) |-> IF body[i].floods + 1 > MaxFloods THEN "errors" ELSE "pending"]
             more == [i \in Item |-> [body[i] EXCEPT !.floods = @ + 1]]
  <2>1. \A i \in Running(k) : fate[i] \in Ended \cup {"pending"}
    BY DEF Ended, Outcomes
  <2>2. ASSUME NEW i \in Running(k), fate[i] = "pending", InBudget(i, body[i])
        PROVE  InBudget(i, more[i])
    <3>1. body[i].floods + 1 <= MaxFloods
      <4>1. body[i].floods \in Nat /\ ~(body[i].floods + 1 > MaxFloods)
        BY <2>2, <1>0 DEF Body
      <4> QED
        BY <4>1, LimitTypes
    <3>2. more[i].floods = body[i].floods + 1 /\ more[i].fails = body[i].fails
      BY <1>0 DEF Body
    <3> QED
      BY <2>2, <3>1, <3>2 DEF InBudget
  <2>3. End(k, fate, more)
    BY <1>3 DEF Flood
  <2> HIDE DEF fate, more
  <2> QED
    BY <2>1, <2>2, <2>3, EndSettles
<1>4. ASSUME NEW retryable \in BOOLEAN, Fail(k, retryable) PROVE \E fate : Settles(fate)
  <2> DEFINE fate == [i \in Running(k) |-> IF retryable /\ body[i].fails + 1 <= Limit(k)
                                           THEN "pending" ELSE "errors"]
             more == [i \in Item |-> [body[i] EXCEPT !.fails = @ + 1]]
  <2>1. \A i \in Running(k) : fate[i] \in Ended \cup {"pending"}
    BY DEF Ended, Outcomes
  <2>2. ASSUME NEW i \in Running(k), fate[i] = "pending", InBudget(i, body[i])
        PROVE  InBudget(i, more[i])
    <3>1. body[i].fails + 1 <= Limit(Kind(i))
      BY <2>2, <1>0
    <3>2. more[i].fails = body[i].fails + 1 /\ more[i].floods = body[i].floods
      BY <1>0 DEF Body
    <3> QED
      BY <2>2, <3>1, <3>2 DEF InBudget
  <2>3. End(k, fate, more)
    BY <1>4 DEF Fail
  <2> HIDE DEF fate, more
  <2> QED
    BY <2>1, <2>2, <2>3, EndSettles
<1> QED
  BY <1>1, <1>2, <1>3, <1>4 DEF EndOfBatch

\* Ending pending items settles them.
LEMMA SupersedeSettles ==
    ASSUME NEW S \in SUBSET Pending, NEW outcome \in Ended, NEW doomed,
           Resolve([i \in S |-> outcome], wake, doomed),
           Progress([i \in S |-> outcome], body), UNCHANGED <<msg, albums>>
    PROVE  \E fate : Settles(fate)
<1> DEFINE fate == [i \in S |-> outcome]
<1>1. DecidesLive(fate)
  BY DEF DecidesLive, Pending, Live
<1>2. \A i \in Item : \/ body'[i] = body[i]
                      \/ InBudget(i, body[i]) => InBudget(i, body'[i])
  BY ProgressBudget
<1>3. \A i \in DOMAIN fate : status[i] # "running"
  BY DEF Pending
<1>4. Settles(fate)
  BY <1>1, <1>2, <1>3 DEF Settles
<1> QED
  BY <1>4

\* What a step of a worker's loop does.
LEMMA StepShape ==
    ASSUME IInv, NEW k \in Kinds, Step(k)
    PROVE  \/ Unmoved
           \/ \E i \in Queued(k) \cap due : worker[k] = "step" /\ Start(k, i)
           \/ \E fate : Settles(fate)
<1>1. CASE Idle(k) \/ WaitDue(k) \/ \E i \in Queued(k) \cap due : WaitSlot(k, i)
  BY <1>1 DEF Idle, WaitDue, WaitSlot, Sleep, Unmoved
<1>2. ASSUME NEW i \in Queued(k) \cap due, Drop(k, i) PROVE \E fate : Settles(fate)
  <2> DEFINE fate == [j \in {i} |-> "expired"]
  <2>1. i \in Live /\ status[i] # "running"
    BY DEF Queued, Live, IInv, TypeOK
  <2>2. DecidesLive(fate)
    BY <2>1 DEF DecidesLive, Ended, Outcomes
  <2>3. Settles(fate)
    BY <1>2, <2>2, ProgressBudget DEF Drop, Settles
  <2> QED
    BY <2>3
<1>3. ASSUME NEW i \in Queued(k) \cap due, Hold(k, i) PROVE \E fate : Settles(fate)
  <2> DEFINE fate == [j \in {i} |-> "pending"]
  <2>1. i \in Live /\ status[i] # "running"
    BY DEF Queued, Live, IInv, TypeOK
  <2>2. DecidesLive(fate)
    BY <2>1 DEF DecidesLive
  <2>3. Settles(fate)
    BY <1>3, <2>1, <2>2 DEF Hold, Settles
  <2> QED
    BY <2>3
<1> QED
  BY <1>1, <1>2, <1>3 DEF Step

\* Every step plans an item, starts or aborts a batch, resolves a fate, or leaves
\* the items alone.
LEMMA Shape ==
    ASSUME IInv, [Next]_vars
    PROVE  \/ Unmoved
           \/ \E i \in Item : RollOut(i) \/ PlanNothing(i) \/ Submit(i)
           \/ \E k \in Kinds : \E i \in Queued(k) \cap due : worker[k] = "step" /\ Start(k, i)
           \/ \E fate : Settles(fate)
           \/ \E k \in Kinds : Abort(k)
<1>1. ASSUME NEW i \in Item, ReadFirst(i) PROVE \E fate : Settles(fate)
  <2>1. CoveredReads(i) \in SUBSET Pending
    BY DEF CoveredReads
  <2> QED
    BY <1>1, <2>1, SupersedeSettles DEF ReadFirst, Ended, Outcomes
<1>2. ASSUME NEW S \in SUBSET Pending, NEW D, NEW outcome \in Ended, Supersede(S, D, outcome)
      PROVE  \E fate : Settles(fate)
  BY <1>2, SupersedeSettles DEF Supersede
<1>3. ASSUME \/ \E r \in CancelRequests : Cancel(r)
             \/ \E j \in Job : ForgetJob(j)
             \/ \E c \in Chat, t \in Topic \cup {None}, m \in Msg : Takeover(c, t, m)
      PROVE  \E fate : Settles(fate)
  BY <1>2, <1>3 DEF Cancel, ForgetJob, Takeover, TakenOver, Ended, Outcomes
<1>4. CASE \/ \E i \in Item : ComesDue(i) \/ GoesLate(i)
           \/ \E k \in Kinds : SlotOpens(k) \/ Woken(k) \/ Leave(k)
           \/ QuietBegins \/ QuietEnds \/ Close
           \/ UNCHANGED vars
  BY <1>4 DEF ComesDue, GoesLate, SlotOpens, Woken, Leave, QuietBegins, QuietEnds, Close,
              vars, queueVars, Unmoved
<1> QED
  BY <1>1, <1>3, <1>4, StepShape, EndOfBatchSettles DEF Next

-----------------------------------------------------------------------------
(* Batches and budgets.                                                    *)

\* The size of a batch means something because the queue is finite.
FittingBatches == IsFiniteSet(Live) /\ BatchesFit

\* The batch a worker starts is a part of the queue and fits one call.
LEMMA BatchFits ==
    ASSUME IInv, IsFiniteSet(Live), NEW i \in Pending, NEW b \in Batches(i)
    PROVE  b \subseteq Pending /\ Cardinality(b) <= BatchMax
<1> DEFINE all == Companions(i) \cup {i}
<1>1. all \in SUBSET Live /\ all \subseteq Pending
  BY DEF Companions, Pending, Live
<1>2. IsFiniteSet(all) /\ Cardinality(all) \in Nat
  BY <1>1, FS_Subset, FS_CardinalityType
<1>3. BatchMax \in Nat
  BY LimitTypes
<1>4. b \subseteq all /\ Cardinality(b) <= BatchMax
  BY <1>2, <1>3 DEF Batches
<1> QED
  BY <1>1, <1>4

\* No action leaves a batch larger than one call.
LEMMA FittingStep ==
    ASSUME IInv, FittingBatches, [Next]_vars
    PROVE  FittingBatches'
<1> USE DEF FittingBatches
<1>1. CASE Live' \subseteq Live /\ \A k \in Kinds : Running(k)' \subseteq Running(k)
  <2>1. IsFiniteSet(Live')
    BY <1>1, FS_Subset
  <2>2. ASSUME NEW k \in Kinds PROVE Cardinality(Running(k)') <= BatchMax
    <3>1. Running(k) \in SUBSET Live
      BY DEF Running, Live
    <3>2. IsFiniteSet(Running(k)) /\ Running(k)' \in SUBSET Running(k)
      BY <1>1, <3>1, FS_Subset
    <3>3. Cardinality(Running(k)') <= Cardinality(Running(k))
      BY <3>2, FS_Subset
    <3>4. Cardinality(Running(k)) \in Nat /\ Cardinality(Running(k)') \in Nat
      BY <3>2, FS_Subset, FS_CardinalityType
    <3> QED
      BY <3>3, <3>4, LimitTypes DEF BatchesFit
  <2> QED
    BY <2>1, <2>2 DEF BatchesFit
<1>2. CASE Unmoved
  BY <1>1, <1>2 DEF Unmoved, Live, Running
<1>3. ASSUME NEW i \in Item, RollOut(i) \/ PlanNothing(i) \/ Submit(i) PROVE FittingBatches'
  <2>1. \A k \in Kinds : Running(k)' = Running(k)
    BY <1>3 DEF RollOut, PlanNothing, Skip, Submit, RolledIn, Duplicate, Sibling, Full, Refuse,
                Insert, Running, IInv, TypeOK
  <2>2. Live' \subseteq Live \cup {i}
    BY <1>3 DEF RollOut, PlanNothing, Skip, Submit, Duplicate, Sibling, Full, Refuse,
                Insert, Live, IInv, TypeOK
  <2>3. IsFiniteSet(Live \cup {i})
    BY FS_AddElement
  <2>4. IsFiniteSet(Live')
    BY <2>2, <2>3, FS_Subset
  <2> QED
    BY <2>1, <2>4 DEF BatchesFit
<1>4. ASSUME NEW k \in Kinds, NEW i \in Queued(k), worker[k] = "step", Start(k, i) PROVE FittingBatches'
  <2>1. i \in Pending /\ Kind(i) = k
    BY DEF Queued, Pending, IInv, TypeOK
  <2>2. PICK b \in Batches(i) : status' = [j \in Item |-> IF j \in b THEN "running" ELSE status[j]]
    BY <1>4 DEF Start
  <2>3. b \subseteq Pending /\ Cardinality(b) <= BatchMax
    BY <2>1, BatchFits
  <2>4. Live' = Live
    BY <2>2, <2>3 DEF Live, Pending
  <2>5. \A j \in b : Kind(j) = k
    BY <2>1, <2>2 DEF Batches, Companions, SameBatch
  <2>6. \A j \in Kinds \ {k} : Running(j)' = Running(j)
    BY <2>2, <2>5 DEF Running
  <2>7. Running(k)' = b
    <3>1. \A j \in Item : ~(status[j] = "running" /\ Kind(j) = k)
      BY <1>4 DEF IInv, SoundBatches, Running
    <3> QED
      BY <2>2, <2>3, <2>5, <3>1 DEF Running, Pending
  <2> QED
    BY <2>3, <2>4, <2>6, <2>7 DEF BatchesFit
<1>5. ASSUME NEW fate, Settles(fate) PROVE FittingBatches'
  <2>1. Live' \subseteq Live /\ \A k \in Kinds : Running(k)' \subseteq Running(k)
    BY <1>5 DEF Settles, DecidesLive, Resolve, Live, Running, Ended, Outcomes, Refused
  <2> QED
    BY <1>1, <2>1
<1>6. ASSUME NEW k \in Kinds, Abort(k) PROVE FittingBatches'
  <2>1. Live' \subseteq Live /\ \A j \in Kinds : Running(j)' \subseteq Running(j)
    BY <1>6 DEF Abort, Live, Running
  <2> QED
    BY <1>1, <2>1
<1> QED
  BY <1>2, <1>3, <1>4, <1>5, <1>6, Shape

\* The empty queue has no batch.
LEMMA InitFits == Init => FittingBatches
<1> SUFFICES ASSUME Init PROVE FittingBatches
  OBVIOUS
<1>1. Live = {} /\ \A k \in Kinds : Running(k) = {}
  BY DEF Init, Live, Running
<1> QED
  BY <1>1, FS_EmptySet, LimitTypes DEF FittingBatches, BatchesFit

\* A batch never outgrows one call (`_batch` stops at BATCH_MAX), also with the
\* companions it takes along.
THEOREM BatchesAlwaysFit == Spec => []BatchesFit
<1>1. Init => FittingBatches
  BY InitFits
<1>2. IInv /\ FittingBatches /\ [Next]_vars => FittingBatches'
  BY FittingStep
<1>3. FittingBatches => BatchesFit
  BY DEF FittingBatches
<1> QED
  BY <1>1, <1>2, <1>3, Inductive, PTL DEF Spec

\* Every item, live or not, is within its retry budget: what ended starts afresh.
Budgets == \A i \in Item : InBudget(i, body[i])

\* No action takes an item past its budget.
LEMMA BudgetStep ==
    ASSUME IInv, Budgets, [Next]_vars
    PROVE  Budgets'
<1>1. CASE body' = body
  BY <1>1 DEF Budgets, InBudget
<1>2. ASSUME NEW fate, Settles(fate) PROVE Budgets'
  BY <1>2 DEF Settles, Budgets, InBudget
<1>3. ASSUME NEW i \in Item, RollOut(i) \/ PlanNothing(i) \/ Submit(i) PROVE body' = body
  BY <1>3 DEF RollOut, PlanNothing, Skip, Submit, Duplicate, Sibling, Full, Refuse, Insert
<1> QED
  BY <1>1, <1>2, <1>3, Shape DEF Unmoved, Start, Abort

\* Nothing has been tried yet.
LEMMA InitBudgets == Init => Budgets
<1> SUFFICES ASSUME Init, NEW i \in Item PROVE InBudget(i, body[i])
  BY DEF Budgets
<1>1. body[i] = Fresh
  BY DEF Init
<1>2. Kind(i) \in Kinds
  BY ConstantsAssumption
<1>3. Limit(Kind(i)) \in Nat /\ MaxFloods \in Nat /\ Fresh.fails = 0 /\ Fresh.floods = 0
  BY <1>2, LimitTypes DEF Fresh
<1>4. InBudget(i, Fresh)
  BY <1>3 DEF InBudget
<1> QED
  BY <1>1, <1>4

\* No item is retried past its limit of failures or of FLOOD_WAITs (_failed).
THEOREM RetriesAreBounded == Spec => []BoundedRetries
<1>1. Init => Budgets
  BY InitBudgets
<1>2. IInv /\ Budgets /\ [Next]_vars => Budgets'
  BY BudgetStep
<1>3. Budgets => BoundedRetries
  BY DEF Budgets, InBudget, BoundedRetries, Live
<1> QED
  BY <1>1, <1>2, <1>3, Inductive, PTL DEF Spec

-----------------------------------------------------------------------------
(* Albums.                                                                 *)

\* The memory of an album: an item is remembered only under its own album and a
\* roll that said yes, every message that was planned knows that roll, and
\* whatever was accepted is what the memory names.
AlbumsRemember ==
    /\ \A a \in Album : albums[a].item # None =>
           /\ albums[a].roll = "in" /\ albums[a].item \in Item
           /\ AlbumOf(albums[a].item) = a
    /\ \A i \in Item : AlbumOf(i) # None =>
           /\ status[i] \notin {"new", "skipped"} => Memo(i).roll = "in"
           /\ Accepted(i) => Memo(i).item = i

\* Where the item of an album sits: on its own message until a captioned one of
\* the album took it.
CaptionsRemember ==
    /\ \A i \in Item : status[i] = "new" => msg[i] = Attr[i].msg
    /\ \A a \in Album : albums[a].item # None =>
           IF albums[a].caption
           THEN \E j \in Item : /\ AlbumOf(j) = a /\ Attr[j].caption
                                /\ msg[albums[a].item] = Attr[j].msg
           ELSE /\ msg[albums[a].item] = Attr[albums[a].item].msg
                /\ ~Attr[albums[a].item].caption

\* Two updates about one message of an album agree on its caption.
CaptionIsOfMessage ==
    \A i, j \in Item :
        AlbumOf(i) # None /\ AlbumOf(i) = AlbumOf(j) /\ Attr[i].msg = Attr[j].msg =>
            Attr[i].caption = Attr[j].caption

\* What planning does to the memory of the message's own album; it touches no other.
LEMMA RecordedMemo ==
    ASSUME TypeOK, NEW i \in Item, NEW memo, AlbumOf(i) # None
    PROVE  /\ Recorded(i, memo)[AlbumOf(i)] = memo
           /\ \A a \in Album \ {AlbumOf(i)} : Recorded(i, memo)[a] = albums[a]
BY MemoType DEF Recorded, TypeOK

\* A message without an album leaves the memory alone.
LEMMA NoAlbumNoMemo ==
    ASSUME NEW i \in Item, AlbumOf(i) = None, RollOut(i) \/ PlanNothing(i) \/ Submit(i)
    PROVE  albums' = albums /\ msg' = msg
BY DEF RollOut, PlanNothing, Skip, Submit, Duplicate, Sibling, Full, Insert, Recorded, HasSibling

\* The roll of a memo is changed alone.
LEMMA MemoFields ==
    ASSUME NEW m \in AlbumMemo, NEW said
    PROVE  /\ [m EXCEPT !.roll = said].roll = said
           /\ [m EXCEPT !.roll = said].item = m.item
           /\ [m EXCEPT !.roll = said].caption = m.caption
BY DEF AlbumMemo

\* What a message does to the memory of its album: rolls or keeps the roll, and
\* becomes its item only when there is none.
LEMMA PlanMemo ==
    ASSUME IInv, AlbumsRemember, NEW i \in Item, AlbumOf(i) # None,
           RollOut(i) \/ PlanNothing(i) \/ Submit(i)
    PROVE  /\ \A a \in Album \ {AlbumOf(i)} : albums'[a] = albums[a]
           /\ status[i] = "new" /\ \A j \in Item \ {i} : status'[j] = status[j]
           /\ \/ /\ status'[i] = "skipped" /\ Memo(i)'.item = Memo(i).item
                 /\ Memo(i)'.caption = Memo(i).caption /\ msg' = msg
                 /\ Memo(i).roll \in {"none", Memo(i)'.roll}
              \/ /\ status'[i] \in Refused /\ Memo(i)'.item = Memo(i).item
                 /\ Memo(i)'.roll = "in"
                 /\ \/ msg' = msg /\ Memo(i)'.caption = Memo(i).caption
                    \/ /\ Moves(i) /\ Memo(i)'.caption = TRUE /\ Memo(i).item # None
                       /\ msg' = [msg EXCEPT ![Memo(i).item] = Attr[i].msg]
              \/ /\ status'[i] = "pending" /\ Memo(i).item = None /\ msg' = msg
                 /\ Memo(i)'.roll = "in" /\ Memo(i)'.item = i
                 /\ Memo(i)'.caption = Attr[i].caption
<1>0. TypeOK /\ AlbumOf(i) \in Album /\ Memo(i) \in AlbumMemo
  BY MemoType DEF IInv
<1>1. status[i] = "new" /\ \A j \in Item \ {i} : status'[j] = status[j]
  BY <1>0 DEF RollOut, PlanNothing, Skip, Submit, RolledIn, Duplicate, Sibling, Full, Refuse, Insert, TypeOK
<1>2. \E memo : albums' = Recorded(i, memo) \/ albums' = albums
  BY DEF RollOut, PlanNothing, Skip, Submit, Duplicate, Sibling, Full, Insert
<1>3. \A a \in Album \ {AlbumOf(i)} : albums'[a] = albums[a]
  BY <1>0, <1>2, RecordedMemo
<1>4. \A memo : albums' = Recorded(i, memo) => Memo(i)' = memo
  BY <1>0, RecordedMemo DEF Memo
<1>5. ASSUME NEW said \in {"in", "out"}, Skip(i, said)
      PROVE  /\ status'[i] = "skipped" /\ Memo(i)'.item = Memo(i).item
             /\ Memo(i)'.caption = Memo(i).caption /\ msg' = msg
             /\ Memo(i).roll \in {"none", Memo(i)'.roll}
  <2>1. Memo(i)' = [Memo(i) EXCEPT !.roll = said]
    BY <1>4, <1>5 DEF Skip
  <2>2. status'[i] = "skipped" /\ msg' = msg /\ Memo(i).roll \in {"none", said}
    BY <1>0, <1>5 DEF Skip, TypeOK
  <2> QED
    BY <1>0, <2>1, <2>2, MemoFields
<1>6. CASE Duplicate(i) \/ Full(i)
  <2>1. Memo(i)' = [Memo(i) EXCEPT !.roll = "in"] /\ msg' = msg
    BY <1>4, <1>6 DEF Duplicate, Full
  <2>2. status'[i] \in Refused
    BY <1>0, <1>6 DEF Duplicate, Full, Refuse, Refused, TypeOK
  <2> QED
    BY <1>0, <1>1, <1>3, <2>1, <2>2, MemoFields
<1>7. CASE Sibling(i) /\ Moves(i)
  <2>1. Memo(i)' = [Memo(i) EXCEPT !.caption = TRUE] /\ Memo(i).item # None
    BY <1>4, <1>7 DEF Sibling, HasSibling
  <2>2. status'[i] \in Refused /\ msg' = [msg EXCEPT ![Memo(i).item] = Attr[i].msg]
    BY <1>0, <1>7 DEF Sibling, Refuse, Refused, TypeOK
  <2>3. Memo(i).roll = "in"
    BY <1>0, <2>1 DEF AlbumsRemember, Memo
  <2>4. /\ Memo(i)'.caption = TRUE /\ Memo(i)'.item = Memo(i).item
        /\ Memo(i)'.roll = Memo(i).roll
    <3>1. \A m \in AlbumMemo : /\ [m EXCEPT !.caption = TRUE].caption = TRUE
                               /\ [m EXCEPT !.caption = TRUE].item = m.item
                               /\ [m EXCEPT !.caption = TRUE].roll = m.roll
      BY DEF AlbumMemo
    <3> QED
      BY <1>0, <2>1, <3>1
  <2> QED
    BY <1>1, <1>3, <1>7, <2>1, <2>2, <2>3, <2>4
<1>8. CASE Sibling(i) /\ ~Moves(i)
  <2>1. albums' = albums /\ msg' = msg /\ Memo(i).item # None /\ Memo(i)' = Memo(i)
    BY <1>8 DEF Sibling, HasSibling, Memo
  <2>2. status'[i] \in Refused
    BY <1>0, <1>8 DEF Sibling, Refuse, Refused, TypeOK
  <2>3. Memo(i).roll = "in"
    BY <1>0, <2>1 DEF AlbumsRemember, Memo
  <2> QED
    BY <1>1, <1>3, <2>1, <2>2, <2>3
<1>9. CASE Insert(i)
  <2>1. Memo(i)' = [roll |-> "in", item |-> i, caption |-> Attr[i].caption] /\ Memo(i).item = None
    BY <1>4, <1>9 DEF Insert, HasSibling
  <2>2. status'[i] = "pending" /\ msg' = msg
    BY <1>0, <1>9 DEF Insert, TypeOK
  <2>3. Memo(i)'.roll = "in" /\ Memo(i)'.item = i /\ Memo(i)'.caption = Attr[i].caption
    BY <2>1
  <2> QED
    BY <1>1, <1>3, <2>1, <2>2, <2>3
<1>10. CASE RollOut(i) \/ PlanNothing(i)
  BY <1>1, <1>3, <1>5, <1>10 DEF RollOut, PlanNothing
<1> QED
  BY <1>6, <1>7, <1>8, <1>9, <1>10 DEF Submit

\* No action but a planned message of the album changes what is remembered of it,
\* and what was accepted stays accepted.
LEMMA AlbumsStep ==
    ASSUME IInv, AlbumsRemember, [Next]_vars
    PROVE  AlbumsRemember'
<1>1. ASSUME albums' = albums,
             \A i \in Item : /\ status'[i] \notin {"new", "skipped"} => status[i] \notin {"new", "skipped"}
                             /\ Accepted(i)' => Accepted(i)
      PROVE  AlbumsRemember'
  BY <1>1 DEF AlbumsRemember, Memo
<1>2. CASE Unmoved
  BY <1>1, <1>2 DEF Unmoved, Accepted
<1>3. ASSUME NEW i \in Item, RollOut(i) \/ PlanNothing(i) \/ Submit(i) PROVE AlbumsRemember'
  <2>0. TypeOK
    BY DEF IInv
  <2>1. CASE AlbumOf(i) = None
    <3>1. albums' = albums /\ \A j \in Item \ {i} : status'[j] = status[j]
      BY <1>3, <2>0, <2>1, NoAlbumNoMemo DEF RollOut, PlanNothing, Skip, Submit, Duplicate, Sibling,
         Full, Refuse, Insert, TypeOK
    <3> QED
      BY <2>1, <3>1 DEF AlbumsRemember, Memo, Accepted
  <2>2. CASE AlbumOf(i) # None
    <3> DEFINE a == AlbumOf(i)
    <3>1. /\ \A b \in Album \ {a} : albums'[b] = albums[b]
          /\ status[i] = "new" /\ \A j \in Item \ {i} : status'[j] = status[j]
      BY <1>3, <2>2, PlanMemo
    <3>2. \/ /\ status'[i] = "skipped" /\ albums'[a].item = albums[a].item
             /\ albums[a].roll \in {"none", albums'[a].roll}
          \/ /\ status'[i] \in Refused /\ albums'[a].item = albums[a].item
             /\ albums'[a].roll = "in"
          \/ /\ status'[i] = "pending" /\ albums[a].item = None
             /\ albums'[a].item = i /\ albums'[a].roll = "in"
      BY <1>3, <2>2, PlanMemo DEF Memo
    <3>3. a \in Album
      BY <2>0, <2>2, MemoType
    <3>4. ASSUME NEW b \in Album, albums'[b].item # None
          PROVE  /\ albums'[b].roll = "in" /\ albums'[b].item \in Item
                 /\ AlbumOf(albums'[b].item) = b
      BY <3>1, <3>2, <3>4 DEF AlbumsRemember
    <3>5. ASSUME NEW j \in Item, AlbumOf(j) # None
          PROVE  /\ status'[j] \notin {"new", "skipped"} => albums'[AlbumOf(j)].roll = "in"
                 /\ Accepted(j)' => albums'[AlbumOf(j)].item = j
      <4>1. AlbumOf(j) \in Album
        BY <2>0, <3>5, MemoType
      <4>2. CASE j = i
        <5>1. (status'[i] \notin {"new", "skipped"} => albums'[a].roll = "in")
          BY <3>2
        <5>2. Accepted(i)' => albums'[a].item = i
          BY <3>2 DEF Accepted
        <5> QED
          BY <4>2, <5>1, <5>2
      <4>3. CASE j # i
        <5>1. status'[j] = status[j]
          BY <3>1, <4>3
        <5>2. /\ status[j] \notin {"new", "skipped"} => albums[AlbumOf(j)].roll = "in"
              /\ Accepted(j) => albums[AlbumOf(j)].item = j
          BY <3>5 DEF AlbumsRemember, Memo
        <5>3. j # None
          BY ConstantsAssumption
        <5> QED
          BY <3>1, <3>2, <4>1, <5>1, <5>2, <5>3 DEF Accepted
      <4> QED
        BY <4>2, <4>3
    <3> QED
      BY <3>4, <3>5 DEF AlbumsRemember, Memo
  <2> QED
    BY <2>1, <2>2
<1>4. ASSUME NEW k \in Kinds, NEW i \in Queued(k), Start(k, i) PROVE AlbumsRemember'
  <2>1. PICK b \in Batches(i) : status' = [j \in Item |-> IF j \in b THEN "running" ELSE status[j]]
    BY <1>4 DEF Start
  <2>2. \A j \in b : status[j] = "pending"
    BY DEF Batches, Companions, Queued, Pending
  <2> QED
    BY <1>1, <1>4, <2>1, <2>2 DEF Start, Accepted, Refused
<1>5. ASSUME NEW fate, Settles(fate) PROVE AlbumsRemember'
  <2>1. \A i \in DOMAIN fate : status[i] \in {"pending", "running"}
    BY <1>5 DEF Settles, DecidesLive, Live
  <2>2. \A i \in Item \ DOMAIN fate : status'[i] = status[i]
    BY <1>5 DEF Settles, Resolve
  <2> QED
    BY <1>1, <1>5, <2>1, <2>2 DEF Settles, Accepted, Refused
<1>6. ASSUME NEW k \in Kinds, Abort(k) PROVE AlbumsRemember'
  BY <1>1, <1>6 DEF Abort, Running, Accepted, Refused
<1> QED
  BY <1>2, <1>3, <1>4, <1>5, <1>6, Shape

\* No album is remembered yet.
LEMMA InitAlbums == Init => AlbumsRemember /\ CaptionsRemember
BY DEF Init, AlbumsRemember, CaptionsRemember, Memo, Accepted

\* Memory that names what was accepted names one item per album.
LEMMA OneActs ==
    ASSUME AlbumsRemember, TypeOK
    PROVE  AlbumActsOnce
<1> SUFFICES ASSUME NEW i \in Item, AlbumOf(i) # None
             PROVE  /\ Accepted(i) => \A j \in Item \ {i} : AlbumOf(j) = AlbumOf(i) => ~Accepted(j)
                    /\ Memo(i).roll = "out" => status[i] \in {"new", "skipped"}
  BY DEF AlbumActsOnce
<1> QED
  BY DEF AlbumsRemember, Memo

\* One album has one action at most, and its messages one roll, whatever the order
\* its messages, their refusals and the workers come in (album_roll, submit).
THEOREM AlbumsActOnce == Spec => []AlbumActsOnce
<1>1. Init => AlbumsRemember
  BY InitAlbums
<1>2. IInv /\ AlbumsRemember /\ [Next]_vars => AlbumsRemember'
  BY AlbumsStep
<1>3. IInv /\ AlbumsRemember => AlbumActsOnce
  BY OneActs DEF IInv
<1> QED
  BY <1>1, <1>2, <1>3, Inductive, PTL DEF Spec

\* What does not plan leaves messages and albums alone, and offers nothing anew.
LEMMA NotPlanned ==
    ASSUME IInv, [Next]_vars
    PROVE  \/ \E i \in Item : RollOut(i) \/ PlanNothing(i) \/ Submit(i)
           \/ /\ UNCHANGED <<msg, albums>>
              /\ \A i \in Item : status'[i] = "new" => status[i] = "new"
<1>1. ASSUME NEW k \in Kinds, NEW i \in Queued(k), Start(k, i)
      PROVE  UNCHANGED <<msg, albums>> /\ \A j \in Item : status'[j] = "new" => status[j] = "new"
  BY <1>1 DEF Start
<1>2. ASSUME NEW fate, Settles(fate)
      PROVE  UNCHANGED <<msg, albums>> /\ \A j \in Item : status'[j] = "new" => status[j] = "new"
  BY <1>2 DEF Settles, Resolve, DecidesLive, Ended, Outcomes, Refused
<1>3. ASSUME NEW k \in Kinds, Abort(k)
      PROVE  UNCHANGED <<msg, albums>> /\ \A j \in Item : status'[j] = "new" => status[j] = "new"
  BY <1>3 DEF Abort
<1> QED
  BY <1>1, <1>2, <1>3, Shape DEF Unmoved

\* The item of an album moves only to a captioned message of that album, once.
LEMMA CaptionsStep ==
    ASSUME IInv, AlbumsRemember, CaptionsRemember, [Next]_vars
    PROVE  CaptionsRemember'
<1>0. TypeOK
  BY DEF IInv
<1>1. CASE /\ UNCHANGED <<msg, albums>>
           /\ \A i \in Item : status'[i] = "new" => status[i] = "new"
  BY <1>1 DEF CaptionsRemember
<1>2. ASSUME NEW i \in Item, RollOut(i) \/ PlanNothing(i) \/ Submit(i), AlbumOf(i) = None
      PROVE  CaptionsRemember'
  <2>1. msg' = msg /\ albums' = albums
    BY <1>2, NoAlbumNoMemo
  <2>2. \A j \in Item : status'[j] = "new" => status[j] = "new"
    BY <1>0, <1>2 DEF RollOut, PlanNothing, Skip, Submit, Duplicate, Sibling, Full, Refuse, Insert,
                      RolledIn, TypeOK
  <2> QED
    BY <2>1, <2>2 DEF CaptionsRemember
<1>3. ASSUME NEW i \in Item, RollOut(i) \/ PlanNothing(i) \/ Submit(i), AlbumOf(i) # None
      PROVE  CaptionsRemember'
  <2> DEFINE a == AlbumOf(i)
             x == albums[a].item
  <2>1. /\ a \in Album /\ \A b \in Album \ {a} : albums'[b] = albums[b]
        /\ status[i] = "new" /\ \A j \in Item \ {i} : status'[j] = status[j]
    BY <1>0, <1>3, PlanMemo, MemoType
  <2>2. msg[i] = Attr[i].msg
    BY <2>1 DEF CaptionsRemember
  <2>3. CASE msg' = msg /\ albums'[a].item = x /\ albums'[a].caption = albums[a].caption
             /\ status'[i] # "new"
    BY <2>1, <2>3 DEF CaptionsRemember
  <2>4. CASE /\ status'[i] # "new" /\ Moves(i) /\ x # None
             /\ albums'[a].item = x /\ albums'[a].caption = TRUE
             /\ msg' = [msg EXCEPT ![x] = Attr[i].msg]
    <3>1. status[x] = "pending" /\ Attr[i].caption
      BY <2>4 DEF Moves, Memo
    <3>2. x \in Item /\ AlbumOf(x) = a
      BY <2>1, <2>4 DEF AlbumsRemember
    <3>3. msg'[x] = Attr[i].msg /\ \A j \in Item \ {x} : msg'[j] = msg[j]
      BY <1>0, <2>4, <3>2 DEF TypeOK
    <3>4. \A j \in Item : status'[j] = "new" => msg'[j] = Attr[j].msg
      BY <2>1, <2>4, <3>1, <3>3 DEF CaptionsRemember
    <3>5. \E j \in Item : AlbumOf(j) = a /\ Attr[j].caption /\ msg'[albums'[a].item] = Attr[j].msg
      BY <2>4, <3>1, <3>3
    <3>6. \A b \in Album \ {a} : albums[b].item # None =>
              msg'[albums[b].item] = msg[albums[b].item]
      BY <3>2, <3>3 DEF AlbumsRemember
    <3>7. ASSUME NEW b \in Album \ {a}, albums[b].item # None
          PROVE  IF albums[b].caption
                 THEN \E j \in Item : /\ AlbumOf(j) = b /\ Attr[j].caption
                                      /\ msg'[albums[b].item] = Attr[j].msg
                 ELSE /\ msg'[albums[b].item] = Attr[albums[b].item].msg
                      /\ ~Attr[albums[b].item].caption
      BY <3>6, <3>7 DEF CaptionsRemember
    <3> QED
      BY <2>1, <2>4, <3>4, <3>5, <3>7 DEF CaptionsRemember
  <2>5. CASE /\ status'[i] = "pending" /\ msg' = msg
             /\ albums'[a].item = i /\ albums'[a].caption = Attr[i].caption
    <3>1. \A j \in Item : status'[j] = "new" => msg'[j] = Attr[j].msg
      BY <2>1, <2>5 DEF CaptionsRemember
    <3>2. IF albums'[a].caption
          THEN \E j \in Item : AlbumOf(j) = a /\ Attr[j].caption /\ msg'[albums'[a].item] = Attr[j].msg
          ELSE msg'[albums'[a].item] = Attr[albums'[a].item].msg /\ ~Attr[albums'[a].item].caption
      BY <2>2, <2>5
    <3> QED
      BY <2>1, <2>5, <3>1, <3>2 DEF CaptionsRemember
  <2> HIDE DEF a, x
  <2>6. \/ /\ msg' = msg /\ albums'[a].item = x /\ albums'[a].caption = albums[a].caption
           /\ status'[i] # "new"
        \/ /\ status'[i] # "new" /\ Moves(i) /\ x # None
           /\ albums'[a].item = x /\ albums'[a].caption = TRUE
           /\ msg' = [msg EXCEPT ![x] = Attr[i].msg]
        \/ /\ status'[i] = "pending" /\ msg' = msg
           /\ albums'[a].item = i /\ albums'[a].caption = Attr[i].caption
    BY <1>3, PlanMemo DEF Memo, Refused, a, x
  <2> QED
    BY <2>3, <2>4, <2>5, <2>6
<1> QED
  BY <1>1, <1>2, <1>3, NotPlanned

\* Messages that agree on their caption make the flag say where the item sits.
LEMMA FlagAgrees ==
    ASSUME CaptionIsOfMessage, AlbumsRemember, CaptionsRemember
    PROVE  CaptionFlagAgrees
<1> SUFFICES ASSUME NEW a \in Album, albums[a].item # None
             PROVE  albums[a].caption <=>
                    \E j \in Item : AlbumOf(j) = a /\ Attr[j].caption /\ msg[albums[a].item] = Attr[j].msg
  BY DEF CaptionFlagAgrees
<1>1. CASE albums[a].caption
  BY <1>1 DEF CaptionsRemember
<1>2. CASE ~albums[a].caption
  <2>1. albums[a].item \in Item /\ AlbumOf(albums[a].item) = a /\ a # None
    BY ConstantsAssumption DEF AlbumsRemember
  <2>2. msg[albums[a].item] = Attr[albums[a].item].msg /\ ~Attr[albums[a].item].caption
    BY <1>2 DEF CaptionsRemember
  <2> QED
    BY <1>2, <2>1, <2>2 DEF CaptionIsOfMessage
<1> QED
  BY <1>1, <1>2

\* The caption flag of an album says whether its action sits on a captioned message
\* (submit moves it once, while it is pending), as long as two updates about one
\* message agree on the caption.
THEOREM CaptionFlagsAgree == CaptionIsOfMessage => (Spec => []CaptionFlagAgrees)
<1> SUFFICES ASSUME CaptionIsOfMessage PROVE Spec => []CaptionFlagAgrees
  OBVIOUS
<1>1. Init => AlbumsRemember /\ CaptionsRemember
  BY InitAlbums
<1>2. IInv /\ AlbumsRemember /\ CaptionsRemember /\ [Next]_vars => (AlbumsRemember /\ CaptionsRemember)'
  BY AlbumsStep, CaptionsStep
<1>3. AlbumsRemember /\ CaptionsRemember => CaptionFlagAgrees
  BY FlagAgrees
<1> QED
  BY <1>1, <1>2, <1>3, Inductive, PTL DEF Spec

-----------------------------------------------------------------------------
(* What a step never does.                                                 *)

\* The message of a running action is never replaced under it: submit moves an
\* album's action only while it is pending.
THEOREM RunningKeepsItsTarget == Spec => RunningKeepsTarget
<1>1. ASSUME IInv, [Next]_vars, NEW i \in Item, status[i] = "running"
      PROVE  msg'[i] = msg[i]
  <2>1. ASSUME NEW j \in Item, RollOut(j) \/ PlanNothing(j) \/ Submit(j), msg' # msg
        PROVE  /\ status[Memo(j).item] = "pending"
               /\ msg' = [msg EXCEPT ![Memo(j).item] = Attr[j].msg]
    BY <2>1 DEF RollOut, PlanNothing, Skip, Submit, Duplicate, Sibling, Full, Insert, Moves
  <2> QED
    BY <1>1, <2>1, NotPlanned DEF IInv, TypeOK
<1>2. IInv /\ [Next]_vars => [\A i \in Item : status[i] = "running" => msg'[i] = msg[i]]_vars
  BY <1>1
<1> QED
  BY <1>2, Inductive, PTL DEF Spec, RunningKeepsTarget

\* Nothing starts early, late or inside its quiet hours, whoever takes it along
\* (_step, _batch).
THEOREM StartsOnlyWhenAllowed == Spec => StartsWhenAllowed
<1>1. ASSUME IInv, [Next]_vars, NEW i \in Pending, status'[i] = "running"
      PROVE  i \in due \ late /\ ~Held(i)
  <2>0. status[i] = "pending" /\ i \in Item
    BY DEF Pending
  <2>1. ASSUME NEW j \in Item, RollOut(j) \/ PlanNothing(j) \/ Submit(j) PROVE FALSE
    BY <1>1, <2>0, <2>1 DEF RollOut, PlanNothing, Skip, Submit, RolledIn, Duplicate, Sibling, Full,
                       Refuse, Insert, Refused, IInv, TypeOK
  <2>2. ASSUME NEW fate, Settles(fate) PROVE FALSE
    BY <1>1, <2>0, <2>2 DEF Settles, Resolve, DecidesLive, Ended, Outcomes, Refused
  <2>3. ASSUME NEW k \in Kinds, Abort(k) PROVE FALSE
    BY <1>1, <2>0, <2>3 DEF Abort
  <2>4. PICK k \in Kinds : \E j \in Queued(k) \cap due : Start(k, j)
    BY <1>1, <2>0, <2>1, <2>2, <2>3, Shape DEF Unmoved
  <2>5. PICK j \in Queued(k) \cap due : Start(k, j)
    BY <2>4
  <2>6. PICK b \in Batches(j) : status' = [x \in Item |-> IF x \in b THEN "running" ELSE status[x]]
    BY <2>5 DEF Start
  <2>7. i \in Companions(j) \cup {j}
    BY <1>1, <2>0, <2>6 DEF Batches
  <2> QED
    BY <2>5, <2>7 DEF Start, Companions
<1>2. IInv /\ [Next]_vars =>
          [\A i \in Pending : status'[i] = "running" => i \in due \ late /\ ~Held(i)]_vars
  BY <1>1
<1> QED
  BY <1>2, Inductive, PTL DEF Spec, StartsWhenAllowed

\* What was cancelled while it ran is finished, never requeued (_doomed), unless
\* the scheduler is closed and its worker aborted.
THEOREM CancelledIsNotRequeued == Spec => DoomedNeverRequeued
<1>1. ASSUME IInv, [Next]_vars, NEW i \in cancelled, status[i] = "running", status'[i] = "pending"
      PROVE  closed
  <2>0. i \in Item
    BY <1>1 DEF IInv, TypeOK
  <2>1. ASSUME NEW j \in Item, RollOut(j) \/ PlanNothing(j) \/ Submit(j) PROVE FALSE
    BY <1>1, <2>0, <2>1 DEF RollOut, PlanNothing, Skip, Submit, RolledIn, Duplicate, Sibling, Full,
                       Refuse, Insert, Refused, IInv, TypeOK
  <2>2. ASSUME NEW fate, Settles(fate) PROVE FALSE
    BY <1>1, <2>0, <2>2 DEF Settles, Resolve
  <2>3. ASSUME NEW k \in Kinds, NEW j \in Queued(k), Start(k, j) PROVE FALSE
    BY <1>1, <2>0, <2>3 DEF Start
  <2>4. PICK k \in Kinds : Abort(k)
    BY <1>1, <2>0, <2>1, <2>2, <2>3, Shape DEF Unmoved
  <2> QED
    BY <2>4 DEF Abort
<1>2. IInv /\ [Next]_vars =>
          [\A i \in cancelled : status[i] = "running" /\ status'[i] = "pending" => closed]_vars
  BY <1>1
<1> QED
  BY <1>2, Inductive, PTL DEF Spec, DoomedNeverRequeued

-----------------------------------------------------------------------------
(* ActionScheduler implements ActionPromise: its initial states are        *)
(* initial there, and each of its steps is a step there or changes nothing *)
(* there.  The guard of Accept is where the inductive invariant is needed: *)
(* a key that _keys does not name has no live item.                        *)

\* The outcomes that settle an action, as opposed to those that refuse it.
Settling == {"done", "superseded", "expired", "errors", "dropped"}

USE DEF Stage

\* The stage of an item, read off its status.
LEMMA StageOfItem ==
    ASSUME TypeOK, NEW i \in Item
    PROVE  /\ (Stage(status[i]) = "waiting") <=> (status[i] = "pending")
           /\ (Stage(status[i]) = "acting") <=> (status[i] = "running")
           /\ (Stage(status[i]) = "offered") <=> (status[i] = "new")
BY DEF TypeOK, Status, Refused, Ended, Outcomes

\* What the contract has in hand is what the scheduler has live.
LEMMA InHandIsLive == TypeOK => Promise!InHand = Live
BY StageOfItem DEF Promise!InHand, Live

\* Settling or putting back is a step of the contract.
LEMMA SettleIsNext ==
    ASSUME NEW S \in SUBSET Item, NEW back \in SUBSET Item, Promise!Settle(S, back)
    PROVE  Promise!Next
BY DEF Promise!Next

\* A fate that settles, or puts back only what was not withdrawn, is an abstract step.
LEMMA ResolveSettles ==
    ASSUME TypeOK, NEW fate, NEW awake, Resolve(fate, awake, cancelled),
           DOMAIN fate \subseteq Live,
           \A i \in DOMAIN fate : fate[i] \in Settling \cup {"pending"},
           \A i \in DOMAIN fate : status[i] = "running" /\ fate[i] = "pending" => i \notin cancelled,
           UNCHANGED closed
    PROVE  Promise!Next
<1> DEFINE S == DOMAIN fate
           back == {i \in S : fate[i] = "pending"}
<1>1. S \subseteq Promise!InHand /\ back \subseteq S
  BY InHandIsLive
<1>2. \A i \in back : i \in Promise!At("acting") => i \notin cancelled
  BY StageOfItem DEF Promise!At
<1>3. [i \in Item |-> Stage(status'[i])] =
         [i \in Item |-> IF i \in back THEN "waiting"
                         ELSE IF i \in S THEN "settled" ELSE Stage(status[i])]
  <2>1. ASSUME NEW i \in Item
        PROVE  Stage(status'[i]) = IF i \in back THEN "waiting"
                                   ELSE IF i \in S THEN "settled" ELSE Stage(status[i])
    BY DEF Resolve, Settling, Refused
  <2> QED
    BY <2>1
<1>4. cancelled' = cancelled \ (S \ back)
  BY DEF Resolve
<1>5. Promise!Settle(S, back)
  BY <1>1, <1>2, <1>3, <1>4 DEF Promise!Settle
<1>6. S \in SUBSET Item /\ back \in SUBSET Item
  BY DEF Live
<1> QED
  BY <1>5, <1>6, SettleIsNext

\* A withdrawal is one of the contract.
LEMMA SupersedeWithdraws ==
    ASSUME TypeOK, NEW S \in SUBSET Pending, NEW D \in SUBSET RunningItems,
           NEW outcome \in Settling, Supersede(S, D, outcome)
    PROVE  Promise!Withdraw(S, D)
<1>1. S \subseteq Promise!At("waiting") /\ D \subseteq Promise!At("acting")
  BY StageOfItem DEF Promise!At, Pending, RunningItems
<1>2. outcome # "pending"
  BY DEF Settling
<1>3. ASSUME NEW i \in Item
      PROVE  Stage(status'[i]) = IF i \in S THEN "settled" ELSE Stage(status[i])
  BY <1>2 DEF Supersede, Resolve, Settling, Refused
<1>4. cancelled' = (cancelled \cup D) \ S
  BY <1>2 DEF Supersede, Resolve
<1> QED
  BY <1>1, <1>3, <1>4 DEF Promise!Withdraw, Promise!Move, Supersede

\* Nothing the contract speaks of changes.
LEMMA Stutters ==
    ASSUME UNCHANGED <<status, cancelled, closed>>
    PROVE  UNCHANGED Promise!vars
BY DEF Promise!vars

\* An item that is not queued is refused.
LEMMA RefuseMaps ==
    ASSUME TypeOK, NEW i \in Item, status[i] = "new", NEW why \in Refused \cup {"skipped"},
           status' = [status EXCEPT ![i] = why], UNCHANGED <<cancelled, closed>>
    PROVE  Promise!Next
<1>1. i \in Promise!At("offered")
  BY StageOfItem DEF Promise!At
<1>2. ASSUME NEW j \in Item
      PROVE  Stage(status'[j]) = IF j \in {i} THEN "refused" ELSE Stage(status[j])
  BY DEF Refused, TypeOK
<1>3. Promise!Refuse(i)
  BY <1>1, <1>2 DEF Promise!Refuse, Promise!Move
<1> QED
  BY <1>3 DEF Promise!Next

\* submit() refuses or accepts.
LEMMA PlanMaps ==
    ASSUME IInv, NEW i \in Item, RollOut(i) \/ PlanNothing(i) \/ Submit(i)
    PROVE  Promise!Next
<1>0. TypeOK
  BY DEF IInv
<1>1. CASE RollOut(i) \/ PlanNothing(i)
  BY <1>0, <1>1, RefuseMaps DEF RollOut, PlanNothing, Skip
<1>2. CASE RolledIn(i) /\ (Duplicate(i) \/ Sibling(i) \/ Full(i))
  <2>1. PICK why \in Refused : Refuse(i, why)
    BY <1>2 DEF Duplicate, Sibling, Full, Refused
  <2> QED
    BY <1>0, <1>2, <2>1, RefuseMaps DEF Refuse, RolledIn
<1>3. CASE RolledIn(i) /\ Insert(i)
  <2>1. i \in Promise!At("offered")
    BY <1>0, <1>3, StageOfItem DEF RolledIn, Promise!At
  <2>2. \A j \in Promise!InHand : KeyOf(j) # KeyOf(i)
    <3>1. keys[KeyOf(i)] = None /\ None \notin Item
      BY <1>3, ConstantsAssumption DEF Insert, KeyKnown
    <3> QED
      BY <1>0, <3>1, InHandIsLive DEF IInv, OneItemPerKey, Live
  <2>3. ASSUME NEW j \in Item
        PROVE  Stage(status'[j]) = IF j \in {i} THEN "waiting" ELSE Stage(status[j])
    BY <1>0, <1>3 DEF Insert, TypeOK, Refused
  <2>4. Promise!InHand \subseteq Item
    BY DEF Promise!InHand
  <2>5. Promise!Accept(i)
    BY <1>3, <2>1, <2>2, <2>3, <2>4 DEF Promise!Accept, Promise!Move, Insert
  <2> QED
    BY <2>5 DEF Promise!Next
<1> QED
  BY <1>1, <1>2, <1>3 DEF Submit

\* A worker begins, settles, puts back, or does nothing the contract sees.
LEMMA StepMaps ==
    ASSUME IInv, NEW k \in Kinds, Step(k)
    PROVE  Promise!Next \/ UNCHANGED Promise!vars
<1>0. TypeOK
  BY DEF IInv
<1>1. CASE \E how \in {"idle", "timed"} : Sleep(k, how)
  BY <1>1, Stutters DEF Sleep
<1>2. ASSUME NEW i \in Queued(k), Drop(k, i) \/ Hold(k, i)
      PROVE  Promise!Next
  <2>1. PICK fate \in {[j \in {i} |-> "expired"], [j \in {i} |-> "pending"]} :
            Resolve(fate, wake \ {k}, cancelled)
    BY <1>2 DEF Drop, Hold
  <2>2. DOMAIN fate = {i} /\ fate[i] \in {"expired", "pending"}
    BY <2>1
  <2>3. status[i] = "pending" /\ i \in Live
    BY <1>0 DEF Queued, Live, TypeOK
  <2>4. UNCHANGED closed
    BY <1>2 DEF Drop, Hold
  <2> QED
    BY <1>0, <2>1, <2>2, <2>3, <2>4, ResolveSettles DEF Settling
<1>3. ASSUME NEW i \in Queued(k), Start(k, i)
      PROVE  Promise!Next
  <2>1. PICK b \in Batches(i) : status' = [j \in Item |-> IF j \in b THEN "running" ELSE status[j]]
    BY <1>3 DEF Start
  <2>2. b \subseteq Pending
    BY <1>0 DEF Batches, Companions, Queued, Pending, TypeOK
  <2>3. b \subseteq Promise!At("waiting")
    BY <1>0, <2>2, StageOfItem DEF Promise!At, Pending
  <2>4. ASSUME NEW j \in Item
        PROVE  Stage(status'[j]) = IF j \in b THEN "acting" ELSE Stage(status[j])
    BY <2>1 DEF Refused
  <2>5. Promise!Begin(b)
    BY <1>3, <2>3, <2>4 DEF Promise!Begin, Promise!Move, Start
  <2> QED
    BY <2>2, <2>5 DEF Promise!Next, Pending
<1> QED
  BY <1>1, <1>2, <1>3 DEF Step, Idle, WaitDue, WaitSlot

\* End's fate settles what was cancelled, so nothing withdrawn is put back.
LEMMA EndMaps ==
    ASSUME TypeOK, NEW k \in Kinds, NEW fate, NEW more, End(k, fate, more),
           \A i \in Running(k) : fate[i] \in Settling \cup {"pending"}
    PROVE  Promise!Next
<1>1. PICK f : f = Fate(k, fate)
  OBVIOUS
<1>2. DOMAIN f = Running(k)
  BY <1>1 DEF Fate
<1>3. \A i \in Running(k) : /\ f[i] \in Settling \cup {"pending"}
                            /\ f[i] = "pending" => i \notin cancelled
  BY <1>1 DEF Fate, Settling
<1>4. Running(k) \subseteq Live
  BY DEF Running, Live
<1>5. Resolve(f, wake, cancelled) /\ UNCHANGED closed
  BY <1>1 DEF End
<1> QED
  BY <1>2, <1>3, <1>4, <1>5, ResolveSettles

\* The end of a batch settles or puts back.
LEMMA EndOfBatchMaps ==
    ASSUME TypeOK, NEW k \in Kinds, EndOfBatch(k)
    PROVE  Promise!Next
<1>1. CASE Succeed(k)
  BY <1>1, EndMaps DEF Succeed, All, Settling
<1>2. CASE TypeFirst(k)
  BY <1>2, EndMaps DEF TypeFirst, All, Settling
<1>3. CASE Flood(k)
  BY <1>3, EndMaps DEF Flood, Settling
<1>4. ASSUME NEW r \in BOOLEAN, Fail(k, r) PROVE Promise!Next
  BY <1>4, EndMaps DEF Fail, Settling
<1> QED
  BY <1>1, <1>2, <1>3, <1>4 DEF EndOfBatch

\* A read before a reaction settles the reads it covers.
LEMMA ReadFirstMaps ==
    ASSUME TypeOK, NEW i \in Item, ReadFirst(i)
    PROVE  Promise!Next
<1> DEFINE f == [j \in CoveredReads(i) |-> "done"]
<1>1. CoveredReads(i) \subseteq Live
  BY DEF CoveredReads, Pending, Live
<1>2. Resolve(f, wake, cancelled) /\ UNCHANGED closed
  BY DEF ReadFirst
<1> QED
  BY <1>1, <1>2, ResolveSettles DEF Settling

\* Commands and takeovers withdraw.
LEMMA CommandMaps ==
    ASSUME TypeOK,
           \/ \E r \in CancelRequests : Cancel(r)
           \/ \E j \in Job : ForgetJob(j)
           \/ \E c \in Chat, t \in Topic \cup {None}, m \in Msg : Takeover(c, t, m)
    PROVE  Promise!Next
<1>1. PICK S \in SUBSET Pending, D \in SUBSET RunningItems, outcome \in Settling :
          Supersede(S, D, outcome)
  <2>1. CASE \E r \in CancelRequests : Cancel(r)
    BY <2>1 DEF Cancel, Settling
  <2>2. CASE \E j \in Job : ForgetJob(j)
    BY <2>2 DEF ForgetJob, Settling
  <2>3. CASE \E c \in Chat, t \in Topic \cup {None}, m \in Msg : Takeover(c, t, m)
    BY <2>3 DEF Takeover, TakenOver, Settling
  <2> QED
    BY <2>1, <2>2, <2>3
<1>2. Promise!Withdraw(S, D)
  BY <1>1, SupersedeWithdraws
<1> QED
  BY <1>2 DEF Promise!Next, Pending, RunningItems

\* A cancelled worker interrupts what it acted on.
LEMMA InterruptIsNext ==
    ASSUME NEW S \in SUBSET Item, Promise!Interrupt(S)
    PROVE  Promise!Next
BY DEF Promise!Next

\* stop() interrupts only once it is stopping.
LEMMA AbortMaps ==
    ASSUME TypeOK, NEW k \in Kinds, Abort(k)
    PROVE  Promise!Next
<1>1. PICK S \in SUBSET Item : S = Running(k)
  BY DEF Running
<1>2. S \subseteq Promise!At("acting")
  BY <1>1, StageOfItem DEF Running, Promise!At
<1>3. ASSUME NEW i \in Item
      PROVE  Stage(status'[i]) = IF i \in S THEN "waiting" ELSE Stage(status[i])
  BY <1>1 DEF Abort, Refused
<1>4. Promise!Interrupt(S)
  BY <1>2, <1>3 DEF Promise!Interrupt, Promise!Move, Abort
<1> QED
  BY <1>4, InterruptIsNext

-----------------------------------------------------------------------------
\* The empty queue is an initial state of the contract.
LEMMA InitMaps == Init => Promise!Init
BY DEF Init, Promise!Init, Refused

\* Every step of the scheduler is one of the contract or a stutter.
LEMMA NextMaps ==
    ASSUME IInv, [Next]_vars
    PROVE  Promise!Next \/ UNCHANGED Promise!vars
<1>0. TypeOK
  BY DEF IInv
<1>1. ASSUME NEW i \in Item, RollOut(i) \/ PlanNothing(i) \/ Submit(i) PROVE Promise!Next
  BY <1>1, PlanMaps
<1>2. ASSUME NEW i \in Item, ReadFirst(i) PROVE Promise!Next
  BY <1>0, <1>2, ReadFirstMaps
<1>3. ASSUME NEW k \in Kinds, Step(k) PROVE Promise!Next \/ UNCHANGED Promise!vars
  BY <1>3, StepMaps
<1>4. ASSUME NEW k \in Kinds, EndOfBatch(k) PROVE Promise!Next
  BY <1>0, <1>4, EndOfBatchMaps
<1>5. ASSUME NEW k \in Kinds, Abort(k) PROVE Promise!Next
  BY <1>0, <1>5, AbortMaps
<1>6. CASE \/ \E r \in CancelRequests : Cancel(r)
           \/ \E j \in Job : ForgetJob(j)
           \/ \E c \in Chat, t \in Topic \cup {None}, m \in Msg : Takeover(c, t, m)
  BY <1>0, <1>6, CommandMaps
<1>7. CASE Close
  BY <1>7 DEF Close, Promise!Next, Promise!Stop
<1>8. CASE \/ \E i \in Item : ComesDue(i) \/ GoesLate(i)
           \/ \E k \in Kinds : SlotOpens(k) \/ Woken(k) \/ Leave(k)
           \/ QuietBegins \/ QuietEnds
           \/ UNCHANGED vars
  <2>1. UNCHANGED <<status, cancelled, closed>>
    BY <1>8 DEF ComesDue, GoesLate, SlotOpens, Woken, Leave, QuietBegins, QuietEnds, vars, queueVars
  <2> QED
    BY <2>1, Stutters
<1> QED
  BY <1>1, <1>2, <1>3, <1>4, <1>5, <1>6, <1>7, <1>8 DEF Next

\* The scheduler keeps its promise: whatever the workers, retries, quiet hours,
\* commands and takeovers do, an accepted action is in hand once, is settled once,
\* and is not put back after it was withdrawn.
THEOREM SchedulerKeepsPromise == Spec => PromiseKept
<1>1. Init => Promise!Init
  BY InitMaps
<1>2. IInv /\ [Next]_vars => [Promise!Next]_(Promise!vars)
  BY NextMaps
<1> QED
  BY <1>1, <1>2, Inductive, PTL DEF Spec, PromiseKept, Promise!Spec
=============================================================================
