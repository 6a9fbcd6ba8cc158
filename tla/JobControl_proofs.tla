-------------------------- MODULE JobControl_proofs --------------------------
(***************************************************************************)
(* The properties of JobControl for every number of jobs, objects, reloads *)
(* and edits.  The argument: a task that is cancelled is awaited by the    *)
(* command or the reload that cancelled it (Awaited), and a reload that    *)
(* is alone finds nothing under the name it is about to enter (Vacant).    *)
(* So an object leaves the runner only together with its task, and when a  *)
(* command returns while nothing is being loaded, its task has ended.      *)
(***************************************************************************)
EXTENDS JobControl, TLAPS

Entry == {"on", "off", "rejected", "absent"}
ReloadState ==
    [at : {"idle", "loaded", "remove", "removing", "stopping", "client"}, conf : [Job -> Entry],
     removed : SUBSET Job, updated : SUBSET Job, todo : SUBSET Job,
     job : Job \cup {None}, awaits : Run \cup {None}]

\* The types of the jobs' parts; an object that is not enabled is ending or has ended.
ObjectsOK ==
    /\ file \in [Job -> Entry]
    /\ runner \in [Job -> Run \cup {None}] /\ jobOf \in [Run -> Job \cup {None}]
    /\ \A j \in Job : runner[j] # None => jobOf[runner[j]] = j
    /\ enabled \in [Run -> BOOLEAN]
    /\ task \in [Run -> {"none", "setup", "running", "cancelled", "done"}]
    /\ \A g \in Run : jobOf[g] = None <=> task[g] = "none"
    /\ bus \subseteq {g \in Run : task[g] \in {"running", "cancelled"}}
    /\ calls \subseteq {g \in Run : jobOf[g] # None} /\ queued \subseteq Job
    /\ command \in [Job -> Run \cup {None}] /\ what \in [Job -> {"none", "disable", "remove"}]
    /\ \A j \in Job : command[j] # None => jobOf[command[j]] = j /\ what[j] # "none"
    /\ \A g \in Run : jobOf[g] # None /\ ~enabled[g] =>
         task[g] = "done" \/ (task[g] = "cancelled" /\ command[jobOf[g]] = g)
    /\ off \subseteq Job /\ edits \in 0..MaxEdits /\ overlapped \in BOOLEAN

\* The types of the reloads; what a reload has left to do comes from what it read.
ReloadsOK ==
    /\ reload \in [Reload -> ReloadState]
    /\ \A r \in Reload :
        /\ reload[r].at = "idle" => reload[r] = NotLoading
        /\ reload[r].job \in Job <=> reload[r].at \in {"removing", "stopping", "client"}
        /\ reload[r].awaits # None =>
             jobOf[reload[r].awaits] = reload[r].job /\ reload[r].at \in {"removing", "stopping"}
        /\ reload[r].removed \cap reload[r].todo = {}
        /\ \A j \in reload[r].removed : reload[r].conf[j] # "rejected"
        /\ \A j \in reload[r].todo : reload[r].conf[j] \in {"on", "off"}
        /\ reload[r].at \in {"stopping", "client"} =>
             reload[r].job \notin reload[r].todo /\ reload[r].conf[reload[r].job] \in {"on", "off"}

\* A cancelled task has somebody waiting for its end.
Awaited ==
    \A g \in Run : task[g] = "cancelled" =>
        command[jobOf[g]] = g \/ \E r \in Reload : reload[r].awaits = g

\* A reload that is alone enters its objects under names that are free.
Vacant ==
    ~overlapped =>
        /\ \A q, r \in Loading : q = r
        /\ \A r \in Reload :
             /\ reload[r].at \in {"remove", "removing", "stopping", "client"} =>
                  \A j \in reload[r].todo \ reload[r].updated : runner[j] = None
             /\ reload[r].at \in {"stopping", "client"} => runner[reload[r].job] = None

\* A job that is turned off has no task but one that is ending.
Quiet ==
    \A j \in off :
        /\ ~overlapped /\ Loading = {}
        /\ \A g \in Run : jobOf[g] = j => task[g] \notin {"setup", "running"}

Base == ObjectsOK /\ ReloadsOK /\ Awaited
IInv == Base /\ NoOrphan /\ Vacant /\ Quiet

LEMMA InitInv == Init => IInv
<1> SUFFICES ASSUME Init PROVE IInv
  OBVIOUS
<1>1. ObjectsOK
  <2>1. overlapped \in BOOLEAN /\ enabled \in [Run -> BOOLEAN]
    BY Zenon DEF Init
  <2>2. \A g \in Run : jobOf[g] = None /\ task[g] = "none"
    BY Zenon DEF Init
  <2> QED
    BY <2>1, <2>2, JobAssumption DEF Init, ObjectsOK, Entry
<1>2. NotLoading \in ReloadState
  BY DEF NotLoading, ReloadState, Entry
<1>3. reload \in [Reload -> ReloadState]
  BY <1>2 DEF Init
<1>4. ReloadsOK
  BY <1>3, JobAssumption DEF Init, ReloadsOK, NotLoading
<1>5. Awaited /\ Vacant /\ NoOrphan /\ Quiet
  BY DEF Init, Awaited, Vacant, NoOrphan, Quiet, NotLoading, Loading
<1> QED
  BY <1>1, <1>4, <1>5 DEF IInv, Base

\* Every step keeps the types; an enabled object that starts again has no handler left.
LEMMA NextObjects == Base /\ [Next]_vars => ObjectsOK'
<1> SUFFICES ASSUME Base, [Next]_vars PROVE ObjectsOK'
  OBVIOUS
<1>1. ASSUME NEW g \in Run, SetUp(g) PROVE ObjectsOK'
  BY <1>1, JobAssumption DEF SetUp, Base, ObjectsOK, ReloadsOK, Entry, objects
<1>2. ASSUME NEW g \in Run, TearDown(g) PROVE ObjectsOK'
  BY <1>2, JobAssumption DEF TearDown, Base, ObjectsOK, ReloadsOK, Entry, objects
<1>3. ASSUME NEW g \in Run, Call(g) PROVE ObjectsOK'
  BY <1>3, JobAssumption DEF Call, Base, ObjectsOK, ReloadsOK, Entry, objects
<1>4. ASSUME NEW g \in Run, NEW submits \in BOOLEAN, Handled(g, submits) PROVE ObjectsOK'
  BY <1>4, JobAssumption DEF Handled, Base, ObjectsOK, ReloadsOK, Entry, objects
<1>5. ASSUME NEW j \in Job, Acted(j) PROVE ObjectsOK'
  BY <1>5, JobAssumption DEF Acted, Base, ObjectsOK, ReloadsOK, Entry, objects
<1>6. ASSUME NEW j \in Job, Enable(j) PROVE ObjectsOK'
  <2>1. CASE runner[j] # None /\ ~enabled[runner[j]]
    <3>1. task[runner[j]] = "done"
      BY <1>6, <2>1, JobAssumption DEF Base, ObjectsOK, Enable
    <3>2. enabled' = [enabled EXCEPT ![runner[j]] = TRUE] /\ task' = [task EXCEPT ![runner[j]] = "setup"]
      BY <1>6, <2>1 DEF Enable
    <3> QED
      BY <1>6, <2>1, <3>1, <3>2, JobAssumption DEF Base, ObjectsOK, Enable, Edited, Entry
  <2>2. CASE ~(runner[j] # None /\ ~enabled[runner[j]])
    <3>1. UNCHANGED <<enabled, task>>
      BY <1>6, <2>2 DEF Enable
    <3> QED
      BY <1>6, <3>1, JobAssumption DEF Base, ObjectsOK, Enable, Edited, Entry
  <2> QED
    BY <2>1, <2>2
<1>7. ASSUME NEW j \in Job, Disable(j) PROVE ObjectsOK'
  BY <1>7, JobAssumption DEF Disable, Edited, Cancelled, Alive, TurnedOff, Base, ObjectsOK, ReloadsOK, Entry, objects
<1>8. ASSUME NEW j \in Job, Remove(j) PROVE ObjectsOK'
  BY <1>8, JobAssumption DEF Remove, Edited, Cancelled, Alive, TurnedOff, Base, ObjectsOK, ReloadsOK, Entry, objects
<1>9. ASSUME NEW j \in Job, Return(j) PROVE ObjectsOK'
  BY <1>9, JobAssumption DEF Return, Ended, Alive, Base, ObjectsOK, ReloadsOK, Entry, objects
<1>10. ASSUME NEW j \in Job, NEW entry \in {"on", "off", "rejected"}, Edit(j, entry) PROVE ObjectsOK'
  BY <1>10, JobAssumption DEF Edit, Edited, Base, ObjectsOK, ReloadsOK, Entry, objects
<1>11. ASSUME NEW r \in Reload, Load(r) PROVE ObjectsOK'
  BY <1>11 DEF Load, Base, ObjectsOK, objects
<1>12. ASSUME NEW r \in Reload, Compare(r) PROVE ObjectsOK'
  BY <1>12 DEF Compare, Base, ObjectsOK, objects
<1>13. ASSUME NEW r \in Reload, TakenOut(r) PROVE ObjectsOK'
  BY <1>13 DEF TakenOut, Base, ObjectsOK, objects
<1>14. ASSUME NEW r \in Reload, NEW j \in Job, TakeOut(r, j) PROVE ObjectsOK'
  BY <1>14, JobAssumption DEF TakeOut, Cancelled, Alive, Base, ObjectsOK, ReloadsOK, Entry, objects
<1>15. ASSUME NEW r \in Reload, Stopped(r) PROVE ObjectsOK'
  BY <1>15 DEF Stopped, Base, ObjectsOK, objects
<1>16. ASSUME NEW r \in Reload, NoClient(r) PROVE ObjectsOK'
  BY <1>16 DEF NoClient, Base, ObjectsOK, objects
<1>17. ASSUME NEW r \in Reload, Loaded(r) PROVE ObjectsOK'
  BY <1>17 DEF Loaded, Base, ObjectsOK, objects
<1>18. ASSUME NEW r \in Reload, NEW j \in Job, Replace(r, j) PROVE ObjectsOK'
  BY <1>18, JobAssumption DEF Replace, Cancelled, Alive, Base, ObjectsOK, ReloadsOK, Entry, objects
<1>19. ASSUME NEW r \in Reload, NEW g \in Run, Create(r, g) PROVE ObjectsOK'
  BY <1>19, JobAssumption DEF Create, Base, ObjectsOK, ReloadsOK, Entry, objects
<1>20. CASE UNCHANGED vars
  BY <1>20 DEF vars, Base, ObjectsOK, ReloadsOK, Entry, objects
<1> QED
  BY <1>1, <1>2, <1>3, <1>4, <1>5, <1>6, <1>7, <1>8, <1>9, <1>10, <1>11, <1>12, <1>13, <1>14, <1>15, <1>16, <1>17, <1>18, <1>19, <1>20 DEF Next, ReloadStep, Removal

\* The state of a reload that has not begun.
LEMMA AtRest ==
    /\ NotLoading \in ReloadState
    /\ NotLoading.at = "idle" /\ NotLoading.job = None /\ NotLoading.awaits = None
    /\ NotLoading.removed = {} /\ NotLoading.todo = {}
BY DEF NotLoading, ReloadState, Entry

\* What a reload finds when it compares.
LEMMA Compared ==
    ASSUME NEW r \in Reload, Compare(r)
    PROVE  \E removed, updated, todo \in SUBSET Job :
             /\ \A j \in removed : j \notin todo /\ reload[r].conf[j] # "rejected"
             /\ \A j \in todo : reload[r].conf[j] \in {"on", "off"}
             /\ \A j \in todo \ updated : runner[j] = None
             /\ reload' = [reload EXCEPT ![r].at = "remove", ![r].removed = removed,
                                         ![r].updated = updated, ![r].todo = todo]
<1> DEFINE old == {j \in Job : runner[j] # None}
           new == {j \in Job : reload[r].conf[j] \in {"on", "off"}}
           rejected == {j \in Job : reload[r].conf[j] = "rejected"}
           removed == (old \ new) \ rejected
           updated == old \cap new
<1>1. reload' = [reload EXCEPT ![r].at = "remove", ![r].removed = removed,
                              ![r].updated = updated, ![r].todo = new]
  BY DEF Compare
<1>2. removed \in SUBSET Job /\ updated \in SUBSET Job /\ new \in SUBSET Job
  OBVIOUS
<1>3. /\ \A j \in removed : j \notin new /\ reload[r].conf[j] # "rejected"
      /\ \A j \in new : reload[r].conf[j] \in {"on", "off"}
      /\ \A j \in new \ updated : runner[j] = None
  OBVIOUS
<1> HIDE DEF removed, updated, new
<1> QED
  BY <1>1, <1>2, <1>3

\* Every step keeps what a reload has to do within what it read.
LEMMA NextReloads == Base /\ [Next]_vars => ReloadsOK'
<1> SUFFICES ASSUME Base, [Next]_vars PROVE ReloadsOK'
  OBVIOUS
<1>1. ASSUME NEW g \in Run, SetUp(g) PROVE ReloadsOK'
  BY <1>1 DEF SetUp, Base, ReloadsOK, objects
<1>2. ASSUME NEW g \in Run, TearDown(g) PROVE ReloadsOK'
  BY <1>2 DEF TearDown, Base, ReloadsOK, objects
<1>3. ASSUME NEW g \in Run, Call(g) PROVE ReloadsOK'
  BY <1>3 DEF Call, Base, ReloadsOK, objects
<1>4. ASSUME NEW g \in Run, NEW submits \in BOOLEAN, Handled(g, submits) PROVE ReloadsOK'
  BY <1>4 DEF Handled, Base, ReloadsOK, objects
<1>5. ASSUME NEW j \in Job, Acted(j) PROVE ReloadsOK'
  BY <1>5 DEF Acted, Base, ReloadsOK, objects
<1>6. ASSUME NEW j \in Job, Enable(j) PROVE ReloadsOK'
  BY <1>6 DEF Enable, Base, ReloadsOK, objects
<1>7. ASSUME NEW j \in Job, Disable(j) PROVE ReloadsOK'
  BY <1>7 DEF Disable, Base, ReloadsOK, objects
<1>8. ASSUME NEW j \in Job, Remove(j) PROVE ReloadsOK'
  BY <1>8 DEF Remove, Base, ReloadsOK, objects
<1>9. ASSUME NEW j \in Job, Return(j) PROVE ReloadsOK'
  BY <1>9 DEF Return, Base, ReloadsOK, objects
<1>10. ASSUME NEW j \in Job, NEW entry \in {"on", "off", "rejected"}, Edit(j, entry) PROVE ReloadsOK'
  BY <1>10 DEF Edit, Base, ReloadsOK, objects
<1>11. ASSUME NEW r \in Reload, Load(r) PROVE ReloadsOK'
  <2> DEFINE new == [reload[r] EXCEPT !.at = "loaded", !.conf = file]
  <2>1. reload[r] = NotLoading /\ file \in [Job -> Entry] /\ UNCHANGED jobOf
    BY <1>11 DEF Load, Base, ReloadsOK, ObjectsOK, objects
  <2>2. new \in ReloadState
    BY <2>1, AtRest DEF ReloadState
  <2>3. reload' = [reload EXCEPT ![r] = new]
    BY <1>11 DEF Load, Base, ReloadsOK
  <2>4. new.at = "loaded" /\ new.job = None /\ new.awaits = None /\ new.removed = {} /\ new.todo = {}
    BY <2>1, AtRest DEF ReloadState
  <2> HIDE DEF new
  <2> QED
    BY <2>1, <2>2, <2>3, <2>4, JobAssumption DEF Base, ReloadsOK
<1>12. ASSUME NEW r \in Reload, Compare(r) PROVE ReloadsOK'
  <2>1. PICK removed, updated, todo \in SUBSET Job :
          /\ \A j \in removed : j \notin todo /\ reload[r].conf[j] # "rejected"
          /\ \A j \in todo : reload[r].conf[j] \in {"on", "off"}
          /\ \A j \in todo \ updated : runner[j] = None
          /\ reload' = [reload EXCEPT ![r].at = "remove", ![r].removed = removed,
                                      ![r].updated = updated, ![r].todo = todo]
    BY <1>12, Compared
  <2>2. reload[r].at = "loaded" /\ UNCHANGED jobOf
    BY <1>12 DEF Compare, objects
  <2> DEFINE new == [reload[r] EXCEPT !.at = "remove", !.removed = removed, !.updated = updated, !.todo = todo]
  <2>3. reload' \in [Reload -> ReloadState]
    <3>1. reload[r] \in ReloadState
      BY DEF Base, ReloadsOK
    <3>2. new \in ReloadState
      BY <3>1 DEF ReloadState
    <3>3. reload' = [reload EXCEPT ![r] = new]
      BY <2>1 DEF Base, ReloadsOK
    <3> QED
      BY <3>2, <3>3 DEF Base, ReloadsOK
  <2>4. /\ reload'[r].at = "remove" /\ reload'[r].awaits = reload[r].awaits /\ reload'[r].job = reload[r].job
        /\ reload'[r].conf = reload[r].conf /\ reload'[r].removed = removed /\ reload'[r].todo = todo
        /\ \A q \in Reload \ {r} : reload'[q] = reload[q]
    BY <2>1 DEF Base, ReloadsOK, ReloadState
  <2> QED
    BY SMTT(30), <2>1, <2>2, <2>3, <2>4, JobAssumption DEF Base, ReloadsOK
<1>13. ASSUME NEW r \in Reload, TakenOut(r) PROVE ReloadsOK'
  BY <1>13, JobAssumption, AtRest DEF TakenOut, Ended, Alive, Base, ReloadsOK, ReloadState, objects
<1>14. ASSUME NEW r \in Reload, NEW j \in Job, TakeOut(r, j) PROVE ReloadsOK'
  BY <1>14, JobAssumption, AtRest DEF TakeOut, Cancelled, Alive, Base, ReloadsOK, ReloadState, objects
<1>15. ASSUME NEW r \in Reload, Stopped(r) PROVE ReloadsOK'
  <2>1. reload[r].at = "stopping" /\ UNCHANGED jobOf
    BY <1>15 DEF Stopped, objects
  <2>2. CASE reload' = [reload EXCEPT ![r].at = "client", ![r].awaits = None]
    <3> DEFINE new == [reload[r] EXCEPT !.at = "client", !.awaits = None]
    <3>1. reload' \in [Reload -> ReloadState]
      <4>1. reload[r] \in ReloadState
        BY DEF Base, ReloadsOK
      <4>2. new \in ReloadState
        BY <4>1 DEF ReloadState
      <4>3. reload' = [reload EXCEPT ![r] = new]
        BY <2>2 DEF Base, ReloadsOK
      <4> QED
        BY <4>2, <4>3 DEF Base, ReloadsOK
    <3>2. /\ reload'[r].at = "client" /\ reload'[r].awaits = None /\ reload'[r].job = reload[r].job
          /\ reload'[r].conf = reload[r].conf /\ reload'[r].removed = reload[r].removed
          /\ reload'[r].todo = reload[r].todo
          /\ \A q \in Reload \ {r} : reload'[q] = reload[q]
      BY <2>2 DEF Base, ReloadsOK, ReloadState
    <3> QED
      BY <2>1, <3>1, <3>2 DEF Base, ReloadsOK
  <2>3. CASE reload' = [reload EXCEPT ![r].at = "remove", ![r].awaits = None, ![r].job = None]
    BY <2>1, <2>3, JobAssumption, AtRest DEF Base, ReloadsOK, ReloadState
  <2> QED
    BY <1>15, <2>2, <2>3 DEF Stopped
<1>16. ASSUME NEW r \in Reload, NoClient(r) PROVE ReloadsOK'
  BY <1>16, JobAssumption, AtRest DEF NoClient, Base, ReloadsOK, ReloadState, objects
<1>17. ASSUME NEW r \in Reload, Loaded(r) PROVE ReloadsOK'
  BY <1>17, JobAssumption, AtRest DEF Loaded, Base, ReloadsOK, ReloadState, objects
<1>18. ASSUME NEW r \in Reload, NEW j \in Job, Replace(r, j) PROVE ReloadsOK'
  BY <1>18, JobAssumption, AtRest DEF Replace, Cancelled, Alive, Base, ReloadsOK, ReloadState, objects
<1>19. ASSUME NEW r \in Reload, NEW g \in Run, Create(r, g) PROVE ReloadsOK'
  BY <1>19, JobAssumption, AtRest DEF Create, Base, ReloadsOK, ReloadState, objects
<1>20. CASE UNCHANGED vars
  BY <1>20 DEF vars, Base, ReloadsOK, ReloadState, objects
<1> QED
  BY <1>1, <1>2, <1>3, <1>4, <1>5, <1>6, <1>7, <1>8, <1>9, <1>10, <1>11, <1>12, <1>13, <1>14, <1>15, <1>16, <1>17, <1>18, <1>19, <1>20 DEF Next, ReloadStep, Removal

\* Who cancels a task waits for its end.
LEMMA NextAwaited == Base /\ [Next]_vars => Awaited'
<1> SUFFICES ASSUME Base, [Next]_vars PROVE Awaited'
  OBVIOUS
<1>1. ASSUME NEW g \in Run, SetUp(g) PROVE Awaited'
  BY <1>1, JobAssumption, AtRest DEF SetUp, Base, ObjectsOK, ReloadsOK, Awaited, ReloadState, objects
<1>2. ASSUME NEW g \in Run, TearDown(g) PROVE Awaited'
  BY <1>2, JobAssumption, AtRest DEF TearDown, Base, ObjectsOK, ReloadsOK, Awaited, ReloadState, objects
<1>3. ASSUME NEW g \in Run, Call(g) PROVE Awaited'
  BY <1>3, JobAssumption, AtRest DEF Call, Base, ObjectsOK, ReloadsOK, Awaited, ReloadState, objects
<1>4. ASSUME NEW g \in Run, NEW submits \in BOOLEAN, Handled(g, submits) PROVE Awaited'
  BY <1>4, JobAssumption, AtRest DEF Handled, Base, ObjectsOK, ReloadsOK, Awaited, ReloadState, objects
<1>5. ASSUME NEW j \in Job, Acted(j) PROVE Awaited'
  BY <1>5, JobAssumption, AtRest DEF Acted, Base, ObjectsOK, ReloadsOK, Awaited, ReloadState, objects
<1>6. ASSUME NEW j \in Job, Enable(j) PROVE Awaited'
  BY <1>6, JobAssumption, AtRest DEF Enable, Edited, Base, ObjectsOK, ReloadsOK, Awaited, ReloadState, objects
<1>7. ASSUME NEW j \in Job, Disable(j) PROVE Awaited'
  BY <1>7, JobAssumption, AtRest DEF Disable, Edited, Cancelled, Alive, TurnedOff, Base, ObjectsOK, ReloadsOK, Awaited, ReloadState, objects
<1>8. ASSUME NEW j \in Job, Remove(j) PROVE Awaited'
  BY <1>8, JobAssumption, AtRest DEF Remove, Edited, Cancelled, Alive, TurnedOff, Base, ObjectsOK, ReloadsOK, Awaited, ReloadState, objects
<1>9. ASSUME NEW j \in Job, Return(j) PROVE Awaited'
  BY <1>9, JobAssumption, AtRest DEF Return, Ended, Alive, Base, ObjectsOK, ReloadsOK, Awaited, ReloadState, objects
<1>10. ASSUME NEW j \in Job, NEW entry \in {"on", "off", "rejected"}, Edit(j, entry) PROVE Awaited'
  BY <1>10, JobAssumption, AtRest DEF Edit, Edited, Base, ObjectsOK, ReloadsOK, Awaited, ReloadState, objects
<1>11. ASSUME NEW r \in Reload, Load(r) PROVE Awaited'
  <2>1. \A q \in Reload : reload'[q].awaits = reload[q].awaits
    BY <1>11 DEF Load, Base, ReloadsOK, ReloadState
  <2> QED
    BY ZenonT(40), <1>11, <2>1 DEF Load, Base, Awaited, objects
<1>12. ASSUME NEW r \in Reload, Compare(r) PROVE Awaited'
  <2>1. PICK removed, updated, todo \in SUBSET Job :
          /\ \A j \in removed : j \notin todo /\ reload[r].conf[j] # "rejected"
          /\ \A j \in todo : reload[r].conf[j] \in {"on", "off"}
          /\ \A j \in todo \ updated : runner[j] = None
          /\ reload' = [reload EXCEPT ![r].at = "remove", ![r].removed = removed,
                                      ![r].updated = updated, ![r].todo = todo]
    BY <1>12, Compared
  <2>2. \A q \in Reload : reload'[q].awaits = reload[q].awaits
    BY <2>1 DEF Base, ReloadsOK, ReloadState
  <2> QED
    BY ZenonT(40), <1>12, <2>2 DEF Compare, Base, Awaited, objects
<1>13. ASSUME NEW r \in Reload, TakenOut(r) PROVE Awaited'
  <2>1. /\ \A q \in Reload \ {r} : reload'[q].awaits = reload[q].awaits
        /\ UNCHANGED <<task, jobOf, command>>
    BY <1>13 DEF TakenOut, Base, ReloadsOK, objects
  <2>2. \A g \in Run : task[g] = "cancelled" => reload[r].awaits # g
    BY <1>13 DEF TakenOut, Ended, Alive
  <2> QED
    BY <2>1, <2>2 DEF Base, Awaited
<1>14. ASSUME NEW r \in Reload, NEW j \in Job, TakeOut(r, j) PROVE Awaited'
  BY <1>14, JobAssumption, AtRest DEF TakeOut, Cancelled, Alive, Base, ObjectsOK, ReloadsOK, Awaited, ReloadState, objects
<1>15. ASSUME NEW r \in Reload, Stopped(r) PROVE Awaited'
  BY SMTT(30), <1>15, JobAssumption, AtRest DEF Stopped, Ended, Alive, Base, ObjectsOK, ReloadsOK, Awaited, ReloadState, objects
<1>16. ASSUME NEW r \in Reload, NoClient(r) PROVE Awaited'
  BY <1>16, JobAssumption, AtRest DEF NoClient, Base, ObjectsOK, ReloadsOK, Awaited, ReloadState, objects
<1>17. ASSUME NEW r \in Reload, Loaded(r) PROVE Awaited'
  BY <1>17, JobAssumption, AtRest DEF Loaded, Base, ObjectsOK, ReloadsOK, Awaited, ReloadState, objects
<1>18. ASSUME NEW r \in Reload, NEW j \in Job, Replace(r, j) PROVE Awaited'
  BY <1>18, JobAssumption, AtRest DEF Replace, Cancelled, Alive, Base, ObjectsOK, ReloadsOK, Awaited, ReloadState, objects
<1>19. ASSUME NEW r \in Reload, NEW g \in Run, Create(r, g) PROVE Awaited'
  <2>1. \A q \in Reload : reload'[q].awaits = reload[q].awaits
    BY <1>19 DEF Create, Base, ReloadsOK, ReloadState
  <2>2. /\ task' = [task EXCEPT ![g] = "setup"] /\ UNCHANGED command
        /\ \A h \in Run \ {g} : jobOf'[h] = jobOf[h]
    BY <1>19 DEF Create, Base, ObjectsOK
  <2> QED
    BY <2>1, <2>2 DEF Base, ObjectsOK, Awaited
<1>20. CASE UNCHANGED vars
  BY <1>20 DEF vars, Base, ObjectsOK, ReloadsOK, Awaited, ReloadState, objects
<1> QED
  BY <1>1, <1>2, <1>3, <1>4, <1>5, <1>6, <1>7, <1>8, <1>9, <1>10, <1>11, <1>12, <1>13, <1>14, <1>15, <1>16, <1>17, <1>18, <1>19, <1>20 DEF Next, ReloadStep, Removal

\* An object leaves the runner together with its task.
LEMMA NextNoOrphan == Base /\ NoOrphan /\ Vacant /\ [Next]_vars => NoOrphan'
<1> SUFFICES ASSUME Base, NoOrphan, Vacant, [Next]_vars PROVE NoOrphan'
  OBVIOUS
<1>1. ASSUME NEW g \in Run, SetUp(g) PROVE NoOrphan'
  BY <1>1, JobAssumption DEF SetUp, Base, ObjectsOK, ReloadsOK, NoOrphan, Vacant, Loading, ReloadState, objects
<1>2. ASSUME NEW g \in Run, TearDown(g) PROVE NoOrphan'
  BY <1>2, JobAssumption DEF TearDown, Base, ObjectsOK, ReloadsOK, NoOrphan, Vacant, Loading, ReloadState, objects
<1>3. ASSUME NEW g \in Run, Call(g) PROVE NoOrphan'
  BY <1>3 DEF Call, NoOrphan, objects
<1>4. ASSUME NEW g \in Run, NEW submits \in BOOLEAN, Handled(g, submits) PROVE NoOrphan'
  BY <1>4 DEF Handled, NoOrphan, objects
<1>5. ASSUME NEW j \in Job, Acted(j) PROVE NoOrphan'
  BY <1>5 DEF Acted, NoOrphan, objects
<1>6. ASSUME NEW j \in Job, Enable(j) PROVE NoOrphan'
  BY <1>6, JobAssumption DEF Enable, Edited, Base, ObjectsOK, ReloadsOK, NoOrphan, Vacant, Loading, ReloadState, objects
<1>7. ASSUME NEW j \in Job, Disable(j) PROVE NoOrphan'
  BY <1>7, JobAssumption DEF Disable, Edited, Cancelled, Alive, TurnedOff, Base, ObjectsOK, ReloadsOK, NoOrphan, Vacant, Loading, ReloadState, objects
<1>8. ASSUME NEW j \in Job, Remove(j) PROVE NoOrphan'
  BY <1>8, JobAssumption DEF Remove, Edited, Cancelled, Alive, TurnedOff, Base, ObjectsOK, ReloadsOK, NoOrphan, Vacant, Loading, ReloadState, objects
<1>9. ASSUME NEW j \in Job, Return(j) PROVE NoOrphan'
  BY <1>9 DEF Return, NoOrphan, objects
<1>10. ASSUME NEW j \in Job, NEW entry \in {"on", "off", "rejected"}, Edit(j, entry) PROVE NoOrphan'
  BY <1>10 DEF Edit, NoOrphan, objects
<1>11. ASSUME NEW r \in Reload, Load(r) PROVE NoOrphan'
  BY <1>11 DEF Load, NoOrphan, objects
<1>12. ASSUME NEW r \in Reload, Compare(r) PROVE NoOrphan'
  BY <1>12 DEF Compare, NoOrphan, objects
<1>13. ASSUME NEW r \in Reload, TakenOut(r) PROVE NoOrphan'
  BY <1>13 DEF TakenOut, NoOrphan, objects
<1>14. ASSUME NEW r \in Reload, NEW j \in Job, TakeOut(r, j) PROVE NoOrphan'
  BY <1>14, JobAssumption DEF TakeOut, Cancelled, Alive, Base, ObjectsOK, ReloadsOK, NoOrphan, Vacant, Loading, ReloadState, objects
<1>15. ASSUME NEW r \in Reload, Stopped(r) PROVE NoOrphan'
  BY <1>15 DEF Stopped, NoOrphan, objects
<1>16. ASSUME NEW r \in Reload, NoClient(r) PROVE NoOrphan'
  BY <1>16 DEF NoClient, NoOrphan, objects
<1>17. ASSUME NEW r \in Reload, Loaded(r) PROVE NoOrphan'
  BY <1>17 DEF Loaded, NoOrphan, objects
<1>18. ASSUME NEW r \in Reload, NEW j \in Job, Replace(r, j) PROVE NoOrphan'
  BY <1>18, JobAssumption DEF Replace, Cancelled, Alive, Base, ObjectsOK, ReloadsOK, NoOrphan, Vacant, Loading, ReloadState, objects
<1>19. ASSUME NEW r \in Reload, NEW g \in Run, Create(r, g) PROVE NoOrphan'
  BY <1>19, JobAssumption DEF Create, Base, ObjectsOK, ReloadsOK, NoOrphan, Vacant, Loading, ReloadState, objects
<1>20. CASE UNCHANGED vars
  BY <1>20 DEF vars, Base, ObjectsOK, ReloadsOK, NoOrphan, Vacant, Loading, ReloadState, objects
<1> QED
  BY <1>1, <1>2, <1>3, <1>4, <1>5, <1>6, <1>7, <1>8, <1>9, <1>10, <1>11, <1>12, <1>13, <1>14, <1>15, <1>16, <1>17, <1>18, <1>19, <1>20 DEF Next, ReloadStep, Removal

\* A reload that is alone keeps the names free that it goes on to.
LEMMA NextVacant == Base /\ Vacant /\ [Next]_vars => Vacant'
<1> SUFFICES ASSUME Base, Vacant, [Next]_vars PROVE Vacant'
  OBVIOUS
<1>1. ASSUME NEW g \in Run, SetUp(g) PROVE Vacant'
  BY <1>1 DEF SetUp, Vacant, Loading, objects
<1>2. ASSUME NEW g \in Run, TearDown(g) PROVE Vacant'
  BY <1>2 DEF TearDown, Vacant, Loading, objects
<1>3. ASSUME NEW g \in Run, Call(g) PROVE Vacant'
  BY <1>3 DEF Call, Vacant, Loading, objects
<1>4. ASSUME NEW g \in Run, NEW submits \in BOOLEAN, Handled(g, submits) PROVE Vacant'
  BY <1>4 DEF Handled, Vacant, Loading, objects
<1>5. ASSUME NEW j \in Job, Acted(j) PROVE Vacant'
  BY <1>5 DEF Acted, Vacant, Loading, objects
<1>6. ASSUME NEW j \in Job, Enable(j) PROVE Vacant'
  BY <1>6 DEF Enable, Vacant, Loading, objects
<1>7. ASSUME NEW j \in Job, Disable(j) PROVE Vacant'
  BY <1>7, JobAssumption, AtRest DEF Disable, Edited, Cancelled, Alive, TurnedOff, Base, ObjectsOK, ReloadsOK, Vacant, Loading, ReloadState, objects
<1>8. ASSUME NEW j \in Job, Remove(j) PROVE Vacant'
  BY <1>8, JobAssumption, AtRest DEF Remove, Edited, Cancelled, Alive, TurnedOff, Base, ObjectsOK, ReloadsOK, Vacant, Loading, ReloadState, objects
<1>9. ASSUME NEW j \in Job, Return(j) PROVE Vacant'
  BY <1>9 DEF Return, Vacant, Loading, objects
<1>10. ASSUME NEW j \in Job, NEW entry \in {"on", "off", "rejected"}, Edit(j, entry) PROVE Vacant'
  BY <1>10 DEF Edit, Vacant, Loading, objects
<1>11. ASSUME NEW r \in Reload, Load(r) PROVE Vacant'
  <2>1. /\ reload'[r].at = "loaded"
        /\ \A q \in Reload \ {r} : reload'[q] = reload[q]
        /\ overlapped' = (overlapped \/ Loading # {})
    BY <1>11 DEF Load, Base, ReloadsOK, ReloadState
  <2>2. ASSUME ~overlapped' PROVE \A q \in Reload \ {r} : reload[q].at = "idle"
    BY <2>1, <2>2 DEF Loading
  <2> QED
    BY <2>1, <2>2 DEF Vacant, Loading
<1>12. ASSUME NEW r \in Reload, Compare(r) PROVE Vacant'
  <2>1. PICK removed, updated, todo \in SUBSET Job :
          /\ \A j \in removed : j \notin todo /\ reload[r].conf[j] # "rejected"
          /\ \A j \in todo : reload[r].conf[j] \in {"on", "off"}
          /\ \A j \in todo \ updated : runner[j] = None
          /\ reload' = [reload EXCEPT ![r].at = "remove", ![r].removed = removed,
                                      ![r].updated = updated, ![r].todo = todo]
    BY <1>12, Compared
  <2>2. /\ reload'[r].at = "remove" /\ reload'[r].todo = todo /\ reload'[r].updated = updated
        /\ \A q \in Reload \ {r} : reload'[q] = reload[q]
    BY <2>1 DEF Base, ReloadsOK, ReloadState
  <2>3. reload[r].at = "loaded" /\ UNCHANGED <<runner, overlapped>>
    BY <1>12 DEF Compare, objects
  <2>4. Loading' = Loading
    BY <2>2, <2>3 DEF Loading
  <2>5. ASSUME ~overlapped, NEW q \in Reload
        PROVE  /\ reload'[q].at \in {"remove", "removing", "stopping", "client"} =>
                    \A i \in reload'[q].todo \ reload'[q].updated : runner[i] = None
               /\ reload'[q].at \in {"stopping", "client"} => runner[reload'[q].job] = None
    <3>1. CASE q = r
      BY <2>1, <2>2, <3>1
    <3>2. CASE q # r
      <4>1. reload'[q] = reload[q]
        BY <2>2, <3>2
      <4> QED
        BY <2>5, <4>1 DEF Vacant
    <3> QED
      BY <3>1, <3>2
  <2>6. ~overlapped => \A p, q \in Loading : p = q
    BY DEF Vacant
  <2> QED
    BY <2>3, <2>4, <2>5, <2>6 DEF Vacant
<1>13. ASSUME NEW r \in Reload, TakenOut(r) PROVE Vacant'
  BY <1>13, JobAssumption, AtRest DEF TakenOut, Ended, Alive, Base, ObjectsOK, ReloadsOK, Vacant, Loading, ReloadState, objects
<1>14. ASSUME NEW r \in Reload, NEW j \in Job, TakeOut(r, j) PROVE Vacant'
  BY <1>14, JobAssumption, AtRest DEF TakeOut, Cancelled, Alive, Base, ObjectsOK, ReloadsOK, Vacant, Loading, ReloadState, objects
<1>15. ASSUME NEW r \in Reload, Stopped(r) PROVE Vacant'
  BY <1>15, JobAssumption, AtRest DEF Stopped, Ended, Alive, Base, ObjectsOK, ReloadsOK, Vacant, Loading, ReloadState, objects
<1>16. ASSUME NEW r \in Reload, NoClient(r) PROVE Vacant'
  BY <1>16, JobAssumption, AtRest DEF NoClient, Base, ObjectsOK, ReloadsOK, Vacant, Loading, ReloadState, objects
<1>17. ASSUME NEW r \in Reload, Loaded(r) PROVE Vacant'
  BY <1>17, JobAssumption, AtRest DEF Loaded, Base, ObjectsOK, ReloadsOK, Vacant, Loading, ReloadState, objects
<1>18. ASSUME NEW r \in Reload, NEW j \in Job, Replace(r, j) PROVE Vacant'
  <2>1. /\ reload[r].at = "remove" /\ j \in reload[r].todo /\ UNCHANGED overlapped
        /\ \A q \in Reload \ {r} : reload'[q] = reload[q]
        /\ reload'[r].at = "stopping" /\ reload'[r].job = j /\ reload'[r].todo = reload[r].todo \ {j}
        /\ reload'[r].updated = reload[r].updated
    <3>1. CASE j \in reload[r].updated
      BY <1>18, <3>1 DEF Replace, Base, ReloadsOK, ReloadState
    <3>2. CASE j \notin reload[r].updated
      BY <1>18, <3>2 DEF Replace, Base, ReloadsOK, ReloadState
    <3> QED
      BY <3>1, <3>2
  <2>2. \A i \in Job : runner'[i] = runner[i] \/ (i = j /\ runner'[i] = None)
    BY <1>18 DEF Replace, Base, ObjectsOK
  <2>3. j \in reload[r].updated => runner'[j] = None
    BY <1>18 DEF Replace, Base, ObjectsOK
  <2>4. Loading' = Loading
    BY <2>1 DEF Loading
  <2> SUFFICES ASSUME ~overlapped
               PROVE  /\ \A p, q \in Loading : p = q
                      /\ \A q \in Reload :
                           /\ reload'[q].at \in {"remove", "removing", "stopping", "client"} =>
                                \A i \in reload'[q].todo \ reload'[q].updated : runner'[i] = None
                           /\ reload'[q].at \in {"stopping", "client"} => runner'[reload'[q].job] = None
    BY <2>1, <2>4 DEF Vacant
  <2>5. \A q \in Reload : q = r \/ reload'[q].at = "idle"
    BY <2>1 DEF Vacant, Loading
  <2>6. \A i \in reload[r].todo \ reload[r].updated : runner[i] = None
    BY <2>1 DEF Vacant
  <2>7. reload[r].todo \subseteq Job
    BY DEF Base, ReloadsOK, ReloadState
  <2> QED
    BY <2>1, <2>2, <2>3, <2>5, <2>6, <2>7 DEF Vacant
<1>19. ASSUME NEW r \in Reload, NEW g \in Run, Create(r, g) PROVE Vacant'
  BY <1>19, JobAssumption, AtRest DEF Create, Base, ObjectsOK, ReloadsOK, Vacant, Loading, ReloadState, objects
<1>20. CASE UNCHANGED vars
  BY <1>20 DEF vars, Base, ObjectsOK, ReloadsOK, Vacant, Loading, ReloadState, objects
<1> QED
  BY <1>1, <1>2, <1>3, <1>4, <1>5, <1>6, <1>7, <1>8, <1>9, <1>10, <1>11, <1>12, <1>13, <1>14, <1>15, <1>16, <1>17, <1>18, <1>19, <1>20 DEF Next, ReloadStep, Removal

\* Nothing starts again a job that was turned off, unless it is enabled or loaded.
LEMMA NextQuiet == Base /\ NoOrphan /\ Quiet /\ [Next]_vars => Quiet'
<1> SUFFICES ASSUME Base, NoOrphan, Quiet, [Next]_vars PROVE Quiet'
  OBVIOUS
<1>1. ASSUME NEW g \in Run, SetUp(g) PROVE Quiet'
  BY <1>1, JobAssumption, AtRest DEF SetUp, Base, ObjectsOK, ReloadsOK, NoOrphan, Quiet, Loading, ReloadState, objects
<1>2. ASSUME NEW g \in Run, TearDown(g) PROVE Quiet'
  BY <1>2, JobAssumption, AtRest DEF TearDown, Base, ObjectsOK, ReloadsOK, NoOrphan, Quiet, Loading, ReloadState, objects
<1>3. ASSUME NEW g \in Run, Call(g) PROVE Quiet'
  BY <1>3, JobAssumption, AtRest DEF Call, Base, ObjectsOK, ReloadsOK, NoOrphan, Quiet, Loading, ReloadState, objects
<1>4. ASSUME NEW g \in Run, NEW submits \in BOOLEAN, Handled(g, submits) PROVE Quiet'
  BY <1>4, JobAssumption, AtRest DEF Handled, Base, ObjectsOK, ReloadsOK, NoOrphan, Quiet, Loading, ReloadState, objects
<1>5. ASSUME NEW j \in Job, Acted(j) PROVE Quiet'
  BY <1>5, JobAssumption, AtRest DEF Acted, Base, ObjectsOK, ReloadsOK, NoOrphan, Quiet, Loading, ReloadState, objects
<1>6. ASSUME NEW j \in Job, Enable(j) PROVE Quiet'
  BY <1>6, JobAssumption, AtRest DEF Enable, Edited, Base, ObjectsOK, ReloadsOK, NoOrphan, Quiet, Loading, ReloadState, objects
<1>7. ASSUME NEW j \in Job, Disable(j) PROVE Quiet'
  BY <1>7, JobAssumption, AtRest DEF Disable, Edited, Cancelled, Alive, TurnedOff, Base, ObjectsOK, ReloadsOK, NoOrphan, Quiet, Loading, ReloadState, objects
<1>8. ASSUME NEW j \in Job, Remove(j) PROVE Quiet'
  BY <1>8, JobAssumption, AtRest DEF Remove, Edited, Cancelled, Alive, TurnedOff, Base, ObjectsOK, ReloadsOK, NoOrphan, Quiet, Loading, ReloadState, objects
<1>9. ASSUME NEW j \in Job, Return(j) PROVE Quiet'
  BY <1>9, JobAssumption, AtRest DEF Return, Ended, Alive, Base, ObjectsOK, ReloadsOK, NoOrphan, Quiet, Loading, ReloadState, objects
<1>10. ASSUME NEW j \in Job, NEW entry \in {"on", "off", "rejected"}, Edit(j, entry) PROVE Quiet'
  BY <1>10, JobAssumption, AtRest DEF Edit, Edited, Base, ObjectsOK, ReloadsOK, NoOrphan, Quiet, Loading, ReloadState, objects
<1>11. ASSUME NEW r \in Reload, Load(r) PROVE Quiet'
  BY <1>11, JobAssumption, AtRest DEF Load, Base, ObjectsOK, ReloadsOK, NoOrphan, Quiet, Loading, ReloadState, objects
<1>12. ASSUME NEW r \in Reload, Compare(r) PROVE Quiet'
  BY <1>12, JobAssumption, AtRest DEF Compare, Base, ObjectsOK, ReloadsOK, NoOrphan, Quiet, Loading, ReloadState, objects
<1>13. ASSUME NEW r \in Reload, TakenOut(r) PROVE Quiet'
  BY <1>13, JobAssumption, AtRest DEF TakenOut, Ended, Alive, Base, ObjectsOK, ReloadsOK, NoOrphan, Quiet, Loading, ReloadState, objects
<1>14. ASSUME NEW r \in Reload, NEW j \in Job, TakeOut(r, j) PROVE Quiet'
  BY <1>14, JobAssumption, AtRest DEF TakeOut, Cancelled, Alive, Base, ObjectsOK, ReloadsOK, NoOrphan, Quiet, Loading, ReloadState, objects
<1>15. ASSUME NEW r \in Reload, Stopped(r) PROVE Quiet'
  BY <1>15, JobAssumption, AtRest DEF Stopped, Ended, Alive, Base, ObjectsOK, ReloadsOK, NoOrphan, Quiet, Loading, ReloadState, objects
<1>16. ASSUME NEW r \in Reload, NoClient(r) PROVE Quiet'
  BY <1>16, JobAssumption, AtRest DEF NoClient, Base, ObjectsOK, ReloadsOK, NoOrphan, Quiet, Loading, ReloadState, objects
<1>17. ASSUME NEW r \in Reload, Loaded(r) PROVE Quiet'
  BY <1>17, JobAssumption, AtRest DEF Loaded, Base, ObjectsOK, ReloadsOK, NoOrphan, Quiet, Loading, ReloadState, objects
<1>18. ASSUME NEW r \in Reload, NEW j \in Job, Replace(r, j) PROVE Quiet'
  BY <1>18, JobAssumption, AtRest DEF Replace, Cancelled, Alive, Base, ObjectsOK, ReloadsOK, NoOrphan, Quiet, Loading, ReloadState, objects
<1>19. ASSUME NEW r \in Reload, NEW g \in Run, Create(r, g) PROVE Quiet'
  BY <1>19, JobAssumption, AtRest DEF Create, Base, ObjectsOK, ReloadsOK, NoOrphan, Quiet, Loading, ReloadState, objects
<1>20. CASE UNCHANGED vars
  BY <1>20 DEF vars, Base, ObjectsOK, ReloadsOK, NoOrphan, Quiet, Loading, ReloadState, objects
<1> QED
  BY <1>1, <1>2, <1>3, <1>4, <1>5, <1>6, <1>7, <1>8, <1>9, <1>10, <1>11, <1>12, <1>13, <1>14, <1>15, <1>16, <1>17, <1>18, <1>19, <1>20 DEF Next, ReloadStep, Removal

LEMMA NextInv == IInv /\ [Next]_vars => IInv'
BY NextObjects, NextReloads, NextAwaited, NextNoOrphan, NextVacant, NextQuiet DEF IInv, Base

LEMMA AlwaysIInv == Spec => []IInv
<1>1. Init => IInv
  BY InitInv
<1>2. IInv /\ [Next]_vars => IInv'
  BY NextInv
<1> QED
  BY <1>1, <1>2, PTL DEF Spec

\* The variables keep their types, and what a reload or a command waits for is an
\* object of the job it is at.
THEOREM JobTypeCorrect == Spec => []JobTypeOK
<1>1. IInv => JobTypeOK
  BY JobAssumption DEF IInv, Base, ObjectsOK, ReloadsOK, ReloadState, Entry, JobTypeOK
<1> QED
  BY <1>1, AlwaysIInv, PTL

\* For every number of jobs, objects and reloads: while no two reloads have overlapped,
\* an object whose task runs is the one the runner lists.
THEOREM AlwaysListed == Spec => []NoOrphan
<1>1. IInv => NoOrphan
  BY DEF IInv
<1> QED
  BY <1>1, AlwaysIInv, PTL

\* A job that is turned off has nobody left on the bus once the command returns.
LEMMA OffIsOff == IInv => OffMeansOff
<1> SUFFICES ASSUME IInv, NEW j \in off, what[j] = "none", NEW g \in Run, jobOf[g] = j
             PROVE  g \notin bus /\ task[g] # "setup"
  BY DEF OffMeansOff
<1>1. j \in Job /\ command[j] = None /\ g # None
  BY JobAssumption DEF IInv, Base, ObjectsOK
<1>2. \A r \in Reload : reload[r].awaits = None
  BY AtRest DEF IInv, Quiet, Base, ReloadsOK, Loading
<1>3. task[g] # "cancelled"
  BY <1>1, <1>2 DEF IInv, Base, Awaited
<1>4. task[g] \notin {"setup", "running"}
  BY DEF IInv, Quiet
<1> QED
  BY <1>3, <1>4 DEF IInv, Base, ObjectsOK

\* `job disable` and `job remove` end what the job does before they return, whatever
\* the setup of its objects was at.
THEOREM AlwaysOff == Spec => []OffMeansOff
<1> QED
  BY OffIsOff, AlwaysIInv, PTL

\* What a reload read as rejected it neither takes out nor replaces.
LEMMA TypoKept ==
    ASSUME IInv, [Next]_vars, NEW r \in Reload, NEW j \in Job,
           reload[r].conf[j] = "rejected", reload'[r] # reload[r]
    PROVE  runner'[j] = runner[j] /\ \A g \in Run : jobOf[g] = j => task'[g] = task[g]
<1> USE DEF IInv, Base
<1>1. reload[r].at # "idle"
  BY AtRest DEF ReloadsOK, NotLoading
<1>3. ASSUME NEW q \in Reload, Load(q) PROVE FALSE
  BY <1>1, <1>3 DEF Load, ReloadsOK
<1>4. ASSUME NEW q \in Reload, Compare(q) \/ TakenOut(q) \/ Stopped(q) \/ NoClient(q) \/ Loaded(q)
      PROVE UNCHANGED <<runner, task>>
  BY <1>4 DEF Compare, TakenOut, Stopped, NoClient, Loaded, objects
<1>5. ASSUME NEW q \in Reload, NEW i \in Job, TakeOut(q, i)
      PROVE  runner'[j] = runner[j] /\ \A g \in Run : jobOf[g] = j => task'[g] = task[g]
  <2>1. q = r /\ i \in reload[q].removed
    BY <1>5 DEF TakeOut, ReloadsOK
  <2>2. i # j
    BY <2>1 DEF ReloadsOK
  <2>3. runner' = [runner EXCEPT ![i] = None] /\ task' = Cancelled(runner[i])
    BY <1>5 DEF TakeOut
  <2> QED
    BY <2>2, <2>3, JobAssumption DEF Cancelled, ObjectsOK
<1>6. ASSUME NEW q \in Reload, NEW i \in Job, Replace(q, i)
      PROVE  runner'[j] = runner[j] /\ \A g \in Run : jobOf[g] = j => task'[g] = task[g]
  <2>1. q = r /\ i \in reload[q].todo
    BY <1>6 DEF Replace, ReloadsOK
  <2>2. i # j
    BY <2>1 DEF ReloadsOK
  <2>3. UNCHANGED <<runner, task>> \/ (runner' = [runner EXCEPT ![i] = None] /\ task' = Cancelled(runner[i]))
    BY <1>6 DEF Replace
  <2> QED
    BY <2>2, <2>3, JobAssumption DEF Cancelled, ObjectsOK
<1>7. ASSUME NEW q \in Reload, NEW h \in Run, Create(q, h)
      PROVE  runner'[j] = runner[j] /\ \A g \in Run : jobOf[g] = j => task'[g] = task[g]
  <2>1. q = r /\ reload[q].at = "client" /\ jobOf[h] = None
    BY <1>7 DEF Create, ReloadsOK
  <2>2. reload[r].job \in Job /\ reload[r].job # j
    BY <2>1 DEF ReloadsOK
  <2>3. runner' = [runner EXCEPT ![reload[r].job] = h] /\ task' = [task EXCEPT ![h] = "setup"]
    BY <1>7, <2>1 DEF Create
  <2> QED
    BY <2>1, <2>2, <2>3, JobAssumption DEF ObjectsOK
<1>8. ASSUME UNCHANGED reload PROVE FALSE
  BY <1>8
<1>9. ASSUME NEW g \in Run, SetUp(g) \/ TearDown(g) \/ Call(g) \/ \E submits \in BOOLEAN : Handled(g, submits)
      PROVE  FALSE
  BY <1>8, <1>9 DEF SetUp, TearDown, Call, Handled
<1>10. ASSUME NEW i \in Job,
              \/ Acted(i) \/ Enable(i) \/ Disable(i) \/ Remove(i) \/ Return(i)
              \/ \E entry \in {"on", "off", "rejected"} : Edit(i, entry)
       PROVE FALSE
  BY <1>8, <1>10 DEF Acted, Enable, Disable, Remove, Return, Edit
<1>11. CASE UNCHANGED vars
  BY <1>8, <1>11 DEF vars
<1>12. CASE Next
  BY <1>3, <1>4, <1>5, <1>6, <1>7, <1>9, <1>10, <1>12 DEF Next, ReloadStep, Removal
<1> QED
  BY <1>11, <1>12

\* A reload takes no job down whose entry it could not read.
THEOREM NoTypoTakesDown == Spec => TypoTakesNothingDown
<1>1. IInv /\ [Next]_vars =>
        [\A r \in Reload, j \in Job :
           /\ reload[r].conf[j] = "rejected" /\ reload'[r].conf[j] = "rejected"
           /\ reload'[r] # reload[r]
           => /\ runner'[j] = runner[j]
              /\ \A g \in Run : jobOf[g] = j => task'[g] = task[g]]_vars
  BY TypoKept
<1> QED
  BY <1>1, AlwaysIInv, PTL DEF Spec, TypoTakesNothingDown

\* A handler is called only while it is on the bus, and only a handler submits.
LEMMA StaysDropped ==
    ASSUME IInv, [Next]_vars, NEW j \in Job, j \in off, j \in off', what[j] = "none",
           j \notin queued, \A g \in calls : jobOf[g] # j
    PROVE  j \notin queued' /\ \A g \in calls' : jobOf[g] # j
<1>1. \A g \in Run : jobOf[g] = j => g \notin bus
  BY OffIsOff DEF OffMeansOff
<1>2. ASSUME NEW g \in Run, Call(g) PROVE j \notin queued' /\ \A h \in calls' : jobOf[h] # j
  BY <1>1, <1>2 DEF Call
<1>3. ASSUME NEW g \in Run, NEW submits \in BOOLEAN, Handled(g, submits)
      PROVE  j \notin queued' /\ \A h \in calls' : jobOf[h] # j
  BY <1>3 DEF Handled
<1>4. ASSUME calls' \subseteq calls, queued' \subseteq queued
      PROVE  j \notin queued' /\ \A h \in calls' : jobOf[h] # j
  BY <1>4
<1>5. ASSUME NEW g \in Run, SetUp(g) \/ TearDown(g) PROVE calls' \subseteq calls /\ queued' \subseteq queued
  BY <1>5 DEF SetUp, TearDown
<1>6. ASSUME NEW i \in Job,
             \/ Acted(i) \/ Enable(i) \/ Disable(i) \/ Remove(i) \/ Return(i)
             \/ \E entry \in {"on", "off", "rejected"} : Edit(i, entry)
      PROVE  calls' \subseteq calls /\ queued' \subseteq queued
  BY <1>6 DEF Acted, Enable, Disable, Remove, Return, Edit
<1>7. ASSUME NEW r \in Reload, Load(r) \/ ReloadStep(r)
      PROVE  calls' \subseteq calls /\ queued' \subseteq queued
  BY <1>7 DEF Load, ReloadStep, Removal, Compare, TakenOut, TakeOut, Replace, Stopped, NoClient, Create, Loaded
<1>8. CASE UNCHANGED vars
  BY <1>4, <1>8 DEF vars
<1>9. CASE Next
  BY <1>2, <1>3, <1>4, <1>5, <1>6, <1>7, <1>9 DEF Next
<1> QED
  BY <1>8, <1>9

\* `job remove` returns with nothing of the job in the queue.
LEMMA RemoveForgets ==
    ASSUME IInv, [Next]_vars, NEW j \in Job, what[j] = "remove", what'[j] = "none"
    PROVE  j \notin queued'
<1> USE DEF IInv, Base, ObjectsOK
<1>1. ASSUME UNCHANGED what PROVE FALSE
  BY <1>1
<1>2. ASSUME NEW i \in Job, Return(i) PROVE j \notin queued'
  BY <1>2 DEF Return
<1>3. ASSUME NEW i \in Job, Disable(i) \/ Remove(i) PROVE FALSE
  BY <1>3 DEF Disable, Remove
<1>4. ASSUME NEW i \in Job, Acted(i) \/ Enable(i) \/ \E entry \in {"on", "off", "rejected"} : Edit(i, entry)
      PROVE  FALSE
  BY <1>1, <1>4 DEF Acted, Enable, Edit
<1>5. ASSUME NEW g \in Run, SetUp(g) \/ TearDown(g) \/ Call(g) \/ \E submits \in BOOLEAN : Handled(g, submits)
      PROVE  FALSE
  BY <1>1, <1>5 DEF SetUp, TearDown, Call, Handled
<1>6. ASSUME NEW r \in Reload, Load(r) \/ ReloadStep(r) PROVE FALSE
  BY <1>1, <1>6 DEF Load, ReloadStep, Removal, Compare, TakenOut, TakeOut, Replace, Stopped, NoClient, Create, Loaded
<1>7. CASE UNCHANGED vars
  BY <1>1, <1>7 DEF vars
<1>8. CASE Next
  BY <1>2, <1>3, <1>4, <1>5, <1>6, <1>8 DEF Next
<1> QED
  BY <1>7, <1>8

\* What `job disable` and `job remove` drop is not queued again behind their back.
THEOREM AlwaysDropped == Spec => DroppedStaysDropped
<1>1. IInv /\ [Next]_vars =>
        [\A j \in Job :
           /\ (j \in off /\ j \in off' /\ what[j] = "none" /\ j \notin queued
                /\ \A g \in calls : jobOf[g] # j)
              => j \notin queued' /\ \A g \in calls' : jobOf[g] # j
           /\ (what[j] = "remove" /\ what'[j] = "none") => j \notin queued']_vars
  BY StaysDropped, RemoveForgets
<1> QED
  BY <1>1, AlwaysIInv, PTL DEF Spec, DroppedStaysDropped
=============================================================================
