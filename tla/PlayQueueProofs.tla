--------------------------- MODULE PlayQueueProofs ---------------------------
(***************************************************************************)
(* Proofs about PlayQueue, for every set of matches, presses, people,      *)
(* targets and computers, every priority, room, cap and number of faults.  *)
(***************************************************************************)
EXTENDS PlayQueue, FiniteSetTheorems, TLAPS

-----------------------------------------------------------------------------
(* The inductive invariant, in parts. *)

\* The queue's rows.
QueueOK ==
  /\ status \in [Items -> Statuses]
  /\ later \subseteq {i \in Items : status[i] = "queued"}
  /\ counted \subseteq {i \in Items : status[i] \in {"dispatching", "started"}}
  /\ newer \in [Items -> SUBSET Owners]

\* The trails, the turns and the launches.
TrailOK ==
  /\ trail \in [Owners -> {"none", "starting", "running", "ended"}]
  /\ turn \in [Owners -> {"none", "opening", "open"}]
  /\ runs \in [Owners -> Nat]
  /\ closed \subseteq Owners
  /\ launch \in [Owners -> Steps]
  /\ pressed \in [Presses -> Pressers]

\* The dispatcher.  A pass works on items that are due: none that it has left
\* is held back again.
DispStates ==
  [pc : {"recover", "person", "launch", "wait"}, people : SUBSET People,
   todo : SUBSET Items, asof : SUBSET Items, ahead : SUBSET Items,
   timer : SUBSET (Items \cup Targets)]

DispOK ==
  /\ disp \in DispStates
  /\ disp.todo \cap later = {}
  /\ missed \subseteq Items

\* The signals, the rules and the process.
WorldOK ==
  /\ kick \in BOOLEAN /\ freed \in BOOLEAN /\ up \in BOOLEAN
  /\ rule \in [Items -> {"on", "off", "denied"}]
  /\ faults \in Nat

Holding == {"place", "clear", "create"}

\* A person's turn is with the launch between taking it and creating the trail.
TurnsOK ==
  /\ locks \in [People -> Owners \cup {NoOne}]
  /\ \A p \in People, o \in Owners :
       locks[p] = o <=> PersonOf(o) = p /\ launch[o] \in Holding

\* The dispatcher launches one item, which is claimed, and only as it stands
\* at "launch".
OneLaunch ==
  /\ \A i \in Items : launch[i] # "idle" =>
       launch[i] # "over" /\ status[i] = "dispatching" /\ disp.pc = "launch" /\ i \in disp.todo
  /\ \A i, j \in Items : launch[i] # "idle" /\ launch[j] # "idle" => i = j

\* The launch steps before the turn begins, and the refusals.
Unstarted == {"acquire", "place", "clear", "create", "post", "full", "held", "busy", "failed"}

\* No turn was started yet: for a launch under way, an item that waits or that
\* the pass has left, an owner with no trail, a press not begun.
NotRunYet ==
  /\ \A o \in Owners : launch[o] \in Unstarted => runs[o] = 0
  /\ \A i \in Items : status[i] \in {"none", "queued"} => runs[i] = 0
  /\ \A i \in disp.todo : launch[i] = "idle" => runs[i] = 0
  /\ \A o \in Owners : trail[o] = "none" => runs[o] = 0
  /\ \A o \in Owners : launch[o] = "post" => trail[o] # "none"
  /\ \A o \in Presses : launch[o] = "idle" => trail[o] = "none"
  /\ \A o \in Owners : turn[o] # "none" \/ trail[o] = "running" => runs[o] > 0

Types == QueueOK /\ TrailOK /\ DispOK /\ WorldOK /\ TurnsOK

RunsInv == OneLaunch /\ NotRunYet /\ OneRunPerItem

IInv == Types /\ RunsInv

-----------------------------------------------------------------------------
\* The automatic runs CapKept counts on target t.
CappedRuns(t) == {i \in counted \ missed : ItemTarget[i] = t /\ runs[i] > 0}

\* The steps of a launch before its turn begins.
Launches == {"acquire", "place", "clear", "create", "post"}

\* A started turn is on record, but while its launch is under way, after a
\* failed write and before a recovery.
OnRecord ==
  disp.pc # "recover" =>
    \A i \in Items : status[i] = "dispatching" /\ runs[i] > 0 => i \in missed \/ launch[i] # "idle"

\* A launch found its target below the cap, and nothing was started there since.
CapCount ==
  /\ \A t \in Targets : Cardinality(CappedRuns(t)) <= DailyCap
  /\ \A i \in Items : launch[i] \in Launches => Cardinality(CappedRuns(ItemTarget[i])) < DailyCap

CapInv == OnRecord /\ CapCount

-----------------------------------------------------------------------------
\* The runs of a person that RoomCounted counts.
RunsOf(p) == {q \in Owners : PersonOf(q) = p /\ Active(q)} \ closed

\* A process that is down launches and follows nothing.
DownInv ==
  ~up => disp.pc = "recover" /\ \A o \in Owners : launch[o] \in {"idle", "over"} /\ turn[o] = "none"

\* A turn on its way has an active trail, unless Stop closed it.
OpenInv == \A o \in Owners : turn[o] = "opening" \/ launch[o] = "post" => Active(o) \/ o \in closed

\* The room an item found is still there until it creates its trail.
RoomLeft ==
  \A i \in Items : launch[i] \in {"clear", "create"} => Cardinality(RunsOf(ItemPerson[i])) < Room

RoomInv == DownInv /\ OpenInv /\ RoomLeft

-----------------------------------------------------------------------------
Waking == kick \/ freed
Full(i) == Running(ComputerOf[PersonOf(i)]) >= Room
AwaitsTarget(i)   == Waking \/ BusyTarget(TargetOf(i))
AwaitsComputer(i) == Waking \/ Full(i)

\* Why a queued item may be left where it is: something will wake the
\* dispatcher, or its pass has yet to look at it.
Awaited(i) ==
  \/ AwaitsTarget(i) \/ AwaitsComputer(i) \/ TargetOf(i) \in disp.timer
  \/ disp.pc = "recover"
  \/ disp.pc \in {"person", "launch"} /\ (i \in disp.ahead \cup disp.todo \/ PersonOf(i) \in disp.people)
  \/ disp.pc = "wait" /\ i \in disp.timer

AllAwaited == \A i \in Items \ missed : status[i] = "queued" => Awaited(i)

\* What is held back was so as the pass began, or is on the timer.
LaterInv ==
  /\ disp.pc \in {"person", "launch"} => later \subseteq disp.ahead
  /\ disp.pc = "wait" => later \subseteq disp.timer

\* A launch that was refused for lack of room, or for a run on its target,
\* still has its reason when startQueued writes it down.
RefusedInv ==
  /\ \A i \in Items : launch[i] = "full" => AwaitsComputer(i)
  /\ \A i \in Items : launch[i] = "busy" => AwaitsTarget(i)

StrandInv == LaterInv /\ AllAwaited /\ RefusedInv

-----------------------------------------------------------------------------
(* Type correctness *)

USE DEF RunsInv

(* Every owner has a person and a target. *)
LEMMA OwnersPlaced ==
    ASSUME TrailOK
    PROVE  \A o \in Owners : PersonOf(o) \in People /\ TargetOf(o) \in Targets
  BY ConstantsAssumption DEF TrailOK, PersonOf, TargetOf, Owners

(* The constants' assumptions the types use. *)
LEMMA ConstantTypes ==
    /\ Items \cap Presses = {} /\ Items \cap Targets = {} /\ NoOne \notin Owners
    /\ ItemPerson \in [Items -> People] /\ ItemTarget \in [Items -> Targets]
    /\ Items \subseteq Owners /\ Presses \subseteq Owners
  BY ConstantsAssumption DEF Owners

(* The dispatcher as it is done with an item of its pass. *)
LEMMA ItemDoneIs ==
    ASSUME DispOK, NEW i \in Items
    PROVE  /\ ItemDone(i) \in DispStates
           /\ ItemDone(i).pc = "person" /\ ItemDone(i).todo = disp.todo \ {i}
           /\ ItemDone(i).people = disp.people /\ ItemDone(i).asof = disp.asof
           /\ ItemDone(i).ahead = disp.ahead /\ ItemDone(i).timer = disp.timer
<1> DEFINE d == [disp EXCEPT !.pc = "person"]
<1>1. /\ d \in DispStates /\ d.pc = "person" /\ d.todo = disp.todo /\ d.people = disp.people
      /\ d.asof = disp.asof /\ d.ahead = disp.ahead /\ d.timer = disp.timer
  BY DEF DispOK, DispStates
<1>2. ItemDone(i) = [d EXCEPT !.todo = @ \ {i}]
  BY DEF ItemDone
<1> HIDE DEF d
<1> QED BY <1>1, <1>2 DEF DispStates

(* The dispatcher asleep, before it recovers and with its timer set. *)
LEMMA AsleepIs ==
    /\ [Asleep EXCEPT !.pc = "recover"] =
         [pc |-> "recover", people |-> {}, todo |-> {}, asof |-> {}, ahead |-> {}, timer |-> {}]
    /\ \A T : [Asleep EXCEPT !.timer = T] =
         [pc |-> "wait", people |-> {}, todo |-> {}, asof |-> {}, ahead |-> {}, timer |-> T]
  BY DEF Asleep

(* The dispatcher as a pass begins. *)
LEMMA BeginPassIs ==
    ASSUME BeginPass
    PROVE  disp' = [pc |-> "person", people |-> {PersonOf(i) : i \in Due'}, todo |-> {},
                    asof |-> {i \in Items : status[i] # "none"}, ahead |-> later, timer |-> {}]
  BY DEF BeginPass, Asleep

(* A pass begins well-typed, with nothing left to do yet. *)
LEMMA BeginPassOK ==
    ASSUME Types, BeginPass, UNCHANGED later, missed' \subseteq Items
    PROVE  DispOK'
<1>1. {PersonOf(i) : i \in Due'} \subseteq People
  BY ConstantTypes DEF Due, PersonOf
<1>2. later \subseteq Items /\ {i \in Items : status[i] # "none"} \subseteq Items
  BY DEF Types, QueueOK
<1>3. disp' \in DispStates /\ disp'.todo = {}
  BY <1>1, <1>2, BeginPassIs DEF DispStates
<1> QED BY <1>3 DEF DispOK

(* One fault is spent, or none. *)
LEMMA FaultOK == WorldOK /\ Fault => faults' \in Nat
  BY DEF WorldOK, Fault

(* Every variable starts in its type. *)
LEMMA InitTypes == Init => Types
<1> SUFFICES ASSUME Init PROVE Types
  OBVIOUS
<1>1. QueueOK BY DEF Init, QueueOK, Statuses
<1>2. TrailOK
  <2>1. (CHOOSE x \in Pressers : TRUE) \in Pressers
    BY ConstantsAssumption
  <2> QED BY <2>1 DEF Init, TrailOK, Steps
<1>3. DispOK BY DEF Init, DispOK, DispStates, Asleep
<1>4. WorldOK BY ConstantsAssumption DEF Init, WorldOK
<1>5. TurnsOK BY ConstantTypes DEF Init, TurnsOK, Holding
<1> QED BY <1>1, <1>2, <1>3, <1>4, <1>5 DEF Types

(* What a step leaves alone keeps its types. *)
LEMMA Frames ==
    ASSUME Types
    PROVE  /\ UNCHANGED qvars => QueueOK'
           /\ UNCHANGED <<trail, turn, runs, closed, launch, pressed>> => TrailOK'
           /\ UNCHANGED <<disp, later, missed>> => DispOK'
           /\ UNCHANGED <<kick, freed, up, rule, faults>> => WorldOK'
           /\ UNCHANGED lvars => TurnsOK'
  BY DEF Types, QueueOK, TrailOK, DispOK, WorldOK, TurnsOK, PersonOf, qvars, lvars

(* Every step keeps the types and the starters' turns. *)
LEMMA NextTypes == IInv /\ [Next]_vars => Types'
<1> SUFFICES ASSUME IInv, [Next]_vars PROVE Types'
  OBVIOUS
<1> USE DEF IInv, Types
<1>1. CASE RecoverDispatching
  <2>1. QueueOK'
    BY <1>1, ConstantTypes DEF RecoverDispatching, Dispatcher, BeginPass, Asleep, QueueOK,
       Statuses, OneLaunch, DispOK, DispStates
  <2>2. DispOK'
    BY <1>1, BeginPassOK DEF RecoverDispatching, DispOK, Types
  <2> QED BY <1>1, <2>1, <2>2, Frames DEF Types, RecoverDispatching, tvars, lvars, evars
<1>2. CASE PassEnds
  <2>1. DispOK'
    <3> DEFINE T == disp.timer \cup {i \in later \cup disp.ahead : status[i] = "queued"}
    <3>1. T \subseteq Items \cup Targets
      BY DEF DispOK, DispStates, QueueOK
    <3>2. disp' = [Asleep EXCEPT !.timer = T]
      BY <1>2 DEF PassEnds
    <3> HIDE DEF T
    <3>3. disp' \in DispStates /\ disp'.todo = {}
      BY <3>1, <3>2, AsleepIs DEF DispStates
    <3> QED BY <1>2, <3>3 DEF PassEnds, DispOK
  <2> QED BY <1>2, <2>1, Frames DEF Types, PassEnds, qvars, tvars, lvars, evars
<1>3. CASE WaitForKick
  <2>1. DispOK'
    BY <1>3, BeginPassOK DEF WaitForKick, qvars, DispOK, Types
  <2>2. WorldOK'
    BY <1>3 DEF WaitForKick, Dispatcher, evars, WorldOK
  <2> QED BY <1>3, <2>1, <2>2, Frames DEF Types, WaitForKick, qvars, tvars, lvars, evars
<1>4. ASSUME NEW p \in People, DispatchPerson(p) PROVE Types'
  <2>1. DispOK'
    BY <1>4, ConstantTypes DEF DispatchPerson, Dispatcher, qvars, Due, DispOK, DispStates,
       QueueOK
  <2> QED BY <1>4, <2>1, Frames DEF Types, DispatchPerson, qvars, tvars, lvars, evars
<1>5. ASSUME NEW i \in Items, Hold(i) PROVE Types'
  <2>1. DispOK'
    <3>1. UNCHANGED later /\ missed' \subseteq Items /\ TargetOf(i) \in Targets
      BY <1>5, ConstantTypes DEF Hold, qvars, DispOK, TargetOf
    <3>2. CASE disp' = ItemDone(i)
      BY <3>1, <3>2, ItemDoneIs DEF DispOK
    <3>3. CASE disp' = [ItemDone(i) EXCEPT !.timer = @ \cup {TargetOf(i)}]
      <4>1. disp' \in DispStates /\ disp'.todo = disp.todo \ {i}
        BY <3>1, <3>3, ItemDoneIs DEF DispStates
      <4> QED BY <3>1, <4>1 DEF DispOK
    <3> QED BY <1>5, <3>2, <3>3 DEF Hold
  <2> QED BY <1>5, <2>1, Frames DEF Types, Hold, qvars, tvars, lvars, evars
<1>6. ASSUME NEW i \in Items, Decide(i) PROVE Types'
  <2>1. QueueOK'
    BY <1>6, ConstantTypes DEF Decide, NextItem, ItemDone, Dated, Dispatcher, QueueOK,
       Statuses, OneLaunch, DispOK, DispStates
  <2>2. TrailOK'
    BY <1>6 DEF Decide, NextItem, lvars, Dispatcher, TrailOK, Steps
  <2>3. DispOK'
    BY <1>6, ItemDoneIs, ConstantTypes DEF Decide, NextItem, Dispatcher, DispOK, DispStates,
       QueueOK
  <2>4. WorldOK'
    BY <1>6 DEF Decide, NextItem, World, Dispatcher, WorldOK
  <2> QED BY <1>6, <2>1, <2>2, <2>3, <2>4, Frames DEF Types, Decide, lvars, World
<1>7. ASSUME NEW i \in Items, Claim(i) PROVE Types'
  <2>1. QueueOK'
    BY <1>7, ConstantTypes DEF Claim, NextItem, ItemDone, Dispatcher, QueueOK, Statuses,
       OneLaunch, DispOK, DispStates
  <2>2. TrailOK'
    BY <1>7 DEF Claim, NextItem, tvars, Dispatcher, TrailOK, Steps
  <2>3. DispOK'
    <3>1. UNCHANGED later /\ missed' \subseteq Items
      BY <1>7 DEF Claim, DispOK
    <3>2. CASE disp' = ItemDone(i)
      BY <3>1, <3>2, ItemDoneIs DEF DispOK
    <3>3. CASE disp' = [disp EXCEPT !.pc = "launch"]
      BY <3>1, <3>3 DEF DispOK, DispStates
    <3> QED BY <1>7, <3>2, <3>3 DEF Claim
  <2>4. TurnsOK'
    BY <1>7, OwnersPlaced, ConstantTypes DEF Claim, NextItem, Dispatcher, TurnsOK, TrailOK,
       Holding, OneLaunch, DispOK, PersonOf
  <2> QED BY <1>7, <2>1, <2>2, <2>3, <2>4, Frames DEF Types, Claim, tvars, evars
<1>8. ASSUME NEW i \in Items, LookFails(i) PROVE Types'
  <2>1. DispOK'
    BY <1>8, ItemDoneIs, ConstantTypes DEF LookFails, NextItem, qvars, Dispatcher, DispOK,
       DispStates, QueueOK
  <2>2. WorldOK'
    <3>1. faults' \in Nat
      BY <1>8, FaultOK DEF LookFails
    <3>2. UNCHANGED <<kick, freed, up, rule>>
      BY <1>8 DEF LookFails, qvars, tvars, lvars, World
    <3> QED BY <3>1, <3>2 DEF WorldOK
  <2> QED BY <1>8, <2>1, <2>2, Frames DEF Types, LookFails, qvars, tvars, lvars, World
<1>9. ASSUME NEW i \in Items, DecideLaunch(i) PROVE Types'
  <2>1. QueueOK'
    BY <1>9, ConstantTypes DEF DecideLaunch, Dispatcher, Outcome, ItemDone, QueueOK,
       Statuses, OneLaunch, DispOK, DispStates
  <2>2. TrailOK'
    BY <1>9 DEF DecideLaunch, Dispatcher, Answered, Outcome, tvars, TrailOK, Steps
  <2>3. DispOK'
    BY <1>9, ItemDoneIs, ConstantTypes DEF DecideLaunch, Dispatcher, Outcome, DispOK,
       DispStates, QueueOK
  <2>4. TurnsOK'
    BY <1>9, OwnersPlaced, ConstantTypes DEF DecideLaunch, Dispatcher, Answered, Outcome,
       TurnsOK, TrailOK, Holding, OneLaunch, DispOK, PersonOf
  <2> QED BY <1>9, <2>1, <2>2, <2>3, <2>4, Frames DEF Types, DecideLaunch, tvars, evars
<1>10. ASSUME NEW i \in Items, DecideLaunchFails(i) PROVE Types'
  <2>1. TrailOK'
    BY <1>10 DEF DecideLaunchFails, Dispatcher, Answered, tvars, TrailOK, Steps
  <2>2. DispOK'
    BY <1>10, ItemDoneIs, ConstantTypes DEF DecideLaunchFails, Dispatcher, qvars, DispOK,
       DispStates, QueueOK
  <2>3. WorldOK'
    <3>1. faults' \in Nat
      BY <1>10, FaultOK DEF DecideLaunchFails
    <3>2. UNCHANGED <<kick, freed, up, rule>>
      BY <1>10 DEF DecideLaunchFails, qvars, tvars, World
    <3> QED BY <3>1, <3>2 DEF WorldOK
  <2>4. TurnsOK'
    BY <1>10, OwnersPlaced, ConstantTypes DEF DecideLaunchFails, Dispatcher, Answered,
       TurnsOK, TrailOK, Holding, OneLaunch, DispOK, PersonOf
  <2> QED BY <1>10, <2>1, <2>2, <2>3, <2>4, Frames DEF Types, DecideLaunchFails, qvars,
     tvars, World
<1>11. ASSUME NEW o \in Owners, Acquire(o) PROVE Types'
  <2>1. TrailOK'
    BY <1>11 DEF Acquire, Launching, Step, tvars, Answered, TrailOK, Steps
  <2>2. TurnsOK'
    BY <1>11, OwnersPlaced, ConstantTypes DEF Acquire, Launching, Step, Answered, TurnsOK,
       TrailOK, Holding, OneLaunch, DispOK, PersonOf
  <2> QED BY <1>11, <2>1, <2>2, Frames DEF Types, Acquire, Step, qvars, tvars, evars
<1>12. ASSUME NEW o \in Owners, Place(o) PROVE Types'
  <2>1. TrailOK'
    BY <1>12 DEF Place, Launching, Step, SaveEnded, Answered, TrailOK, Steps
  <2>2. WorldOK'
    BY <1>12 DEF Place, Launching, SaveEnded, World, WorldOK
  <2>3. TurnsOK'
    BY <1>12, OwnersPlaced, ConstantTypes DEF Place, Launching, Step, Release, Answered,
       TurnsOK, TrailOK, Holding, OneLaunch, DispOK, PersonOf
  <2> QED BY <1>12, <2>1, <2>2, <2>3, Frames DEF Types, Place, Step, qvars, World
<1>13. ASSUME NEW o \in Owners, RefuseIfActive(o) PROVE Types'
  <2>1. TrailOK'
    BY <1>13 DEF RefuseIfActive, Launching, Step, tvars, Answered, TrailOK, Steps
  <2>2. TurnsOK'
    BY <1>13, OwnersPlaced, ConstantTypes DEF RefuseIfActive, Launching, Step, Release,
       Answered, TurnsOK, TrailOK, Holding, OneLaunch, DispOK, PersonOf
  <2> QED BY <1>13, <2>1, <2>2, Frames DEF Types, RefuseIfActive, Step, qvars, tvars, evars
<1>14. ASSUME NEW o \in Owners, CreateTrail(o) PROVE Types'
  <2>1. QueueOK'
    BY <1>14, ConstantTypes DEF CreateTrail, Launching, Dated, QueueOK, Statuses, OneLaunch,
       DispOK, DispStates
  <2>2. TrailOK'
    BY <1>14 DEF CreateTrail, Launching, Step, Answered, TrailOK, Steps
  <2>3. TurnsOK'
    BY <1>14, OwnersPlaced, ConstantTypes DEF CreateTrail, Launching, Step, Release,
       Answered, TurnsOK, TrailOK, Holding, OneLaunch, DispOK, PersonOf
  <2> QED BY <1>14, <2>1, <2>2, <2>3, Frames DEF Types, CreateTrail, Step, evars
<1>15. ASSUME NEW o \in Owners, LaunchRefused(o) PROVE Types'
  <2>1. QueueOK'
    BY <1>15, ConstantTypes DEF LaunchRefused, Launching, Dated, QueueOK, Statuses,
       OneLaunch, DispOK, DispStates
  <2>2. TrailOK'
    BY <1>15 DEF LaunchRefused, Launching, SaveEnded, Step, Answered, TrailOK, Steps
  <2>3. WorldOK'
    <3>1. faults' \in Nat
      BY <1>15, FaultOK DEF LaunchRefused
    <3>2. UNCHANGED <<kick, up, rule>>
      BY <1>15 DEF LaunchRefused, World
    <3>3. freed' \in BOOLEAN
      BY <1>15 DEF WorldOK, LaunchRefused, Launching, SaveEnded, Dated, Step, Release,
         World, Answered
    <3> QED BY <3>1, <3>2, <3>3 DEF WorldOK
  <2>4. TurnsOK'
    BY <1>15, OwnersPlaced, ConstantTypes DEF LaunchRefused, Launching, Step, Release,
       Answered, TurnsOK, TrailOK, Holding, OneLaunch, DispOK, PersonOf
  <2> QED BY <1>15, <2>1, <2>2, <2>3, <2>4, Frames DEF Types, LaunchRefused, Step, World
<1>16. ASSUME NEW o \in Owners, StartTurn(o) PROVE Types'
  <2>1. TrailOK'
    BY <1>16 DEF StartTurn, Launching, Step, Answered, TrailOK, Steps
  <2>2. TurnsOK'
    BY <1>16, OwnersPlaced, ConstantTypes DEF StartTurn, Launching, Step, Answered, TurnsOK,
       TrailOK, Holding, OneLaunch, DispOK, PersonOf
  <2> QED BY <1>16, <2>1, <2>2, Frames DEF Types, StartTurn, Step, qvars, evars
<1>17. ASSUME NEW o \in Owners, PostFails(o) PROVE Types'
  <2>1. TrailOK'
    BY <1>17 DEF PostFails, Launching, SaveEnded, Step, Answered, TrailOK, Steps
  <2>2. WorldOK'
    <3>1. faults' \in Nat
      BY <1>17, FaultOK DEF PostFails
    <3>2. UNCHANGED <<kick, up, rule>>
      BY <1>17 DEF PostFails, qvars, World
    <3>3. freed' \in BOOLEAN
      BY <1>17 DEF WorldOK, PostFails, Launching, SaveEnded, Step, qvars, World, Answered
    <3> QED BY <3>1, <3>2, <3>3 DEF WorldOK
  <2>3. TurnsOK'
    BY <1>17, OwnersPlaced, ConstantTypes DEF PostFails, Launching, Step, Answered, TurnsOK,
       TrailOK, Holding, OneLaunch, DispOK, PersonOf
  <2> QED BY <1>17, <2>1, <2>2, <2>3, Frames DEF Types, PostFails, Step, qvars, World
<1>18. ASSUME NEW o \in Owners, OnStarted(o) PROVE Types'
  <2>1. TrailOK'
    BY <1>18 DEF OnStarted, lvars, TrailOK, Steps
  <2> QED BY <1>18, <2>1, Frames DEF Types, OnStarted, qvars, lvars, evars
<1>19. ASSUME NEW o \in Owners, OnFinished(o) PROVE Types'
  <2>1. TrailOK'
    BY <1>19 DEF OnFinished, SaveEnded, lvars, TrailOK, Steps
  <2>2. WorldOK'
    BY <1>19 DEF OnFinished, SaveEnded, World, WorldOK
  <2> QED BY <1>19, <2>1, <2>2, Frames DEF Types, OnFinished, qvars, lvars, World
<1>20. ASSUME NEW o \in Owners, FinishFails(o) PROVE Types'
  <2>1. TrailOK'
    BY <1>20 DEF FinishFails, lvars, TrailOK, Steps
  <2>2. WorldOK'
    <3>1. faults' \in Nat
      BY <1>20, FaultOK DEF FinishFails
    <3>2. UNCHANGED <<kick, freed, up, rule>>
      BY <1>20 DEF FinishFails, qvars, lvars, World
    <3> QED BY <3>1, <3>2 DEF WorldOK
  <2> QED BY <1>20, <2>1, <2>2, Frames DEF Types, FinishFails, qvars, lvars, World
<1>21. ASSUME NEW o \in Owners, Stop(o) PROVE Types'
  <2>1. TrailOK'
    BY <1>21 DEF Stop, SaveEnded, lvars, TrailOK, Steps
  <2>2. WorldOK'
    BY <1>21 DEF Stop, SaveEnded, World, WorldOK
  <2> QED BY <1>21, <2>1, <2>2, Frames DEF Types, Stop, qvars, lvars, World
<1>22. ASSUME NEW o \in Presses, NEW by \in Pressers, Press(o, by) PROVE Types'
  <2>1. QueueOK'
    BY <1>22, ConstantTypes DEF Press, QueueOK, Statuses, OneLaunch, DispOK, DispStates
  <2>2. TrailOK'
    BY <1>22 DEF Press, tvars, TrailOK, Steps
  <2>3. TurnsOK'
    BY <1>22, OwnersPlaced, ConstantTypes DEF Press, TurnsOK, TrailOK, Holding, OneLaunch,
       DispOK, PersonOf
  <2> QED BY <1>22, <2>1, <2>2, <2>3, Frames DEF Types, Press, tvars, evars
<1>23. ASSUME NEW i \in Items, Enqueue(i) PROVE Types'
  <2>1. QueueOK'
    BY <1>23, ConstantTypes DEF Enqueue, Dated, QueueOK, Statuses, OneLaunch, DispOK,
       DispStates
  <2>2. TrailOK'
    BY <1>23 DEF Enqueue, lvars, TrailOK, Steps
  <2>3. WorldOK'
    BY <1>23 DEF Enqueue, World, WorldOK
  <2> QED BY <1>23, <2>1, <2>2, <2>3, Frames DEF Types, Enqueue, lvars, World
<1>24. ASSUME NEW i \in Items, CancelQueued(i) PROVE Types'
  <2>1. QueueOK'
    BY <1>24, ConstantTypes DEF CancelQueued, QueueOK, Statuses, OneLaunch, DispOK,
       DispStates
  <2>2. DispOK'
    BY <1>24, ConstantTypes DEF CancelQueued, DispOK, DispStates, QueueOK
  <2>3. WorldOK'
    BY <1>24 DEF CancelQueued, evars, WorldOK
  <2> QED BY <1>24, <2>1, <2>2, <2>3, Frames DEF Types, CancelQueued, tvars, lvars, evars
<1>25. ASSUME NEW i \in Items, RuleChanges(i) PROVE Types'
  <2>1. WorldOK'
    <3>1. faults' \in Nat
      BY <1>25, FaultOK DEF RuleChanges
    <3>2. UNCHANGED <<kick, freed, up>>
      BY <1>25 DEF RuleChanges, qvars, tvars, lvars
    <3>3. rule' \in [Items -> {"on", "off", "denied"}]
      BY <1>25 DEF WorldOK, RuleChanges, qvars, tvars, lvars
    <3> QED BY <3>1, <3>2, <3>3 DEF WorldOK
  <2> QED BY <1>25, <2>1, Frames DEF Types, RuleChanges, qvars, tvars, lvars
<1>26. ASSUME NEW i \in Items, HandleAutoPlayOff(i) PROVE Types'
  <2>1. QueueOK'
    BY <1>26, ConstantTypes DEF HandleAutoPlayOff, QueueOK, Statuses, OneLaunch, DispOK,
       DispStates
  <2>2. DispOK'
    BY <1>26, ConstantTypes DEF HandleAutoPlayOff, DispOK, DispStates, QueueOK
  <2>3. WorldOK'
    BY <1>26 DEF HandleAutoPlayOff, evars, WorldOK
  <2> QED BY <1>26, <2>1, <2>2, <2>3, Frames DEF Types, HandleAutoPlayOff, tvars, lvars,
     evars
<1>27. ASSUME NEW i \in Items, MinutePasses(i) PROVE Types'
  <2>1. QueueOK'
    BY <1>27, ConstantTypes DEF MinutePasses, QueueOK, Statuses, OneLaunch, DispOK,
       DispStates
  <2>2. DispOK'
    BY <1>27, ConstantTypes DEF MinutePasses, DispOK, DispStates, QueueOK
  <2> QED BY <1>27, <2>1, <2>2, Frames DEF Types, MinutePasses, tvars, lvars, evars
<1>28. ASSUME NEW i \in Items, DayPasses(i) PROVE Types'
  <2>1. QueueOK'
    BY <1>28, ConstantTypes DEF DayPasses, QueueOK, Statuses, OneLaunch, DispOK, DispStates
  <2> QED BY <1>28, <2>1, Frames DEF Types, DayPasses, tvars, lvars, evars
<1>29. ASSUME NEW t \in Targets, ResumeAutoPlays(t) PROVE Types'
  <2>1. QueueOK'
    BY <1>29, ConstantTypes DEF ResumeAutoPlays, QueueOK, Statuses, OneLaunch, DispOK,
       DispStates
  <2>2. WorldOK'
    BY <1>29 DEF ResumeAutoPlays, evars, WorldOK
  <2> QED BY <1>29, <2>1, <2>2, Frames DEF Types, ResumeAutoPlays, tvars, lvars, evars
<1>30. ASSUME NEW p \in People, HandleComputerChanged(p) PROVE Types'
  <2>1. QueueOK'
    BY <1>30, ConstantTypes DEF HandleComputerChanged, QueueOK, Statuses, OneLaunch, DispOK,
       DispStates
  <2>2. DispOK'
    BY <1>30, ConstantTypes DEF HandleComputerChanged, DispOK, DispStates, QueueOK
  <2>3. WorldOK'
    BY <1>30 DEF HandleComputerChanged, evars, WorldOK
  <2> QED BY <1>30, <2>1, <2>2, <2>3, Frames DEF Types, HandleComputerChanged, tvars, lvars,
     evars
<1>31. ASSUME NEW c \in Computers, GoesOffline(c) PROVE Types'
  <2>1. WorldOK'
    <3>1. faults' \in Nat
      BY <1>31, FaultOK DEF GoesOffline
    <3>2. UNCHANGED <<kick, freed, up, rule>>
      BY <1>31 DEF GoesOffline, qvars, tvars, lvars
    <3> QED BY <3>1, <3>2 DEF WorldOK
  <2> QED BY <1>31, <2>1, Frames DEF Types, GoesOffline, qvars, tvars, lvars
<1>32. ASSUME NEW c \in Computers, ComesBack(c) PROVE Types'
  <2> QED BY <1>32, Frames DEF Types, ComesBack, qvars, tvars, lvars
<1>33. CASE HandleSlotsFreed
  <2>1. WorldOK'
    BY <1>33 DEF HandleSlotsFreed, World, WorldOK
  <2> QED BY <1>33, <2>1, Frames DEF Types, HandleSlotsFreed, qvars, tvars, lvars, World
<1>34. CASE Crash
  <2>1. TrailOK'
    BY <1>34 DEF Crash, TrailOK, Steps
  <2>2. DispOK'
    BY <1>34, AsleepIs, ConstantTypes DEF Crash, qvars, DispOK, DispStates, QueueOK
  <2>3. WorldOK'
    <3>1. faults' \in Nat
      BY <1>34, FaultOK DEF Crash
    <3>2. UNCHANGED <<freed, rule>>
      BY <1>34 DEF Crash, qvars
    <3>3. kick' \in BOOLEAN /\ up' \in BOOLEAN
      BY <1>34 DEF WorldOK, Crash, Asleep, qvars
    <3> QED BY <3>1, <3>2, <3>3 DEF WorldOK
  <2>4. TurnsOK'
    BY <1>34, OwnersPlaced, ConstantTypes DEF Crash, TurnsOK, TrailOK, Holding, OneLaunch,
       DispOK, PersonOf
  <2> QED BY <1>34, <2>1, <2>2, <2>3, <2>4, Frames DEF Types, Crash, qvars
<1>35. CASE ResumeRunsAfterRestart
  <2>1. TrailOK'
    BY <1>35 DEF ResumeRunsAfterRestart, lvars, TrailOK, Steps
  <2>2. WorldOK'
    BY <1>35 DEF ResumeRunsAfterRestart, WorldOK
  <2> QED BY <1>35, <2>1, <2>2, Frames DEF Types, ResumeRunsAfterRestart, qvars, lvars
<1>36. CASE UNCHANGED vars
  BY <1>36, Frames DEF vars, qvars, tvars, lvars, evars
<1> QED BY <1>1, <1>2, <1>3, <1>4, <1>5, <1>6, <1>7, <1>8, <1>9, <1>10, <1>11, <1>12, <1>13,
   <1>14, <1>15, <1>16, <1>17, <1>18, <1>19, <1>20, <1>21, <1>22, <1>23, <1>24, <1>25,
   <1>26, <1>27, <1>28, <1>29, <1>30, <1>31, <1>32, <1>33, <1>34, <1>35, <1>36 DEF Next,
   Dispatch, Launch

(* An item's launches, and where no turn was started yet. *)
LEMMA NextRuns == IInv /\ [Next]_vars => RunsInv'
<1> SUFFICES ASSUME IInv, [Next]_vars PROVE RunsInv'
  OBVIOUS
<1>f. /\ UNCHANGED <<launch, status, disp>> => OneLaunch'
      /\ UNCHANGED <<launch, runs, status, disp, trail, turn>> => NotRunYet'
      /\ UNCHANGED <<runs>> => OneRunPerItem'
  BY DEF OneLaunch, IInv, Types, QueueOK, TrailOK, DispOK, DispStates, Statuses, Steps,
     NotRunYet, Unstarted, OneRunPerItem
<1>1. ASSUME RecoverDispatching PROVE RunsInv'
  <2>1. OneLaunch'
    BY <1>1, ConstantTypes, BeginPassIs DEF RecoverDispatching, Dispatcher, lvars,
       OneLaunch, IInv, Types, QueueOK, TrailOK, DispOK, DispStates, Statuses, Steps
  <2>2. NotRunYet'
    BY <1>1, ConstantTypes, BeginPassIs DEF RecoverDispatching, Dispatcher, tvars, lvars,
       NotRunYet, OneLaunch, Unstarted, IInv, Types, QueueOK, TrailOK, DispOK, DispStates,
       Statuses, Steps
  <2> QED BY <1>1, <2>1, <2>2, <1>f DEF RecoverDispatching, tvars, lvars, evars
<1>2. ASSUME PassEnds PROVE RunsInv'
  <2>1. OneLaunch'
    BY <1>2, ConstantTypes, AsleepIs DEF PassEnds, Dispatcher, qvars, lvars, OneLaunch,
       IInv, Types, QueueOK, TrailOK, DispOK, DispStates, Statuses, Steps
  <2>2. NotRunYet'
    BY <1>2, ConstantTypes, AsleepIs DEF PassEnds, Dispatcher, qvars, tvars, lvars,
       NotRunYet, OneLaunch, Unstarted, IInv, Types, QueueOK, TrailOK, DispOK, DispStates,
       Statuses, Steps
  <2> QED BY <1>2, <2>1, <2>2, <1>f DEF PassEnds, qvars, tvars, lvars, evars
<1>3. ASSUME WaitForKick PROVE RunsInv'
  <2>1. OneLaunch'
    BY <1>3, ConstantTypes, BeginPassIs DEF WaitForKick, Dispatcher, qvars, lvars,
       OneLaunch, IInv, Types, QueueOK, TrailOK, DispOK, DispStates, Statuses, Steps
  <2>2. NotRunYet'
    BY <1>3, ConstantTypes, BeginPassIs DEF WaitForKick, Dispatcher, qvars, tvars, lvars,
       NotRunYet, OneLaunch, Unstarted, IInv, Types, QueueOK, TrailOK, DispOK, DispStates,
       Statuses, Steps
  <2> QED BY <1>3, <2>1, <2>2, <1>f DEF WaitForKick, qvars, tvars, lvars, evars
<1>4. ASSUME NEW p \in People, DispatchPerson(p) PROVE RunsInv'
  <2>1. OneLaunch'
    BY <1>4, ConstantTypes DEF DispatchPerson, Dispatcher, qvars, lvars, Due, OneLaunch,
       IInv, Types, QueueOK, TrailOK, DispOK, DispStates, Statuses, Steps
  <2>2. NotRunYet'
    BY <1>4, ConstantTypes DEF DispatchPerson, Dispatcher, qvars, tvars, lvars, Due,
       NotRunYet, OneLaunch, Unstarted, IInv, Types, QueueOK, TrailOK, DispOK, DispStates,
       Statuses, Steps
  <2> QED BY <1>4, <2>1, <2>2, <1>f DEF DispatchPerson, qvars, tvars, lvars, evars
<1>5. ASSUME NEW i \in Items, Hold(i) PROVE RunsInv'
  <2>1. OneLaunch'
    BY <1>5, ConstantTypes, ItemDoneIs DEF Hold, NextItem, qvars, lvars, Dispatcher,
       OneLaunch, IInv, Types, QueueOK, TrailOK, DispOK, DispStates, Statuses, Steps
  <2>2. NotRunYet'
    BY <1>5, ConstantTypes, ItemDoneIs DEF Hold, NextItem, qvars, tvars, lvars, Dispatcher,
       NotRunYet, OneLaunch, Unstarted, IInv, Types, QueueOK, TrailOK, DispOK, DispStates,
       Statuses, Steps
  <2> QED BY <1>5, <2>1, <2>2, <1>f DEF Hold, qvars, tvars, lvars, evars
<1>6. ASSUME NEW i \in Items, Decide(i) PROVE RunsInv'
  <2>1. OneLaunch'
    BY <1>6, ConstantTypes, ItemDoneIs DEF Decide, NextItem, lvars, Dispatcher, OneLaunch,
       IInv, Types, QueueOK, TrailOK, DispOK, DispStates, Statuses, Steps
  <2>2. NotRunYet'
    BY <1>6, ConstantTypes, ItemDoneIs DEF Decide, NextItem, lvars, Dispatcher, NotRunYet,
       OneLaunch, Unstarted, IInv, Types, QueueOK, TrailOK, DispOK, DispStates, Statuses,
       Steps
  <2> QED BY <1>6, <2>1, <2>2, <1>f DEF Decide, lvars, World
<1>7. ASSUME NEW i \in Items, Claim(i) PROVE RunsInv'
  <2>1. OneLaunch'
    <3>1. CASE status[i] = "queued"
      <4>1. /\ disp' = [disp EXCEPT !.pc = "launch"]
            /\ status' = [status EXCEPT ![i] = "dispatching"]
            /\ launch' = [launch EXCEPT ![i] = "acquire"] /\ UNCHANGED tvars
            /\ i \in disp.todo /\ disp.pc = "person"
        BY <1>7, <3>1 DEF Claim, NextItem, Dispatcher
      <4>2. disp'.pc = "launch" /\ disp'.todo = disp.todo
        BY <4>1 DEF IInv, Types, DispOK, DispStates
      <4> QED BY <4>1, <4>2, <3>1, ConstantTypes DEF tvars, OneLaunch, NotRunYet, Unstarted,
             IInv, Types, QueueOK, TrailOK
    <3>2. CASE status[i] # "queued"
      BY <1>7, <3>2, ConstantTypes, ItemDoneIs DEF Claim, tvars, NextItem, Dispatcher,
         OneLaunch, NotRunYet, IInv, Types, TrailOK
    <3> QED BY <3>1, <3>2
  <2>2. NotRunYet'
    <3>1. CASE status[i] = "queued"
      <4>1. /\ disp' = [disp EXCEPT !.pc = "launch"]
            /\ status' = [status EXCEPT ![i] = "dispatching"]
            /\ launch' = [launch EXCEPT ![i] = "acquire"] /\ UNCHANGED tvars
            /\ i \in disp.todo /\ disp.pc = "person"
        BY <1>7, <3>1 DEF Claim, NextItem, Dispatcher
      <4>2. disp'.pc = "launch" /\ disp'.todo = disp.todo
        BY <4>1 DEF IInv, Types, DispOK, DispStates
      <4> QED BY <4>1, <4>2, <3>1, ConstantTypes DEF tvars, OneLaunch, NotRunYet, Unstarted,
             IInv, Types, QueueOK, TrailOK
    <3>2. CASE status[i] # "queued"
      BY <1>7, <3>2, ConstantTypes, ItemDoneIs DEF Claim, tvars, NextItem, Dispatcher,
         OneLaunch, NotRunYet, IInv, Types, TrailOK
    <3> QED BY <3>1, <3>2
  <2> QED BY <1>7, <2>1, <2>2, <1>f DEF Claim, tvars, evars
<1>8. ASSUME NEW i \in Items, LookFails(i) PROVE RunsInv'
  <2>1. OneLaunch'
    BY <1>8, ConstantTypes, ItemDoneIs DEF LookFails, NextItem, qvars, lvars, Dispatcher,
       OneLaunch, IInv, Types, QueueOK, TrailOK, DispOK, DispStates, Statuses, Steps
  <2>2. NotRunYet'
    BY <1>8, ConstantTypes, ItemDoneIs DEF LookFails, NextItem, qvars, tvars, lvars,
       Dispatcher, NotRunYet, OneLaunch, Unstarted, IInv, Types, QueueOK, TrailOK, DispOK,
       DispStates, Statuses, Steps
  <2> QED BY <1>8, <2>1, <2>2, <1>f DEF LookFails, qvars, tvars, lvars, World
<1>9. ASSUME NEW i \in Items, DecideLaunch(i) PROVE RunsInv'
  <2>1. OneLaunch'
    BY <1>9, ConstantTypes, ItemDoneIs DEF DecideLaunch, Dispatcher, Answered, Outcome,
       OneLaunch, IInv, Types, QueueOK, TrailOK, DispOK, DispStates, Statuses, Steps
  <2>2. NotRunYet'
    BY <1>9, ConstantTypes, ItemDoneIs DEF DecideLaunch, Dispatcher, Answered, Outcome,
       tvars, NotRunYet, OneLaunch, Unstarted, IInv, Types, QueueOK, TrailOK, DispOK,
       DispStates, Statuses, Steps
  <2> QED BY <1>9, <2>1, <2>2, <1>f DEF DecideLaunch, tvars, evars
<1>10. ASSUME NEW i \in Items, DecideLaunchFails(i) PROVE RunsInv'
  <2>1. OneLaunch'
    BY <1>10, ConstantTypes, ItemDoneIs DEF DecideLaunchFails, Dispatcher, Answered, qvars,
       OneLaunch, IInv, Types, QueueOK, TrailOK, DispOK, DispStates, Statuses, Steps
  <2>2. NotRunYet'
    BY <1>10, ConstantTypes, ItemDoneIs DEF DecideLaunchFails, Dispatcher, Answered, qvars,
       tvars, NotRunYet, OneLaunch, Unstarted, IInv, Types, QueueOK, TrailOK, DispOK,
       DispStates, Statuses, Steps
  <2> QED BY <1>10, <2>1, <2>2, <1>f DEF DecideLaunchFails, qvars, tvars, World
<1>11. ASSUME NEW o \in Owners, Acquire(o) PROVE RunsInv'
  <2>1. OneLaunch'
    BY <1>11, ConstantTypes DEF Acquire, Launching, Step, qvars, Answered, OneLaunch, IInv,
       Types, QueueOK, TrailOK, DispOK, DispStates, Statuses, Steps
  <2>2. NotRunYet'
    BY <1>11, ConstantTypes DEF Acquire, Launching, Step, qvars, tvars, Answered, NotRunYet,
       OneLaunch, Unstarted, IInv, Types, QueueOK, TrailOK, DispOK, DispStates, Statuses,
       Steps
  <2> QED BY <1>11, <2>1, <2>2, <1>f DEF Acquire, Step, qvars, tvars, evars
<1>12. ASSUME NEW o \in Owners, Place(o) PROVE RunsInv'
  <2>1. OneLaunch'
    BY <1>12, ConstantTypes DEF Place, Launching, Step, SaveEnded, qvars, Answered,
       OneLaunch, IInv, Types, QueueOK, TrailOK, DispOK, DispStates, Statuses, Steps
  <2>2. NotRunYet'
    BY <1>12, ConstantTypes DEF Place, Launching, Step, SaveEnded, qvars, Answered,
       NotRunYet, OneLaunch, Unstarted, IInv, Types, QueueOK, TrailOK, DispOK, DispStates,
       Statuses, Steps
  <2> QED BY <1>12, <2>1, <2>2, <1>f DEF Place, Step, qvars, World
<1>13. ASSUME NEW o \in Owners, RefuseIfActive(o) PROVE RunsInv'
  <2>1. OneLaunch'
    BY <1>13, ConstantTypes DEF RefuseIfActive, Launching, Step, qvars, Answered, OneLaunch,
       IInv, Types, QueueOK, TrailOK, DispOK, DispStates, Statuses, Steps
  <2>2. NotRunYet'
    BY <1>13, ConstantTypes DEF RefuseIfActive, Launching, Step, qvars, tvars, Answered,
       NotRunYet, OneLaunch, Unstarted, IInv, Types, QueueOK, TrailOK, DispOK, DispStates,
       Statuses, Steps
  <2> QED BY <1>13, <2>1, <2>2, <1>f DEF RefuseIfActive, Step, qvars, tvars, evars
<1>14. ASSUME NEW o \in Owners, CreateTrail(o) PROVE RunsInv'
  <2>1. OneLaunch'
    BY <1>14, ConstantTypes DEF CreateTrail, Launching, Step, Answered, OneLaunch, IInv,
       Types, QueueOK, TrailOK, DispOK, DispStates, Statuses, Steps
  <2>2. NotRunYet'
    BY <1>14, ConstantTypes DEF CreateTrail, Launching, Step, Answered, NotRunYet,
       OneLaunch, Unstarted, IInv, Types, QueueOK, TrailOK, DispOK, DispStates, Statuses,
       Steps
  <2> QED BY <1>14, <2>1, <2>2, <1>f DEF CreateTrail, Step, evars
<1>15. ASSUME NEW o \in Owners, LaunchRefused(o) PROVE RunsInv'
  <2>1. OneLaunch'
    BY <1>15, ConstantTypes DEF LaunchRefused, Launching, SaveEnded, Step, Answered,
       OneLaunch, IInv, Types, QueueOK, TrailOK, DispOK, DispStates, Statuses, Steps
  <2>2. NotRunYet'
    BY <1>15, ConstantTypes DEF LaunchRefused, Launching, SaveEnded, Step, Answered,
       NotRunYet, OneLaunch, Unstarted, IInv, Types, QueueOK, TrailOK, DispOK, DispStates,
       Statuses, Steps
  <2> QED BY <1>15, <2>1, <2>2, <1>f DEF LaunchRefused, Step, World
<1>16. ASSUME NEW o \in Owners, StartTurn(o) PROVE RunsInv'
  <2>1. OneLaunch'
    BY <1>16, ConstantTypes DEF StartTurn, Launching, Step, qvars, Answered, OneLaunch,
       IInv, Types, QueueOK, TrailOK, DispOK, DispStates, Statuses, Steps
  <2>2. NotRunYet'
    BY <1>16, ConstantTypes DEF StartTurn, Launching, Step, qvars, Answered, NotRunYet,
       OneLaunch, Unstarted, IInv, Types, QueueOK, TrailOK, DispOK, DispStates, Statuses,
       Steps
  <2>3. OneRunPerItem'
    BY <1>16, ConstantTypes DEF StartTurn, Launching, Step, Answered, OneRunPerItem,
       NotRunYet, Unstarted, IInv, Types, QueueOK, TrailOK, DispOK, DispStates, Statuses,
       Steps
  <2> QED BY <2>1, <2>2, <2>3
<1>17. ASSUME NEW o \in Owners, PostFails(o) PROVE RunsInv'
  <2>1. OneLaunch'
    BY <1>17, ConstantTypes DEF PostFails, Launching, SaveEnded, Step, qvars, Answered,
       OneLaunch, IInv, Types, QueueOK, TrailOK, DispOK, DispStates, Statuses, Steps
  <2>2. NotRunYet'
    BY <1>17, ConstantTypes DEF PostFails, Launching, SaveEnded, Step, qvars, Answered,
       NotRunYet, OneLaunch, Unstarted, IInv, Types, QueueOK, TrailOK, DispOK, DispStates,
       Statuses, Steps
  <2> QED BY <1>17, <2>1, <2>2, <1>f DEF PostFails, Step, qvars, World
<1>18. ASSUME NEW o \in Owners, OnStarted(o) PROVE RunsInv'
  <2>1. NotRunYet'
    BY <1>18, ConstantTypes DEF OnStarted, qvars, lvars, NotRunYet, OneLaunch, Unstarted,
       IInv, Types, QueueOK, TrailOK, DispOK, DispStates, Statuses, Steps
  <2> QED BY <1>18, <2>1, <1>f DEF OnStarted, qvars, lvars, evars
<1>19. ASSUME NEW o \in Owners, OnFinished(o) PROVE RunsInv'
  <2>1. NotRunYet'
    BY <1>19, ConstantTypes DEF OnFinished, SaveEnded, qvars, lvars, NotRunYet, OneLaunch,
       Unstarted, IInv, Types, QueueOK, TrailOK, DispOK, DispStates, Statuses, Steps
  <2> QED BY <1>19, <2>1, <1>f DEF OnFinished, qvars, lvars, World
<1>20. ASSUME NEW o \in Owners, FinishFails(o) PROVE RunsInv'
  <2>1. NotRunYet'
    BY <1>20, ConstantTypes DEF FinishFails, qvars, lvars, NotRunYet, OneLaunch, Unstarted,
       IInv, Types, QueueOK, TrailOK, DispOK, DispStates, Statuses, Steps
  <2> QED BY <1>20, <2>1, <1>f DEF FinishFails, qvars, lvars, World
<1>21. ASSUME NEW o \in Owners, Stop(o) PROVE RunsInv'
  <2>1. NotRunYet'
    BY <1>21, ConstantTypes DEF Stop, SaveEnded, qvars, lvars, Active, NotRunYet, OneLaunch,
       Unstarted, IInv, Types, QueueOK, TrailOK, DispOK, DispStates, Statuses, Steps
  <2> QED BY <1>21, <2>1, <1>f DEF Stop, qvars, lvars, World
<1>22. ASSUME NEW o \in Presses, NEW by \in Pressers, Press(o, by) PROVE RunsInv'
  <2>1. OneLaunch'
    BY <1>22, ConstantTypes DEF Press, OneLaunch, IInv, Types, QueueOK, TrailOK, DispOK,
       DispStates, Statuses, Steps
  <2>2. NotRunYet'
    BY <1>22, ConstantTypes DEF Press, tvars, NotRunYet, OneLaunch, Unstarted, IInv, Types,
       QueueOK, TrailOK, DispOK, DispStates, Statuses, Steps
  <2> QED BY <1>22, <2>1, <2>2, <1>f DEF Press, tvars, evars
<1>23. ASSUME NEW i \in Items, Enqueue(i) PROVE RunsInv'
  <2>1. OneLaunch'
    BY <1>23, ConstantTypes DEF Enqueue, lvars, OneLaunch, IInv, Types, QueueOK, TrailOK,
       DispOK, DispStates, Statuses, Steps
  <2>2. NotRunYet'
    BY <1>23, ConstantTypes DEF Enqueue, lvars, NotRunYet, OneLaunch, Unstarted, IInv,
       Types, QueueOK, TrailOK, DispOK, DispStates, Statuses, Steps
  <2> QED BY <1>23, <2>1, <2>2, <1>f DEF Enqueue, lvars, World
<1>24. ASSUME NEW i \in Items, CancelQueued(i) PROVE RunsInv'
  <2>1. OneLaunch'
    BY <1>24, ConstantTypes DEF CancelQueued, lvars, OneLaunch, IInv, Types, QueueOK,
       TrailOK, DispOK, DispStates, Statuses, Steps
  <2>2. NotRunYet'
    BY <1>24, ConstantTypes DEF CancelQueued, tvars, lvars, NotRunYet, OneLaunch, Unstarted,
       IInv, Types, QueueOK, TrailOK, DispOK, DispStates, Statuses, Steps
  <2> QED BY <1>24, <2>1, <2>2, <1>f DEF CancelQueued, tvars, lvars, evars
<1>25. ASSUME NEW i \in Items, HandleAutoPlayOff(i) PROVE RunsInv'
  <2>1. OneLaunch'
    BY <1>25, ConstantTypes DEF HandleAutoPlayOff, lvars, OneLaunch, IInv, Types, QueueOK,
       TrailOK, DispOK, DispStates, Statuses, Steps
  <2>2. NotRunYet'
    BY <1>25, ConstantTypes DEF HandleAutoPlayOff, tvars, lvars, NotRunYet, OneLaunch,
       Unstarted, IInv, Types, QueueOK, TrailOK, DispOK, DispStates, Statuses, Steps
  <2> QED BY <1>25, <2>1, <2>2, <1>f DEF HandleAutoPlayOff, tvars, lvars, evars
<1>26. ASSUME Crash PROVE RunsInv'
  <2>1. OneLaunch'
    BY <1>26, ConstantTypes, AsleepIs DEF Crash, qvars, OneLaunch, IInv, Types, QueueOK,
       TrailOK, DispOK, DispStates, Statuses, Steps
  <2>2. NotRunYet'
    <3>1. /\ \A i \in Items : launch'[i] = "idle"
          /\ \A o \in Presses : launch'[o] = "idle" => launch[o] = "idle"
          /\ \A o \in Owners : launch'[o] \in {"idle", "over"} /\ turn'[o] = "none"
      BY <1>26, ConstantTypes DEF Crash
    <3>2. disp'.todo = {} /\ UNCHANGED <<status, trail, runs>>
      BY <1>26, AsleepIs DEF Crash, qvars
    <3> QED BY <3>1, <3>2 DEF NotRunYet, Unstarted, IInv
  <2> QED BY <1>26, <2>1, <2>2, <1>f DEF Crash, qvars
<1>27. ASSUME ResumeRunsAfterRestart PROVE RunsInv'
  <2>1. NotRunYet'
    BY <1>27, ConstantTypes DEF ResumeRunsAfterRestart, qvars, lvars, NotRunYet, OneLaunch,
       Unstarted, IInv, Types, QueueOK, TrailOK, DispOK, DispStates, Statuses, Steps
  <2> QED BY <1>27, <2>1, <1>f DEF ResumeRunsAfterRestart, qvars, lvars
<1>28. ASSUME NEW i \in Items, RuleChanges(i) \/ MinutePasses(i) \/ DayPasses(i) PROVE
   OneLaunch' /\ NotRunYet' /\ OneRunPerItem'
  BY <1>28, <1>f DEF RuleChanges, MinutePasses, DayPasses, evars, lvars, qvars, tvars
<1>29. ASSUME NEW t \in Targets, ResumeAutoPlays(t) PROVE OneLaunch' /\ NotRunYet' /\
   OneRunPerItem'
  BY <1>29, <1>f DEF ResumeAutoPlays, evars, lvars, tvars
<1>30. ASSUME NEW p \in People, HandleComputerChanged(p) PROVE OneLaunch' /\ NotRunYet' /\
   OneRunPerItem'
  BY <1>30, <1>f DEF HandleComputerChanged, evars, lvars, tvars
<1>31. ASSUME NEW c \in Computers, GoesOffline(c) \/ ComesBack(c) PROVE OneLaunch' /\
   NotRunYet' /\ OneRunPerItem'
  BY <1>31, <1>f DEF GoesOffline, ComesBack, lvars, qvars, tvars
<1>32. CASE HandleSlotsFreed
  BY <1>32, <1>f DEF HandleSlotsFreed, World, lvars, qvars, tvars
<1>33. CASE UNCHANGED vars
  BY <1>33, <1>f DEF vars, qvars, tvars, lvars, evars
<1> QED BY <1>1, <1>2, <1>3, <1>4, <1>5, <1>6, <1>7, <1>8, <1>9, <1>10, <1>11, <1>12, <1>13,
   <1>14, <1>15, <1>16, <1>17, <1>18, <1>19, <1>20, <1>21, <1>22, <1>23, <1>24, <1>25,
   <1>26, <1>27, <1>28, <1>29, <1>30, <1>31, <1>32, <1>33 DEF Next, Dispatch, Launch

(* At boot nothing is launched and nothing has run. *)
LEMMA InitRuns == Init => RunsInv
  BY ConstantTypes DEF Init, OneLaunch, NotRunYet, Unstarted, OneRunPerItem, Asleep

(* The inductive invariant holds in every reachable state. *)
LEMMA Inductive == Spec => []IInv
<1>1. Init => IInv
  BY InitTypes, InitRuns DEF IInv
<1>2. IInv /\ [Next]_vars => IInv'
  BY NextTypes, NextRuns DEF IInv
<1> QED BY <1>1, <1>2, PTL DEF Spec

(* Every variable keeps its type, and a launch holds its starter's turn exactly   *)
(* between taking it and creating the trail, whatever crashes and refusals come.  *)
THEOREM TypeCorrect == Spec => []TypeOK
<1>1. IInv => TypeOK
  BY DEF IInv, Types, QueueOK, TrailOK, DispOK, DispStates, WorldOK, TurnsOK, Holding, TypeOK
<1> QED BY <1>1, Inductive, PTL

(* A match starts at most one harness turn, for every interleaving of claims,     *)
(* refusals, failed writes, crashes and recoveries.                               *)
THEOREM OnceStarted == Spec => []OneRunPerItem
<1>1. IInv => OneRunPerItem
  BY DEF IInv
<1> QED BY <1>1, Inductive, PTL

-----------------------------------------------------------------------------
(* The daily cap *)

(* The runs counted on a target are finitely many. *)
LEMMA CappedFinite ==
    ASSUME Types, NEW t
    PROVE  IsFiniteSet(CappedRuns(t)) /\ Cardinality(CappedRuns(t)) \in Nat
<1>1. CappedRuns(t) \in SUBSET Items
  BY DEF CappedRuns, Types, QueueOK
<1> QED BY <1>1, ConstantsAssumption, FS_Subset, FS_CardinalityType

\* A step after which no more runs are counted, and no launch is new.
FewerRuns ==
  \A j \in Items : (j \in counted' /\ j \notin missed' /\ runs'[j] > 0) =>
    (j \in counted /\ j \notin missed /\ runs[j] > 0)

NoNewLaunch == \A j \in Items : launch'[j] \in Launches => launch[j] \in Launches

(* A step that counts no more runs raises no target's count. *)
LEMMA FewerCounted ==
    ASSUME Types, Types', FewerRuns, NEW t
    PROVE  /\ Cardinality(CappedRuns(t)') <= Cardinality(CappedRuns(t))
           /\ Cardinality(CappedRuns(t)') \in Nat /\ Cardinality(CappedRuns(t)) \in Nat
<1>1. CappedRuns(t)' \in SUBSET CappedRuns(t)
  BY DEF CappedRuns, FewerRuns, Types, QueueOK
<1>2. CappedRuns(t)' \in SUBSET Items
  BY DEF CappedRuns, Types, QueueOK
<1> QED BY <1>1, <1>2, CappedFinite, ConstantsAssumption, FS_Subset, FS_CardinalityType

(* Such a step keeps the count below the cap. *)
LEMMA CapKeeps ==
    ASSUME Types, Types', CapCount, FewerRuns, NoNewLaunch
    PROVE  CapCount'
<1>1. ASSUME NEW t PROVE /\ Cardinality(CappedRuns(t)') <= Cardinality(CappedRuns(t))
                         /\ Cardinality(CappedRuns(t)') \in Nat /\ Cardinality(CappedRuns(t)) \in Nat
  BY FewerCounted
<1>2. DailyCap \in Nat /\ \A i \in Items : ItemTarget[i] \in Targets
  BY ConstantsAssumption
<1> DEFINE C(t) == Cardinality(CappedRuns(t))
<1>3. /\ \A t : C(t)' <= C(t) /\ C(t)' \in Nat /\ C(t) \in Nat
      /\ \A t \in Targets : C(t) <= DailyCap
      /\ \A i \in Items : launch[i] \in Launches => C(ItemTarget[i]) < DailyCap
  BY <1>1 DEF CapCount
<1>4. /\ \A t \in Targets : C(t)' <= DailyCap
      /\ \A i \in Items : launch'[i] \in Launches => C(ItemTarget[i])' < DailyCap
  <2> HIDE DEF C
  <2> QED BY <1>2, <1>3 DEF NoNewLaunch
<1> QED BY <1>4 DEF CapCount

(* What the dispatcher counts before a claim holds every run that CapKept counts. *)
LEMMA BelowCap ==
    ASSUME IInv, OnRecord, NEW i \in Items, NextItem(i), MayGo(i)
    PROVE  Cardinality(CappedRuns(ItemTarget[i])) < DailyCap
<1> DEFINE A == {j \in counted : TargetOf(j) = ItemTarget[i] /\ status[j] = "started"}
<1>1. CappedRuns(ItemTarget[i]) \in SUBSET A
  BY DEF CappedRuns, NextItem, Dispatcher, OnRecord, OneLaunch, IInv, Types, QueueOK, TargetOf
<1>2. A \in SUBSET Items
  BY DEF IInv, Types, QueueOK
<1>3. IsFiniteSet(A) /\ Cardinality(A) \in Nat
  BY <1>2, ConstantsAssumption, FS_Subset, FS_CardinalityType
<1>4. Cardinality(A) < DailyCap
  BY DEF MayGo, AutoRunsToday, TargetOf
<1>5. Cardinality(CappedRuns(ItemTarget[i])) <= Cardinality(A)
  BY <1>1, <1>3, FS_Subset
<1>6. Cardinality(CappedRuns(ItemTarget[i])) \in Nat
  BY CappedFinite DEF IInv
<1> HIDE DEF A
<1> QED BY <1>3, <1>4, <1>5, <1>6, ConstantsAssumption

(* Every step keeps the cap: only a claim and a started turn need an argument. *)
LEMMA NextCap == IInv /\ IInv' /\ CapInv /\ [Next]_vars => CapInv'
<1> SUFFICES ASSUME IInv, IInv', CapInv, [Next]_vars PROVE CapInv'
  OBVIOUS
<1> USE DEF CapInv
<1> DEFINE C(t) == Cardinality(CappedRuns(t))
<1>f. /\ UNCHANGED <<launch, runs, status, disp, missed>> => OnRecord'
      /\ UNCHANGED <<counted, missed, runs, launch>> => CapCount'
  BY DEF OnRecord, OneLaunch, NotRunYet, Unstarted, IInv, Types, QueueOK, TrailOK, DispOK,
     DispStates, Statuses, Steps, CapCount, CappedRuns
<1>1. CASE RecoverDispatching
  <2>1. OnRecord'
    BY <1>1, ConstantTypes, BeginPassIs DEF RecoverDispatching, Dispatcher, tvars, lvars,
       OnRecord, OneLaunch, NotRunYet, Unstarted, IInv, Types, QueueOK, TrailOK, DispOK,
       DispStates, Statuses, Steps
  <2>2. CapCount'
    <3>1. FewerRuns
      BY <1>1, ConstantTypes DEF RecoverDispatching, Dispatcher, tvars, lvars, evars,
         FewerRuns, NotRunYet, OneLaunch, Unstarted, IInv, Types, QueueOK, TrailOK, DispOK
    <3>2. NoNewLaunch
      BY <1>1, ConstantTypes DEF RecoverDispatching, Dispatcher, tvars, lvars, evars,
         NoNewLaunch, Launches, IInv, Types, TrailOK, Steps
    <3> QED BY <3>1, <3>2, CapKeeps DEF IInv
  <2> QED BY <2>1, <2>2
<1>2. CASE PassEnds
  <2>1. OnRecord'
    BY <1>2, ConstantTypes, AsleepIs DEF PassEnds, Dispatcher, qvars, tvars, lvars,
       OnRecord, OneLaunch, NotRunYet, Unstarted, IInv, Types, QueueOK, TrailOK, DispOK,
       DispStates, Statuses, Steps
  <2> QED BY <1>2, <2>1, <1>f DEF PassEnds, qvars, tvars, lvars, evars
<1>3. CASE WaitForKick
  <2>1. OnRecord'
    BY <1>3, ConstantTypes, BeginPassIs DEF WaitForKick, Dispatcher, qvars, tvars, lvars,
       OnRecord, OneLaunch, NotRunYet, Unstarted, IInv, Types, QueueOK, TrailOK, DispOK,
       DispStates, Statuses, Steps
  <2> QED BY <1>3, <2>1, <1>f DEF WaitForKick, qvars, tvars, lvars, evars
<1>4. ASSUME NEW p \in People, DispatchPerson(p) PROVE CapInv'
  <2>1. OnRecord'
    BY <1>4 DEF DispatchPerson, Dispatcher, qvars, tvars, lvars, OnRecord
  <2> QED BY <1>4, <2>1, <1>f DEF DispatchPerson, qvars, tvars, lvars, evars
<1>5. ASSUME NEW i \in Items, Hold(i) PROVE CapInv'
  <2>1. OnRecord'
    BY <1>5, ConstantTypes, ItemDoneIs DEF Hold, NextItem, qvars, tvars, lvars, Dispatcher,
       OnRecord, OneLaunch, NotRunYet, Unstarted, IInv, Types, QueueOK, TrailOK, DispOK,
       DispStates, Statuses, Steps
  <2>2. CapCount'
    <3>1. FewerRuns
      BY <1>5, ConstantTypes DEF Hold, NextItem, qvars, tvars, lvars, evars, Dispatcher,
         FewerRuns, NotRunYet, OneLaunch, Unstarted, IInv, Types, QueueOK, TrailOK, DispOK
    <3>2. NoNewLaunch
      BY <1>5, ConstantTypes DEF Hold, NextItem, qvars, tvars, lvars, evars, Dispatcher,
         NoNewLaunch, Launches, IInv, Types, TrailOK, Steps
    <3> QED BY <3>1, <3>2, CapKeeps DEF IInv
  <2> QED BY <2>1, <2>2
<1>6. ASSUME NEW i \in Items, Decide(i) PROVE CapInv'
  <2>1. OnRecord'
    BY <1>6, ConstantTypes, ItemDoneIs DEF Decide, NextItem, lvars, Dispatcher, OnRecord,
       OneLaunch, NotRunYet, Unstarted, IInv, Types, QueueOK, TrailOK, DispOK, DispStates,
       Statuses, Steps
  <2>2. CapCount'
    <3>1. FewerRuns
      BY <1>6, ConstantTypes DEF Decide, NextItem, lvars, World, Dispatcher, FewerRuns,
         NotRunYet, OneLaunch, Unstarted, IInv, Types, QueueOK, TrailOK, DispOK
    <3>2. NoNewLaunch
      BY <1>6, ConstantTypes DEF Decide, NextItem, lvars, World, Dispatcher, NoNewLaunch,
         Launches, IInv, Types, TrailOK, Steps
    <3> QED BY <3>1, <3>2, CapKeeps DEF IInv
  <2> QED BY <2>1, <2>2
<1>7. ASSUME NEW i \in Items, Claim(i) PROVE CapInv'
  <2>1. OnRecord'
    BY <1>7, ConstantTypes, ItemDoneIs DEF Claim, NextItem, tvars, Dispatcher, OnRecord,
       OneLaunch, NotRunYet, Unstarted, IInv, Types, QueueOK, TrailOK, DispOK, DispStates,
       Statuses, Steps
  <2>2. CapCount'
    <3>1. FewerRuns
      BY <1>7 DEF Claim, NextItem, Dispatcher, tvars, FewerRuns, NotRunYet, OneLaunch, IInv
    <3>2. \A t : /\ C(t)' <= C(t) /\ C(t)' \in Nat /\ C(t) \in Nat
      BY <3>1, FewerCounted DEF IInv
    <3>3. C(ItemTarget[i]) < DailyCap
      BY <1>7, BelowCap DEF Claim, IInv
    <3>4. DailyCap \in Nat /\ \A j \in Items : ItemTarget[j] \in Targets
      BY ConstantsAssumption
    <3>5. \A j \in Items : launch'[j] \in Launches => j = i
      BY <1>7 DEF Claim, NextItem, Dispatcher, OneLaunch, Launches, IInv, Types, TrailOK
    <3>6. \A t \in Targets : C(t) <= DailyCap
      BY DEF CapCount
    <3>7. /\ \A t \in Targets : C(t)' <= DailyCap
          /\ \A j \in Items : launch'[j] \in Launches => C(ItemTarget[j])' < DailyCap
      <4> HIDE DEF C
      <4> QED BY <3>2, <3>3, <3>4, <3>5, <3>6
    <3> QED BY <3>7 DEF CapCount
  <2> QED BY <2>1, <2>2
<1>8. ASSUME NEW i \in Items, LookFails(i) PROVE CapInv'
  <2>1. OnRecord'
    BY <1>8, ConstantTypes, ItemDoneIs DEF LookFails, NextItem, qvars, tvars, lvars,
       Dispatcher, OnRecord, OneLaunch, NotRunYet, Unstarted, IInv, Types, QueueOK, TrailOK,
       DispOK, DispStates, Statuses, Steps
  <2>2. CapCount'
    <3>1. FewerRuns
      BY <1>8, ConstantTypes DEF LookFails, NextItem, qvars, tvars, lvars, World, Dispatcher,
         FewerRuns, NotRunYet, OneLaunch, Unstarted, IInv, Types, QueueOK, TrailOK, DispOK
    <3>2. NoNewLaunch
      BY <1>8, ConstantTypes DEF LookFails, NextItem, qvars, tvars, lvars, World, Dispatcher,
         NoNewLaunch, Launches, IInv, Types, TrailOK, Steps
    <3> QED BY <3>1, <3>2, CapKeeps DEF IInv
  <2> QED BY <2>1, <2>2
<1>9. ASSUME NEW i \in Items, DecideLaunch(i) PROVE CapInv'
  <2>1. OnRecord'
    BY <1>9, ConstantTypes, ItemDoneIs DEF DecideLaunch, Dispatcher, Answered, Outcome,
       tvars, OnRecord, OneLaunch, NotRunYet, Unstarted, IInv, Types, QueueOK, TrailOK,
       DispOK, DispStates, Statuses, Steps
  <2>2. CapCount'
    <3>1. FewerRuns
      BY <1>9, ConstantTypes DEF DecideLaunch, Dispatcher, Answered, Outcome, tvars, evars,
         FewerRuns, NotRunYet, OneLaunch, Unstarted, IInv, Types, QueueOK, TrailOK, DispOK
    <3>2. NoNewLaunch
      BY <1>9, ConstantTypes DEF DecideLaunch, Dispatcher, Answered, Outcome, tvars, evars,
         NoNewLaunch, Launches, IInv, Types, TrailOK, Steps
    <3> QED BY <3>1, <3>2, CapKeeps DEF IInv
  <2> QED BY <2>1, <2>2
<1>10. ASSUME NEW i \in Items, DecideLaunchFails(i) PROVE CapInv'
  <2>1. OnRecord'
    BY <1>10, ConstantTypes, ItemDoneIs DEF DecideLaunchFails, Dispatcher, Answered, qvars,
       tvars, OnRecord, OneLaunch, NotRunYet, Unstarted, IInv, Types, QueueOK, TrailOK,
       DispOK, DispStates, Statuses, Steps
  <2>2. CapCount'
    <3>1. FewerRuns
      BY <1>10, ConstantTypes DEF DecideLaunchFails, Dispatcher, qvars, tvars, World, FewerRuns,
         NotRunYet, OneLaunch, Unstarted, IInv, Types, QueueOK, TrailOK, DispOK
    <3>2. NoNewLaunch
      BY <1>10, ConstantTypes DEF DecideLaunchFails, Dispatcher, Answered, qvars, tvars, World,
         NoNewLaunch, Launches, IInv, Types, TrailOK, Steps
    <3> QED BY <3>1, <3>2, CapKeeps DEF IInv
  <2> QED BY <2>1, <2>2
<1>11. ASSUME NEW o \in Owners, Acquire(o) PROVE CapInv'
  <2>1. OnRecord'
    BY <1>11, ConstantTypes DEF Acquire, Launching, Step, qvars, tvars, Answered, OnRecord,
       OneLaunch, NotRunYet, Unstarted, IInv, Types, QueueOK, TrailOK, DispOK, DispStates,
       Statuses, Steps
  <2>2. CapCount'
    <3>1. FewerRuns
      BY <1>11, ConstantTypes DEF Acquire, Launching, qvars, tvars, evars, FewerRuns, NotRunYet,
         OneLaunch, Unstarted, IInv, Types, QueueOK, TrailOK, DispOK
    <3>2. NoNewLaunch
      BY <1>11, ConstantTypes DEF Acquire, Launching, Step, qvars, tvars, evars, Answered,
         NoNewLaunch, Launches, IInv, Types, TrailOK, Steps
    <3> QED BY <3>1, <3>2, CapKeeps DEF IInv
  <2> QED BY <2>1, <2>2
<1>12. ASSUME NEW o \in Owners, Place(o) PROVE CapInv'
  <2>1. OnRecord'
    BY <1>12, ConstantTypes DEF Place, Launching, Step, SaveEnded, qvars, Answered,
       OnRecord, OneLaunch, NotRunYet, Unstarted, IInv, Types, QueueOK, TrailOK, DispOK,
       DispStates, Statuses, Steps
  <2>2. CapCount'
    <3>1. FewerRuns
      BY <1>12, ConstantTypes DEF Place, Launching, qvars, World, FewerRuns, NotRunYet,
         OneLaunch, Unstarted, IInv, Types, QueueOK, TrailOK, DispOK
    <3>2. NoNewLaunch
      BY <1>12, ConstantTypes DEF Place, Launching, Step, qvars, World, Answered, NoNewLaunch,
         Launches, IInv, Types, TrailOK, Steps
    <3> QED BY <3>1, <3>2, CapKeeps DEF IInv
  <2> QED BY <2>1, <2>2
<1>13. ASSUME NEW o \in Owners, RefuseIfActive(o) PROVE CapInv'
  <2>1. OnRecord'
    BY <1>13, ConstantTypes DEF RefuseIfActive, Launching, Step, qvars, tvars, Answered,
       OnRecord, OneLaunch, NotRunYet, Unstarted, IInv, Types, QueueOK, TrailOK, DispOK,
       DispStates, Statuses, Steps
  <2>2. CapCount'
    <3>1. FewerRuns
      BY <1>13, ConstantTypes DEF RefuseIfActive, Launching, qvars, tvars, evars, FewerRuns,
         NotRunYet, OneLaunch, Unstarted, IInv, Types, QueueOK, TrailOK, DispOK
    <3>2. NoNewLaunch
      BY <1>13, ConstantTypes DEF RefuseIfActive, Launching, Step, qvars, tvars, evars,
         Answered, NoNewLaunch, Launches, IInv, Types, TrailOK, Steps
    <3> QED BY <3>1, <3>2, CapKeeps DEF IInv
  <2> QED BY <2>1, <2>2
<1>14. ASSUME NEW o \in Owners, CreateTrail(o) PROVE CapInv'
  <2>1. OnRecord'
    BY <1>14, ConstantTypes DEF CreateTrail, Launching, Step, Answered, OnRecord, OneLaunch,
       NotRunYet, Unstarted, IInv, Types, QueueOK, TrailOK, DispOK, DispStates, Statuses,
       Steps
  <2>2. CapCount'
    <3>1. FewerRuns
      BY <1>14, ConstantTypes DEF CreateTrail, Launching, evars, FewerRuns, NotRunYet,
         OneLaunch, Unstarted, IInv, Types, QueueOK, TrailOK, DispOK
    <3>2. NoNewLaunch
      BY <1>14, ConstantTypes DEF CreateTrail, Launching, Step, evars, Answered, NoNewLaunch,
         Launches, IInv, Types, TrailOK, Steps
    <3> QED BY <3>1, <3>2, CapKeeps DEF IInv
  <2> QED BY <2>1, <2>2
<1>15. ASSUME NEW o \in Owners, LaunchRefused(o) PROVE CapInv'
  <2>1. OnRecord'
    BY <1>15, ConstantTypes DEF LaunchRefused, Launching, SaveEnded, Step, Answered,
       OnRecord, OneLaunch, NotRunYet, Unstarted, IInv, Types, QueueOK, TrailOK, DispOK,
       DispStates, Statuses, Steps
  <2>2. CapCount'
    <3>1. FewerRuns
      BY <1>15, ConstantTypes DEF LaunchRefused, Launching, World, FewerRuns, NotRunYet,
         OneLaunch, Unstarted, IInv, Types, QueueOK, TrailOK, DispOK
    <3>2. NoNewLaunch
      BY <1>15, ConstantTypes DEF LaunchRefused, Launching, Step, World, Answered, NoNewLaunch,
         Launches, IInv, Types, TrailOK, Steps
    <3> QED BY <3>1, <3>2, CapKeeps DEF IInv
  <2> QED BY <2>1, <2>2
<1>16. ASSUME NEW o \in Owners, StartTurn(o) PROVE CapInv'
  <2>1. OnRecord'
    BY <1>16, ConstantTypes DEF StartTurn, Launching, Step, qvars, Answered, OnRecord,
       OneLaunch, NotRunYet, Unstarted, IInv, Types, QueueOK, TrailOK, DispOK, DispStates,
       Statuses, Steps
  <2>2. CapCount'
    <3>1. CASE o \in Presses
      <4>1. FewerRuns /\ NoNewLaunch
        BY <1>16, <3>1, ConstantTypes DEF StartTurn, qvars, Step, FewerRuns, NoNewLaunch,
           IInv, Types, TrailOK
      <4> QED BY <4>1, CapKeeps DEF IInv
    <3>2. CASE o \in Items
      <4>1. \A j \in Items : launch'[j] \notin Launches
        BY <1>16, <3>2, ConstantTypes DEF StartTurn, Launching, Step, OneLaunch, Launches,
           IInv, Types, TrailOK
      <4>2. C(ItemTarget[o]) < DailyCap /\ ItemTarget[o] \in Targets
        BY <1>16, <3>2, ConstantTypes DEF StartTurn, Launching, CapCount, Launches
      <4>3. DailyCap \in Nat
        BY ConstantsAssumption
      <4>4. ASSUME NEW t \in Targets PROVE C(t)' <= DailyCap
        <5>1. CappedRuns(t)' \in SUBSET (IF t = ItemTarget[o] THEN CappedRuns(t) \cup {o} ELSE CappedRuns(t))
          BY <1>16, <3>2 DEF StartTurn, qvars, CappedRuns, IInv, Types, TrailOK, QueueOK
        <5>2. IsFiniteSet(CappedRuns(t)) /\ C(t) \in Nat /\ C(t) <= DailyCap
          BY CappedFinite DEF IInv, CapCount
        <5>3. CASE t = ItemTarget[o]
          <6>1. /\ IsFiniteSet(CappedRuns(t) \cup {o})
                /\ Cardinality(CappedRuns(t) \cup {o}) <= C(t) + 1
                /\ Cardinality(CappedRuns(t) \cup {o}) \in Nat
            <7>1. /\ IsFiniteSet(CappedRuns(t) \cup {o})
                  /\ Cardinality(CappedRuns(t) \cup {o}) = IF o \in CappedRuns(t) THEN C(t) ELSE C(t) + 1
              BY <5>2, FS_AddElement
            <7> HIDE DEF C
            <7> QED BY <7>1, <5>2
          <6>2. C(t)' <= Cardinality(CappedRuns(t) \cup {o}) /\ C(t)' \in Nat
            BY <5>1, <5>3, <6>1, FS_Subset, FS_CardinalityType
          <6> HIDE DEF C
          <6> QED BY <6>1, <6>2, <5>2, <5>3, <4>2, <4>3
        <5>4. CASE t # ItemTarget[o]
          <6>1. C(t)' <= C(t) /\ C(t)' \in Nat
            BY <5>1, <5>2, <5>4, FS_Subset, FS_CardinalityType
          <6> HIDE DEF C
          <6> QED BY <6>1, <5>2, <4>3
        <5> QED BY <5>3, <5>4
      <4> QED BY <4>1, <4>4 DEF CapCount
    <3> QED BY <3>1, <3>2 DEF Owners
  <2> QED BY <2>1, <2>2
<1>17. ASSUME NEW o \in Owners, PostFails(o) PROVE CapInv'
  <2>1. OnRecord'
    BY <1>17, ConstantTypes DEF PostFails, Launching, SaveEnded, Step, qvars, Answered,
       OnRecord, OneLaunch, NotRunYet, Unstarted, IInv, Types, QueueOK, TrailOK, DispOK,
       DispStates, Statuses, Steps
  <2>2. CapCount'
    <3>1. FewerRuns
      BY <1>17, ConstantTypes DEF PostFails, Launching, qvars, World, FewerRuns, NotRunYet,
         OneLaunch, Unstarted, IInv, Types, QueueOK, TrailOK, DispOK
    <3>2. NoNewLaunch
      BY <1>17, ConstantTypes DEF PostFails, Launching, Step, qvars, World, Answered,
         NoNewLaunch, Launches, IInv, Types, TrailOK, Steps
    <3> QED BY <3>1, <3>2, CapKeeps DEF IInv
  <2> QED BY <2>1, <2>2
<1>18. ASSUME NEW o \in Presses, NEW by \in Pressers, Press(o, by) PROVE CapInv'
  <2>1. OnRecord'
    BY <1>18, ConstantTypes DEF Press, tvars, OnRecord, OneLaunch, NotRunYet, Unstarted,
       IInv, Types, QueueOK, TrailOK, DispOK, DispStates, Statuses, Steps
  <2>2. CapCount'
    <3>1. FewerRuns
      BY <1>18, ConstantTypes DEF Press, tvars, evars, FewerRuns, NotRunYet, OneLaunch,
         Unstarted, IInv, Types, QueueOK, TrailOK, DispOK
    <3>2. NoNewLaunch
      BY <1>18, ConstantTypes DEF Press, tvars, evars, NoNewLaunch, Launches, IInv, Types,
         TrailOK, Steps
    <3> QED BY <3>1, <3>2, CapKeeps DEF IInv
  <2> QED BY <2>1, <2>2
<1>19. ASSUME NEW i \in Items, Enqueue(i) PROVE CapInv'
  <2>1. OnRecord'
    BY <1>19, ConstantTypes DEF Enqueue, lvars, OnRecord, OneLaunch, NotRunYet, Unstarted,
       IInv, Types, QueueOK, TrailOK, DispOK, DispStates, Statuses, Steps
  <2> QED BY <1>19, <2>1, <1>f DEF Enqueue, lvars, World
<1>20. ASSUME NEW i \in Items, CancelQueued(i) PROVE CapInv'
  <2>1. OnRecord'
    BY <1>20, ConstantTypes DEF CancelQueued, tvars, lvars, OnRecord, OneLaunch, NotRunYet,
       Unstarted, IInv, Types, QueueOK, TrailOK, DispOK, DispStates, Statuses, Steps
  <2> QED BY <1>20, <2>1, <1>f DEF CancelQueued, tvars, lvars, evars
<1>21. ASSUME NEW i \in Items, HandleAutoPlayOff(i) PROVE CapInv'
  <2>1. OnRecord'
    BY <1>21, ConstantTypes DEF HandleAutoPlayOff, tvars, lvars, OnRecord, OneLaunch,
       NotRunYet, Unstarted, IInv, Types, QueueOK, TrailOK, DispOK, DispStates, Statuses,
       Steps
  <2> QED BY <1>21, <2>1, <1>f DEF HandleAutoPlayOff, tvars, lvars, evars
<1>22. ASSUME NEW i \in Items, DayPasses(i) PROVE CapInv'
  <2>1. CapCount'
    <3>1. FewerRuns
      BY <1>22, ConstantTypes DEF DayPasses, tvars, lvars, evars, FewerRuns, NotRunYet,
         OneLaunch, Unstarted, IInv, Types, QueueOK, TrailOK, DispOK
    <3>2. NoNewLaunch
      BY <1>22, ConstantTypes DEF DayPasses, tvars, lvars, evars, NoNewLaunch, Launches, IInv,
         Types, TrailOK, Steps
    <3> QED BY <3>1, <3>2, CapKeeps DEF IInv
  <2> QED BY <1>22, <2>1, <1>f DEF DayPasses, tvars, lvars, evars
<1>23. ASSUME NEW t \in Targets, ResumeAutoPlays(t) PROVE CapInv'
  <2>1. CapCount'
    <3>1. FewerRuns
      BY <1>23, ConstantTypes DEF ResumeAutoPlays, tvars, lvars, evars, FewerRuns, NotRunYet,
         OneLaunch, Unstarted, IInv, Types, QueueOK, TrailOK, DispOK
    <3>2. NoNewLaunch
      BY <1>23, ConstantTypes DEF ResumeAutoPlays, tvars, lvars, evars, NoNewLaunch, Launches,
         IInv, Types, TrailOK, Steps
    <3> QED BY <3>1, <3>2, CapKeeps DEF IInv
  <2> QED BY <1>23, <2>1, <1>f DEF ResumeAutoPlays, tvars, lvars, evars
<1>24. CASE Crash
  <2>1. OnRecord'
    BY <1>24, ConstantTypes, AsleepIs DEF Crash, qvars, OnRecord, OneLaunch, NotRunYet,
       Unstarted, IInv, Types, QueueOK, TrailOK, DispOK, DispStates, Statuses, Steps
  <2>2. CapCount'
    <3>1. FewerRuns
      BY <1>24, ConstantTypes DEF Crash, qvars, FewerRuns, NotRunYet, OneLaunch, Unstarted,
         IInv, Types, QueueOK, TrailOK, DispOK
    <3>2. NoNewLaunch
      BY <1>24, ConstantTypes DEF Crash, qvars, NoNewLaunch, Launches, IInv, Types, TrailOK,
         Steps
    <3> QED BY <3>1, <3>2, CapKeeps DEF IInv
  <2> QED BY <2>1, <2>2
<1>25. ASSUME NEW o \in Owners, OnStarted(o) \/ OnFinished(o) \/ FinishFails(o) \/ Stop(o)
   PROVE CapInv'
  BY <1>25, <1>f DEF OnStarted, OnFinished, FinishFails, Stop, World, evars, lvars, qvars
<1>26. ASSUME NEW i \in Items, RuleChanges(i) \/ MinutePasses(i) PROVE CapInv'
  BY <1>26, <1>f DEF RuleChanges, MinutePasses, evars, lvars, qvars, tvars
<1>27. ASSUME NEW p \in People, HandleComputerChanged(p) PROVE CapInv'
  BY <1>27, <1>f DEF HandleComputerChanged, evars, lvars, tvars
<1>28. ASSUME NEW c \in Computers, GoesOffline(c) \/ ComesBack(c) PROVE CapInv'
  BY <1>28, <1>f DEF GoesOffline, ComesBack, lvars, qvars, tvars
<1>29. CASE HandleSlotsFreed \/ ResumeRunsAfterRestart
  BY <1>29, <1>f DEF HandleSlotsFreed, ResumeRunsAfterRestart, World, lvars, qvars, tvars
<1>30. CASE UNCHANGED vars
  BY <1>30, <1>f DEF vars, qvars, tvars, lvars, evars
<1> QED BY <1>1, <1>2, <1>3, <1>4, <1>5, <1>6, <1>7, <1>8, <1>9, <1>10, <1>11, <1>12, <1>13,
   <1>14, <1>15, <1>16, <1>17, <1>18, <1>19, <1>20, <1>21, <1>22, <1>23, <1>24, <1>25,
   <1>26, <1>27, <1>28, <1>29, <1>30 DEF Next, Dispatch, Launch

(* The cap holds through crashes: a target never has more automatic runs within    *)
(* its day than the cap, however claims, failed starts and restarts interleave.    *)
THEOREM CapHolds == Spec => []CapKept
<1>1. Init => CapInv
  <2>1. Init => \A t : CappedRuns(t) = {}
    BY DEF Init, CappedRuns
  <2>2. Init => OnRecord
    BY ConstantTypes DEF Init, OnRecord
  <2>3. DailyCap \in Nat
    BY ConstantsAssumption
  <2>4. Init => \A t : Cardinality(CappedRuns(t)) = 0
    BY <2>1, FS_EmptySet
  <2>5. Init => CapCount
    BY <2>3, <2>4, ConstantTypes DEF CapCount, Init, Launches
  <2> QED BY <2>2, <2>5 DEF CapInv
<1>2. IInv /\ CapInv => CapKept
  <2> SUFFICES ASSUME IInv, CapInv, NEW t \in Targets
               PROVE  Cardinality({i \in counted \ missed : TargetOf(i) = t /\ runs[i] > 0}) <= DailyCap
    BY DEF CapKept
  <2>1. {i \in counted \ missed : TargetOf(i) = t /\ runs[i] > 0} = CappedRuns(t)
    BY DEF CappedRuns, TargetOf, IInv, Types, QueueOK
  <2> QED BY <2>1 DEF CapInv, CapCount
<1> QED BY <1>1, <1>2, NextCap, Inductive, PTL DEF Spec

-----------------------------------------------------------------------------
(* The starter's room *)

(* A person's runs are finitely many. *)
LEMMA RunsFinite == ASSUME NEW S \in SUBSET Owners PROVE IsFiniteSet(S) /\ Cardinality(S) \in Nat
<1>1. IsFiniteSet(Owners)
  BY ConstantsAssumption, FS_Union DEF Owners
<1> QED BY <1>1, FS_Subset, FS_CardinalityType

\* A step after which no item has found room that it had not, and none of the
\* starters of the launches that found room has a run more.
NoMoreBeside ==
  \A i \in Items : launch'[i] \in {"clear", "create"} =>
    /\ launch[i] \in {"clear", "create"}
    /\ \A q \in Owners : (PersonOf(q)' = ItemPerson[i] /\ Active(q)' /\ q \notin closed') =>
         (PersonOf(q) = ItemPerson[i] /\ Active(q) /\ q \notin closed)

(* Such a step keeps the room that was found. *)
LEMMA RoomKeeps == RoomLeft /\ NoMoreBeside => RoomLeft'
<1> SUFFICES ASSUME RoomLeft, NoMoreBeside, NEW i \in Items, launch'[i] \in {"clear", "create"}
             PROVE  Cardinality(RunsOf(ItemPerson[i])') < Room
  BY DEF RoomLeft
<1> DEFINE S == RunsOf(ItemPerson[i])
<1>1. S' \in SUBSET S /\ S \in SUBSET Owners /\ S' \in SUBSET Owners
  BY DEF NoMoreBeside, RunsOf
<1>2. Cardinality(S) < Room
  BY DEF RoomLeft, NoMoreBeside
<1>3. Cardinality(S') <= Cardinality(S) /\ Cardinality(S') \in Nat /\ Cardinality(S) \in Nat
  BY <1>1, RunsFinite, FS_Subset
<1> HIDE DEF S
<1>4. Cardinality(S') < Room
  BY <1>2, <1>3, ConstantsAssumption
<1> QED BY <1>4 DEF S

(* Every step keeps the room that was found. *)
LEMMA NextRoom == IInv /\ IInv' /\ RoomInv /\ [Next]_vars => RoomInv'
<1> SUFFICES ASSUME IInv, IInv', RoomInv, [Next]_vars PROVE RoomInv'
  OBVIOUS
<1> USE DEF RoomInv
<1>f. /\ UNCHANGED <<up, disp, launch, turn>> => DownInv'
      /\ UNCHANGED <<turn, launch, trail, closed>> => OpenInv'
      /\ UNCHANGED <<launch, trail, closed, pressed>> => RoomLeft'
  BY DEF DownInv, OneLaunch, IInv, Types, TrailOK, OpenInv, Active, NotRunYet, Unstarted,
     DispOK, RoomLeft, RunsOf, PersonOf
<1>1. CASE RecoverDispatching
  <2>1. DownInv'
    BY <1>1, ConstantTypes, BeginPassIs DEF RecoverDispatching, Dispatcher, tvars, lvars,
       evars, DownInv, OneLaunch, IInv, Types, TrailOK
  <2> QED BY <1>1, <2>1, <1>f DEF RecoverDispatching, tvars, lvars, evars
<1>2. CASE PassEnds
  <2>1. DownInv'
    BY <1>2, ConstantTypes, AsleepIs DEF PassEnds, Dispatcher, tvars, lvars, evars, DownInv,
       OneLaunch, IInv, Types, TrailOK
  <2> QED BY <1>2, <2>1, <1>f DEF PassEnds, qvars, tvars, lvars, evars
<1>3. CASE WaitForKick
  <2>1. DownInv'
    BY <1>3, ConstantTypes, BeginPassIs DEF WaitForKick, Dispatcher, tvars, lvars, evars,
       DownInv, OneLaunch, IInv, Types, TrailOK
  <2> QED BY <1>3, <2>1, <1>f DEF WaitForKick, qvars, tvars, lvars, evars
<1>4. ASSUME NEW p \in People, DispatchPerson(p) PROVE RoomInv'
  <2>1. DownInv'
    BY <1>4, ConstantTypes DEF DispatchPerson, Dispatcher, tvars, lvars, evars, Due,
       DownInv, OneLaunch, IInv, Types, TrailOK
  <2> QED BY <1>4, <2>1, <1>f DEF DispatchPerson, qvars, tvars, lvars, evars
<1>5. ASSUME NEW i \in Items, Hold(i) PROVE RoomInv'
  <2>1. DownInv'
    BY <1>5, ConstantTypes, ItemDoneIs DEF Hold, NextItem, tvars, lvars, evars, Dispatcher,
       DownInv, OneLaunch, IInv, Types, TrailOK
  <2> QED BY <1>5, <2>1, <1>f DEF Hold, qvars, tvars, lvars, evars
<1>6. ASSUME NEW i \in Items, Decide(i) PROVE RoomInv'
  <2>1. DownInv'
    BY <1>6, ConstantTypes, ItemDoneIs DEF Decide, NextItem, lvars, World, Dispatcher,
       DownInv, OneLaunch, IInv, Types, TrailOK
  <2>2. OpenInv'
    BY <1>6, ConstantTypes, ItemDoneIs DEF Decide, NextItem, lvars, Dispatcher, OpenInv,
       Active, OneLaunch, NotRunYet, Unstarted, DownInv, IInv, Types, TrailOK, DispOK
  <2>3. RoomLeft'
    <3>1. NoMoreBeside
      BY <1>6, ConstantTypes DEF Decide, NextItem, lvars, World, Dispatcher, NoMoreBeside,
         PersonOf, Active, NotRunYet, OneLaunch, Unstarted, IInv, Types, TrailOK, Steps
    <3> QED BY <3>1, RoomKeeps
  <2> QED BY <2>1, <2>2, <2>3
<1>7. ASSUME NEW i \in Items, Claim(i) PROVE RoomInv'
  <2>1. DownInv'
    BY <1>7, ConstantTypes, ItemDoneIs DEF Claim, NextItem, tvars, evars, Dispatcher,
       DownInv, OneLaunch, IInv, Types, TrailOK
  <2>2. OpenInv'
    BY <1>7, ConstantTypes, ItemDoneIs DEF Claim, NextItem, tvars, Dispatcher, OpenInv,
       Active, OneLaunch, NotRunYet, Unstarted, DownInv, IInv, Types, TrailOK, DispOK
  <2>3. RoomLeft'
    <3>1. NoMoreBeside
      BY <1>7, ConstantTypes DEF Claim, NextItem, tvars, evars, Dispatcher, NoMoreBeside,
         PersonOf, Active, NotRunYet, OneLaunch, Unstarted, IInv, Types, TrailOK, Steps
    <3> QED BY <3>1, RoomKeeps
  <2> QED BY <2>1, <2>2, <2>3
<1>8. ASSUME NEW i \in Items, LookFails(i) PROVE RoomInv'
  <2>1. DownInv'
    BY <1>8, ConstantTypes, ItemDoneIs DEF LookFails, NextItem, tvars, lvars, World,
       Dispatcher, DownInv, OneLaunch, IInv, Types, TrailOK
  <2> QED BY <1>8, <2>1, <1>f DEF LookFails, qvars, tvars, lvars, World
<1>9. ASSUME NEW i \in Items, DecideLaunch(i) PROVE RoomInv'
  <2>1. DownInv'
    BY <1>9, ConstantTypes, ItemDoneIs DEF DecideLaunch, Dispatcher, Answered, Outcome,
       tvars, evars, DownInv, OneLaunch, IInv, Types, TrailOK
  <2>2. OpenInv'
    BY <1>9, ConstantTypes, ItemDoneIs DEF DecideLaunch, Dispatcher, Answered, Outcome,
       tvars, OpenInv, Active, OneLaunch, NotRunYet, Unstarted, DownInv, IInv, Types,
       TrailOK, DispOK
  <2>3. RoomLeft'
    <3>1. NoMoreBeside
      BY <1>9, ConstantTypes DEF DecideLaunch, Dispatcher, Answered, Outcome, tvars, evars,
         NoMoreBeside, PersonOf, Active, NotRunYet, OneLaunch, Unstarted, IInv, Types,
         TrailOK, Steps
    <3> QED BY <3>1, RoomKeeps
  <2> QED BY <2>1, <2>2, <2>3
<1>10. ASSUME NEW i \in Items, DecideLaunchFails(i) PROVE RoomInv'
  <2>1. DownInv'
    BY <1>10, ConstantTypes, ItemDoneIs DEF DecideLaunchFails, Dispatcher, Answered, tvars,
       World, DownInv, OneLaunch, IInv, Types, TrailOK
  <2>2. OpenInv'
    BY <1>10, ConstantTypes, ItemDoneIs DEF DecideLaunchFails, Dispatcher, Answered, tvars,
       OpenInv, Active, OneLaunch, NotRunYet, Unstarted, DownInv, IInv, Types, TrailOK,
       DispOK
  <2>3. RoomLeft'
    <3>1. NoMoreBeside
      BY <1>10, ConstantTypes DEF DecideLaunchFails, Dispatcher, Answered, qvars, tvars, World,
         NoMoreBeside, PersonOf, Active, NotRunYet, OneLaunch, Unstarted, IInv, Types,
         TrailOK, Steps
    <3> QED BY <3>1, RoomKeeps
  <2> QED BY <2>1, <2>2, <2>3
<1>11. ASSUME NEW o \in Owners, Acquire(o) PROVE RoomInv'
  <2>1. DownInv'
    BY <1>11, ConstantTypes DEF Acquire, Launching, Step, tvars, evars, Answered, DownInv,
       OneLaunch, IInv, Types, TrailOK
  <2>2. OpenInv'
    BY <1>11, ConstantTypes DEF Acquire, Launching, Step, tvars, Answered, OpenInv, Active,
       OneLaunch, NotRunYet, Unstarted, DownInv, IInv, Types, TrailOK, DispOK
  <2>3. RoomLeft'
    <3>1. NoMoreBeside
      BY <1>11, ConstantTypes DEF Acquire, Launching, Step, qvars, tvars, evars, Answered,
         NoMoreBeside, PersonOf, Active, NotRunYet, OneLaunch, Unstarted, IInv, Types,
         TrailOK, Steps
    <3> QED BY <3>1, RoomKeeps
  <2> QED BY <2>1, <2>2, <2>3
<1>12. ASSUME NEW o \in Owners, Place(o) PROVE RoomInv'
  <2>1. DownInv'
    BY <1>12, ConstantTypes DEF Place, Launching, Step, SaveEnded, World, Answered, DownInv,
       OneLaunch, IInv, Types, TrailOK
  <2>2. OpenInv'
    BY <1>12, ConstantTypes DEF Place, Launching, Step, SaveEnded, Answered, OpenInv,
       Active, OneLaunch, NotRunYet, Unstarted, DownInv, IInv, Types, TrailOK, DispOK
  <2>3. RoomLeft'
    <3> DEFINE c == ComputerOf[PersonOf(o)]
    <3>1. UNCHANGED <<closed, pressed>>
      BY <1>12 DEF Place, Step
    <3>2. CASE o \in Items /\ c \notin offline /\ ~(Running(c) >= Room)
      <4>1. launch' = [launch EXCEPT ![o] = "clear"] /\ UNCHANGED trail
        BY <1>12, <3>2, ConstantTypes DEF Place, Step, Answered
      <4>2. ASSUME NEW i \in Items, launch'[i] \in {"clear", "create"}
            PROVE  Cardinality(RunsOf(ItemPerson[i])') < Room
        <5>1. RunsOf(ItemPerson[i])' = RunsOf(ItemPerson[i])
          BY <3>1, <4>1 DEF RunsOf, PersonOf, Active
        <5>2. CASE i # o
          BY <5>1, <5>2, <4>1, <4>2, ConstantTypes DEF RoomLeft, IInv, Types, TrailOK
        <5>3. CASE i = o
          <6> DEFINE S == RunsOf(ItemPerson[o])
                     R == {q \in Owners : ComputerOf[PersonOf(q)] = c /\ Active(q)}
          <6>1. S \in SUBSET R /\ R \in SUBSET Owners
            BY <3>2 DEF RunsOf, PersonOf
          <6>2. Cardinality(S) <= Cardinality(R) /\ Cardinality(S) \in Nat /\ Cardinality(R) \in Nat
            BY <6>1, RunsFinite, FS_Subset
          <6>3. ~(Cardinality(R) >= Room)
            BY <3>2 DEF Running
          <6>4. Cardinality(S) < Room
            <7> HIDE DEF R, S
            <7> QED BY <6>2, <6>3, ConstantsAssumption
          <6> QED BY <5>1, <5>3, <6>4
        <5> QED BY <5>2, <5>3
      <4> QED BY <4>2 DEF RoomLeft
    <3>3. CASE ~(o \in Items /\ c \notin offline /\ ~(Running(c) >= Room))
      <4>1. \A i \in Items : launch'[i] \in {"clear", "create"} => launch[i] = launch'[i]
        BY <1>12, <3>3, ConstantTypes DEF Place, Step, Answered, IInv, Types, TrailOK
      <4>2. \A q \in Owners : Active(q)' => Active(q)
        BY <1>12 DEF Place, SaveEnded, Active, IInv, Types, TrailOK
      <4>3. NoMoreBeside
        BY <3>1, <4>1, <4>2 DEF NoMoreBeside, PersonOf
      <4> QED BY <4>3, RoomKeeps
    <3> QED BY <3>2, <3>3
  <2> QED BY <2>1, <2>2, <2>3
<1>13. ASSUME NEW o \in Owners, RefuseIfActive(o) PROVE RoomInv'
  <2>1. DownInv'
    BY <1>13, ConstantTypes DEF RefuseIfActive, Launching, Step, tvars, evars, Answered,
       DownInv, OneLaunch, IInv, Types, TrailOK
  <2>2. OpenInv'
    BY <1>13, ConstantTypes DEF RefuseIfActive, Launching, Step, tvars, Answered, OpenInv,
       Active, OneLaunch, NotRunYet, Unstarted, DownInv, IInv, Types, TrailOK, DispOK
  <2>3. RoomLeft'
    <3>1. NoMoreBeside
      BY <1>13, ConstantTypes DEF RefuseIfActive, Launching, Step, qvars, tvars, evars,
         Answered, NoMoreBeside, PersonOf, Active, NotRunYet, OneLaunch, Unstarted, IInv,
         Types, TrailOK, Steps
    <3> QED BY <3>1, RoomKeeps
  <2> QED BY <2>1, <2>2, <2>3
<1>14. ASSUME NEW o \in Owners, CreateTrail(o) PROVE RoomInv'
  <2>1. DownInv'
    BY <1>14, ConstantTypes DEF CreateTrail, Launching, Step, evars, Answered, DownInv,
       OneLaunch, IInv, Types, TrailOK
  <2>2. OpenInv'
    BY <1>14, ConstantTypes DEF CreateTrail, Launching, Step, Answered, OpenInv, Active,
       OneLaunch, NotRunYet, Unstarted, DownInv, IInv, Types, TrailOK, DispOK
  <2>3. RoomLeft'
    <3>1. NoMoreBeside
      BY <1>14, ConstantTypes DEF CreateTrail, Launching, Step, evars, Answered, NoMoreBeside,
         PersonOf, Active, NotRunYet, OneLaunch, Unstarted, IInv, Types, TrailOK, Steps,
         TurnsOK, Holding
    <3> QED BY <3>1, RoomKeeps
  <2> QED BY <2>1, <2>2, <2>3
<1>15. ASSUME NEW o \in Owners, LaunchRefused(o) PROVE RoomInv'
  <2>1. DownInv'
    BY <1>15, ConstantTypes DEF LaunchRefused, Launching, SaveEnded, Step, World, Answered,
       DownInv, OneLaunch, IInv, Types, TrailOK
  <2>2. OpenInv'
    BY <1>15, ConstantTypes DEF LaunchRefused, Launching, SaveEnded, Step, Answered,
       OpenInv, Active, OneLaunch, NotRunYet, Unstarted, DownInv, IInv, Types, TrailOK,
       DispOK
  <2>3. RoomLeft'
    <3>1. NoMoreBeside
      BY <1>15, ConstantTypes DEF LaunchRefused, Launching, SaveEnded, Step, World, Answered,
         NoMoreBeside, PersonOf, Active, NotRunYet, OneLaunch, Unstarted, IInv, Types,
         TrailOK, Steps
    <3> QED BY <3>1, RoomKeeps
  <2> QED BY <2>1, <2>2, <2>3
<1>16. ASSUME NEW o \in Owners, StartTurn(o) PROVE RoomInv'
  <2>1. DownInv'
    BY <1>16, ConstantTypes DEF StartTurn, Launching, Step, evars, Answered, DownInv,
       OneLaunch, IInv, Types, TrailOK
  <2>2. OpenInv'
    BY <1>16, ConstantTypes DEF StartTurn, Launching, Step, Answered, OpenInv, Active,
       OneLaunch, NotRunYet, Unstarted, DownInv, IInv, Types, TrailOK, DispOK
  <2>3. RoomLeft'
    <3>1. NoMoreBeside
      BY <1>16, ConstantTypes DEF StartTurn, Launching, Step, qvars, evars, Answered,
         NoMoreBeside, PersonOf, Active, NotRunYet, OneLaunch, Unstarted, IInv, Types,
         TrailOK, Steps
    <3> QED BY <3>1, RoomKeeps
  <2> QED BY <2>1, <2>2, <2>3
<1>17. ASSUME NEW o \in Owners, PostFails(o) PROVE RoomInv'
  <2>1. DownInv'
    BY <1>17, ConstantTypes DEF PostFails, Launching, SaveEnded, Step, World, Answered,
       DownInv, OneLaunch, IInv, Types, TrailOK
  <2>2. OpenInv'
    BY <1>17, ConstantTypes DEF PostFails, Launching, SaveEnded, Step, Answered, OpenInv,
       Active, OneLaunch, NotRunYet, Unstarted, DownInv, IInv, Types, TrailOK, DispOK
  <2>3. RoomLeft'
    <3>1. NoMoreBeside
      BY <1>17, ConstantTypes DEF PostFails, Launching, SaveEnded, Step, qvars, World, Answered,
         NoMoreBeside, PersonOf, Active, NotRunYet, OneLaunch, Unstarted, IInv, Types,
         TrailOK, Steps
    <3> QED BY <3>1, RoomKeeps
  <2> QED BY <2>1, <2>2, <2>3
<1>18. ASSUME NEW o \in Owners, OnStarted(o) PROVE RoomInv'
  <2>1. DownInv'
    BY <1>18, ConstantTypes DEF OnStarted, lvars, evars, DownInv, OneLaunch, IInv, Types,
       TrailOK
  <2>2. OpenInv'
    BY <1>18, ConstantTypes DEF OnStarted, lvars, OpenInv, Active, OneLaunch, NotRunYet,
       Unstarted, DownInv, IInv, Types, TrailOK, DispOK
  <2>3. RoomLeft'
    <3>1. NoMoreBeside
      BY <1>18, ConstantTypes DEF OnStarted, qvars, lvars, evars, NoMoreBeside, PersonOf,
         Active, NotRunYet, OneLaunch, Unstarted, IInv, Types, TrailOK, Steps, OpenInv
    <3> QED BY <3>1, RoomKeeps
  <2> QED BY <2>1, <2>2, <2>3
<1>19. ASSUME NEW o \in Owners, OnFinished(o) PROVE RoomInv'
  <2>1. DownInv'
    BY <1>19, ConstantTypes DEF OnFinished, SaveEnded, lvars, World, DownInv, OneLaunch,
       IInv, Types, TrailOK
  <2>2. OpenInv'
    BY <1>19, ConstantTypes DEF OnFinished, SaveEnded, lvars, OpenInv, Active, OneLaunch,
       NotRunYet, Unstarted, DownInv, IInv, Types, TrailOK, DispOK
  <2>3. RoomLeft'
    <3>1. NoMoreBeside
      BY <1>19, ConstantTypes DEF OnFinished, SaveEnded, qvars, lvars, World, NoMoreBeside,
         PersonOf, Active, NotRunYet, OneLaunch, Unstarted, IInv, Types, TrailOK, Steps
    <3> QED BY <3>1, RoomKeeps
  <2> QED BY <2>1, <2>2, <2>3
<1>20. ASSUME NEW o \in Owners, FinishFails(o) PROVE RoomInv'
  <2>1. DownInv'
    BY <1>20, ConstantTypes DEF FinishFails, lvars, World, DownInv, OneLaunch, IInv, Types,
       TrailOK
  <2>2. OpenInv'
    BY <1>20, ConstantTypes DEF FinishFails, lvars, OpenInv, Active, OneLaunch, NotRunYet,
       Unstarted, DownInv, IInv, Types, TrailOK, DispOK
  <2> QED BY <1>20, <2>1, <2>2, <1>f DEF FinishFails, qvars, lvars, World
<1>21. ASSUME NEW o \in Owners, Stop(o) PROVE RoomInv'
  <2>1. OpenInv'
    BY <1>21, ConstantTypes DEF Stop, SaveEnded, lvars, Active, OpenInv, OneLaunch,
       NotRunYet, Unstarted, DownInv, IInv, Types, TrailOK, DispOK
  <2>2. RoomLeft'
    <3>1. NoMoreBeside
      BY <1>21, ConstantTypes DEF Stop, SaveEnded, qvars, lvars, World, NoMoreBeside, PersonOf,
         Active, NotRunYet, OneLaunch, Unstarted, IInv, Types, TrailOK, Steps
    <3> QED BY <3>1, RoomKeeps
  <2> QED BY <1>21, <2>1, <2>2, <1>f DEF Stop, qvars, lvars, World
<1>22. ASSUME NEW o \in Presses, NEW by \in Pressers, Press(o, by) PROVE RoomInv'
  <2>1. DownInv'
    BY <1>22, ConstantTypes DEF Press, tvars, evars, DownInv, OneLaunch, IInv, Types,
       TrailOK
  <2>2. OpenInv'
    BY <1>22, ConstantTypes DEF Press, tvars, OpenInv, Active, OneLaunch, NotRunYet,
       Unstarted, DownInv, IInv, Types, TrailOK, DispOK
  <2>3. RoomLeft'
    <3>1. NoMoreBeside
      BY <1>22, ConstantTypes DEF Press, tvars, evars, NoMoreBeside, PersonOf, Active,
         NotRunYet, OneLaunch, Unstarted, IInv, Types, TrailOK, Steps
    <3> QED BY <3>1, RoomKeeps
  <2> QED BY <2>1, <2>2, <2>3
<1>23. ASSUME NEW i \in Items, Enqueue(i) PROVE RoomInv'
  <2>1. OpenInv'
    BY <1>23, ConstantTypes DEF Enqueue, lvars, OpenInv, Active, OneLaunch, NotRunYet,
       Unstarted, DownInv, IInv, Types, TrailOK, DispOK
  <2>2. RoomLeft'
    <3>1. NoMoreBeside
      BY <1>23, ConstantTypes DEF Enqueue, lvars, World, NoMoreBeside, PersonOf, Active,
         NotRunYet, OneLaunch, Unstarted, IInv, Types, TrailOK, Steps
    <3> QED BY <3>1, RoomKeeps
  <2> QED BY <1>23, <2>1, <2>2, <1>f DEF Enqueue, lvars, World
<1>24. CASE Crash
  <2>1. DownInv'
    BY <1>24, ConstantTypes, AsleepIs DEF Crash, DownInv, OneLaunch, IInv, Types, TrailOK
  <2>2. OpenInv'
    BY <1>24, ConstantTypes, AsleepIs DEF Crash, OpenInv, Active, OneLaunch, NotRunYet,
       Unstarted, DownInv, IInv, Types, TrailOK, DispOK
  <2>3. RoomLeft'
    <3>1. NoMoreBeside
      BY <1>24, ConstantTypes DEF Crash, qvars, NoMoreBeside, PersonOf, Active, NotRunYet,
         OneLaunch, Unstarted, IInv, Types, TrailOK, Steps
    <3> QED BY <3>1, RoomKeeps
  <2> QED BY <2>1, <2>2, <2>3
<1>25. CASE ResumeRunsAfterRestart
  <2>1. DownInv'
    BY <1>25, ConstantTypes DEF ResumeRunsAfterRestart, lvars, DownInv, OneLaunch, IInv,
       Types, TrailOK
  <2>2. OpenInv'
    BY <1>25, ConstantTypes DEF ResumeRunsAfterRestart, lvars, OpenInv, Active, OneLaunch,
       NotRunYet, Unstarted, DownInv, IInv, Types, TrailOK, DispOK
  <2>3. RoomLeft'
    <3>1. NoMoreBeside
      BY <1>25, ConstantTypes DEF ResumeRunsAfterRestart, qvars, lvars, NoMoreBeside, PersonOf,
         Active, NotRunYet, OneLaunch, Unstarted, IInv, Types, TrailOK, Steps, DownInv
    <3> QED BY <3>1, RoomKeeps
  <2> QED BY <2>1, <2>2, <2>3
<1>26. ASSUME NEW i \in Items, CancelQueued(i) \/ RuleChanges(i) \/ HandleAutoPlayOff(i) \/
   MinutePasses(i) \/ DayPasses(i) PROVE RoomInv'
  BY <1>26, <1>f DEF CancelQueued, RuleChanges, HandleAutoPlayOff, MinutePasses, DayPasses,
     evars, lvars, qvars, tvars
<1>27. ASSUME NEW t \in Targets, ResumeAutoPlays(t) PROVE RoomInv'
  BY <1>27, <1>f DEF ResumeAutoPlays, evars, lvars, tvars
<1>28. ASSUME NEW p \in People, HandleComputerChanged(p) PROVE RoomInv'
  BY <1>28, <1>f DEF HandleComputerChanged, evars, lvars, tvars
<1>29. ASSUME NEW c \in Computers, GoesOffline(c) \/ ComesBack(c) PROVE RoomInv'
  BY <1>29, <1>f DEF GoesOffline, ComesBack, lvars, qvars, tvars
<1>30. CASE HandleSlotsFreed
  BY <1>30, <1>f DEF HandleSlotsFreed, World, lvars, qvars, tvars
<1>31. CASE UNCHANGED vars
  BY <1>31, <1>f DEF vars, qvars, tvars, lvars, evars
<1> QED BY <1>1, <1>2, <1>3, <1>4, <1>5, <1>6, <1>7, <1>8, <1>9, <1>10, <1>11, <1>12, <1>13,
   <1>14, <1>15, <1>16, <1>17, <1>18, <1>19, <1>20, <1>21, <1>22, <1>23, <1>24, <1>25,
   <1>26, <1>27, <1>28, <1>29, <1>30, <1>31 DEF Next, Dispatch, Launch

(* Only CreateTrail gives a run its starting trail. *)
LEMMA OnlyCreateStarts == 
    ASSUME Types, Next, NEW o \in Owners, trail[o] = "none", trail'[o] = "starting"
    PROVE  launch[o] = "create"
<1>1. ASSUME NEW i \in Items, Decide(i) \/ Enqueue(i) PROVE launch[o] = "create"
  BY <1>1 DEF Decide, Enqueue, World, lvars, Types, TrailOK
<1>2. ASSUME NEW q \in Owners, Place(q) \/ CreateTrail(q) \/ LaunchRefused(q) \/
   PostFails(q) \/ OnStarted(q) \/ OnFinished(q) \/ Stop(q) PROVE launch[o] = "create"
  BY <1>2 DEF Place, CreateTrail, LaunchRefused, PostFails, OnStarted, OnFinished, Stop,
     Launching, SaveEnded, World, evars, lvars, qvars, Types, TrailOK
<1>3. CASE ResumeRunsAfterRestart
  BY <1>3 DEF ResumeRunsAfterRestart, lvars, qvars, Types, TrailOK
<1>4. CASE RecoverDispatching \/ PassEnds \/ WaitForKick \/ HandleSlotsFreed \/ Crash
  BY <1>4 DEF RecoverDispatching, PassEnds, WaitForKick, HandleSlotsFreed, Crash, tvars
<1>5. ASSUME NEW p \in People, DispatchPerson(p) \/ HandleComputerChanged(p) PROVE launch[o]
   = "create"
  BY <1>5 DEF DispatchPerson, HandleComputerChanged, tvars
<1>6. ASSUME NEW i \in Items, Hold(i) \/ Claim(i) \/ LookFails(i) \/ DecideLaunch(i) \/
   DecideLaunchFails(i) \/ CancelQueued(i) \/ RuleChanges(i) \/ HandleAutoPlayOff(i) \/
   MinutePasses(i) \/ DayPasses(i) PROVE launch[o] = "create"
  BY <1>6 DEF Hold, Claim, LookFails, DecideLaunch, DecideLaunchFails, CancelQueued,
     RuleChanges, HandleAutoPlayOff, MinutePasses, DayPasses, tvars
<1>7. ASSUME NEW q \in Owners, Acquire(q) \/ RefuseIfActive(q) \/ StartTurn(q) \/
   FinishFails(q) PROVE launch[o] = "create"
  BY <1>7 DEF Acquire, RefuseIfActive, StartTurn, FinishFails, tvars
<1>8. ASSUME NEW q \in Presses, NEW by \in Pressers, Press(q, by) PROVE launch[o] = "create"
  BY <1>8 DEF Press, tvars
<1>9. ASSUME NEW t \in Targets, ResumeAutoPlays(t) PROVE launch[o] = "create"
  BY <1>9 DEF ResumeAutoPlays, tvars
<1>10. ASSUME NEW c \in Computers, GoesOffline(c) \/ ComesBack(c) PROVE launch[o] = "create"
  BY <1>10 DEF GoesOffline, ComesBack, tvars
<1> QED BY <1>1, <1>2, <1>3, <1>4, <1>5, <1>6, <1>7, <1>8, <1>9, <1>10 DEF Next, Dispatch,
   Launch

(* The room a queued run counted as it was placed is still there when its trail    *)
(* is created, for every number of people, presses and computers.                  *)
THEOREM RoomIsCounted == Spec => RoomCounted
<1> DEFINE Lands(i) == trail[i] = "none" /\ trail'[i] = "starting"
           Others(i) == {o \in Owners : PersonOf(o) = PersonOf(i) /\ Active(o)} \ closed
<1>1. Init => RoomInv
  BY ConstantTypes DEF Init, RoomInv, DownInv, OpenInv, RoomLeft
<1>2. IInv /\ RoomInv /\ [Next]_vars => [\A i \in Items : Lands(i) => Cardinality(Others(i)) < Room]_vars
  <2> SUFFICES ASSUME IInv, RoomInv, Next, NEW i \in Items, Lands(i)
               PROVE  Cardinality(Others(i)) < Room
    OBVIOUS
  <2>1. launch[i] = "create"
    BY OnlyCreateStarts, ConstantTypes DEF IInv
  <2>2. Others(i) = RunsOf(ItemPerson[i])
    BY DEF RunsOf, PersonOf
  <2> QED BY <2>1, <2>2 DEF RoomInv, RoomLeft
<1> QED BY <1>1, <1>2, NextRoom, Inductive, PTL DEF Spec, RoomCounted

-----------------------------------------------------------------------------
(* No item is stranded *)

\* A step that ends no run.
NoneEnds ==
  \A o \in Owners : Active(o) =>
    Active(o)' /\ PersonOf(o)' = PersonOf(o) /\ TargetOf(o)' = TargetOf(o)

(* Whatever ends a run sends play.run_finished. *)
LEMMA EndingsFree ==
    ASSUME IInv, RoomInv, [Next]_vars
    PROVE  NoneEnds \/ freed'
<1>1. ASSUME NEW i \in Items, Decide(i) PROVE NoneEnds \/ freed'
  BY <1>1, ConstantTypes DEF Decide, lvars, NoneEnds, Active, PersonOf, TargetOf, IInv,
     NotRunYet, Types, TrailOK
<1>2. ASSUME NEW o \in Owners, Place(o) PROVE NoneEnds \/ freed'
  BY <1>2, ConstantTypes DEF Place, Launching, SaveEnded, Step, NoneEnds, Active, PersonOf,
     TargetOf, IInv, NotRunYet, Types, TrailOK
<1>3. ASSUME NEW o \in Owners, CreateTrail(o) PROVE NoneEnds \/ freed'
  BY <1>3, ConstantTypes DEF CreateTrail, Launching, Step, NoneEnds, Active, PersonOf,
     TargetOf, IInv, NotRunYet, Types, TrailOK
<1>4. ASSUME NEW o \in Owners, LaunchRefused(o) PROVE NoneEnds \/ freed'
  BY <1>4, ConstantTypes DEF LaunchRefused, Launching, SaveEnded, Step, NoneEnds, Active,
     PersonOf, TargetOf, IInv, NotRunYet, Types, TrailOK
<1>5. ASSUME NEW o \in Owners, PostFails(o) PROVE NoneEnds \/ freed'
  BY <1>5, ConstantTypes DEF PostFails, Launching, SaveEnded, Step, NoneEnds, Active,
     PersonOf, TargetOf, IInv, NotRunYet, Types, TrailOK
<1>6. ASSUME NEW o \in Owners, OnStarted(o) PROVE NoneEnds \/ freed'
  BY <1>6, ConstantTypes DEF OnStarted, lvars, NoneEnds, Active, PersonOf, TargetOf, IInv,
     NotRunYet, Types, TrailOK
<1>7. ASSUME NEW o \in Owners, OnFinished(o) PROVE NoneEnds \/ freed'
  BY <1>7, ConstantTypes DEF OnFinished, SaveEnded, lvars, NoneEnds, Active, PersonOf,
     TargetOf, IInv, NotRunYet, Types, TrailOK
<1>8. ASSUME NEW o \in Owners, Stop(o) PROVE NoneEnds \/ freed'
  BY <1>8, ConstantTypes DEF Stop, SaveEnded, lvars, NoneEnds, Active, PersonOf, TargetOf,
     IInv, NotRunYet, Types, TrailOK
<1>9. ASSUME NEW o \in Presses, NEW by \in Pressers, Press(o, by) PROVE NoneEnds \/ freed'
  BY <1>9, ConstantTypes DEF Press, tvars, NoneEnds, Active, PersonOf, TargetOf, IInv,
     NotRunYet, Types, TrailOK
<1>10. ASSUME NEW i \in Items, Enqueue(i) PROVE NoneEnds \/ freed'
  BY <1>10, ConstantTypes DEF Enqueue, lvars, NoneEnds, Active, PersonOf, TargetOf, IInv,
     NotRunYet, Types, TrailOK
<1>11. CASE ResumeRunsAfterRestart
  BY <1>11, ConstantTypes DEF ResumeRunsAfterRestart, lvars, NoneEnds, Active, PersonOf,
     TargetOf, IInv, NotRunYet, Types, TrailOK
<1>12. CASE RecoverDispatching \/ PassEnds \/ WaitForKick \/ HandleSlotsFreed \/ Crash
  BY <1>12 DEF RecoverDispatching, PassEnds, WaitForKick, HandleSlotsFreed, Crash, lvars,
     tvars, NoneEnds, Active, PersonOf, TargetOf
<1>13. ASSUME NEW p \in People, DispatchPerson(p) \/ HandleComputerChanged(p) PROVE NoneEnds
   \/ freed'
  BY <1>13 DEF DispatchPerson, HandleComputerChanged, lvars, tvars, NoneEnds, Active,
     PersonOf, TargetOf
<1>14. ASSUME NEW i \in Items, Hold(i) \/ Claim(i) \/ LookFails(i) \/ DecideLaunch(i) \/
   DecideLaunchFails(i) \/ CancelQueued(i) \/ RuleChanges(i) \/ HandleAutoPlayOff(i) \/
   MinutePasses(i) \/ DayPasses(i) PROVE NoneEnds \/ freed'
  BY <1>14 DEF Hold, Claim, LookFails, DecideLaunch, DecideLaunchFails, CancelQueued,
     RuleChanges, HandleAutoPlayOff, MinutePasses, DayPasses, lvars, tvars, NoneEnds,
     Active, PersonOf, TargetOf
<1>15. ASSUME NEW o \in Owners, Acquire(o) \/ RefuseIfActive(o) \/ StartTurn(o) \/
   FinishFails(o) PROVE NoneEnds \/ freed'
  BY <1>15 DEF Acquire, RefuseIfActive, StartTurn, FinishFails, Step, lvars, tvars,
     NoneEnds, Active, PersonOf, TargetOf
<1>16. ASSUME NEW t \in Targets, ResumeAutoPlays(t) PROVE NoneEnds \/ freed'
  BY <1>16 DEF ResumeAutoPlays, lvars, tvars, NoneEnds, Active, PersonOf, TargetOf
<1>17. ASSUME NEW c \in Computers, GoesOffline(c) \/ ComesBack(c) PROVE NoneEnds \/ freed'
  BY <1>17 DEF GoesOffline, ComesBack, lvars, tvars, NoneEnds, Active, PersonOf, TargetOf
<1>18. CASE UNCHANGED vars
  BY <1>18 DEF vars, lvars, tvars, NoneEnds, Active, PersonOf, TargetOf
<1> QED BY <1>1, <1>2, <1>3, <1>4, <1>5, <1>6, <1>7, <1>8, <1>9, <1>10, <1>11, <1>12, <1>13,
   <1>14, <1>15, <1>16, <1>17, <1>18 DEF Next, Dispatch, Launch

(* A signal is consumed by a new pass, or lost with the process. *)
LEMMA SignalsStay ==
    ASSUME [Next]_vars, ~WaitForKick, ~Crash
    PROVE  Waking => Waking'
<1>1. CASE WaitForKick \/ HandleSlotsFreed \/ Crash \/ ResumeRunsAfterRestart
  BY <1>1 DEF WaitForKick, HandleSlotsFreed, Crash, ResumeRunsAfterRestart, evars, Waking
<1>2. ASSUME NEW i \in Items, Decide(i) \/ Enqueue(i) \/ CancelQueued(i) \/
   HandleAutoPlayOff(i) PROVE Waking => Waking'
  BY <1>2 DEF Decide, Enqueue, CancelQueued, HandleAutoPlayOff, evars, Waking
<1>3. ASSUME NEW o \in Owners, Place(o) \/ LaunchRefused(o) \/ PostFails(o) \/ OnFinished(o)
   \/ Stop(o) PROVE Waking => Waking'
  BY <1>3 DEF Place, LaunchRefused, PostFails, OnFinished, Stop, Launching, SaveEnded, Step,
     Waking
<1>4. ASSUME NEW t \in Targets, ResumeAutoPlays(t) PROVE Waking => Waking'
  BY <1>4 DEF ResumeAutoPlays, evars, Waking
<1>5. ASSUME NEW p \in People, HandleComputerChanged(p) PROVE Waking => Waking'
  BY <1>5 DEF HandleComputerChanged, evars, Waking
<1>6. CASE RecoverDispatching \/ PassEnds
  BY <1>6 DEF RecoverDispatching, PassEnds, evars, Waking
<1>7. ASSUME NEW p \in People, DispatchPerson(p) PROVE Waking => Waking'
  BY <1>7 DEF DispatchPerson, evars, Waking
<1>8. ASSUME NEW i \in Items, Hold(i) \/ Claim(i) \/ LookFails(i) \/ DecideLaunch(i) \/
   DecideLaunchFails(i) \/ RuleChanges(i) \/ MinutePasses(i) \/ DayPasses(i) PROVE Waking =>
   Waking'
  BY <1>8 DEF Hold, Claim, LookFails, DecideLaunch, DecideLaunchFails, RuleChanges,
     MinutePasses, DayPasses, evars, Waking
<1>9. ASSUME NEW o \in Owners, Acquire(o) \/ RefuseIfActive(o) \/ CreateTrail(o) \/
   StartTurn(o) \/ OnStarted(o) \/ FinishFails(o) PROVE Waking => Waking'
  BY <1>9 DEF Acquire, RefuseIfActive, CreateTrail, StartTurn, OnStarted, FinishFails,
     evars, Waking
<1>10. ASSUME NEW o \in Presses, NEW by \in Pressers, Press(o, by) PROVE Waking => Waking'
  BY <1>10 DEF Press, evars, Waking
<1>11. ASSUME NEW c \in Computers, GoesOffline(c) \/ ComesBack(c) PROVE Waking => Waking'
  BY <1>11 DEF GoesOffline, ComesBack, Waking
<1>12. CASE UNCHANGED vars
  BY <1>12 DEF vars, evars, Waking
<1> QED BY <1>1, <1>2, <1>3, <1>4, <1>5, <1>6, <1>7, <1>8, <1>9, <1>10, <1>11, <1>12 DEF
   Next, Dispatch, Launch

(* While no run ends, a busy target stays busy and a full computer full. *)
LEMMA StaysBusy ==
    ASSUME IInv, NoneEnds, NEW i \in Items
    PROVE  /\ BusyTarget(TargetOf(i)) => BusyTarget(TargetOf(i))'
           /\ Full(i) => Full(i)'
<1>1. TargetOf(i)' = TargetOf(i) /\ PersonOf(i)' = PersonOf(i)
  BY DEF TargetOf, PersonOf
<1>2. BusyTarget(TargetOf(i)) => BusyTarget(TargetOf(i))'
  BY <1>1 DEF NoneEnds, BusyTarget
<1> DEFINE R == {o \in Owners : ComputerOf[PersonOf(o)] = ComputerOf[PersonOf(i)] /\ Active(o)}
<1>3. R \in SUBSET R' /\ R' \in SUBSET Owners /\ R \in SUBSET Owners
  BY <1>1 DEF NoneEnds
<1>4. Cardinality(R) <= Cardinality(R') /\ Cardinality(R) \in Nat /\ Cardinality(R') \in Nat
  BY <1>3, RunsFinite, FS_Subset
<1>5. Cardinality(R) >= Room => Cardinality(R') >= Room
  <2> HIDE DEF R
  <2> QED BY <1>4, ConstantsAssumption
<1> QED BY <1>2, <1>5 DEF Full, Running

(* What an item waits for stays, or its end wakes the dispatcher. *)
LEMMA ReasonsStay ==
    ASSUME IInv, RoomInv, [Next]_vars, ~WaitForKick, ~Crash, NEW i \in Items
    PROVE  /\ AwaitsTarget(i) => AwaitsTarget(i)'
           /\ AwaitsComputer(i) => AwaitsComputer(i)'
<1>1. Waking => Waking'
  BY SignalsStay
<1>2. NoneEnds \/ Waking'
  BY EndingsFree DEF Waking
<1> QED BY <1>1, <1>2, StaysBusy DEF AwaitsTarget, AwaitsComputer

\* A step that takes from no item what it waits for.
ReasonsKept ==
  \A i \in Items : /\ AwaitsTarget(i) => AwaitsTarget(i)'
                   /\ AwaitsComputer(i) => AwaitsComputer(i)'

(* Every step keeps every queued item awaited. *)
LEMMA NextStrand == IInv /\ IInv' /\ RoomInv /\ StrandInv /\ [Next]_vars => StrandInv'
<1> SUFFICES ASSUME IInv, IInv', RoomInv, StrandInv, [Next]_vars PROVE StrandInv'
  OBVIOUS
<1> USE DEF StrandInv
<1>s. ~WaitForKick /\ ~Crash => ReasonsKept
  BY ReasonsStay DEF ReasonsKept
<1>f. /\ UNCHANGED <<disp, later>> => LaterInv'
      /\ UNCHANGED <<disp, status, missed>> /\ ReasonsKept => AllAwaited'
      /\ UNCHANGED launch /\ ReasonsKept => RefusedInv'
  <2>1. \A i \in Items : PersonOf(i)' = PersonOf(i) /\ TargetOf(i)' = TargetOf(i)
    BY DEF PersonOf, TargetOf
  <2>2. UNCHANGED <<disp, later>> => LaterInv'
    BY DEF LaterInv
  <2>3. UNCHANGED <<disp, status, missed>> /\ ReasonsKept => AllAwaited'
    BY <2>1 DEF AllAwaited, Awaited, ReasonsKept
  <2>4. UNCHANGED launch /\ ReasonsKept => RefusedInv'
    BY DEF RefusedInv, ReasonsKept
  <2> QED BY <2>2, <2>3, <2>4
<1>1. ASSUME RecoverDispatching, ReasonsKept PROVE StrandInv'
  <2>1. LaterInv'
    BY <1>1, ConstantTypes, BeginPassIs DEF RecoverDispatching, Dispatcher, Due, LaterInv,
       OneLaunch, DownInv, RoomInv, IInv, Types, QueueOK, DispOK, DispStates, ReasonsKept
  <2>2. AllAwaited'
    BY <1>1, ConstantTypes, BeginPassIs DEF RecoverDispatching, Dispatcher, Due, AllAwaited,
       Awaited, PersonOf, TargetOf, OneLaunch, IInv, Types, QueueOK, DispOK, DispStates,
       ReasonsKept
  <2> QED BY <1>1, <2>1, <2>2, <1>f DEF RecoverDispatching, tvars, lvars, evars
<1>2. ASSUME PassEnds, ReasonsKept PROVE StrandInv'
  <2>1. LaterInv'
    <3> DEFINE T == disp.timer \cup {i \in later \cup disp.ahead : status[i] = "queued"}
    <3>1. disp' = [Asleep EXCEPT !.timer = T] /\ UNCHANGED later
      BY <1>2 DEF PassEnds, qvars
    <3>2. later \subseteq T
      BY DEF IInv, Types, QueueOK
    <3> HIDE DEF T
    <3> QED BY <3>1, <3>2, AsleepIs DEF LaterInv
  <2>2. AllAwaited'
    <3> DEFINE T == disp.timer \cup {i \in later \cup disp.ahead : status[i] = "queued"}
    <3>1. /\ disp' = [Asleep EXCEPT !.timer = T] /\ UNCHANGED <<status, missed>>
          /\ disp.pc = "person" /\ disp.todo = {} /\ disp.people = {}
      BY <1>2 DEF PassEnds, Dispatcher, qvars
    <3>2. /\ disp.timer \subseteq T
          /\ \A j \in Items : status[j] = "queued" /\ j \in disp.ahead => j \in T
      OBVIOUS
    <3> HIDE DEF T
    <3>3. disp'.pc = "wait" /\ disp'.timer = T
      BY <3>1, AsleepIs
    <3> QED BY <1>2, <3>1, <3>2, <3>3 DEF AllAwaited, Awaited, ReasonsKept, TargetOf
  <2> QED BY <1>2, <2>1, <2>2, <1>f DEF PassEnds, qvars, tvars, lvars, evars
<1>3. CASE WaitForKick
  <2>1. LaterInv'
    BY <1>3, ConstantTypes, BeginPassIs DEF WaitForKick, Dispatcher, qvars, Due, LaterInv,
       OneLaunch, DownInv, RoomInv, IInv, Types, QueueOK, DispOK, DispStates
  <2>2. AllAwaited'
    BY <1>3, ConstantTypes, BeginPassIs DEF WaitForKick, Dispatcher, qvars, Due, AllAwaited,
       Awaited, PersonOf, TargetOf, OneLaunch, IInv, Types, QueueOK, DispOK, DispStates
  <2>3. RefusedInv'
    BY <1>3, ConstantTypes, BeginPassIs DEF WaitForKick, Dispatcher, lvars, Due, RefusedInv,
       IInv, Types, TrailOK, OneLaunch
  <2> QED BY <2>1, <2>2, <2>3
<1>4. ASSUME NEW p \in People, DispatchPerson(p), ReasonsKept PROVE StrandInv'
  <2>1. LaterInv'
    BY <1>4, ConstantTypes DEF DispatchPerson, Dispatcher, qvars, Due, LaterInv, OneLaunch,
       DownInv, RoomInv, IInv, Types, QueueOK, DispOK, DispStates, ReasonsKept
  <2>2. AllAwaited'
    <3>1. /\ disp'.pc = "person" /\ disp'.people = disp.people \ {p}
          /\ disp'.ahead = disp.ahead /\ disp'.timer = disp.timer
          /\ disp'.todo = {i \in Due \ disp.ahead : PersonOf(i) = p}
          /\ disp.pc = "person" /\ disp.todo = {} /\ UNCHANGED <<status, missed>>
      BY <1>4 DEF DispatchPerson, Dispatcher, qvars, IInv, Types, DispOK, DispStates
    <3>2. \A j \in Items : PersonOf(j)' = PersonOf(j) /\ TargetOf(j)' = TargetOf(j)
      BY DEF PersonOf, TargetOf
    <3>3. ASSUME NEW j \in Items, status[j] = "queued", PersonOf(j) = p
          PROVE  j \in disp'.ahead \cup disp'.todo
      BY <3>1, <3>3 DEF Due, LaterInv
    <3> QED BY <1>4, <3>1, <3>2, <3>3 DEF AllAwaited, Awaited, ReasonsKept
  <2> QED BY <1>4, <2>1, <2>2, <1>f DEF DispatchPerson, qvars, tvars, lvars, evars
<1>5. ASSUME NEW i \in Items, Hold(i), ReasonsKept PROVE StrandInv'
  <2>1. LaterInv'
    BY <1>5, ConstantTypes, ItemDoneIs DEF Hold, NextItem, qvars, Dispatcher, LaterInv,
       OneLaunch, DownInv, RoomInv, IInv, Types, QueueOK, DispOK, DispStates, ReasonsKept
  <2>2. AllAwaited'
    <3>1. /\ disp'.pc = "person" /\ disp'.people = disp.people /\ disp'.ahead = disp.ahead
          /\ disp'.todo = disp.todo \ {i} /\ disp.timer \subseteq disp'.timer
          /\ BusyTarget(TargetOf(i)) \/ TargetOf(i) \in disp'.timer
      <4>1. CASE disp' = ItemDone(i) /\ BusyTarget(TargetOf(i))
        BY <4>1, ItemDoneIs DEF IInv, Types
      <4>2. CASE disp' = [ItemDone(i) EXCEPT !.timer = @ \cup {TargetOf(i)}]
        BY <4>2, ItemDoneIs DEF IInv, Types, DispStates
      <4> QED BY <1>5, <4>1, <4>2 DEF Hold
    <3>2. disp.pc = "person" /\ UNCHANGED status /\ missed' = missed \ {i}
      BY <1>5 DEF Hold, NextItem, Dispatcher, qvars
    <3>3. \A j \in Items : PersonOf(j)' = PersonOf(j) /\ TargetOf(j)' = TargetOf(j)
      BY DEF PersonOf, TargetOf
    <3>4. AwaitsTarget(i)' \/ TargetOf(i) \in disp'.timer
      BY <1>5, <3>1 DEF AwaitsTarget, ReasonsKept
    <3> QED BY <1>5, <3>1, <3>2, <3>3, <3>4 DEF AllAwaited, Awaited, ReasonsKept
  <2> QED BY <1>5, <2>1, <2>2, <1>f DEF Hold, qvars, tvars, lvars, evars
<1>6. ASSUME NEW i \in Items, Decide(i), ReasonsKept PROVE StrandInv'
  <2>1. LaterInv'
    BY <1>6, ConstantTypes, ItemDoneIs DEF Decide, NextItem, Dispatcher, LaterInv,
       OneLaunch, DownInv, RoomInv, IInv, Types, QueueOK, DispOK, DispStates, ReasonsKept
  <2>2. AllAwaited'
    BY <1>6, ConstantTypes, ItemDoneIs DEF Decide, NextItem, Dispatcher, AllAwaited,
       Awaited, PersonOf, TargetOf, OneLaunch, IInv, Types, QueueOK, DispOK, DispStates,
       ReasonsKept
  <2> QED BY <1>6, <2>1, <2>2, <1>f DEF Decide, lvars, World
<1>7. ASSUME NEW i \in Items, Claim(i), ReasonsKept PROVE StrandInv'
  <2>1. LaterInv'
    BY <1>7, ConstantTypes, ItemDoneIs DEF Claim, NextItem, Dispatcher, LaterInv, OneLaunch,
       DownInv, RoomInv, IInv, Types, QueueOK, DispOK, DispStates, ReasonsKept
  <2>2. AllAwaited'
    BY <1>7, ConstantTypes, ItemDoneIs DEF Claim, NextItem, Dispatcher, AllAwaited, Awaited,
       PersonOf, TargetOf, OneLaunch, IInv, Types, QueueOK, DispOK, DispStates, ReasonsKept
  <2>3. RefusedInv'
    BY <1>7, ConstantTypes, ItemDoneIs DEF Claim, NextItem, Dispatcher, RefusedInv, IInv,
       Types, TrailOK, OneLaunch, ReasonsKept
  <2> QED BY <2>1, <2>2, <2>3
<1>8. ASSUME NEW i \in Items, LookFails(i), ReasonsKept PROVE StrandInv'
  <2>1. LaterInv'
    BY <1>8, ConstantTypes, ItemDoneIs DEF LookFails, NextItem, qvars, Dispatcher, LaterInv,
       OneLaunch, DownInv, RoomInv, IInv, Types, QueueOK, DispOK, DispStates, ReasonsKept
  <2>2. AllAwaited'
    BY <1>8, ConstantTypes, ItemDoneIs DEF LookFails, NextItem, qvars, Dispatcher,
       AllAwaited, Awaited, PersonOf, TargetOf, OneLaunch, IInv, Types, QueueOK, DispOK,
       DispStates, ReasonsKept
  <2> QED BY <1>8, <2>1, <2>2, <1>f DEF LookFails, qvars, tvars, lvars, World
<1>9. ASSUME NEW i \in Items, DecideLaunch(i), ReasonsKept PROVE StrandInv'
  <2>1. LaterInv'
    BY <1>9, ConstantTypes, ItemDoneIs DEF DecideLaunch, Dispatcher, Answered, Outcome,
       LaterInv, OneLaunch, DownInv, RoomInv, IInv, Types, QueueOK, DispOK, DispStates,
       ReasonsKept
  <2>2. AllAwaited'
    <3>1. /\ disp'.pc = "person" /\ disp'.people = disp.people /\ disp'.timer = disp.timer
          /\ disp'.todo = disp.todo \ {i} /\ disp'.ahead = disp.ahead \cup (later' \ later)
      BY <1>9, ItemDoneIs DEF DecideLaunch, IInv, Types, DispStates
    <3>2. /\ disp.pc = "launch" /\ UNCHANGED missed
          /\ \A j \in Items : j # i => status'[j] = status[j]
      BY <1>9 DEF DecideLaunch, Dispatcher, IInv, Types, QueueOK
    <3>3. \A j \in Items : PersonOf(j)' = PersonOf(j) /\ TargetOf(j)' = TargetOf(j)
      BY DEF PersonOf, TargetOf
    <3>4. launch[i] = "held" => i \in disp'.ahead
      BY <1>9, <3>1, ConstantTypes DEF DecideLaunch, OneLaunch, IInv, Types, QueueOK
    <3>5. status'[i] = "queued" => launch[i] \in {"full", "held", "busy"}
      <4>1. status'[i] = Outcome(i) /\ launch[i] \in Answered
        BY <1>9 DEF DecideLaunch, IInv, Types, QueueOK
      <4> QED BY <4>1 DEF Outcome, Answered
    <3>6. launch[i] \in {"full", "busy"} => AwaitsTarget(i)' \/ AwaitsComputer(i)'
      BY <1>9 DEF RefusedInv, ReasonsKept
    <3>7. status'[i] = "queued" => Awaited(i)'
      BY <3>1, <3>4, <3>5, <3>6 DEF Awaited
    <3> QED BY <1>9, <3>1, <3>2, <3>3, <3>7 DEF AllAwaited, Awaited, ReasonsKept
  <2>3. RefusedInv'
    BY <1>9, ConstantTypes, ItemDoneIs DEF DecideLaunch, Dispatcher, Answered, Outcome,
       RefusedInv, IInv, Types, TrailOK, OneLaunch, ReasonsKept
  <2> QED BY <2>1, <2>2, <2>3
<1>10. ASSUME NEW i \in Items, DecideLaunchFails(i), ReasonsKept PROVE StrandInv'
  <2>1. LaterInv'
    BY <1>10, ConstantTypes, ItemDoneIs DEF DecideLaunchFails, Dispatcher, Answered, qvars,
       LaterInv, OneLaunch, DownInv, RoomInv, IInv, Types, QueueOK, DispOK, DispStates,
       ReasonsKept
  <2>2. AllAwaited'
    BY <1>10, ConstantTypes, ItemDoneIs DEF DecideLaunchFails, Dispatcher, Answered, qvars,
       AllAwaited, Awaited, PersonOf, TargetOf, OneLaunch, IInv, Types, QueueOK, DispOK,
       DispStates, ReasonsKept
  <2>3. RefusedInv'
    BY <1>10, ConstantTypes, ItemDoneIs DEF DecideLaunchFails, Dispatcher, Answered,
       RefusedInv, IInv, Types, TrailOK, OneLaunch, ReasonsKept
  <2> QED BY <2>1, <2>2, <2>3
<1>11. ASSUME NEW o \in Owners, Acquire(o), ReasonsKept PROVE StrandInv'
  <2>1. RefusedInv'
    BY <1>11, ConstantTypes DEF Acquire, Launching, Step, Answered, RefusedInv, IInv, Types,
       TrailOK, OneLaunch, ReasonsKept
  <2> QED BY <1>11, <2>1, <1>f DEF Acquire, qvars, tvars, evars
<1>12. ASSUME NEW o \in Owners, Place(o), ReasonsKept PROVE StrandInv'
  <2>1. RefusedInv'
    <3>1. ASSUME NEW j \in Items, launch'[j] \in {"full", "busy"}
          PROVE  launch[j] = launch'[j] \/ (launch'[j] = "full" /\ Full(j))
      BY <1>12, <3>1, ConstantTypes DEF Place, Step, Answered, Full, IInv, Types, TrailOK
    <3> QED BY <1>12, <3>1 DEF RefusedInv, AwaitsComputer, ReasonsKept
  <2> QED BY <1>12, <2>1, <1>f DEF Place, qvars, World
<1>13. ASSUME NEW o \in Owners, RefuseIfActive(o), ReasonsKept PROVE StrandInv'
  <2>1. RefusedInv'
    <3>1. ASSUME NEW j \in Items, launch'[j] \in {"full", "busy"}
          PROVE  launch[j] = launch'[j] \/ (launch'[j] = "busy" /\ BusyTarget(TargetOf(j)))
      BY <1>13, <3>1, ConstantTypes DEF RefuseIfActive, Step, Answered, IInv, Types, TrailOK
    <3> QED BY <1>13, <3>1 DEF RefusedInv, AwaitsTarget, ReasonsKept
  <2> QED BY <1>13, <2>1, <1>f DEF RefuseIfActive, qvars, tvars, evars
<1>14. ASSUME NEW o \in Owners, CreateTrail(o), ReasonsKept PROVE StrandInv'
  <2>1. RefusedInv'
    BY <1>14, ConstantTypes DEF CreateTrail, Launching, Step, Answered, RefusedInv, IInv,
       Types, TrailOK, OneLaunch, ReasonsKept
  <2> QED BY <1>14, <2>1, <1>f DEF CreateTrail, evars
<1>15. ASSUME NEW o \in Owners, LaunchRefused(o), ReasonsKept PROVE StrandInv'
  <2>1. RefusedInv'
    BY <1>15, ConstantTypes DEF LaunchRefused, Launching, Step, Answered, RefusedInv, IInv,
       Types, TrailOK, OneLaunch, ReasonsKept
  <2> QED BY <1>15, <2>1, <1>f DEF LaunchRefused, World
<1>16. ASSUME NEW o \in Owners, StartTurn(o), ReasonsKept PROVE StrandInv'
  <2>1. RefusedInv'
    BY <1>16, ConstantTypes DEF StartTurn, Launching, Step, Answered, RefusedInv, IInv,
       Types, TrailOK, OneLaunch, ReasonsKept
  <2> QED BY <1>16, <2>1, <1>f DEF StartTurn, qvars, evars
<1>17. ASSUME NEW o \in Owners, PostFails(o), ReasonsKept PROVE StrandInv'
  <2>1. RefusedInv'
    BY <1>17, ConstantTypes DEF PostFails, Launching, Step, Answered, RefusedInv, IInv,
       Types, TrailOK, OneLaunch, ReasonsKept
  <2> QED BY <1>17, <2>1, <1>f DEF PostFails, qvars, World
<1>18. ASSUME NEW o \in Presses, NEW by \in Pressers, Press(o, by), ReasonsKept PROVE StrandInv'
  <2>1. RefusedInv'
    BY <1>18, ConstantTypes DEF Press, RefusedInv, IInv, Types, TrailOK, OneLaunch,
       ReasonsKept
  <2> QED BY <1>18, <2>1, <1>f DEF Press, tvars, evars
<1>19. ASSUME NEW i \in Items, Enqueue(i), ReasonsKept PROVE StrandInv'
  <2>1. AllAwaited'
    <3>1. \A j \in Items : j # i => status'[j] = status[j]
      BY <1>19 DEF Enqueue, IInv, Types, QueueOK
    <3>2. status'[i] = "queued" => Awaited(i)'
      BY <1>19 DEF Enqueue, Awaited, AwaitsTarget, Waking, IInv, Types, QueueOK
    <3> QED BY <1>19, <3>1, <3>2 DEF Enqueue, AllAwaited, Awaited, ReasonsKept, TargetOf, PersonOf
  <2> QED BY <1>19, <2>1, <1>f DEF Enqueue, lvars, World
<1>20. ASSUME NEW i \in Items, CancelQueued(i), ReasonsKept PROVE StrandInv'
  <2>1. LaterInv'
    BY <1>20, ConstantTypes DEF CancelQueued, LaterInv, OneLaunch, DownInv, RoomInv, IInv,
       Types, QueueOK, DispOK, DispStates, ReasonsKept
  <2>2. AllAwaited'
    BY <1>20, ConstantTypes DEF CancelQueued, AllAwaited, Awaited, PersonOf, TargetOf,
       OneLaunch, IInv, Types, QueueOK, DispOK, DispStates, ReasonsKept
  <2> QED BY <1>20, <2>1, <2>2, <1>f DEF CancelQueued, tvars, lvars, evars
<1>21. ASSUME NEW i \in Items, HandleAutoPlayOff(i), ReasonsKept PROVE StrandInv'
  <2>1. LaterInv'
    BY <1>21, ConstantTypes DEF HandleAutoPlayOff, LaterInv, OneLaunch, DownInv, RoomInv,
       IInv, Types, QueueOK, DispOK, DispStates, ReasonsKept
  <2>2. AllAwaited'
    BY <1>21, ConstantTypes DEF HandleAutoPlayOff, AllAwaited, Awaited, PersonOf, TargetOf,
       OneLaunch, IInv, Types, QueueOK, DispOK, DispStates, ReasonsKept
  <2> QED BY <1>21, <2>1, <2>2, <1>f DEF HandleAutoPlayOff, tvars, lvars, evars
<1>22. ASSUME NEW i \in Items, MinutePasses(i), ReasonsKept PROVE StrandInv'
  <2>1. LaterInv'
    BY <1>22, ConstantTypes DEF MinutePasses, LaterInv, OneLaunch, DownInv, RoomInv, IInv,
       Types, QueueOK, DispOK, DispStates, ReasonsKept
  <2> QED BY <1>22, <2>1, <1>f DEF MinutePasses, tvars, lvars, evars
<1>23. ASSUME NEW p \in People, HandleComputerChanged(p), ReasonsKept PROVE StrandInv'
  <2>1. LaterInv'
    BY <1>23, ConstantTypes DEF HandleComputerChanged, LaterInv, OneLaunch, DownInv,
       RoomInv, IInv, Types, QueueOK, DispOK, DispStates, ReasonsKept
  <2> QED BY <1>23, <2>1, <1>f DEF HandleComputerChanged, tvars, lvars, evars
<1>24. CASE Crash
  <2>1. LaterInv'
    BY <1>24, ConstantTypes, AsleepIs DEF Crash, qvars, LaterInv, OneLaunch, DownInv,
       RoomInv, IInv, Types, QueueOK, DispOK, DispStates
  <2>2. AllAwaited'
    BY <1>24, ConstantTypes, AsleepIs DEF Crash, qvars, AllAwaited, Awaited, PersonOf,
       TargetOf, OneLaunch, IInv, Types, QueueOK, DispOK, DispStates
  <2>3. RefusedInv'
    BY <1>24, ConstantTypes, AsleepIs DEF Crash, RefusedInv, IInv, Types, TrailOK, OneLaunch
  <2> QED BY <2>1, <2>2, <2>3
<1>25. ASSUME NEW o \in Owners, OnStarted(o) \/ OnFinished(o) \/ FinishFails(o) \/ Stop(o),
   ReasonsKept PROVE StrandInv'
  BY <1>25, <1>f DEF OnStarted, OnFinished, FinishFails, Stop, World, evars, lvars, qvars
<1>26. ASSUME NEW i \in Items, RuleChanges(i) \/ DayPasses(i), ReasonsKept PROVE StrandInv'
  BY <1>26, <1>f DEF RuleChanges, DayPasses, evars, lvars, qvars, tvars
<1>27. ASSUME NEW t \in Targets, ResumeAutoPlays(t), ReasonsKept PROVE StrandInv'
  BY <1>27, <1>f DEF ResumeAutoPlays, evars, lvars, tvars
<1>28. ASSUME NEW c \in Computers, GoesOffline(c) \/ ComesBack(c), ReasonsKept PROVE
   StrandInv'
  BY <1>28, <1>f DEF GoesOffline, ComesBack, lvars, qvars, tvars
<1>29. ASSUME HandleSlotsFreed \/ ResumeRunsAfterRestart, ReasonsKept PROVE StrandInv'
  BY <1>29, <1>f DEF HandleSlotsFreed, ResumeRunsAfterRestart, World, lvars, qvars, tvars
<1>30. ASSUME UNCHANGED vars, ReasonsKept PROVE StrandInv'
  BY <1>30, <1>f DEF vars, qvars, lvars
<1> QED BY <1>1, <1>2, <1>3, <1>4, <1>5, <1>6, <1>7, <1>8, <1>9, <1>10, <1>11, <1>12, <1>13,
   <1>14, <1>15, <1>16, <1>17, <1>18, <1>19, <1>20, <1>21, <1>22, <1>23, <1>24, <1>25,
   <1>26, <1>27, <1>28, <1>29, <1>30, <1>s DEF Next, Dispatch, Launch

(* The dispatcher never sleeps through work it could do: asleep with nothing on    *)
(* its way to wake it, every queued item waits for the end of a run or for the     *)
(* timer, for every order of presses, endings, refusals, cancels and restarts.     *)
THEOREM NothingStranded == Spec => []NoStrandedItem
<1>1. Init => RoomInv /\ StrandInv
  <2>1. Init => RoomInv
    BY ConstantTypes DEF Init, RoomInv, DownInv, OpenInv, RoomLeft
  <2> QED BY <2>1, ConstantTypes, AsleepIs DEF Init, StrandInv, LaterInv, AllAwaited, RefusedInv
<1>2. IInv /\ StrandInv => NoStrandedItem
  <2> SUFFICES ASSUME IInv, StrandInv, Dispatcher("wait"), ~kick, ~freed, ~TimerIsDue,
                      NEW i \in Items \ missed, status[i] = "queued"
               PROVE  IF i \in later THEN i \in disp.timer
                      ELSE \/ BusyTarget(TargetOf(i))
                           \/ Running(ComputerOf[PersonOf(i)]) >= Room
                           \/ AutoRunsToday(TargetOf(i)) >= DailyCap /\ TargetOf(i) \in disp.timer
    BY DEF NoStrandedItem
  <2>1. CASE i \in later
    BY <2>1 DEF StrandInv, LaterInv, Dispatcher
  <2>2. CASE i \notin later
    <3>1. i \notin disp.timer
      BY <2>2 DEF TimerIsDue
    <3>2. TargetOf(i) \in disp.timer => ~(AutoRunsToday(TargetOf(i)) < DailyCap)
      BY ConstantTypes DEF TimerIsDue, TargetOf
    <3>3. AutoRunsToday(TargetOf(i)) \in Nat
      <4>1. {j \in counted : TargetOf(j) = TargetOf(i) /\ status[j] = "started"} \in SUBSET Items
        BY DEF IInv, Types, QueueOK
      <4> QED BY <4>1, ConstantsAssumption, FS_Subset, FS_CardinalityType DEF AutoRunsToday
    <3>4. TargetOf(i) \in disp.timer => AutoRunsToday(TargetOf(i)) >= DailyCap
      BY <3>2, <3>3, ConstantsAssumption
    <3>5. AwaitsTarget(i) \/ AwaitsComputer(i) \/ TargetOf(i) \in disp.timer
      BY <3>1 DEF StrandInv, AllAwaited, Awaited, Dispatcher
    <3> QED BY <2>2, <3>4, <3>5 DEF AwaitsTarget, AwaitsComputer, Waking, Full
  <2> QED BY <2>1, <2>2
<1> QED BY <1>1, <1>2, NextRoom, NextStrand, Inductive, PTL DEF Spec
=============================================================================
