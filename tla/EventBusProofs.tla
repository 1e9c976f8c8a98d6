--------------------------- MODULE EventBusProofs ---------------------------
(***************************************************************************)
(* Proofs about EventBus, for every set of events, every subscription      *)
(* table, every channel capacity, batch size and number of faults.         *)
(***************************************************************************)
EXTENDS EventBus, FiniteSetTheorems, WellFoundedInduction, TLAPS

-----------------------------------------------------------------------------
(* Helpers *)

(* ListUnpublishedOutbox finds an oldest row whenever one is pending. *)
LEMMA OldestIsPending ==
    ASSUME rowid \in [Events -> Nat], Pending # {}
    PROVE  /\ Oldest \in Pending
           /\ \A f \in Pending : rowid[Oldest] <= rowid[f]
<1> DEFINE T == {rowid[e] : e \in Pending}
<1>1. T \subseteq Nat /\ T # {}
  BY DEF Pending, Committed
<1>2. PICK x \in T : \A y \in T : ~(<<y, x>> \in OpToRel(<, Nat))
  BY <1>1, NatLessThanWellFounded, WFMin
<1>3. PICK e \in Pending : rowid[e] = x
  BY <1>2
<1>4. ASSUME NEW f \in Pending PROVE rowid[e] <= rowid[f]
  <2> DEFINE y == rowid[f]
  <2>1. y \in T /\ y \in Nat /\ x \in Nat
    BY <1>1
  <2>2. y < x => <<y, x>> \in OpToRel(<, Nat)
    <3> HIDE DEF y
    <3> QED BY <2>1 DEF OpToRel
  <2>3. ~(y < x)
    BY <2>1, <2>2, <1>2
  <2> QED BY <2>1, <2>3, <1>3
<1> QED BY <1>3, <1>4 DEF Oldest

(* The pending rows are finitely many. *)
LEMMA PendingFinite ==
    /\ IsFiniteSet(Pending)
    /\ Cardinality(Pending) \in Nat
    /\ Cardinality(Pending) = 0 <=> Pending = {}
<1>1. Pending \in SUBSET Events
  BY DEF Pending, Committed
<1>2. IsFiniteSet(Pending)
  BY <1>1, EventBusAssumption, FS_Subset
<1> QED BY <1>2, FS_CardinalityType, FS_EmptySet

-----------------------------------------------------------------------------
(* Type correctness *)

(* The constants' assumption without its clause on topics, which is of no use to  *)
(* the types: the subscription table is well-typed and the limits are positive.   *)
LEMMA ConstantTypes ==
    /\ SubsOf \in [Events -> Seq(Consumers)]
    /\ \A e \in Events : Len(SubsOf[e]) \in Nat
    /\ \A e \in Events : \A i \in 1..Len(SubsOf[e]) : SubsOf[e][i] \in Consumers
    /\ MaxAttempts \in Nat /\ MaxAttempts > 0
    /\ BatchSize \in Nat /\ BatchSize > 0
    /\ NoEvent \notin Events
<1>1. SubsOf \in [Events -> Seq(Consumers)]
  BY EventBusAssumption
<1>2. \A e \in Events : Len(SubsOf[e]) \in Nat
  BY <1>1
<1>3. \A e \in Events : \A i \in 1..Len(SubsOf[e]) : SubsOf[e][i] \in Consumers
  BY <1>1
<1> QED BY <1>1, <1>2, <1>3, EventBusAssumption

(* Every variable starts in its type. *)
LEMMA InitTypeOK == Init => TypeOK
<1> SUFFICES ASSUME Init PROVE TypeOK
  OBVIOUS
<1> USE DEF Init
<1>1. StoreOK BY DEF StoreOK
<1>2. RelayOK BY DEF RelayOK, RelayStates
<1>3. BusOK
  <2>1. <<>> \in Seq(Events) OBVIOUS
  <2>2. ch \in [Consumers -> Seq(Events)] BY <2>1
  <2> QED BY <2>2 DEF BusOK
<1>4. WorkerOK BY ConstantTypes DEF WorkerOK, WorkerStates
<1>5. ReplayOK BY DEF ReplayOK, ReplayStates
<1>6. HistoryOK BY DEF HistoryOK
<1> QED BY <1>1, <1>2, <1>3, <1>4, <1>5, <1>6 DEF TypeOK

(* A step that leaves the database alone keeps its types. *)
LEMMA StoreFrame == StoreOK /\ UNCHANGED <<dbVars, wakeVars>> => StoreOK'
  BY DEF StoreOK, Committed, dbVars, wakeVars

(* A step that leaves the relay and its rows alone keeps their types. *)
LEMMA RelayFrame == RelayOK /\ UNCHANGED <<rowid, published, relayVars>> => RelayOK'
  BY DEF RelayOK, Pending, Committed, relayVars

(* A step that leaves the subscription goroutines alone keeps their types. *)
LEMMA WorkerFrame == WorkerOK /\ UNCHANGED workerVars => WorkerOK'
  BY DEF WorkerOK, workerVars

(* A step that leaves the replay calls alone keeps their types. *)
LEMMA ReplayFrame == ReplayOK /\ UNCHANGED replayVars => ReplayOK'
  BY DEF ReplayOK, replayVars

(* A step that leaves the bus and its channels alone keeps their types. *)
LEMMA BusFrame == BusOK /\ UNCHANGED <<busVars, ch>> => BusOK'
  BY DEF BusOK, busVars

(* Bus.deliver keeps channels and history in their types. *)
LEMMA DeliverTypes ==
    ASSUME TypeOK, NEW c \in Consumers, NEW e \in Events, Send(c, e) \/ Skip(c, e)
    PROVE  /\ ch' \in [Consumers -> Seq(Events)]
           /\ dropped' \subseteq Consumers \X Events
<1>1. ch' \in [Consumers -> Seq(Events)]
  <2>1. ch \in [Consumers -> Seq(Events)] /\ ch[c] \in Seq(Events)
    BY DEF TypeOK, BusOK
  <2>2. Append(ch[c], e) \in Seq(Events)
    BY <2>1
  <2>3. ch' = [ch EXCEPT ![c] = Append(ch[c], e)] \/ ch' = ch
    BY DEF Send, Skip
  <2> HIDE DEF Send, Skip
  <2> QED BY <2>1, <2>2, <2>3
<1>2. dropped' \subseteq Consumers \X Events
  BY DEF TypeOK, HistoryOK, Send, Skip
<1> QED BY <1>1, <1>2

(* The relay's steps keep the types: the row in hand is pending and the batch     *)
(* never outlives the pending rows, so Oldest is always defined when it is used.  *)
LEMMA RelayTypeOK == TypeOK /\ Relay => TypeOK'
<1> SUFFICES ASSUME TypeOK, Relay PROVE TypeOK'
  OBVIOUS
<1> USE DEF TypeOK
<1>a. RelayUnchanged /\ UNCHANGED published /\ woken' \in BOOLEAN => StoreOK'
  BY DEF RelayUnchanged, StoreOK, Committed
<1>b. RelayUnchanged => WorkerOK' /\ ReplayOK'
  BY WorkerFrame, ReplayFrame DEF RelayUnchanged
<1>c. RelayUnchanged /\ UNCHANGED ch => BusOK'
  BY DEF RelayUnchanged, BusOK, busVars
<1>d. RelayUnchanged /\ UNCHANGED dropped /\ storeErrs' \in Nat => HistoryOK'
  BY DEF RelayUnchanged, HistoryOK
<1>e. RelayUnchanged /\ UNCHANGED published => Pending' = Pending
  BY DEF RelayUnchanged, Pending, Committed
<1>f. \A s \in {"wait", "retry"} : EndFlush(s) => RelayOK'
  BY DEF EndFlush, RelayOK, RelayStates
<1>g. woken \in BOOLEAN /\ storeErrs \in Nat
  BY DEF StoreOK, HistoryOK
<1>1. CASE RelayTake
  <2>1. RelayOK'
    BY <1>1, <1>e DEF RelayTake, RelayOK, RelayStates
  <2> QED BY <1>1, <2>1, <1>a, <1>b, <1>c, <1>d, <1>g DEF RelayTake
<1>2. CASE RelayRead
  <2>1. RelayOK'
    BY <1>2, <1>e, PendingFinite, ConstantTypes DEF RelayRead, RelayOK, RelayStates
  <2> QED BY <1>2, <2>1, <1>a, <1>b, <1>c, <1>d, <1>g DEF RelayRead
<1>3. CASE RelayReadFails
  BY <1>3, <1>a, <1>b, <1>c, <1>d, <1>f, <1>g DEF RelayReadFails, StoreErr
<1>4. CASE RelayPublish
  <2>1. RelayOK'
    <3>1. CASE closed
      BY <1>4, <3>1, <1>f DEF RelayPublish
    <3>2. CASE ~closed
      <4>1. Oldest \in Pending
        BY <1>4, OldestIsPending, PendingFinite DEF RelayPublish, RelayOK, StoreOK
      <4>2. Oldest \in Events
        BY <4>1 DEF Pending, Committed
      <4> QED BY <1>4, <3>2, <4>1, <4>2, <1>e, ConstantTypes DEF RelayPublish, RelayOK, RelayStates
    <3> QED BY <3>1, <3>2
  <2> QED BY <1>4, <2>1, <1>a, <1>b, <1>c, <1>d, <1>g DEF RelayPublish
<1>5. CASE RelayDeliver
  <2>1. cur \in Events /\ at \in 1..Len(SubsOf[cur]) /\ Len(SubsOf[cur]) \in Nat
    BY <1>5, ConstantTypes DEF RelayDeliver, RelayOK, Pending, Committed
  <2>2. SubsOf[cur][at] \in Consumers
    BY <2>1, ConstantTypes
  <2>3. ch' \in [Consumers -> Seq(Events)] /\ dropped' \subseteq Consumers \X Events
    BY <1>5, <2>1, <2>2, DeliverTypes DEF RelayDeliver
  <2>4. RelayOK'
    BY <1>5, <1>e, <2>1 DEF RelayDeliver, RelayOK, RelayStates
  <2>5. BusOK' /\ HistoryOK'
    BY <1>5, <2>3 DEF RelayDeliver, RelayUnchanged, BusOK, HistoryOK, busVars
  <2> QED BY <1>5, <2>4, <2>5, <1>a, <1>b, <1>g DEF RelayDeliver
<1>6. CASE RelayDeliverFails
  BY <1>6, <1>a, <1>b, <1>c, <1>d, <1>f, <1>g DEF RelayDeliverFails
<1>7. CASE RelayMark
  <2>1. Pending' = Pending \ {cur} /\ Committed' = Committed
    BY <1>7 DEF RelayMark, RelayUnchanged, Pending, Committed
  <2>2. cur \in Pending /\ left \in 1..Cardinality(Pending)
    BY <1>7 DEF RelayMark, RelayOK
  <2>3. Cardinality(Pending') = Cardinality(Pending) - 1 /\ Cardinality(Pending) \in Nat
    BY <2>1, <2>2, PendingFinite, FS_RemoveElement
  <2>4. RelayOK'
    <3>1. CASE left = 1
      BY <1>7, <3>1, <1>f DEF RelayMark
    <3>2. CASE left > 1
      BY <1>7, <2>2, <2>3, <3>2 DEF RelayMark, RelayOK, RelayStates
    <3> QED BY <2>2, <3>1, <3>2
  <2>5. StoreOK'
    BY <1>7, <2>1, <2>2 DEF RelayMark, RelayUnchanged, CommitAndNotify, StoreOK, Pending
  <2> QED BY <1>7, <2>4, <2>5, <1>b, <1>c, <1>d, <1>g DEF RelayMark
<1>8. CASE RelayMarkFails
  BY <1>8, <1>a, <1>b, <1>c, <1>d, <1>f, <1>g DEF RelayMarkFails, StoreErr
<1>9. CASE RelayWake \/ RelayTick \/ RelayStop
  <2>1. RelayOK'
    BY <1>9, <1>e DEF RelayWake, RelayTick, RelayStop, RelayOK, RelayStates
  <2> QED BY <1>9, <2>1, <1>a, <1>b, <1>c, <1>d, <1>g DEF RelayWake, RelayTick, RelayStop
<1> QED
  BY <1>1, <1>2, <1>3, <1>4, <1>5, <1>6, <1>7, <1>8, <1>9 DEF Relay

(* A subscription's steps keep the types. *)
LEMMA WorkerTypeOK == ASSUME NEW c \in Consumers PROVE TypeOK /\ Worker(c) => TypeOK'
<1> SUFFICES ASSUME TypeOK, Worker(c) PROVE TypeOK'
  OBVIOUS
<1> USE DEF TypeOK
<1>a. WorkerUnchanged => RelayOK' /\ ReplayOK'
  BY RelayFrame, ReplayFrame DEF WorkerUnchanged
<1>b. WorkerUnchanged /\ UNCHANGED ch => BusOK'
  BY BusFrame DEF WorkerUnchanged
<1>c. WorkerUnchanged /\ UNCHANGED <<processed, deadLetters, wakeVars>> => StoreOK'
  BY DEF WorkerUnchanged, StoreOK, Committed, wakeVars
<1>d. WorkerUnchanged /\ UNCHANGED <<runs, dropped>> /\ storeErrs' \in Nat => HistoryOK'
  BY DEF WorkerUnchanged, HistoryOK
<1>e. StoreErr \/ UNCHANGED storeErrs => storeErrs' \in Nat
  BY DEF StoreErr, HistoryOK
<1>f. Return(c) => WorkerOK'
  BY ConstantTypes DEF Return, WorkerOK, WorkerStates
<1>g. wpc[c] \in {"check", "run", "ran"} /\ AttemptFails(c) /\ UNCHANGED <<wev, wtry>> => WorkerOK'
  BY ConstantTypes DEF AttemptFails, WorkerOK, WorkerStates
<1>h. wpc[c] \notin {"idle", "exited"} => wev[c] \in Events /\ wtry[c] \in 1..MaxAttempts
  BY ConstantTypes DEF WorkerOK
<1>1. CASE SubTake(c)
  <2>1. ch[c] \in Seq(Events) /\ ch[c] # <<>>
    BY <1>1 DEF SubTake, BusOK
  <2>2. Head(ch[c]) \in Events /\ Tail(ch[c]) \in Seq(Events)
    BY <2>1
  <2>3. WorkerOK'
    BY <1>1, <2>2, ConstantTypes DEF SubTake, WorkerOK, WorkerStates
  <2>4. BusOK'
    BY <1>1, <2>2 DEF SubTake, WorkerUnchanged, BusOK, busVars
  <2> QED BY <1>1, <2>3, <2>4, <1>a, <1>c, <1>d, <1>e DEF SubTake
<1>2. CASE SubExit(c)
  <2>1. WorkerOK'
    BY <1>2 DEF SubExit, WorkerOK, WorkerStates
  <2>2. HistoryOK'
    BY <1>2 DEF SubExit, WorkerUnchanged, HistoryOK
  <2> QED BY <1>2, <2>1, <2>2, <1>a, <1>b, <1>c DEF SubExit
<1>3. CASE SkipSeen(c)
  BY <1>3, <1>a, <1>b, <1>c, <1>d, <1>e, <1>f DEF SkipSeen
<1>4. CASE CallHandler(c)
  <2>1. WorkerOK'
    BY <1>4 DEF CallHandler, WorkerOK, WorkerStates
  <2> QED BY <1>4, <2>1, <1>a, <1>b, <1>c, <1>d, <1>e DEF CallHandler
<1>5. CASE SeenFails(c)
  BY <1>5, <1>a, <1>b, <1>c, <1>d, <1>e, <1>g DEF SeenFails
<1>6. CASE HandlerSucceeds(c)
  <2>1. WorkerOK'
    BY <1>6 DEF HandlerSucceeds, WorkerOK, WorkerStates
  <2>2. HistoryOK'
    BY <1>6, <1>h DEF HandlerSucceeds, WorkerUnchanged, HistoryOK
  <2> QED BY <1>6, <2>1, <2>2, <1>a, <1>b, <1>c DEF HandlerSucceeds
<1>7. CASE HandlerFails(c)
  BY <1>7, <1>a, <1>b, <1>c, <1>d, <1>e, <1>g DEF HandlerFails
<1>8. CASE HandlerFatal(c)
  <2>1. WorkerOK'
    BY <1>8 DEF HandlerFatal, WorkerOK, WorkerStates
  <2> QED BY <1>8, <2>1, <1>a, <1>b, <1>c, <1>d, <1>e DEF HandlerFatal
<1>9. CASE Record(c)
  <2>1. StoreOK'
    BY <1>9, <1>h DEF Record, WorkerUnchanged, CommitAndNotify, StoreOK, Committed
  <2> QED BY <1>9, <2>1, <1>a, <1>b, <1>d, <1>e, <1>f DEF Record
<1>10. CASE RecordFails(c)
  BY <1>10, <1>a, <1>b, <1>c, <1>d, <1>e, <1>g DEF RecordFails
<1>11. CASE Retry(c)
  <2>1. WorkerOK'
    BY <1>11, ConstantTypes DEF Retry, WorkerOK, WorkerStates
  <2> QED BY <1>11, <2>1, <1>a, <1>b, <1>c, <1>d, <1>e DEF Retry
<1>i. GiveUp(c) /\ WorkerUnchanged /\ UNCHANGED runs /\ wpc[c] \notin {"idle", "exited"}
      /\ (StoreErr \/ UNCHANGED storeErrs) => WorkerOK' /\ HistoryOK'
  BY <1>e, <1>f, <1>h DEF GiveUp, WorkerUnchanged, HistoryOK
<1>12. CASE Nack(c) \/ HandlerTimesOut(c)
  BY <1>12, <1>a, <1>b, <1>c, <1>i DEF Nack, HandlerTimesOut
<1>13. CASE Put(c)
  <2>1. StoreOK'
    BY <1>13, <1>h DEF Put, WorkerUnchanged, CommitAndNotify, StoreOK, Committed
  <2> QED BY <1>13, <2>1, <1>a, <1>b, <1>d, <1>e, <1>f DEF Put
<1>14. CASE PutFails(c)
  BY <1>14, <1>a, <1>b, <1>c, <1>i DEF PutFails
<1> QED
  BY <1>1, <1>2, <1>3, <1>4, <1>5, <1>6, <1>7, <1>8, <1>9, <1>10, <1>11, <1>12, <1>13, <1>14
  DEF Worker

(* A replay's steps keep the types. *)
LEMMA ReplayTypeOK == ASSUME NEW r \in Replayers PROVE TypeOK /\ Replay(r) => TypeOK'
<1> SUFFICES ASSUME TypeOK, Replay(r) PROVE TypeOK'
  OBVIOUS
<1> USE DEF TypeOK
<1>a. ReplayUnchanged => RelayOK' /\ WorkerOK'
  BY RelayFrame, WorkerFrame DEF ReplayUnchanged
<1>b. ReplayUnchanged /\ UNCHANGED ch => BusOK'
  BY BusFrame DEF ReplayUnchanged
<1>c. ReplayUnchanged /\ UNCHANGED <<deadLetters, wakeVars>> => StoreOK'
  BY DEF ReplayUnchanged, StoreOK, Committed, wakeVars
<1>d. ReplayUnchanged /\ UNCHANGED dropped /\ storeErrs' \in Nat /\ replays' \in Nat => HistoryOK'
  BY DEF ReplayUnchanged, HistoryOK
<1>e. StoreErr \/ UNCHANGED storeErrs => storeErrs' \in Nat
  BY DEF StoreErr, HistoryOK
<1>f. ReplayReturn(r) => ReplayOK'
  BY DEF ReplayReturn, ReplayOK, ReplayStates
<1>g. replays \in Nat /\ deadLetters \subseteq Events
  BY DEF HistoryOK, StoreOK
<1>1. ASSUME NEW e \in Events, ReplayGet(r, e) PROVE TypeOK'
  <2>1. ReplayOK'
    BY <1>1 DEF ReplayGet, ReplayOK, ReplayStates
  <2> QED BY <1>1, <2>1, <1>a, <1>b, <1>c, <1>d, <1>e, <1>g DEF ReplayGet
<1>2. CASE ReplayPublish(r)
  <2>1. ReplayOK'
    <3>1. CASE closed
      BY <1>2, <3>1, <1>f DEF ReplayPublish
    <3>2. CASE ~closed
      <4> DEFINE n == Len(SubsOf[rev[r]])
      <4>1. rev[r] \in Events /\ rat[r] = 1 /\ n \in Nat
        BY <1>2, ConstantTypes DEF ReplayPublish, ReplayOK
      <4>2. rpc' = [rpc EXCEPT ![r] = IF n = 0 THEN "delete" ELSE "deliver"]
            /\ rev' = rev /\ rat' = rat
        BY <1>2, <3>2 DEF ReplayPublish
      <4>3. n # 0 => rat[r] \in 1..n
        BY <4>1
      <4> QED BY <4>1, <4>2, <4>3 DEF ReplayOK, ReplayStates
    <3> QED BY <3>1, <3>2
  <2> QED BY <1>2, <2>1, <1>a, <1>b, <1>c, <1>d, <1>e, <1>g DEF ReplayPublish
<1>3. CASE ReplayDeliver(r)
  <2>1. rev[r] \in Events /\ rat[r] \in 1..Len(SubsOf[rev[r]]) /\ Len(SubsOf[rev[r]]) \in Nat
    BY <1>3, ConstantTypes DEF ReplayDeliver, ReplayOK
  <2>2. SubsOf[rev[r]][rat[r]] \in Consumers
    BY <2>1, ConstantTypes
  <2>3. ch' \in [Consumers -> Seq(Events)] /\ dropped' \subseteq Consumers \X Events
    BY <1>3, <2>1, <2>2, DeliverTypes DEF ReplayDeliver
  <2>4. ReplayOK'
    BY <1>3, <2>1 DEF ReplayDeliver, ReplayOK, ReplayStates
  <2>5. BusOK' /\ HistoryOK'
    BY <1>3, <2>3 DEF ReplayDeliver, ReplayUnchanged, BusOK, HistoryOK, busVars
  <2> QED BY <1>3, <2>4, <2>5, <1>a, <1>c DEF ReplayDeliver
<1>4. CASE ReplayDelete(r)
  <2>1. StoreOK'
    BY <1>4 DEF ReplayDelete, ReplayUnchanged, CommitAndNotify, StoreOK, Committed
  <2>2. HistoryOK'
    BY <1>4, <1>g DEF ReplayDelete, ReplayUnchanged, HistoryOK
  <2> QED BY <1>4, <2>1, <2>2, <1>a, <1>b, <1>f DEF ReplayDelete
<1>5. CASE ReplayFails(r)
  BY <1>5, <1>a, <1>b, <1>c, <1>d, <1>e, <1>f, <1>g DEF ReplayFails
<1> QED BY <1>1, <1>2, <1>3, <1>4, <1>5 DEF Replay

(* The next boot starts from well-typed volatile state. *)
LEMMA BootTypeOK == TypeOK /\ Boot /\ crashes' \in Nat /\ shutdowns' \in Nat => TypeOK'
<1> SUFFICES ASSUME TypeOK, Boot, crashes' \in Nat, shutdowns' \in Nat PROVE TypeOK'
  OBVIOUS
<1> USE DEF TypeOK
<1>1. StoreOK'
  BY DEF Boot, dbVars, StoreOK, Committed
<1>2. RelayOK'
  BY DEF Boot, RelayOK, RelayStates
<1>3. BusOK'
  <2>1. <<>> \in Seq(Events) OBVIOUS
  <2>2. ch' \in [Consumers -> Seq(Events)] BY <2>1 DEF Boot
  <2> QED BY <2>2 DEF Boot, BusOK
<1>4. WorkerOK'
  BY ConstantTypes DEF Boot, WorkerOK, WorkerStates
<1>5. ReplayOK'
  BY DEF Boot, ReplayOK, ReplayStates
<1>6. HistoryOK'
  BY DEF Boot, HistoryOK, AllInFlight
<1> QED BY <1>1, <1>2, <1>3, <1>4, <1>5, <1>6

(* The inductive step of type correctness. *)
LEMMA NextTypeOK == TypeOK /\ [Next]_vars => TypeOK'
<1> SUFFICES ASSUME TypeOK, [Next]_vars PROVE TypeOK'
  OBVIOUS
<1> USE DEF TypeOK
<1>1. ASSUME NEW e \in Events, Enqueue(e) PROVE TypeOK'
  <2>1. Committed' = Committed \cup {e} /\ Pending' = Pending \cup {e}
    BY <1>1 DEF Enqueue, Pending, Committed, StoreOK
  <2>2. StoreOK'
    BY <1>1, <2>1 DEF Enqueue, StoreOK
  <2>3. Cardinality(Pending') \in Nat /\ Cardinality(Pending') >= Cardinality(Pending)
    BY <2>1, PendingFinite, FS_AddElement
  <2>4. RelayOK'
    BY <1>1, <2>1, <2>3, PendingFinite DEF Enqueue, RelayOK, relayVars
  <2>5. HistoryOK'
    BY <1>1 DEF Enqueue, HistoryOK, faultVars
  <2> QED BY <1>1, <2>2, <2>4, <2>5, BusFrame, WorkerFrame, ReplayFrame DEF Enqueue
<1>2. CASE Notify
  <2>1. StoreOK' /\ HistoryOK'
    BY <1>2 DEF Notify, dbVars, StoreOK, Committed, HistoryOK, faultVars
  <2> QED BY <1>2, <2>1, BusFrame, RelayFrame, WorkerFrame, ReplayFrame DEF Notify, dbVars
<1>3. CASE Relay
  BY <1>3, RelayTypeOK
<1>4. ASSUME NEW c \in Consumers, Worker(c) PROVE TypeOK'
  BY <1>4, WorkerTypeOK
<1>5. ASSUME NEW r \in Replayers, Replay(r) PROVE TypeOK'
  BY <1>5, ReplayTypeOK
<1>6. CASE Signal
  <2>1. BusOK' /\ HistoryOK'
    BY <1>6 DEF Signal, BusOK, HistoryOK
  <2> QED BY <1>6, <2>1, StoreFrame, RelayFrame, WorkerFrame, ReplayFrame DEF Signal, dbVars
<1>7. CASE Close \/ DrainTimeout
  <2>1. BusOK' /\ HistoryOK'
    BY <1>7 DEF Close, DrainTimeout, BusOK, HistoryOK, faultVars
  <2> QED BY <1>7, <2>1, StoreFrame, RelayFrame, WorkerFrame, ReplayFrame
          DEF Close, DrainTimeout, dbVars
<1>8. CASE Exit
  BY <1>8, BootTypeOK DEF Exit, HistoryOK
<1>9. CASE Crash
  BY <1>9, BootTypeOK DEF Crash, HistoryOK
<1>10. CASE UNCHANGED vars
  <2>1. HistoryOK'
    BY <1>10 DEF vars, faultVars, HistoryOK
  <2> QED BY <1>10, <2>1, StoreFrame, RelayFrame, BusFrame, WorkerFrame, ReplayFrame DEF vars, dbVars
<1> QED BY <1>1, <1>2, <1>3, <1>4, <1>5, <1>6, <1>7, <1>8, <1>9, <1>10 DEF Next

(* Type correctness of the event spine, in every reachable state. *)
THEOREM TypeCorrect == Spec => []TypeOK
<1> QED BY InitTypeOK, NextTypeOK, PTL DEF Spec

-----------------------------------------------------------------------------
(* No delivery vanishes: the inductive invariant behind NothingVanishes. *)

Accounted(c, e) == Kept(c, e) \/ <<c, e>> \in dropped

\* What the relay has already fanned out of the row in hand.
FannedOut ==
    relay \in {"deliver", "mark"} =>
        \A i \in 1..(at - 1) : i <= Len(SubsOf[cur]) => Accounted(SubsOf[cur][i], cur)

VanishInv == NothingVanishes /\ FannedOut

(* A channel keeps its events when one more is sent, and holds the new one. *)
LEMMA HoldsAppend ==
    ASSUME NEW S, NEW s \in Seq(S), NEW x \in S, NEW y
    PROVE  Holds(Append(s, x), y) <=> Holds(s, y) \/ x = y
<1>1. /\ Len(Append(s, x)) = Len(s) + 1 /\ Len(s) \in Nat
      /\ \A i \in 1..Len(s) : Append(s, x)[i] = s[i]
      /\ Append(s, x)[Len(s) + 1] = x
  OBVIOUS
<1>2. ASSUME Holds(Append(s, x), y) PROVE Holds(s, y) \/ x = y
  <2>1. PICK i \in 1..(Len(s) + 1) : Append(s, x)[i] = y
    BY <1>1, <1>2 DEF Holds
  <2>2. CASE i = Len(s) + 1
    BY <1>1, <2>1, <2>2
  <2>3. CASE i \in 1..Len(s)
    BY <1>1, <2>1, <2>3 DEF Holds
  <2> QED BY <1>1, <2>2, <2>3
<1>3. ASSUME Holds(s, y) PROVE Holds(Append(s, x), y)
  <2>1. PICK i \in 1..Len(s) : s[i] = y
    BY <1>3 DEF Holds
  <2> QED BY <1>1, <2>1 DEF Holds
<1>4. ASSUME x = y PROVE Holds(Append(s, x), y)
  BY <1>1, <1>4 DEF Holds
<1> QED BY <1>2, <1>3, <1>4

(* What a channel holds is its head or stays in its tail. *)
LEMMA HoldsTail ==
    ASSUME NEW S, NEW s \in Seq(S), s # <<>>, NEW y
    PROVE  Holds(s, y) <=> Head(s) = y \/ Holds(Tail(s), y)
<1>1. /\ Len(s) \in Nat /\ Len(s) > 0
      /\ Head(s) = s[1]
      /\ Len(Tail(s)) = Len(s) - 1
      /\ \A i \in 1..(Len(s) - 1) : Tail(s)[i] = s[i + 1]
  OBVIOUS
<1>2. ASSUME Holds(s, y) PROVE Head(s) = y \/ Holds(Tail(s), y)
  <2>1. PICK i \in 1..Len(s) : s[i] = y
    BY <1>2 DEF Holds
  <2>2. CASE i = 1
    BY <1>1, <2>1, <2>2
  <2>3. CASE i # 1
    <3>1. i - 1 \in 1..(Len(s) - 1) /\ Tail(s)[i - 1] = y
      BY <1>1, <2>1, <2>3
    <3> QED BY <1>1, <3>1 DEF Holds
  <2> QED BY <2>2, <2>3
<1>3. ASSUME Head(s) = y PROVE Holds(s, y)
  BY <1>1, <1>3 DEF Holds
<1>4. ASSUME Holds(Tail(s), y) PROVE Holds(s, y)
  <2>1. PICK i \in 1..(Len(s) - 1) : Tail(s)[i] = y
    BY <1>1, <1>4 DEF Holds
  <2>2. i + 1 \in 1..Len(s) /\ s[i + 1] = y
    BY <1>1, <2>1
  <2> QED BY <2>2 DEF Holds
<1> QED BY <1>2, <1>3, <1>4

(* Bus.deliver accounts for the pair it handles and disturbs no other. *)
LEMMA DeliverAccounts ==
    ASSUME TypeOK, NEW d \in Consumers, NEW f \in Events, Send(d, f) \/ Skip(d, f),
           UNCHANGED <<processed, deadLetters, wpc, wev>>
    PROVE  /\ Accounted(d, f)'
           /\ \A c \in Consumers, e \in Events : Accounted(c, e) => Accounted(c, e)'
<1>1. ch \in [Consumers -> Seq(Events)]
  BY DEF TypeOK, BusOK
<1>2. CASE Skip(d, f)
  BY <1>2 DEF Skip, Accounted, Kept, InFlight, InHand, Queued
<1>3. CASE Send(d, f)
  <2>1. ch' = [ch EXCEPT ![d] = Append(ch[d], f)]
    BY <1>3 DEF Send
  <2>2. \A c \in Consumers, e \in Events :
           Queued(c, e)' <=> Queued(c, e) \/ (c = d /\ e = f)
    <3> SUFFICES ASSUME NEW c \in Consumers, NEW e \in Events
                 PROVE Queued(c, e)' <=> Queued(c, e) \/ (c = d /\ e = f)
      OBVIOUS
    <3>1. CASE c = d
      <4>1. ch'[c] = Append(ch[c], f) /\ ch[c] \in Seq(Events)
        BY <1>1, <2>1, <3>1
      <4>2. Holds(ch'[c], e) <=> Holds(ch[c], e) \/ f = e
        BY <4>1, HoldsAppend
      <4> QED BY <4>2, <3>1 DEF Queued
    <3>2. CASE c # d
      BY <1>1, <2>1, <3>2 DEF Queued
    <3> QED BY <3>1, <3>2
  <2>3. dropped' = IF wpc[d] = "exited" THEN dropped \cup {<<d, f>>} ELSE dropped \ {<<d, f>>}
    BY <1>3 DEF Send
  <2>4. \A c, e : InHand(c, e)' <=> InHand(c, e)
    BY DEF InHand
  <2> HIDE DEF Queued, InHand
  <2>5. Accounted(d, f)'
    BY <2>2, <2>3 DEF Accounted, Kept, InFlight
  <2>6. ASSUME NEW c \in Consumers, NEW e \in Events, Accounted(c, e) PROVE Accounted(c, e)'
    <3>1. CASE c = d /\ e = f
      BY <2>5, <3>1
    <3>2. CASE ~(c = d /\ e = f)
      BY <2>2, <2>3, <2>4, <2>6, <3>2 DEF Accounted, Kept, InFlight
    <3> QED BY <3>1, <3>2
  <2> QED BY <2>5, <2>6
<1> QED BY <1>2, <1>3

(* A subscription's step keeps every pair accounted for: an event leaves the      *)
(* channel only into the goroutine's hand, and leaves the hand only into          *)
(* processed_events, dead_letters, or the history of abandoned deliveries.        *)
LEMMA WorkerAccounts ==
    ASSUME TypeOK, NEW d \in Consumers, Worker(d),
           NEW c \in Consumers, NEW e \in Events, Accounted(c, e)
    PROVE  Accounted(c, e)'
<1> USE DEF Accounted, Kept, InFlight
<1>t. wpc \in [Consumers -> WorkerStates] /\ wev \in [Consumers -> Events \cup {NoEvent}]
      /\ wtry \in [Consumers -> 0..MaxAttempts] /\ ch \in [Consumers -> Seq(Events)]
  BY DEF TypeOK, WorkerOK, BusOK
<1>q. UNCHANGED ch => (Queued(c, e)' <=> Queued(c, e))
  BY DEF Queued
\* steps after which d still holds the event it held
<1>h. ASSUME UNCHANGED <<ch, wev, processed, deadLetters, dropped>>,
             wpc[d] \in {"check", "run", "ran", "backoff"},
             NEW s \in {"check", "run", "ran", "backoff", "dead"}, wpc' = [wpc EXCEPT ![d] = s]
      PROVE  Accounted(c, e)'
  BY <1>h, <1>q, <1>t DEF InHand
\* steps after which d's event is recorded somewhere
<1>r. ASSUME Return(d), UNCHANGED ch, processed \subseteq processed', deadLetters \subseteq deadLetters',
             dropped \subseteq dropped',
             \/ <<d, wev[d]>> \in processed'
             \/ wev[d] \in deadLetters'
             \/ <<d, wev[d]>> \in dropped'
      PROVE  Accounted(c, e)'
  <2>1. CASE c = d
    BY <1>r, <1>q, <1>t, <2>1 DEF Return, InHand
  <2>2. CASE c # d
    BY <1>r, <1>q, <1>t, <2>2 DEF Return, InHand
  <2> QED BY <2>1, <2>2
<1>1. CASE SubTake(d)
  <2>1. CASE c = d
    <3>1. ch[d] \in Seq(Events) /\ ch[d] # <<>> /\ ch'[d] = Tail(ch[d])
      BY <1>1, <1>t DEF SubTake
    <3>2. Holds(ch[d], e) => Head(ch[d]) = e \/ Holds(ch'[d], e)
      BY <3>1, HoldsTail
    <3>3. wpc'[d] = "check" /\ wev'[d] = Head(ch[d]) /\ wpc[d] = "idle"
      BY <1>1, <1>t DEF SubTake
    <3> QED BY <1>1, <2>1, <3>2, <3>3 DEF SubTake, InHand, Queued
  <2>2. CASE c # d
    <3>1. ch'[c] = ch[c] /\ wpc'[c] = wpc[c] /\ wev'[c] = wev[c]
      BY <1>1, <1>t, <2>2 DEF SubTake
    <3> QED BY <1>1, <3>1 DEF SubTake, InHand, Queued
  <2> QED BY <2>1, <2>2
<1>2. CASE SubExit(d)
  <2>1. CASE c = d
    <3>1. wpc[d] = "idle"
      BY <1>2 DEF SubExit
    <3>2. Queued(d, e) => <<d, e>> \in {p \in {d} \X Events : Queued(d, p[2])}
      OBVIOUS
    <3> QED BY <1>2, <2>1, <3>1, <3>2 DEF SubExit, InHand
  <2>2. CASE c # d
    BY <1>2, <1>t, <1>q, <2>2 DEF SubExit, InHand
  <2> QED BY <2>1, <2>2
<1>3. CASE SkipSeen(d)
  BY <1>3, <1>r DEF SkipSeen
<1>4. CASE CallHandler(d)
  BY <1>4, <1>h DEF CallHandler
<1>5. CASE SeenFails(d) \/ HandlerFails(d) \/ RecordFails(d)
  BY <1>5, <1>h DEF SeenFails, HandlerFails, RecordFails, AttemptFails
<1>6. CASE HandlerSucceeds(d)
  BY <1>6, <1>h DEF HandlerSucceeds
<1>8. CASE HandlerFatal(d)
  BY <1>8, <1>h DEF HandlerFatal
<1>9. CASE Record(d)
  BY <1>9, <1>r DEF Record
<1>11. CASE Retry(d)
  BY <1>11, <1>h DEF Retry
<1>12. CASE Nack(d) \/ HandlerTimesOut(d)
  BY <1>12, <1>r DEF Nack, HandlerTimesOut, GiveUp
<1>13. CASE Put(d)
  BY <1>13, <1>r DEF Put
<1>14. CASE PutFails(d)
  BY <1>14, <1>r DEF PutFails, GiveUp
<1> QED
  BY <1>1, <1>2, <1>3, <1>4, <1>5, <1>6, <1>8, <1>9, <1>11, <1>12, <1>13, <1>14 DEF Worker

(* Every step of the system keeps an accounted pair accounted for: a Delete or a  *)
(* reboot moves what it abandons into the history.                                *)
LEMMA NextAccounts ==
    ASSUME TypeOK, [Next]_vars,
           NEW c \in Consumers, NEW e \in Events, Subscribes(c, e), Accounted(c, e)
    PROVE  Accounted(c, e)'
<1>f. UNCHANGED <<ch, wpc, wev, processed, deadLetters, dropped>> => Accounted(c, e)'
  BY DEF Accounted, Kept, InFlight, InHand, Queued
<1>1. ASSUME NEW d \in Events, Enqueue(d) PROVE Accounted(c, e)'
  BY <1>1, <1>f DEF Enqueue, workerVars
<1>2. CASE Notify \/ Signal \/ Close \/ DrainTimeout
  BY <1>2, <1>f DEF Notify, Signal, Close, DrainTimeout, dbVars, workerVars
<1>3. CASE Relay
  <2>1. CASE RelayDeliver
    <3>1. cur \in Events /\ SubsOf[cur][at] \in Consumers
      BY <2>1, ConstantTypes DEF RelayDeliver, TypeOK, RelayOK, Pending, Committed
    <3> QED BY <2>1, <3>1, DeliverAccounts DEF RelayDeliver, RelayUnchanged, workerVars
  <2>2. CASE ~RelayDeliver
    BY <1>3, <2>2, <1>f DEF Relay, RelayTake, RelayRead, RelayReadFails, RelayPublish,
       RelayDeliverFails, RelayMark, RelayMarkFails, RelayWake, RelayTick, RelayStop,
       RelayUnchanged, workerVars
  <2> QED BY <2>1, <2>2
<1>4. ASSUME NEW d \in Consumers, Worker(d) PROVE Accounted(c, e)'
  BY <1>4, WorkerAccounts
<1>5. ASSUME NEW r \in Replayers, Replay(r) PROVE Accounted(c, e)'
  <2>1. CASE ReplayDeliver(r)
    <3>1. rev[r] \in Events /\ SubsOf[rev[r]][rat[r]] \in Consumers
      BY <2>1, ConstantTypes DEF ReplayDeliver, TypeOK, ReplayOK
    <3> QED BY <2>1, <3>1, DeliverAccounts DEF ReplayDeliver, ReplayUnchanged, workerVars
  <2>2. CASE ReplayDelete(r)
    <3>1. UNCHANGED <<ch, wpc, wev, processed>> /\ deadLetters' = deadLetters \ {rev[r]}
      BY <2>2 DEF ReplayDelete, ReplayUnchanged, workerVars
    <3>2. InFlight(c, e)' <=> InFlight(c, e)
      BY <3>1 DEF InFlight, InHand, Queued
    <3>3. dropped' = dropped \cup {p \in Consumers \X {rev[r]} :
                       Subscribes(p[1], p[2]) /\ p \notin processed /\ ~InFlight(p[1], p[2])}
      BY <2>2 DEF ReplayDelete
    <3> HIDE DEF InFlight, Subscribes
    <3>4. CASE e = rev[r]
      <4>1. <<c, e>> \in processed \/ InFlight(c, e) \/ <<c, e>> \in dropped'
        BY <3>3, <3>4
      <4> QED BY <4>1, <3>1, <3>2 DEF Accounted, Kept
    <3>5. CASE e # rev[r]
      BY <3>1, <3>2, <3>3, <3>5 DEF Accounted, Kept
    <3> QED BY <3>4, <3>5
  <2>3. CASE ~ReplayDeliver(r) /\ ~ReplayDelete(r)
    BY <1>5, <2>3, <1>f DEF Replay, ReplayGet, ReplayPublish, ReplayFails, ReplayUnchanged, workerVars
  <2> QED BY <2>1, <2>2, <2>3
<1>6. CASE Exit \/ Crash
  <2>1. dropped' = dropped \cup AllInFlight /\ UNCHANGED <<processed, deadLetters>>
    BY <1>6 DEF Exit, Crash, Boot, dbVars
  <2>2. InFlight(c, e) => <<c, e>> \in AllInFlight
    BY DEF AllInFlight
  <2> HIDE DEF InFlight
  <2> QED BY <2>1, <2>2 DEF Accounted, Kept
<1>7. CASE UNCHANGED vars
  BY <1>7, <1>f DEF vars, dbVars, workerVars
<1> QED BY <1>1, <1>2, <1>3, <1>4, <1>5, <1>6, <1>7 DEF Next

(* The invariant behind NothingVanishes is inductive: a row is marked only once   *)
(* every subscription of its topic is behind the fan-out.                         *)
LEMMA NextVanishInv == TypeOK /\ VanishInv /\ [Next]_vars => VanishInv'
<1> SUFFICES ASSUME TypeOK, VanishInv, [Next]_vars PROVE VanishInv'
  OBVIOUS
<1>a. \A c \in Consumers, e \in Events : Subscribes(c, e) /\ Accounted(c, e) => Accounted(c, e)'
  BY NextAccounts
<1>b. \A e \in Events : \A i \in 1..Len(SubsOf[e]) :
         SubsOf[e][i] \in Consumers /\ Subscribes(SubsOf[e][i], e)
  BY ConstantTypes DEF Subscribes, Holds
<1>c. published \subseteq Events
  BY DEF TypeOK, StoreOK, Committed
<1>t. /\ relay \in {"deliver", "mark"} => cur \in Events /\ Len(SubsOf[cur]) \in Nat
      /\ at \in Nat \ {0}
      /\ relay = "mark" => at = Len(SubsOf[cur]) + 1
      /\ relay = "deliver" => at \in 1..Len(SubsOf[cur])
  BY ConstantTypes DEF TypeOK, RelayOK, Pending, Committed
\* a step that marks no row keeps the first part
<1>d. UNCHANGED published => NothingVanishes'
  BY <1>a, <1>c DEF VanishInv, NothingVanishes, Accounted
\* a step that leaves the relay alone, or ends its flush, keeps the second
<1>e. UNCHANGED <<relay, cur, at>> \/ relay' \notin {"deliver", "mark"} => FannedOut'
  <2> SUFFICES ASSUME UNCHANGED <<relay, cur, at>>, relay \in {"deliver", "mark"},
                      NEW i \in 1..(at - 1), i <= Len(SubsOf[cur])
               PROVE  Accounted(SubsOf[cur][i], cur)'
    BY DEF FannedOut
  <2>1. i \in 1..Len(SubsOf[cur]) /\ cur \in Events
    BY <1>t
  <2>2. Accounted(SubsOf[cur][i], cur)
    BY DEF VanishInv, FannedOut
  <2> QED BY <2>1, <2>2, <1>a, <1>b
<1>1. CASE Relay
  <2>1. CASE RelayMark
    <3>1. relay = "mark" /\ relay' \notin {"deliver", "mark"} /\ published' = published \cup {cur}
      BY <2>1 DEF RelayMark, EndFlush
    <3>2. NothingVanishes'
      <4> SUFFICES ASSUME NEW e \in published', NEW c \in Consumers, Subscribes(c, e)
                   PROVE  Accounted(c, e)'
        BY DEF NothingVanishes, Accounted
      <4>1. CASE e \in published
        BY <4>1, <1>a, <1>c DEF VanishInv, NothingVanishes, Accounted
      <4>2. CASE e = cur
        <5>1. PICK i \in 1..Len(SubsOf[cur]) : SubsOf[cur][i] = c
          BY <4>2 DEF Subscribes, Holds
        <5>2. i \in 1..(at - 1) /\ i <= Len(SubsOf[cur]) /\ cur \in Events
          BY <1>t, <3>1
        <5>3. Accounted(c, cur)
          BY <3>1, <5>1, <5>2 DEF VanishInv, FannedOut
        <5> QED BY <4>2, <5>2, <5>3, <1>a
      <4> QED BY <3>1, <4>1, <4>2
    <3> QED BY <3>1, <3>2, <1>e DEF VanishInv
  <2>2. CASE RelayDeliver
    <3>1. relay = "deliver" /\ cur' = cur /\ at' = at + 1 /\ UNCHANGED published
      BY <2>2 DEF RelayDeliver
    <3>2. PICK d \in Consumers, f \in Events : d = SubsOf[cur][at] /\ f = cur
      BY <3>1, <1>t, <1>b
    <3>4. Accounted(d, f)'
      BY <2>2, <3>2, DeliverAccounts DEF RelayDeliver, RelayUnchanged, workerVars
    <3>3. FannedOut'
      <4> SUFFICES ASSUME NEW i \in 1..at, i <= Len(SubsOf[cur])
                   PROVE  Accounted(SubsOf[f][i], f)'
        BY <3>1, <3>2, <1>t DEF FannedOut
      <4>1. CASE i = at
        BY <4>1, <3>2, <3>4
      <4>2. CASE i # at
        <5>1. i \in 1..(at - 1) /\ i \in 1..Len(SubsOf[cur]) /\ cur \in Events
          BY <4>2, <1>t, <3>1
        <5>2. Accounted(SubsOf[cur][i], cur)
          BY <3>1, <5>1 DEF VanishInv, FannedOut
        <5> QED BY <5>1, <5>2, <3>2, <1>a, <1>b
      <4> QED BY <4>1, <4>2
    <3> QED BY <3>1, <3>3, <1>d DEF VanishInv
  <2>3. CASE RelayPublish
    <3>1. UNCHANGED published /\ (relay' \notin {"deliver", "mark"} \/ at' = 1)
      BY <2>3 DEF RelayPublish, EndFlush
    <3>2. at' = 1 => FannedOut'
      BY DEF FannedOut
    <3> QED BY <3>1, <3>2, <1>d, <1>e DEF VanishInv
  <2>4. CASE ~RelayMark /\ ~RelayDeliver /\ ~RelayPublish
    <3>1. UNCHANGED published /\ relay' \notin {"deliver", "mark"}
      BY <1>1, <2>4 DEF Relay, RelayTake, RelayRead, RelayReadFails, RelayDeliverFails,
         RelayMarkFails, RelayWake, RelayTick, RelayStop, EndFlush
    <3> QED BY <3>1, <1>d, <1>e DEF VanishInv
  <2> QED BY <2>1, <2>2, <2>3, <2>4
<1>2. CASE ~Relay
  <2>1. UNCHANGED published
        /\ (UNCHANGED <<relay, cur, at>> \/ relay' \notin {"deliver", "mark"})
    <3>1. ASSUME NEW e \in Events, Enqueue(e) PROVE UNCHANGED <<published, relay, cur, at>>
      BY <3>1 DEF Enqueue, relayVars
    <3>2. ASSUME NEW c \in Consumers, Worker(c) PROVE UNCHANGED <<published, relay, cur, at>>
      BY <3>2 DEF Worker, SubTake, SubExit, SkipSeen, CallHandler, SeenFails, HandlerSucceeds,
         HandlerFails, HandlerFatal, Record, RecordFails, Retry, Nack, HandlerTimesOut, Put, PutFails,
         WorkerUnchanged, relayVars
    <3>3. ASSUME NEW r \in Replayers, Replay(r) PROVE UNCHANGED <<published, relay, cur, at>>
      BY <3>3 DEF Replay, ReplayGet, ReplayPublish, ReplayDeliver, ReplayDelete, ReplayFails,
         ReplayUnchanged, relayVars
    <3>4. CASE Notify \/ Signal \/ Close \/ DrainTimeout \/ UNCHANGED vars
      BY <3>4 DEF Notify, Signal, Close, DrainTimeout, vars, dbVars, relayVars
    <3>5. CASE Exit \/ Crash
      BY <3>5 DEF Exit, Crash, Boot, dbVars
    <3> QED BY <1>2, <3>1, <3>2, <3>3, <3>4, <3>5 DEF Next
  <2> QED BY <2>1, <1>d, <1>e DEF VanishInv
<1> QED BY <1>1, <1>2

(* A published row is accounted for at each of its subscriptions, for every       *)
(* interleaving of relay, subscriptions and replays and any number of faults.     *)
THEOREM NoDeliveryVanishes == Spec => []NothingVanishes
<1>1. Init => VanishInv
  BY DEF Init, VanishInv, NothingVanishes, FannedOut
<1>2. VanishInv => NothingVanishes
  BY DEF VanishInv
<1> QED BY <1>1, <1>2, NextVanishInv, TypeCorrect, PTL DEF Spec

-----------------------------------------------------------------------------
(* Wake-ups *)

(* The relay never sleeps over a committed row after a clean flush. *)
THEOREM WakeupNeverLost == Spec => []NoLostWakeup
<1>1. Init => NoLostWakeup
  BY DEF Init, NoLostWakeup
<1>2. TypeOK /\ NoLostWakeup /\ [Next]_vars => NoLostWakeup'
  <2> SUFFICES ASSUME TypeOK, NoLostWakeup, [Next]_vars PROVE NoLostWakeup'
    OBVIOUS
  <2>a. UNCHANGED <<rowid, published>> => Pending' = Pending
    BY DEF Pending, Committed
  \* a step that takes no wake-up away and leaves the relay and its rows alone
  <2>b. UNCHANGED <<rowid, published, relay, notifyDue>> /\ (woken' = woken \/ woken' = TRUE)
        => NoLostWakeup'
    BY <2>a DEF NoLostWakeup
  <2>1. ASSUME NEW e \in Events, Enqueue(e) PROVE NoLostWakeup'
    BY <2>1 DEF Enqueue, NoLostWakeup
  <2>2. CASE Notify
    BY <2>2 DEF Notify, NoLostWakeup
  <2>3. CASE Relay
    <3>1. CASE RelayRead
      <4>1. relay' = "wait" => Cardinality(Pending) = 0
        BY <3>1, PendingFinite, ConstantTypes DEF RelayRead
      <4>2. Pending' = Pending
        BY <3>1, <2>a DEF RelayRead, RelayUnchanged
      <4> QED BY <4>1, <4>2, PendingFinite DEF NoLostWakeup
    <3>2. CASE RelayMark
      BY <3>2 DEF RelayMark, CommitAndNotify, NoLostWakeup
    <3>3. CASE ~RelayRead /\ ~RelayMark
      <4>1. relay' # "wait"
        BY <2>3, <3>3 DEF Relay, RelayTake, RelayReadFails, RelayPublish, RelayDeliver,
           RelayDeliverFails, RelayMarkFails, RelayWake, RelayTick, RelayStop, EndFlush
      <4> QED BY <4>1 DEF NoLostWakeup
    <3> QED BY <3>1, <3>2, <3>3
  <2>4. ASSUME NEW c \in Consumers, Worker(c) PROVE NoLostWakeup'
    BY <2>4, <2>b DEF Worker, SubTake, SubExit, SkipSeen, CallHandler, SeenFails, HandlerSucceeds,
       HandlerFails, HandlerFatal, Record, RecordFails, Retry, Nack, HandlerTimesOut, Put, PutFails,
       CommitAndNotify, WorkerUnchanged, relayVars, wakeVars
  <2>5. ASSUME NEW r \in Replayers, Replay(r) PROVE NoLostWakeup'
    BY <2>5, <2>b DEF Replay, ReplayGet, ReplayPublish, ReplayDeliver, ReplayDelete, ReplayFails,
       CommitAndNotify, ReplayUnchanged, relayVars, wakeVars
  <2>6. CASE Signal \/ Close \/ DrainTimeout \/ UNCHANGED vars
    BY <2>6, <2>b DEF Signal, Close, DrainTimeout, vars, dbVars, relayVars, wakeVars
  <2>7. CASE Exit \/ Crash
    BY <2>7 DEF Exit, Crash, Boot, NoLostWakeup
  <2> QED BY <2>1, <2>2, <2>3, <2>4, <2>5, <2>6, <2>7 DEF Next
<1> QED BY <1>1, <1>2, TypeCorrect, PTL DEF Spec

-----------------------------------------------------------------------------
(* Repeated handler runs: the inductive invariant behind RunsBounded.  A shutdown *)
(* pays for one extra success, but the bus context is only cancelled later in the *)
(* same shutdown: until then that budget must still be unspent.                   *)

Faults == crashes + shutdowns + storeErrs

\* The budget the shutdown under way has not used yet.
Reserve == IF stopping THEN 1 ELSE 0

\* The one success that needs no fault: recorded, or about to be.
First(c, e) ==
    IF <<c, e>> \in processed \/ (wpc[c] = "ran" /\ wev[c] = e) THEN 1 ELSE 0

MayRun(c) == ~cancelled \/ wpc[c] \in {"run", "ran"}

RunsOK(c, e) ==
    /\ wpc[c] \in {"run", "ran"} => <<c, wev[c]>> \notin processed
    /\ runs[c][e] <= Faults + First(c, e)
    /\ MayRun(c) => runs[c][e] <= Faults - Reserve + First(c, e)

RunsInv == \A c \in Consumers, e \in Events : RunsOK(c, e)

(* The invariant behind RunsBounded is inductive. *)
LEMMA NextRunsInv == TypeOK /\ RunsInv /\ [Next]_vars => RunsInv'
<1> SUFFICES ASSUME TypeOK, RunsInv, [Next]_vars,
                    NEW c \in Consumers, NEW e \in Events
             PROVE  RunsOK(c, e)'
  BY DEF RunsInv
<1> USE DEF RunsOK
<1>i. /\ wpc[c] \in {"run", "ran"} => <<c, wev[c]>> \notin processed
      /\ runs[c][e] <= Faults + First(c, e)
      /\ MayRun(c) => runs[c][e] <= Faults - Reserve + First(c, e)
  BY DEF RunsInv
<1>t. /\ crashes \in Nat /\ shutdowns \in Nat /\ storeErrs \in Nat
      /\ runs \in [Consumers -> [Events -> Nat]] /\ runs[c][e] \in Nat
      /\ wpc \in [Consumers -> WorkerStates]
      /\ wev \in [Consumers -> Events \cup {NoEvent}]
      /\ stopping \in BOOLEAN /\ cancelled \in BOOLEAN
      /\ cancelled => stopping
  BY DEF TypeOK, HistoryOK, WorkerOK, BusOK
<1>u. First(c, e) \in {0, 1} /\ Reserve \in {0, 1} /\ Faults \in Nat
  BY <1>t DEF First, Reserve, Faults
\* a step that leaves the pair's goroutine and the process alone; an error only adds budget
<1>f. ASSUME UNCHANGED <<runs, stopping, cancelled, crashes, shutdowns>>,
             storeErrs' = storeErrs \/ storeErrs' = storeErrs + 1,
             wpc'[c] = wpc[c], wev'[c] = wev[c],
             \A x : <<c, x>> \in processed' <=> <<c, x>> \in processed
      PROVE  RunsOK(c, e)'
  BY <1>f, <1>i, <1>t, <1>u DEF Faults, First, Reserve, MayRun
<1>1. ASSUME NEW d \in Events, Enqueue(d) PROVE RunsOK(c, e)'
  BY <1>1, <1>f DEF Enqueue, busVars, workerVars, faultVars
<1>2. CASE Notify
  BY <1>2, <1>f DEF Notify, dbVars, busVars, workerVars, faultVars
<1>3. CASE Relay
  BY <1>3, <1>f DEF Relay, RelayTake, RelayRead, RelayReadFails, RelayPublish, RelayDeliver,
     RelayDeliverFails, RelayMark, RelayMarkFails, RelayWake, RelayTick, RelayStop,
     StoreErr, RelayUnchanged, busVars, workerVars
<1>4. ASSUME NEW d \in Consumers, Worker(d) PROVE RunsOK(c, e)'
  <2>u. UNCHANGED <<stopping, cancelled, crashes, shutdowns>>
    BY <1>4 DEF Worker, SubTake, SubExit, SkipSeen, CallHandler, SeenFails, HandlerSucceeds,
       HandlerFails, HandlerFatal, Record, RecordFails, Retry, Nack, HandlerTimesOut, Put, PutFails,
       WorkerUnchanged, busVars
  <2>e. storeErrs' = storeErrs \/ storeErrs' = storeErrs + 1
    BY <1>4 DEF Worker, SubTake, SubExit, SkipSeen, CallHandler, SeenFails, HandlerSucceeds,
       HandlerFails, HandlerFatal, Record, RecordFails, Retry, Nack, HandlerTimesOut, Put, PutFails, StoreErr
  <2>1. CASE c # d
    <3>1. wpc'[c] = wpc[c] /\ wev'[c] = wev[c]
      BY <1>4, <1>t, <2>1 DEF Worker, SubTake, SubExit, SkipSeen, CallHandler, SeenFails,
         HandlerSucceeds, HandlerFails, HandlerFatal, Record, RecordFails, Retry, Nack, HandlerTimesOut, Put,
         PutFails, Return, GiveUp, AttemptFails
    <3>2. \A x : <<c, x>> \in processed' <=> <<c, x>> \in processed
      BY <1>4, <2>1 DEF Worker, SubTake, SubExit, SkipSeen, CallHandler, SeenFails,
         HandlerSucceeds, HandlerFails, HandlerFatal, Record, RecordFails, Retry, Nack, HandlerTimesOut, Put, PutFails
    <3>3. runs'[c][e] = runs[c][e]
      BY <1>4, <1>t, <2>1 DEF Worker, SubTake, SubExit, SkipSeen, CallHandler, SeenFails,
         HandlerSucceeds, HandlerFails, HandlerFatal, Record, RecordFails, Retry, Nack, HandlerTimesOut, Put, PutFails
    <3> QED BY <1>i, <1>t, <1>u, <2>u, <2>e, <3>1, <3>2, <3>3 DEF Faults, First, Reserve, MayRun
  <2>2. CASE c = d
    \* a step out of a control state other than "ran", into one other than "run" and "ran"
    <3>q. ASSUME UNCHANGED <<runs, processed>>, wpc[c] # "ran", wpc'[c] \notin {"run", "ran"}
          PROVE  RunsOK(c, e)'
      BY <3>q, <1>i, <1>t, <1>u, <2>u, <2>e DEF Faults, First, Reserve, MayRun
    <3>1. CASE CallHandler(c)
      <4>1. wpc'[c] = "run" /\ wpc[c] = "check" /\ ~cancelled /\ <<c, wev[c]>> \notin processed
            /\ UNCHANGED <<wev, processed, runs>>
        BY <3>1, <1>t DEF CallHandler
      <4> QED BY <4>1, <1>i, <1>t, <1>u, <2>u, <2>e DEF Faults, First, Reserve, MayRun
    <3>2. CASE HandlerSucceeds(c)
      <4>1. wpc'[c] = "ran" /\ wpc[c] = "run" /\ UNCHANGED <<wev, processed, storeErrs>>
            /\ wev[c] \in Events
        BY <3>2, <1>t DEF HandlerSucceeds, TypeOK, WorkerOK
      <4>2. runs'[c][e] = IF e = wev[c] THEN runs[c][e] + 1 ELSE runs[c][e]
        BY <3>2, <4>1, <1>t DEF HandlerSucceeds
      <4>3. First(c, e)' = IF e = wev[c] THEN 1 ELSE First(c, e)
        BY <4>1 DEF First
      <4>4. e = wev[c] => First(c, e) = 0
        BY <4>1, <1>i DEF First
      <4>5. Faults' = Faults /\ Reserve' = Reserve /\ MayRun(c)
        BY <4>1, <2>u DEF Faults, Reserve, MayRun
      <4>6. (wpc[c] \in {"run", "ran"} => <<c, wev[c]>> \notin processed)'
        BY <4>1, <1>i
      <4> HIDE DEF First, Faults, Reserve, MayRun
      <4> QED BY <4>2, <4>3, <4>4, <4>5, <4>6, <1>i, <1>t, <1>u
    <3>3. CASE Record(c)
      <4>1. wpc'[c] = "idle" /\ wpc[c] = "ran" /\ UNCHANGED <<storeErrs, runs>>
            /\ processed' = processed \cup {<<c, wev[c]>>}
        BY <3>3, <1>t DEF Record, Return
      <4>2. First(c, e)' = First(c, e)
        BY <4>1 DEF First
      <4>3. MayRun(c)
        BY <4>1 DEF MayRun
      <4>4. Faults' = Faults /\ Reserve' = Reserve
        BY <4>1, <2>u DEF Faults, Reserve
      <4> HIDE DEF First, Faults, Reserve, MayRun
      <4> QED BY <4>1, <4>2, <4>3, <4>4, <1>i
    <3>4. CASE RecordFails(c)
      <4>1. wpc'[c] \in {"backoff", "dead"} /\ wpc[c] = "ran" /\ UNCHANGED <<runs, processed>>
        BY <3>4, <1>t DEF RecordFails, AttemptFails
      <4>2. (cancelled /\ stopping) \/ storeErrs' = storeErrs + 1
        BY <3>4, <1>t DEF RecordFails, StoreErr
      <4>3. First(c, e)' \in {0, 1} /\ First(c, e)' >= First(c, e) - 1
        BY <4>1 DEF First
      <4>4. MayRun(c) /\ (MayRun(c)' => ~cancelled)
        BY <4>1, <2>u DEF MayRun
      <4>5. Reserve' = Reserve /\ (stopping => Reserve = 1)
        BY <2>u DEF Reserve
      <4>6. Faults' = Faults \/ Faults' = Faults + 1
        BY <2>u, <2>e, <1>t DEF Faults
      <4>7. storeErrs' = storeErrs + 1 => Faults' = Faults + 1
        BY <2>u, <1>t DEF Faults
      <4> HIDE DEF First, Faults, Reserve, MayRun
      <4> QED BY <4>1, <4>2, <4>3, <4>4, <4>5, <4>6, <4>7, <1>i, <1>t, <1>u
    <3>5. CASE SubTake(c) \/ SubExit(c) \/ SkipSeen(c) \/ SeenFails(c) \/ HandlerFails(c)
               \/ HandlerFatal(c) \/ Retry(c) \/ Nack(c) \/ HandlerTimesOut(c) \/ Put(c) \/ PutFails(c)
      <4>1. wpc[c] # "ran" /\ wpc'[c] \notin {"run", "ran"} /\ UNCHANGED <<runs, processed>>
        BY <3>5, <1>t DEF SubTake, SubExit, SkipSeen, SeenFails, HandlerFails, HandlerFatal,
           Retry, Nack, HandlerTimesOut, Put, PutFails, Return, GiveUp, AttemptFails
      <4> QED BY <4>1, <3>q
    <3> QED BY <1>4, <2>2, <3>1, <3>2, <3>3, <3>4, <3>5 DEF Worker
  <2> QED BY <2>1, <2>2
<1>5. ASSUME NEW r \in Replayers, Replay(r) PROVE RunsOK(c, e)'
  BY <1>5, <1>f DEF Replay, ReplayGet, ReplayPublish, ReplayDeliver, ReplayDelete, ReplayFails,
     StoreErr, ReplayUnchanged, busVars, workerVars
<1>6. CASE Signal
  <2>1. UNCHANGED <<runs, processed, wpc, wev, cancelled, crashes, storeErrs>>
        /\ shutdowns' = shutdowns + 1 /\ stopping' /\ ~stopping
    BY <1>6 DEF Signal, dbVars, workerVars
  <2> QED BY <2>1, <1>i, <1>t, <1>u DEF Faults, First, Reserve, MayRun
<1>7. CASE Close
  BY <1>7, <1>f DEF Close, dbVars, workerVars, faultVars
<1>8. CASE DrainTimeout
  <2>1. UNCHANGED <<runs, processed, wpc, wev, stopping, crashes, shutdowns, storeErrs>> /\ ~cancelled
    BY <1>8 DEF DrainTimeout, dbVars, workerVars, faultVars
  <2> QED BY <2>1, <1>i, <1>t, <1>u DEF Faults, First, Reserve, MayRun
<1>9. CASE Exit \/ Crash
  <2>1. UNCHANGED <<runs, processed, storeErrs>> /\ wpc'[c] = "idle" /\ stopping' = FALSE
    BY <1>9 DEF Exit, Crash, Boot, dbVars
  <2>2. First(c, e)' \in {0, 1} /\ Reserve' = 0
        /\ (wpc[c] # "ran" => First(c, e)' = First(c, e))
    BY <2>1 DEF First, Reserve
  <2>3. CASE Exit
    <3>1. Faults' = Faults /\ stopping
      BY <2>1, <2>3 DEF Exit, Faults, TypeOK, BusOK
    <3>2. wpc[c] = "ran" => MayRun(c) /\ Reserve = 1
      BY <3>1 DEF MayRun, Reserve
    <3> HIDE DEF First, Faults, Reserve, MayRun
    <3> QED BY <2>1, <2>2, <3>1, <3>2, <1>i, <1>t, <1>u
  <2>4. CASE Crash
    <3>1. Faults' = Faults + 1
      BY <2>1, <2>4, <1>t DEF Crash, Faults
    <3> HIDE DEF First, Faults, Reserve, MayRun
    <3> QED BY <2>1, <2>2, <3>1, <1>i, <1>t, <1>u
  <2> QED BY <1>9, <2>3, <2>4
<1>10. CASE UNCHANGED vars
  BY <1>10, <1>f DEF vars, dbVars, busVars, workerVars, faultVars
<1> QED BY <1>1, <1>2, <1>3, <1>4, <1>5, <1>6, <1>7, <1>8, <1>9, <1>10 DEF Next

(* A handler succeeds on an event at most once more than there were crashes,      *)
(* shutdowns and database errors, however often the event is delivered.           *)
THEOREM HandlerRunsBounded == Spec => []RunsBounded
<1>1. Init => RunsInv
  BY DEF Init, RunsInv, RunsOK, Faults, Reserve, First, MayRun
<1>2. TypeOK /\ RunsInv => RunsBounded
  <2> SUFFICES ASSUME TypeOK, RunsInv, NEW c \in Consumers, NEW e \in Events
               PROVE  runs[c][e] <= 1 + crashes + shutdowns + storeErrs
    BY DEF RunsBounded
  <2>1. runs[c][e] <= Faults + First(c, e) /\ First(c, e) \in {0, 1}
    BY DEF RunsInv, RunsOK, First
  <2>2. runs[c][e] \in Nat /\ crashes \in Nat /\ shutdowns \in Nat /\ storeErrs \in Nat
    BY DEF TypeOK, HistoryOK
  <2> QED BY <2>1, <2>2 DEF Faults
<1> QED BY <1>1, <1>2, NextRunsInv, TypeCorrect, PTL DEF Spec

-----------------------------------------------------------------------------
(* At-least-once delivery while nothing goes wrong outside the handlers. *)

\* What the handlers alone cannot bring about, and what they give up on is a letter.
CleanInv ==
    /\ ~stopping
    /\ \A r \in Replayers : rpc[r] = "idle"
    /\ \A c \in Consumers : wpc[c] # "exited"
    /\ \A c \in Consumers, e \in Events : <<c, e>> \in dropped => e \in deadLetters

(* Faults are only ever counted up: what is calm now was calm before. *)
LEMMA CalmBefore == TypeOK /\ [Next]_vars /\ Calm' => Calm
<1> SUFFICES ASSUME TypeOK, [Next]_vars, Calm' PROVE Calm
  OBVIOUS
<1>t. crashes \in Nat /\ shutdowns \in Nat /\ storeErrs \in Nat /\ replays \in Nat
  BY DEF TypeOK, HistoryOK
<1>c. ASSUME crashes' = crashes \/ crashes' = crashes + 1,
             shutdowns' = shutdowns \/ shutdowns' = shutdowns + 1,
             storeErrs' = storeErrs \/ storeErrs' = storeErrs + 1,
             replays' = replays \/ replays' = replays + 1
      PROVE  Calm
  BY <1>c, <1>t DEF Calm
<1>1. ASSUME NEW e \in Events, Enqueue(e) PROVE Calm
  BY <1>1, <1>c DEF Enqueue, faultVars
<1>2. CASE Notify
  BY <1>2, <1>c DEF Notify, faultVars
<1>3. CASE Relay
  BY <1>3, <1>c DEF Relay, RelayTake, RelayRead, RelayReadFails, RelayPublish, RelayDeliver,
     RelayDeliverFails, RelayMark, RelayMarkFails, RelayWake, RelayTick, RelayStop,
     RelayUnchanged, StoreErr
<1>4. ASSUME NEW d \in Consumers, Worker(d) PROVE Calm
  BY <1>4, <1>c DEF Worker, SubTake, SubExit, SkipSeen, CallHandler, SeenFails, HandlerSucceeds,
     HandlerFails, HandlerFatal, Record, RecordFails, Retry, Nack, HandlerTimesOut, Put, PutFails,
     WorkerUnchanged, StoreErr
<1>5. ASSUME NEW r \in Replayers, Replay(r) PROVE Calm
  BY <1>5, <1>c DEF Replay, ReplayGet, ReplayPublish, ReplayDeliver, ReplayDelete, ReplayFails,
     ReplayUnchanged, StoreErr
<1>6. CASE Signal \/ Close \/ DrainTimeout \/ Exit \/ Crash
  BY <1>6, <1>c DEF Signal, Close, DrainTimeout, Exit, Crash, Boot, faultVars
<1>7. CASE UNCHANGED vars
  BY <1>7, <1>c DEF vars, faultVars
<1> QED BY <1>1, <1>2, <1>3, <1>4, <1>5, <1>6, <1>7 DEF Next

(* The invariant behind AtLeastOnceWhenCalm is inductive. *)
LEMMA NextCleanInv ==
    TypeOK /\ (Calm => CleanInv) /\ [Next]_vars => (Calm => CleanInv)'
<1> SUFFICES ASSUME TypeOK, Calm, Calm', CleanInv, [Next]_vars PROVE CleanInv'
  BY CalmBefore
<1>t. /\ ~stopping /\ ~closed /\ ~cancelled
      /\ crashes \in Nat /\ shutdowns \in Nat /\ storeErrs \in Nat /\ replays \in Nat
      /\ wpc \in [Consumers -> WorkerStates]
  BY DEF TypeOK, BusOK, HistoryOK, WorkerOK, CleanInv
<1>n. ~StoreErr /\ ~Signal /\ ~Close /\ ~DrainTimeout /\ ~Exit /\ ~Crash
  BY <1>t DEF Calm, StoreErr, Signal, Close, DrainTimeout, Exit, Crash
<1>f. UNCHANGED <<stopping, rpc, wpc, dropped, deadLetters>> => CleanInv'
  BY DEF CleanInv
<1>1. ASSUME NEW e \in Events, Enqueue(e) PROVE CleanInv'
  BY <1>1, <1>f DEF Enqueue, busVars, replayVars, workerVars
<1>2. CASE Notify
  BY <1>2, <1>f DEF Notify, dbVars, busVars, replayVars, workerVars
<1>3. CASE Relay
  <2>1. CASE RelayDeliver
    <3>1. UNCHANGED <<stopping, rpc, wpc, deadLetters>>
      BY <2>1 DEF RelayDeliver, RelayUnchanged, busVars, replayVars, workerVars
    <3>2. SubsOf[cur][at] \in Consumers
      BY <2>1, ConstantTypes DEF RelayDeliver, TypeOK, RelayOK, Pending, Committed
    <3>3. dropped' \subseteq dropped
      BY <2>1, <3>2, <1>t DEF RelayDeliver, Send, Skip, CleanInv
    <3> QED BY <3>1, <3>3 DEF CleanInv
  <2>2. CASE ~RelayDeliver
    BY <1>3, <2>2, <1>f DEF Relay, RelayTake, RelayRead, RelayReadFails, RelayPublish,
       RelayDeliverFails, RelayMark, RelayMarkFails, RelayWake, RelayTick, RelayStop,
       RelayUnchanged, busVars, replayVars, workerVars
  <2> QED BY <2>1, <2>2
<1>4. ASSUME NEW d \in Consumers, Worker(d) PROVE CleanInv'
  <2>1. UNCHANGED <<stopping, rpc>>
    BY <1>4 DEF Worker, SubTake, SubExit, SkipSeen, CallHandler, SeenFails, HandlerSucceeds,
       HandlerFails, HandlerFatal, Record, RecordFails, Retry, Nack, HandlerTimesOut, Put, PutFails,
       WorkerUnchanged, busVars, replayVars
  <2>2. \A c \in Consumers : wpc'[c] # "exited"
    BY <1>4, <1>t DEF Worker, SubTake, SubExit, SkipSeen, CallHandler, SeenFails, HandlerSucceeds,
       HandlerFails, HandlerFatal, Record, RecordFails, Retry, Nack, HandlerTimesOut, Put, PutFails,
       Return, GiveUp, AttemptFails, CleanInv
  <2>3. deadLetters \subseteq deadLetters'
    BY <1>4 DEF Worker, SubTake, SubExit, SkipSeen, CallHandler, SeenFails, HandlerSucceeds,
       HandlerFails, HandlerFatal, Record, RecordFails, Retry, Nack, HandlerTimesOut, Put, PutFails
  <2>4. dropped' = dropped \/ (dropped' = dropped \cup {<<d, wev[d]>>} /\ wev[d] \in deadLetters)
    BY <1>4, <1>t, <1>n DEF Calm, Worker, SubTake, SubExit, SkipSeen, CallHandler, SeenFails,
       HandlerSucceeds, HandlerFails, HandlerFatal, Record, RecordFails, Retry, Nack, HandlerTimesOut, Put,
       PutFails, GiveUp
  <2> QED BY <2>1, <2>2, <2>3, <2>4 DEF CleanInv
<1>5. ASSUME NEW r \in Replayers, Replay(r) PROVE CleanInv'
  BY <1>5, <1>t DEF Replay, ReplayGet, ReplayPublish, ReplayDeliver, ReplayDelete, ReplayFails,
     Calm, CleanInv
<1>6. CASE UNCHANGED vars
  BY <1>6, <1>f DEF vars, dbVars, busVars, replayVars, workerVars
<1> QED BY <1>1, <1>2, <1>3, <1>4, <1>5, <1>6, <1>n DEF Next

(* Until the first crash, shutdown, database error or replay, and if no handler    *)
(* ends in a context error of its own, a published row is processed, still in the  *)
(* process, or dead-lettered at each subscription, however the handlers fail and   *)
(* however full the channels are.                                                  *)
THEOREM AtLeastOnceUntilFault == Spec => []AtLeastOnceWhenCalm
<1>1. Init => (Calm => CleanInv)
  BY DEF Init, CleanInv
<1>2. TypeOK /\ (Calm => CleanInv) /\ NothingVanishes => AtLeastOnceWhenCalm
  BY DEF CleanInv, NothingVanishes, AtLeastOnceWhenCalm, AtLeastOnce, Kept, TypeOK, StoreOK, Committed
<1>3. TypeOK /\ (Calm => CleanInv) /\ [Next]_vars => (Calm => CleanInv)'
  BY NextCleanInv
<1> QED BY <1>1, <1>2, <1>3, TypeCorrect, NoDeliveryVanishes, PTL DEF Spec
=============================================================================
