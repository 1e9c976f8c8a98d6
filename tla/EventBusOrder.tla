--------------------------- MODULE EventBusOrder ---------------------------
(***************************************************************************)
(* Commit order on EventBus: while no operator replays, each subscription  *)
(* handles the rows of its topic in the order they were committed.         *)
(***************************************************************************)
EXTENDS EventBusRefinement

-----------------------------------------------------------------------------
(* The inductive invariant behind CommitOrderKept *)

\* Row numbers never repeat, and only committed rows were handled.
RowsInv ==
    /\ \A e \in Events : rowid[e] <= lastRow
    /\ \A c \in Consumers, e \in Events : runs[c][e] > 0 => e \in Committed

\* The row being published is the oldest pending one.
OldestInHand == relay \in {"deliver", "mark"} => \A d \in Pending : rowid[cur] <= rowid[d]

Rising(s) == \A i, j \in 1..Len(s) : i < j => rowid[s[i]] <= rowid[s[j]]

\* c's goroutine and channel hold rows in commit order; a row whose publication was
\* repeated may be there twice.
InOrder(c) ==
    /\ Rising(ch[c])
    /\ wev[c] \in Events => \A i \in 1..Len(ch[c]) : rowid[wev[c]] <= rowid[ch[c][i]]

\* Nothing reaches c before every older row is published.
ReachedInOrder(c) ==
    \A e \in Events, d \in Committed :
        (Copy(c, e) \/ runs[c][e] > 0) /\ rowid[d] < rowid[e] => d \in published

\* A row that is still on its way to c after a younger one was handled was handled
\* before, too.
HandledInOrder(c) ==
    \A d, e \in Events :
        runs[c][e] > 0 /\ rowid[d] < rowid[e] /\ Copy(c, d) => runs[c][d] > 0

OrderInv ==
    /\ RowsInv
    /\ replays = 0 =>
          /\ \A r \in Replayers : rpc[r] = "idle"
          /\ OldestInHand
          /\ \A c \in Consumers : InOrder(c) /\ ReachedInOrder(c) /\ HandledInOrder(c)

(* Rows keep their numbers and the table of runs only grows, on committed rows.   *)
LEMMA NextRowsInv == TypeOK /\ RouteInv /\ RowsInv /\ [Next]_vars => RowsInv'
<1> SUFFICES ASSUME TypeOK, RouteInv, RowsInv, [Next]_vars PROVE RowsInv'
  OBVIOUS
<1>f. UNCHANGED <<rowid, lastRow, runs>> => RowsInv'
  BY DEF RowsInv, Committed
<1>1. ASSUME NEW x \in Events, Enqueue(x) PROVE RowsInv'
  <2>1. /\ rowid' = [rowid EXCEPT ![x] = lastRow + 1] /\ lastRow' = lastRow + 1 /\ runs' = runs
        /\ rowid \in [Events -> Nat] /\ lastRow \in Nat
    BY <1>1 DEF Enqueue, TypeOK, StoreOK
  <2>2. Committed \subseteq Committed'
    BY <2>1 DEF Committed
  <2>3. \A e \in Events : rowid'[e] <= lastRow'
    BY <2>1 DEF RowsInv
  <2> QED BY <2>1, <2>2, <2>3 DEF RowsInv
<1>2. CASE Notify \/ Signal \/ Close \/ DrainTimeout \/ UNCHANGED vars
  BY <1>2, <1>f DEF Notify, Signal, Close, DrainTimeout, vars, dbVars
<1>3. CASE Relay
  BY <1>3, <1>f DEF Relay, RelayTake, RelayRead, RelayReadFails, RelayPublish, RelayDeliver,
     RelayDeliverFails, RelayMark, RelayMarkFails, RelayWake, RelayTick, RelayStop, RelayUnchanged
<1>4. ASSUME NEW d \in Consumers, Worker(d) PROVE RowsInv'
  <2>1. CASE HandlerSucceeds(d)
    <3>1. wev[d] \in Events /\ wev[d] \in Committed /\ UNCHANGED <<rowid, lastRow>>
      BY <2>1 DEF HandlerSucceeds, WorkerUnchanged, TypeOK, WorkerOK, RouteInv, Copy
    <3>2. runs' = [runs EXCEPT ![d] = [runs[d] EXCEPT ![wev[d]] = runs[d][wev[d]] + 1]]
          /\ runs \in [Consumers -> [Events -> Nat]]
      BY <2>1 DEF HandlerSucceeds, TypeOK, HistoryOK
    <3>3. \A c \in Consumers, e \in Events : runs'[c][e] = runs[c][e] \/ e = wev[d]
      BY <3>1, <3>2
    <3> QED BY <3>1, <3>3 DEF RowsInv, Committed
  <2>2. CASE SubTake(d) \/ SubExit(d) \/ SkipSeen(d) \/ CallHandler(d) \/ SeenFails(d) \/ HandlerFails(d)
             \/ HandlerFatal(d) \/ Record(d) \/ RecordFails(d) \/ Retry(d)
             \/ Nack(d) \/ HandlerTimesOut(d) \/ Put(d) \/ PutFails(d)
    BY <2>2, <1>f DEF SubTake, SubExit, SkipSeen, CallHandler, SeenFails, HandlerFails, HandlerFatal,
       Record, RecordFails, Retry, Nack, HandlerTimesOut, Put, PutFails, WorkerUnchanged
  <2> QED BY <1>4, <2>1, <2>2 DEF Worker
<1>5. ASSUME NEW r \in Replayers, Replay(r) PROVE RowsInv'
  BY <1>5, <1>f DEF Replay, ReplayGet, ReplayPublish, ReplayDeliver, ReplayDelete, ReplayFails,
     ReplayUnchanged
<1>6. CASE Exit \/ Crash
  BY <1>6, <1>f DEF Exit, Crash, Boot, dbVars
<1> QED BY <1>1, <1>2, <1>3, <1>4, <1>5, <1>6 DEF Next

\* What commit order means in a state without replays.
Ordered ==
    /\ \A r \in Replayers : rpc[r] = "idle"
    /\ OldestInHand
    /\ \A c \in Consumers : InOrder(c) /\ ReachedInOrder(c) /\ HandledInOrder(c)

(* A step that hands out no copy and completes no handler keeps the order if the  *)
(* channels stay in order.                                                        *)
LEMMA OrderFrame ==
    ASSUME Ordered, UNCHANGED <<rowid, runs>>, published \subseteq published',
           UNCHANGED <<relay, cur>> \/ relay' \notin {"deliver", "mark"},
           \A r \in Replayers : rpc'[r] = "idle",
           \A c \in Consumers, e \in Events : Copy(c, e)' => Copy(c, e),
           \A c \in Consumers : InOrder(c)'
    PROVE  Ordered'
<1>1. Committed' = Committed /\ Pending' \subseteq Pending
  BY DEF Committed, Pending
<1>2. OldestInHand'
  BY <1>1 DEF Ordered, OldestInHand
<1>3. ASSUME NEW c \in Consumers PROVE ReachedInOrder(c)' /\ HandledInOrder(c)'
  BY <1>1 DEF Ordered, ReachedInOrder, HandledInOrder
<1> QED BY <1>2, <1>3 DEF Ordered

(* Channels and hands that stay as they are stay in order.                        *)
LEMMA SameOrder ==
    ASSUME UNCHANGED <<rowid, ch, wev>>, NEW c \in Consumers, InOrder(c) PROVE InOrder(c)'
  BY DEF InOrder, Rising

(* A commit makes the youngest row of all.                                        *)
LEMMA EnqueueOrder ==
    ASSUME TypeOK, RouteInv, RowsInv, Ordered, NEW x \in Events, Enqueue(x) PROVE Ordered'
<1>1. /\ rowid' = [rowid EXCEPT ![x] = lastRow + 1] /\ rowid[x] = 0
      /\ UNCHANGED <<published, relay, cur, ch, wev, rpc, runs>>
      /\ rowid \in [Events -> Nat] /\ lastRow \in Nat
  BY DEF Enqueue, TypeOK, StoreOK, relayVars, workerVars, replayVars
<1>2. /\ x \notin Committed /\ x \notin Pending /\ Committed' = Committed \cup {x}
      /\ Pending' \subseteq Pending \cup {x}
  BY <1>1 DEF Committed, Pending
<1>3. \A e \in Events : e # x => rowid'[e] = rowid[e] /\ rowid[e] < rowid'[x] /\ rowid[e] <= rowid'[e]
  BY <1>1 DEF RowsInv
<1>c. \A c, e : Copy(c, e)' <=> Copy(c, e)
  BY <1>1 DEF Copy, Queued
<1>4. \A c \in Consumers, e \in Events : Copy(c, e) \/ runs[c][e] > 0 => e # x /\ e \in Committed
  BY <1>2 DEF RouteInv, RowsInv
<1>5. OldestInHand'
  <2> SUFFICES ASSUME relay \in {"deliver", "mark"}, NEW d \in Pending'
               PROVE  rowid'[cur] <= rowid'[d]
    BY <1>1 DEF OldestInHand
  <2>1. cur \in Pending /\ cur \in Events /\ cur # x
    BY <1>2 DEF TypeOK, RelayOK, Pending, Committed
  <2>2. CASE d = x
    BY <1>1, <1>3, <2>1, <2>2
  <2>3. CASE d # x
    <3>1. d \in Pending /\ d \in Events
      BY <1>2, <2>3 DEF Pending, Committed
    <3> QED BY <1>3, <2>1, <2>3, <3>1 DEF Ordered, OldestInHand
  <2> QED BY <2>2, <2>3
<1>6. ASSUME NEW c \in Consumers PROVE InOrder(c)'
  <2>1. ch[c] \in Seq(Events) /\ Len(ch[c]) \in Nat
    BY DEF TypeOK, BusOK
  <2>2. \A i \in 1..Len(ch[c]) : ch[c][i] \in Events /\ ch[c][i] # x
    BY <1>4, <2>1 DEF Copy, Queued, Holds
  <2>3. wev[c] \in Events => wev[c] # x
    BY <1>4 DEF Copy
  <2>4. InOrder(c)
    BY DEF Ordered
  <2> QED BY <1>1, <1>3, <2>2, <2>3, <2>4 DEF InOrder, Rising
<1>7. ASSUME NEW c \in Consumers PROVE ReachedInOrder(c)'
  <2> SUFFICES ASSUME NEW e \in Events, NEW d \in Committed', Copy(c, e)' \/ runs'[c][e] > 0,
                      rowid'[d] < rowid'[e]
               PROVE  d \in published'
    BY DEF ReachedInOrder
  <2>1. (Copy(c, e) \/ runs[c][e] > 0) /\ e # x
    BY <1>1, <1>c, <1>4
  <2>2. d # x /\ d \in Committed /\ d \in Events
    <3>1. d = x => rowid'[e] < rowid'[d] /\ rowid'[d] \in Nat /\ rowid'[e] \in Nat
      BY <1>1, <1>3, <2>1
    <3> QED BY <1>2, <3>1 DEF Committed
  <2>3. rowid[d] < rowid[e]
    BY <1>3, <2>1, <2>2
  <2> QED BY <1>1, <2>1, <2>2, <2>3 DEF Ordered, ReachedInOrder
<1>8. ASSUME NEW c \in Consumers PROVE HandledInOrder(c)'
  <2> SUFFICES ASSUME NEW d \in Events, NEW e \in Events, runs'[c][e] > 0,
                      rowid'[d] < rowid'[e], Copy(c, d)'
               PROVE  runs'[c][d] > 0
    BY DEF HandledInOrder
  <2>1. runs[c][e] > 0 /\ e # x /\ d # x /\ Copy(c, d)
    BY <1>1, <1>c, <1>4
  <2>2. rowid[d] < rowid[e]
    BY <1>3, <2>1
  <2> QED BY <1>1, <2>1, <2>2 DEF Ordered, HandledInOrder
<1>9. \A r \in Replayers : rpc'[r] = "idle"
  BY <1>1 DEF Ordered
<1> QED BY <1>5, <1>6, <1>7, <1>8, <1>9 DEF Ordered

(* The relay sends the oldest pending row: nothing older is left to be sent, and  *)
(* nothing younger is on its way.                                                 *)
LEMMA DeliverOrder ==
    ASSUME TypeOK, RouteInv, RowsInv, Ordered, RelayDeliver PROVE Ordered'
<1> DEFINE d == SubsOf[cur][at]
<1>1. cur \in Pending /\ cur \in Committed /\ cur \in Events /\ cur \notin published
      /\ at \in 1..Len(SubsOf[cur]) /\ d \in Consumers
  BY ConstantTypes DEF RelayDeliver, TypeOK, RelayOK, Pending, Committed
<1>2. /\ Send(d, cur) \/ Skip(d, cur)
      /\ UNCHANGED <<rowid, published, cur, wev, rpc, runs>> /\ relay \in {"deliver", "mark"}
  BY DEF RelayDeliver, RelayUnchanged, workerVars, replayVars
<1>3. /\ ch \in [Consumers -> Seq(Events)] /\ rowid \in [Events -> Nat]
      /\ \A c \in Consumers : Len(ch[c]) \in Nat
  BY DEF TypeOK, BusOK, StoreOK
<1> HIDE DEF d
<1>4. UNCHANGED <<Committed, Pending>>
  BY <1>2 DEF Committed, Pending
<1>5. OldestInHand'
  BY <1>2, <1>4 DEF Ordered, OldestInHand
\* nothing younger than cur ever reached a subscription
<1>6. \A c \in Consumers, e \in Events : Copy(c, e) \/ runs[c][e] > 0 => rowid[e] <= rowid[cur]
  BY <1>1, <1>3 DEF Ordered, ReachedInOrder
\* nothing older than cur is pending
<1>7. \A e \in Committed : rowid[e] < rowid[cur] => e \in published
  BY <1>1, <1>2, <1>3 DEF Ordered, OldestInHand, Pending, Committed
<1>8. \A c \in Consumers, e \in Events : Copy(c, e)' => Copy(c, e) \/ (c = d /\ e = cur)
  BY <1>1, <1>2, DeliverCopies
<1>9. ASSUME NEW c \in Consumers PROVE InOrder(c)'
  <2>0. InOrder(c)
    BY DEF Ordered
  <2>1. CASE ch'[c] = ch[c]
    BY <1>2, <2>0, <2>1 DEF InOrder, Rising
  <2>2. CASE ch'[c] = Append(ch[c], cur)
    <3>1. /\ Len(ch'[c]) = Len(ch[c]) + 1 /\ Len(ch[c]) \in Nat
          /\ \A i \in 1..Len(ch[c]) : ch'[c][i] = ch[c][i] /\ ch[c][i] \in Events
          /\ ch'[c][Len(ch[c]) + 1] = cur
      <4>1. ch[c] \in Seq(Events)
        BY <1>3
      <4> QED BY <1>1, <2>2, <4>1
    <3>2. \A i \in 1..Len(ch[c]) : rowid[ch[c][i]] <= rowid[cur]
      BY <1>6, <3>1 DEF Copy, Queued, Holds
    <3>3. wev[c] \in Events => rowid[wev[c]] <= rowid[cur]
      BY <1>6 DEF Copy
    <3>4. Rising(ch[c])' 
      <4> SUFFICES ASSUME NEW i \in 1..Len(ch'[c]), NEW j \in 1..Len(ch'[c]), i < j
                   PROVE  rowid[ch'[c][i]] <= rowid[ch'[c][j]]
        BY <1>2 DEF Rising
      <4>1. i \in 1..Len(ch[c])
        BY <3>1
      <4>2. CASE j \in 1..Len(ch[c])
        BY <2>0, <3>1, <4>1, <4>2 DEF InOrder, Rising
      <4>3. CASE j = Len(ch[c]) + 1
        BY <3>1, <3>2, <4>1, <4>3
      <4> QED BY <3>1, <4>2, <4>3
    <3>5. wev[c] \in Events => \A i \in 1..Len(ch'[c]) : rowid[wev[c]] <= rowid[ch'[c][i]]
      <4> SUFFICES ASSUME wev[c] \in Events, NEW i \in 1..Len(ch'[c])
                   PROVE  rowid[wev[c]] <= rowid[ch'[c][i]]
        OBVIOUS
      <4>1. CASE i \in 1..Len(ch[c])
        BY <2>0, <3>1, <4>1 DEF InOrder
      <4>2. CASE i = Len(ch[c]) + 1
        BY <3>1, <3>3, <4>2
      <4> QED BY <3>1, <4>1, <4>2
    <3> QED BY <1>2, <3>4, <3>5 DEF InOrder
  <2>3. ch'[c] = ch[c] \/ ch'[c] = Append(ch[c], cur)
    BY <1>1, <1>2, <1>3 DEF Send, Skip
  <2> QED BY <2>1, <2>2, <2>3
<1>10. ASSUME NEW c \in Consumers PROVE ReachedInOrder(c)'
  <2> SUFFICES ASSUME NEW e \in Events, NEW f \in Committed, Copy(c, e)' \/ runs[c][e] > 0,
                      rowid[f] < rowid[e]
               PROVE  f \in published
    BY <1>2, <1>4 DEF ReachedInOrder
  <2>1. CASE Copy(c, e) \/ runs[c][e] > 0
    BY <2>1 DEF Ordered, ReachedInOrder
  <2>2. CASE e = cur
    BY <1>7, <2>2
  <2> QED BY <1>8, <2>1, <2>2
<1>11. ASSUME NEW c \in Consumers PROVE HandledInOrder(c)'
  <2> SUFFICES ASSUME NEW f \in Events, NEW e \in Events, runs[c][e] > 0, rowid[f] < rowid[e], Copy(c, f)'
               PROVE  runs[c][f] > 0
    BY <1>2 DEF HandledInOrder
  <2>1. f # cur
    <3>1. rowid[e] <= rowid[cur]
      BY <1>6
    <3>2. rowid[e] \in Nat /\ rowid[cur] \in Nat /\ rowid[f] \in Nat
      BY <1>1, <1>3
    <3> QED BY <3>1, <3>2
  <2> QED BY <1>8, <2>1 DEF Ordered, HandledInOrder
<1>12. \A r \in Replayers : rpc'[r] = "idle"
  BY <1>2 DEF Ordered
<1> QED BY <1>5, <1>9, <1>10, <1>11, <1>12 DEF Ordered

(* The relay's other steps hand out nothing.                                      *)
LEMMA RelayOrder ==
    ASSUME TypeOK, RouteInv, RowsInv, Ordered, Relay PROVE Ordered'
<1>a. RelayUnchanged /\ UNCHANGED ch =>
         /\ UNCHANGED <<rowid, runs, rpc, ch, wev>>
         /\ \A r \in Replayers : rpc'[r] = "idle"
         /\ \A c \in Consumers : InOrder(c)'
         /\ \A c \in Consumers, e \in Events : Copy(c, e)' => Copy(c, e)
  BY SameOrder DEF RelayUnchanged, workerVars, replayVars, Ordered, Copy, Queued
<1>1. CASE RelayDeliver
  BY <1>1, DeliverOrder
<1>2. CASE RelayPublish
  <2>0. RelayUnchanged /\ UNCHANGED <<ch, published>>
    BY <1>2 DEF RelayPublish
  <2>1. CASE closed
    <3>1. relay' \notin {"deliver", "mark"}
      BY <1>2, <2>1 DEF RelayPublish, EndFlush
    <3> QED BY <1>a, <2>0, <3>1, OrderFrame
  <2>2. CASE ~closed
    <3>1. \A f \in Pending : rowid[Oldest] <= rowid[f]
      BY <1>2, OldestIsPending, PendingFinite DEF RelayPublish, TypeOK, RelayOK, StoreOK
    <3>2. cur' = Oldest
      BY <1>2, <2>2 DEF RelayPublish
    <3>3. UNCHANGED <<Committed, Pending>>
      BY <1>a, <2>0 DEF Committed, Pending
    <3>4. OldestInHand'
      BY <1>a, <2>0, <3>1, <3>2, <3>3 DEF OldestInHand
    <3>5. ASSUME NEW c \in Consumers PROVE ReachedInOrder(c)' /\ HandledInOrder(c)'
      BY <1>a, <2>0, <3>3 DEF Ordered, ReachedInOrder, HandledInOrder
    <3> QED BY <1>a, <2>0, <3>4, <3>5 DEF Ordered
  <2> QED BY <2>1, <2>2
<1>3. CASE RelayMark
  <2>1. RelayUnchanged /\ UNCHANGED ch /\ published \subseteq published' /\ relay' \notin {"deliver", "mark"}
    BY <1>3 DEF RelayMark, EndFlush
  <2> QED BY <1>a, <2>1, OrderFrame
<1>4. CASE RelayTake \/ RelayRead \/ RelayReadFails \/ RelayDeliverFails \/ RelayMarkFails
           \/ RelayWake \/ RelayTick \/ RelayStop
  <2>1. RelayUnchanged /\ UNCHANGED <<ch, published>> /\ relay' \notin {"deliver", "mark"}
    BY <1>4 DEF RelayTake, RelayRead, RelayReadFails, RelayDeliverFails, RelayMarkFails,
       RelayWake, RelayTick, RelayStop, EndFlush
  <2> QED BY <1>a, <2>1, OrderFrame
<1> QED BY <1>1, <1>2, <1>3, <1>4 DEF Relay

(* A goroutine takes the head of its channel, and a success is of the row in hand,*)
(* the oldest that is still on its way.                                           *)
LEMMA WorkerOrder ==
    ASSUME TypeOK, Ordered, NEW d \in Consumers, Worker(d) PROVE Ordered'
<1>t. /\ wev \in [Consumers -> Events \cup {NoEvent}] /\ NoEvent \notin Events
      /\ ch \in [Consumers -> Seq(Events)] /\ rowid \in [Events -> Nat]
      /\ \A c \in Consumers : Len(ch[c]) \in Nat
      /\ runs \in [Consumers -> [Events -> Nat]]
  BY ConstantTypes DEF TypeOK, WorkerOK, BusOK, StoreOK, HistoryOK
<1>i. \A c \in Consumers : InOrder(c)
  BY DEF Ordered
<1>u. WorkerUnchanged => /\ UNCHANGED <<rowid, published, relay, cur, rpc>>
                         /\ \A r \in Replayers : rpc'[r] = "idle"
  BY DEF WorkerUnchanged, relayVars, replayVars, Ordered
<1>f. WorkerUnchanged /\ UNCHANGED <<ch, wev, runs>> => Ordered'
  <2> SUFFICES ASSUME WorkerUnchanged, UNCHANGED <<ch, wev, runs>> PROVE Ordered'
    OBVIOUS
  <2>1. \A c \in Consumers, e \in Events : Copy(c, e)' => Copy(c, e)
    BY DEF Copy, Queued
  <2> QED BY <1>i, <1>u, <2>1, SameOrder, OrderFrame
<1>r. ASSUME WorkerUnchanged, UNCHANGED <<ch, runs>>, Return(d) PROVE Ordered'
  <2>1. \A c \in Consumers : wev'[c] = wev[c] \/ wev'[c] \notin Events
    BY <1>r, <1>t DEF Return
  <2>2. \A c \in Consumers, e \in Events : Copy(c, e)' => Copy(c, e)
    BY <1>r, <2>1 DEF Copy, Queued
  <2>3. \A c \in Consumers : InOrder(c)'
    BY <1>i, <1>r, <1>u, <2>1 DEF InOrder, Rising
  <2> QED BY <1>r, <1>u, <2>2, <2>3, OrderFrame
<1>1. CASE SubTake(d)
  <2>1. /\ ch[d] \in Seq(Events) /\ ch[d] # <<>> /\ UNCHANGED runs /\ WorkerUnchanged
        /\ ch' = [ch EXCEPT ![d] = Tail(ch[d])] /\ wev' = [wev EXCEPT ![d] = Head(ch[d])]
    BY <1>1, <1>t DEF SubTake
  <2>2. /\ Len(Tail(ch[d])) = Len(ch[d]) - 1 /\ Len(ch[d]) \in Nat /\ Len(ch[d]) > 0
        /\ Head(ch[d]) = ch[d][1]
        /\ \A i \in 1..(Len(ch[d]) - 1) : Tail(ch[d])[i] = ch[d][i + 1]
    BY <2>1
  <2>3. ch'[d] = Tail(ch[d]) /\ wev'[d] = Head(ch[d])
        /\ \A c \in Consumers : c # d => ch'[c] = ch[c] /\ wev'[c] = wev[c]
    BY <2>1, <1>t
  <2>4. ASSUME NEW c \in Consumers, NEW e \in Events, Copy(c, e)' PROVE Copy(c, e)
    <3>1. CASE c = d
      <4>1. Holds(Tail(ch[d]), e) \/ Head(ch[d]) = e
        BY <2>3, <2>4, <3>1 DEF Copy, Queued
      <4>2. Holds(ch[d], e)
        BY <2>1, <4>1, HoldsTail
      <4> QED BY <3>1, <4>2 DEF Copy, Queued
    <3>2. CASE c # d
      BY <2>3, <2>4, <3>2 DEF Copy, Queued
    <3> QED BY <3>1, <3>2
  <2>5. ASSUME NEW c \in Consumers PROVE InOrder(c)'
    <3>1. CASE c = d
      <4>1. \A i, j \in 1..Len(ch[d]) : i < j => rowid[ch[d][i]] <= rowid[ch[d][j]]
        BY <1>i DEF InOrder, Rising
      <4>2. \A i, j \in 1..(Len(ch[d]) - 1) : i < j => rowid[Tail(ch[d])[i]] <= rowid[Tail(ch[d])[j]]
        <5> SUFFICES ASSUME NEW i \in 1..(Len(ch[d]) - 1), NEW j \in 1..(Len(ch[d]) - 1), i < j
                     PROVE  rowid[Tail(ch[d])[i]] <= rowid[Tail(ch[d])[j]]
          OBVIOUS
        <5>1. i + 1 \in 1..Len(ch[d]) /\ j + 1 \in 1..Len(ch[d]) /\ i + 1 < j + 1
          BY <2>2
        <5> QED BY <2>2, <4>1, <5>1
      <4>3. \A i \in 1..(Len(ch[d]) - 1) : rowid[Head(ch[d])] <= rowid[Tail(ch[d])[i]]
        <5> SUFFICES ASSUME NEW i \in 1..(Len(ch[d]) - 1)
                     PROVE  rowid[Head(ch[d])] <= rowid[Tail(ch[d])[i]]
          OBVIOUS
        <5>1. 1 \in 1..Len(ch[d]) /\ i + 1 \in 1..Len(ch[d]) /\ 1 < i + 1
          BY <2>2
        <5> QED BY <2>2, <4>1, <5>1
      <4>4. rowid' = rowid /\ ch'[c] = Tail(ch[d]) /\ wev'[c] = Head(ch[d])
        BY <1>u, <2>1, <2>3, <3>1
      <4>5. Rising(ch[c])'
        BY <2>2, <4>2, <4>4 DEF Rising
      <4>6. \A i \in 1..Len(ch'[c]) : rowid'[wev'[c]] <= rowid'[ch'[c][i]]
        BY <2>2, <4>3, <4>4
      <4> QED BY <4>5, <4>6 DEF InOrder
    <3>2. CASE c # d
      BY <1>i, <1>u, <2>1, <2>3, <3>2 DEF InOrder, Rising
    <3> QED BY <3>1, <3>2
  <2> QED BY <1>u, <2>1, <2>4, <2>5, OrderFrame
<1>2. CASE HandlerSucceeds(d)
  <2>1. wev[d] \in Events /\ WorkerUnchanged /\ UNCHANGED <<ch, wev>>
    BY <1>2 DEF HandlerSucceeds, TypeOK, WorkerOK
  <2> DEFINE x == wev[d]
  <2>2. \A c \in Consumers, e \in Events :
           /\ runs[c][e] > 0 => runs'[c][e] > 0
           /\ runs'[c][e] > 0 => runs[c][e] > 0 \/ (c = d /\ e = x)
           /\ runs'[d][x] > 0
    <3>1. runs' = [runs EXCEPT ![d] = [runs[d] EXCEPT ![wev[d]] = runs[d][wev[d]] + 1]]
      BY <1>2 DEF HandlerSucceeds
    <3>2. runs[d] \in [Events -> Nat] /\ runs[d][wev[d]] \in Nat
      BY <1>t, <2>1
    <3>3. \A c \in Consumers : c # d => runs'[c] = runs[c]
      BY <1>t, <3>1
    <3>4. runs'[d] = [runs[d] EXCEPT ![wev[d]] = runs[d][wev[d]] + 1]
      BY <1>t, <3>1
    <3>5. \A e \in Events : runs'[d][e] = IF e = wev[d] THEN runs[d][wev[d]] + 1 ELSE runs[d][e]
      BY <3>2, <3>4
    <3>6. \A c \in Consumers, e \in Events : runs[c][e] \in Nat
      BY <1>t
    <3> QED BY <2>1, <3>2, <3>3, <3>5, <3>6
  <2>3. UNCHANGED <<Committed, Pending>> /\ \A c, e : Copy(c, e)' <=> Copy(c, e)
    BY <1>u, <2>1 DEF Committed, Pending, Copy, Queued
  <2>x. Copy(d, x) /\ x \in Events
    BY <2>1 DEF Copy
  <2>4. OldestInHand'
    BY <1>u, <2>1, <2>3 DEF Ordered, OldestInHand
  <2>5. \A c \in Consumers : InOrder(c)'
    BY <1>i, <1>u, <2>1, SameOrder
  \* what is still on its way to d is no older than the row in hand
  <2>6. \A e \in Events : Copy(d, e) => ~(rowid[e] < rowid[x])
    <3> SUFFICES ASSUME NEW e \in Events, Copy(d, e) PROVE ~(rowid[e] < rowid[x])
      OBVIOUS
    <3>1. CASE e = x
      BY <1>t, <2>x, <3>1
    <3>2. CASE Queued(d, e)
      <4>1. PICK i \in 1..Len(ch[d]) : ch[d][i] = e
        BY <3>2 DEF Queued, Holds
      <4>2. rowid[x] <= rowid[e]
        BY <1>i, <2>x, <4>1 DEF InOrder
      <4> QED BY <1>t, <2>x, <4>2
    <3> QED BY <3>1, <3>2 DEF Copy
  <2> HIDE DEF x
  <2>7. ASSUME NEW c \in Consumers PROVE ReachedInOrder(c)'
    <3> SUFFICES ASSUME NEW e \in Events, NEW f \in Committed, Copy(c, e) \/ runs'[c][e] > 0,
                        rowid[f] < rowid[e]
                 PROVE  f \in published
      BY <1>u, <2>1, <2>3 DEF ReachedInOrder
    <3>1. Copy(c, e) \/ runs[c][e] > 0
      BY <2>2, <2>x
    <3> QED BY <3>1 DEF Ordered, ReachedInOrder
  <2>8. ASSUME NEW c \in Consumers PROVE HandledInOrder(c)'
    <3> SUFFICES ASSUME NEW f \in Events, NEW e \in Events, runs'[c][e] > 0, rowid[f] < rowid[e],
                        Copy(c, f)
                 PROVE  runs'[c][f] > 0
      BY <1>u, <2>1, <2>3 DEF HandledInOrder
    <3>1. CASE runs[c][e] > 0
      <4>1. runs[c][f] > 0
        BY <3>1 DEF Ordered, HandledInOrder
      <4> QED BY <2>2, <4>1
    <3>2. CASE c = d /\ e = x
      BY <2>6, <3>2
    <3> QED BY <2>2, <3>1, <3>2
  <2> QED BY <1>u, <2>1, <2>4, <2>5, <2>7, <2>8 DEF Ordered
<1>3. CASE SubExit(d) \/ CallHandler(d) \/ SeenFails(d) \/ HandlerFails(d)
           \/ HandlerFatal(d) \/ RecordFails(d) \/ Retry(d)
  BY <1>3, <1>f DEF SubExit, CallHandler, SeenFails, HandlerFails, HandlerFatal, RecordFails, Retry
<1>4. CASE SkipSeen(d) \/ Record(d) \/ Nack(d) \/ HandlerTimesOut(d) \/ Put(d) \/ PutFails(d)
  BY <1>4, <1>r DEF SkipSeen, Record, Nack, HandlerTimesOut, Put, PutFails, GiveUp
<1> QED BY <1>1, <1>2, <1>3, <1>4 DEF Worker

(* A reboot empties every channel.                                                *)
LEMMA BootOrder == ASSUME TypeOK, Ordered, Boot PROVE Ordered'
<1>1. /\ UNCHANGED <<rowid, runs, published>> /\ relay' \notin {"deliver", "mark"}
      /\ \A r \in Replayers : rpc'[r] = "idle"
      /\ \A c \in Consumers : ch'[c] = <<>> /\ wev'[c] = NoEvent
  BY DEF Boot, dbVars
<1>2. \A c \in Consumers : InOrder(c)'
  BY <1>1, ConstantTypes DEF InOrder, Rising
<1>3. \A c \in Consumers, e \in Events : ~Copy(c, e)'
  BY <1>1, ConstantTypes DEF Copy, Queued, Holds
<1> QED BY <1>1, <1>2, <1>3, OrderFrame

(* The number of replays started only grows, and the first one ends the claim.    *)
LEMMA NextOrderInv == TypeOK /\ RouteInv /\ OrderInv /\ [Next]_vars => OrderInv'
<1> SUFFICES ASSUME TypeOK, RouteInv, OrderInv, [Next]_vars PROVE OrderInv'
  OBVIOUS
<1>r. RowsInv /\ RowsInv'
  BY NextRowsInv DEF OrderInv
<1>s. replays \in Nat
  BY DEF TypeOK, HistoryOK
<1> SUFFICES ASSUME replays' = 0 PROVE Ordered'
  BY <1>r DEF OrderInv, Ordered
<1>1. ASSUME NEW x \in Events, Enqueue(x) PROVE Ordered'
  <2>1. replays = 0
    BY <1>1 DEF Enqueue, faultVars
  <2> QED BY <1>1, <1>r, <2>1, EnqueueOrder DEF OrderInv, Ordered
<1>2. CASE Notify \/ Signal \/ Close \/ DrainTimeout \/ UNCHANGED vars
  <2>1. UNCHANGED <<rowid, published, relay, cur, ch, wev, rpc, runs, replays>>
    BY <1>2 DEF Notify, Signal, Close, DrainTimeout, vars, dbVars, relayVars, workerVars,
       replayVars, faultVars
  <2>2. Ordered
    BY <2>1 DEF OrderInv, Ordered
  <2>3. \A c \in Consumers, e \in Events : Copy(c, e)' => Copy(c, e)
    BY <2>1 DEF Copy, Queued
  <2>4. (\A c \in Consumers : InOrder(c)') /\ \A r \in Replayers : rpc'[r] = "idle"
    BY <2>1, <2>2, SameOrder DEF Ordered
  <2> QED BY <2>1, <2>2, <2>3, <2>4, OrderFrame
<1>3. CASE Relay
  <2>1. replays = 0
    BY <1>3 DEF Relay, RelayTake, RelayRead, RelayReadFails, RelayPublish, RelayDeliver,
       RelayDeliverFails, RelayMark, RelayMarkFails, RelayWake, RelayTick, RelayStop, RelayUnchanged
  <2> QED BY <1>3, <1>r, <2>1, RelayOrder DEF OrderInv, Ordered
<1>4. ASSUME NEW d \in Consumers, Worker(d) PROVE Ordered'
  <2>1. replays = 0
    BY <1>4 DEF Worker, SubTake, SubExit, SkipSeen, CallHandler, SeenFails, HandlerSucceeds,
       HandlerFails, HandlerFatal, Record, RecordFails, Retry, Nack, HandlerTimesOut, Put, PutFails,
       WorkerUnchanged
  <2> QED BY <1>4, <2>1, WorkerOrder DEF OrderInv, Ordered
<1>5. ASSUME NEW r \in Replayers, Replay(r) PROVE Ordered'
  <2>1. (\E e \in Events : ReplayGet(r, e)) => replays' = replays + 1
    BY DEF ReplayGet
  <2>2. ReplayPublish(r) \/ ReplayDeliver(r) \/ ReplayDelete(r) \/ ReplayFails(r)
        => replays' = replays /\ rpc[r] # "idle"
    BY DEF ReplayPublish, ReplayDeliver, ReplayDelete, ReplayFails
  <2>3. replays = 0 => rpc[r] = "idle"
    BY DEF OrderInv
  <2>4. ~(replays' = replays + 1)
    BY <1>s
  <2> QED BY <1>5, <2>1, <2>2, <2>3, <2>4 DEF Replay
<1>6. CASE Exit \/ Crash
  <2>1. Boot /\ replays = 0
    BY <1>6 DEF Exit, Crash, Boot
  <2> QED BY <2>1, BootOrder DEF OrderInv, Ordered
<1> QED BY <1>1, <1>2, <1>3, <1>4, <1>5, <1>6 DEF Next

(* Without replays, no subscription handles a row while an older one of its own   *)
(* is unpublished or still on its way for the first time, whatever crashes,       *)
(* shutdowns, failed flushes and repeated publications happen.                    *)
THEOREM CommitOrder == Spec => []CommitOrderKept
<1>1. Init => RouteInv /\ OrderInv
  <2>1. Init => RouteInv
    BY ConstantTypes DEF Init, RouteInv, Copy, Queued, Holds
  <2>2. Init => RowsInv
    BY DEF Init, RowsInv
  <2>3. ASSUME Init, NEW c \in Consumers PROVE InOrder(c) /\ ReachedInOrder(c) /\ HandledInOrder(c)
    <3>1. /\ ch[c] = <<>> /\ wev[c] = NoEvent /\ \A e \in Events : runs[c][e] = 0 /\ rowid[e] = 0
      BY <2>3 DEF Init
    <3> QED BY <3>1, ConstantTypes DEF InOrder, Rising, ReachedInOrder, HandledInOrder, Committed
  <2>4. Init => OldestInHand /\ \A r \in Replayers : rpc[r] = "idle"
    BY DEF Init, OldestInHand
  <2> QED BY <2>1, <2>2, <2>3, <2>4 DEF OrderInv
<1>2. OrderInv => CommitOrderKept
  <2> SUFFICES ASSUME OrderInv, replays = 0, NEW c \in Consumers, NEW d \in Committed,
                      NEW e \in Committed, rowid[d] < rowid[e], Subscribes(c, d), runs[c][e] > 0
               PROVE  d \in published /\ (runs[c][d] = 0 => ~InFlight(c, d))
    BY DEF CommitOrderKept
  <2>1. d \in Events /\ e \in Events /\ ReachedInOrder(c) /\ HandledInOrder(c)
    BY DEF OrderInv, Committed
  <2>2. d \in published
    BY <2>1 DEF ReachedInOrder
  <2>3. Copy(c, d) => runs[c][d] > 0
    BY <2>1 DEF HandledInOrder
  <2>4. InFlight(c, d) => Copy(c, d)
    BY DEF InFlight, InHand, Copy
  <2>5. runs[c][d] = 0 => ~(runs[c][d] > 0)
    OBVIOUS
  <2> QED BY <2>2, <2>3, <2>4, <2>5
<1> QED BY <1>1, <1>2, TypeCorrect, NextRouteInv, NextOrderInv, PTL DEF Spec
==============
