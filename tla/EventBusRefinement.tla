------------------------- MODULE EventBusRefinement -------------------------
(***************************************************************************)
(* Every behaviour of EventBus is a behaviour of DeliveryLedger: relay,    *)
(* channels, goroutines, replays and restarts together keep the ledger's   *)
(* books, for every set of events, subscription table and limit.           *)
(***************************************************************************)
EXTENDS EventBusProofs

-----------------------------------------------------------------------------
(* Only owed events are on their way: the invariant behind the refinement *)

Owed == {p \in Consumers \X Events : Subscribes(p[1], p[2])}

\* Some copy of e has been handed to c's channel or goroutine.
Copy(c, e) == Queued(c, e) \/ wev[c] = e

\* A copy is of a committed event and with a subscription of its topic; a dead
\* letter and a replay are of a committed event.
RouteInv ==
    /\ \A c \in Consumers, e \in Events : Copy(c, e) => e \in Committed /\ Subscribes(c, e)
    /\ deadLetters \subseteq Committed
    /\ \A r \in Replayers : rpc[r] # "idle" => rev[r] \in Committed

(* A send puts its event into its channel and changes no other.                   *)
LEMMA SendQueues ==
    ASSUME TypeOK, NEW d \in Consumers, NEW f \in Events, Send(d, f),
           NEW c \in Consumers, NEW e \in Events
    PROVE  Queued(c, e)' <=> Queued(c, e) \/ (c = d /\ e = f)
<1>1. ch \in [Consumers -> Seq(Events)] /\ ch' = [ch EXCEPT ![d] = Append(ch[d], f)]
  BY DEF TypeOK, BusOK, Send
<1>2. CASE c = d
  <2>1. ch'[c] = Append(ch[c], f) /\ ch[c] \in Seq(Events)
    BY <1>1, <1>2
  <2>2. Holds(ch'[c], e) <=> Holds(ch[c], e) \/ f = e
    BY <2>1, HoldsAppend
  <2> QED BY <2>2, <1>2 DEF Queued
<1>3. CASE c # d
  BY <1>1, <1>3 DEF Queued
<1> QED BY <1>2, <1>3

(* Bus.deliver hands out no event but its own.                                    *)
LEMMA DeliverCopies ==
    ASSUME TypeOK, NEW d \in Consumers, NEW f \in Events, Send(d, f) \/ Skip(d, f),
           UNCHANGED wev, NEW c \in Consumers, NEW e \in Events, Copy(c, e)'
    PROVE  Copy(c, e) \/ (c = d /\ e = f)
<1>1. CASE Send(d, f)
  BY <1>1, SendQueues DEF Copy
<1>2. CASE Skip(d, f)
  BY <1>2 DEF Skip, Copy, Queued
<1> QED BY <1>1, <1>2

(* A subscription of a topic, at any index of the fan-out.                        *)
LEMMA FanOutSubscribes ==
    ASSUME NEW e \in Events, NEW i \in 1..Len(SubsOf[e])
    PROVE  SubsOf[e][i] \in Consumers /\ Subscribes(SubsOf[e][i], e)
  BY ConstantTypes DEF Subscribes, Holds

(* A subscription's steps move copies and make none.                              *)
LEMMA WorkerRouteInv ==
    ASSUME TypeOK, RouteInv, NEW d \in Consumers, Worker(d) PROVE RouteInv'
<1>t. /\ wev \in [Consumers -> Events \cup {NoEvent}] /\ NoEvent \notin Events
      /\ ch \in [Consumers -> Seq(Events)]
  BY ConstantTypes DEF TypeOK, WorkerOK, BusOK
<1>c. WorkerUnchanged => Committed' = Committed /\ UNCHANGED <<rpc, rev>>
  BY DEF WorkerUnchanged, Committed, replayVars
<1>q. UNCHANGED ch => \A c, e : Queued(c, e)' <=> Queued(c, e)
  BY DEF Queued
\* it suffices that copies come from copies and letters from letters or from d's hand
<1>s. ASSUME WorkerUnchanged,
             \A c \in Consumers, e \in Events : Copy(c, e)' => Copy(c, e),
             \A e \in deadLetters' : e \in deadLetters \/ (e \in Events /\ e = wev[d])
      PROVE  RouteInv'
  <2>1. \A c \in Consumers, e \in Events : Copy(c, e)' => e \in Committed' /\ Subscribes(c, e)'
    BY <1>s, <1>c DEF RouteInv, Subscribes
  <2>2. deadLetters' \subseteq Committed'
    BY <1>s, <1>c DEF RouteInv, Copy
  <2>3. \A r \in Replayers : rpc'[r] # "idle" => rev'[r] \in Committed'
    BY <1>s, <1>c DEF RouteInv
  <2> QED BY <2>1, <2>2, <2>3 DEF RouteInv
<1>f. WorkerUnchanged /\ UNCHANGED <<ch, wev, deadLetters>> => RouteInv'
  BY <1>s, <1>q DEF Copy
<1>r. ASSUME WorkerUnchanged, UNCHANGED ch, Return(d),
             deadLetters' = deadLetters \/ (deadLetters' = deadLetters \cup {wev[d]} /\ wev[d] \in Events)
      PROVE  RouteInv'
  <2>1. \A c \in Consumers : wev'[c] = wev[c] \/ wev'[c] = NoEvent
    BY <1>r, <1>t DEF Return
  <2>2. \A c \in Consumers, e \in Events : Copy(c, e)' => Copy(c, e)
    BY <1>r, <1>q, <1>t, <2>1 DEF Copy
  <2> QED BY <1>r, <1>s, <2>2
<1>1. CASE SubTake(d)
  <2>1. ch[d] \in Seq(Events) /\ ch[d] # <<>>
        /\ ch' = [ch EXCEPT ![d] = Tail(ch[d])] /\ wev' = [wev EXCEPT ![d] = Head(ch[d])]
        /\ UNCHANGED deadLetters /\ WorkerUnchanged
    BY <1>1, <1>t DEF SubTake
  <2>2. ASSUME NEW c \in Consumers, NEW e \in Events, Copy(c, e)' PROVE Copy(c, e)
    <3>1. CASE c = d
      <4>1. ch'[c] = Tail(ch[d]) /\ wev'[c] = Head(ch[d])
        BY <2>1, <3>1, <1>t
      <4>2. Holds(Tail(ch[d]), e) \/ Head(ch[d]) = e
        BY <2>2, <4>1 DEF Copy, Queued
      <4>3. Holds(ch[d], e)
        BY <2>1, <4>2, HoldsTail
      <4> QED BY <3>1, <4>3 DEF Copy, Queued
    <3>2. CASE c # d
      <4>1. ch'[c] = ch[c] /\ wev'[c] = wev[c]
        BY <2>1, <3>2, <1>t
      <4> QED BY <2>2, <4>1 DEF Copy, Queued
    <3> QED BY <3>1, <3>2
  <2> QED BY <1>s, <2>1, <2>2
<1>2. CASE SubExit(d) \/ CallHandler(d) \/ SeenFails(d) \/ HandlerSucceeds(d) \/ HandlerFails(d)
           \/ HandlerFatal(d) \/ RecordFails(d) \/ Retry(d)
  BY <1>2, <1>f DEF SubExit, CallHandler, SeenFails, HandlerSucceeds, HandlerFails, HandlerFatal,
     RecordFails, Retry
<1>3. CASE SkipSeen(d) \/ Record(d) \/ Nack(d) \/ HandlerTimesOut(d) \/ PutFails(d)
  BY <1>3, <1>r DEF SkipSeen, Record, Nack, HandlerTimesOut, PutFails, GiveUp
<1>4. CASE Put(d)
  <2>1. wev[d] \in Events
    BY <1>4 DEF Put, TypeOK, WorkerOK
  <2> QED BY <1>4, <1>r, <2>1 DEF Put
<1> QED BY <1>1, <1>2, <1>3, <1>4 DEF Worker

(* The relay publishes committed rows to their own topic's subscriptions, and a   *)
(* replay publishes an event that had a dead letter.                              *)
LEMMA NextRouteInv == TypeOK /\ RouteInv /\ [Next]_vars => RouteInv'
<1> SUFFICES ASSUME TypeOK, RouteInv, [Next]_vars PROVE RouteInv'
  OBVIOUS
<1>a. UNCHANGED rowid => Committed' = Committed
  BY DEF Committed
<1>b. UNCHANGED <<ch, wev>> => \A c, e : Copy(c, e)' <=> Copy(c, e)
  BY DEF Copy, Queued
<1>c. \A c, e : Subscribes(c, e)' <=> Subscribes(c, e)
  BY DEF Subscribes
<1>f. UNCHANGED <<ch, wev, deadLetters, rpc, rev>> /\ Committed \subseteq Committed' => RouteInv'
  BY <1>b, <1>c DEF RouteInv
<1>d. ASSUME NEW d \in Consumers, NEW f \in Committed, Subscribes(d, f), Send(d, f) \/ Skip(d, f),
             UNCHANGED <<rowid, wev, deadLetters>>,
             \A r \in Replayers : rpc'[r] # "idle" => rev'[r] \in Committed
      PROVE  RouteInv'
  <2>1. f \in Events /\ Committed' = Committed
    BY <1>a, <1>d DEF Committed
  <2>2. ASSUME NEW c \in Consumers, NEW e \in Events, Copy(c, e)'
        PROVE  e \in Committed' /\ Subscribes(c, e)'
    <3>1. Copy(c, e) \/ (c = d /\ e = f)
      BY <1>d, <2>1, <2>2, DeliverCopies
    <3> QED BY <1>c, <1>d, <2>1, <3>1 DEF RouteInv
  <2>3. deadLetters' \subseteq Committed' /\ \A r \in Replayers : rpc'[r] # "idle" => rev'[r] \in Committed'
    BY <1>d, <2>1 DEF RouteInv
  <2> QED BY <2>2, <2>3 DEF RouteInv
<1>1. ASSUME NEW e \in Events, Enqueue(e) PROVE RouteInv'
  <2>1. Committed \subseteq Committed'
    BY <1>1 DEF Enqueue, Committed, TypeOK, StoreOK
  <2> QED BY <1>1, <1>f, <2>1 DEF Enqueue, workerVars, replayVars
<1>2. CASE Notify \/ Signal \/ Close \/ DrainTimeout \/ UNCHANGED vars
  BY <1>2, <1>a, <1>f DEF Notify, Signal, Close, DrainTimeout, vars, dbVars, workerVars, replayVars
<1>3. CASE RelayTake \/ RelayRead \/ RelayReadFails \/ RelayPublish \/ RelayDeliverFails
           \/ RelayMark \/ RelayMarkFails \/ RelayWake \/ RelayTick \/ RelayStop
  <2>1. RelayUnchanged /\ UNCHANGED ch
    BY <1>3 DEF RelayTake, RelayRead, RelayReadFails, RelayPublish, RelayDeliverFails, RelayMark,
       RelayMarkFails, RelayWake, RelayTick, RelayStop
  <2> QED BY <2>1, <1>a, <1>f DEF RelayUnchanged, workerVars, replayVars
<1>4. CASE RelayDeliver
  <2>1. cur \in Committed /\ cur \in Events /\ at \in 1..Len(SubsOf[cur])
    BY <1>4 DEF RelayDeliver, TypeOK, RelayOK, Pending, Committed
  <2>2. SubsOf[cur][at] \in Consumers /\ Subscribes(SubsOf[cur][at], cur)
    BY <2>1, FanOutSubscribes
  <2>3. /\ Send(SubsOf[cur][at], cur) \/ Skip(SubsOf[cur][at], cur)
        /\ UNCHANGED <<rowid, wev, deadLetters, rpc, rev>>
    BY <1>4 DEF RelayDeliver, RelayUnchanged, workerVars, replayVars
  <2>4. \A r \in Replayers : rpc'[r] # "idle" => rev'[r] \in Committed
    BY <2>3 DEF RouteInv
  <2> QED BY <1>d, <2>1, <2>2, <2>3, <2>4
<1>5. ASSUME NEW d \in Consumers, Worker(d) PROVE RouteInv'
  BY <1>5, WorkerRouteInv
<1>6. ASSUME NEW q \in Replayers, Replay(q) PROVE RouteInv'
  <2>u. /\ rpc \in [Replayers -> ReplayStates] /\ rev \in [Replayers -> Events \cup {NoEvent}]
        /\ \A r \in Replayers : rpc[r] # "idle" => rev[r] \in Committed
        /\ deadLetters \subseteq Committed
    BY DEF TypeOK, ReplayOK, RouteInv
  <2>s. ASSUME UNCHANGED <<rowid, ch, wev>>, deadLetters' \subseteq deadLetters,
               \A r \in Replayers : rpc'[r] # "idle" => rev'[r] \in Committed
        PROVE  RouteInv'
    BY <2>s, <1>a, <1>b, <1>c DEF RouteInv
  <2>r. ReplayReturn(q) => \A r \in Replayers : rpc'[r] # "idle" => rev'[r] \in Committed
    BY <2>u DEF ReplayReturn
  <2>w. ReplayUnchanged => UNCHANGED <<rowid, wev>>
    BY DEF ReplayUnchanged, workerVars
  <2>1. ASSUME NEW e \in Events, ReplayGet(q, e) PROVE RouteInv'
    <3>1. \A r \in Replayers : rpc'[r] # "idle" => rev'[r] \in Committed
      BY <2>1, <2>u DEF ReplayGet
    <3> QED BY <2>1, <2>s, <2>w, <3>1 DEF ReplayGet
  <2>2. CASE ReplayPublish(q)
    <3>1. \A r \in Replayers : rpc'[r] # "idle" => rev'[r] \in Committed
      BY <2>2, <2>r, <2>u DEF ReplayPublish
    <3> QED BY <2>2, <2>s, <2>w, <3>1 DEF ReplayPublish
  <2>3. CASE ReplayDeliver(q)
    <3>1. rev[q] \in Committed /\ rev[q] \in Events /\ rat[q] \in 1..Len(SubsOf[rev[q]])
      BY <2>3, <2>u DEF ReplayDeliver, TypeOK, ReplayOK
    <3>2. SubsOf[rev[q]][rat[q]] \in Consumers /\ Subscribes(SubsOf[rev[q]][rat[q]], rev[q])
      BY <3>1, FanOutSubscribes
    <3>3. \A r \in Replayers : rpc'[r] # "idle" => rev'[r] \in Committed
      BY <2>3, <2>u DEF ReplayDeliver
    <3>4. /\ Send(SubsOf[rev[q]][rat[q]], rev[q]) \/ Skip(SubsOf[rev[q]][rat[q]], rev[q])
          /\ UNCHANGED <<rowid, wev, deadLetters>>
      BY <2>3, <2>w DEF ReplayDeliver
    <3> QED BY <1>d, <3>1, <3>2, <3>3, <3>4
  <2>4. CASE ReplayDelete(q)
    BY <2>4, <2>s, <2>r, <2>w DEF ReplayDelete
  <2>5. CASE ReplayFails(q)
    BY <2>5, <2>s, <2>r, <2>w DEF ReplayFails
  <2> QED BY <1>6, <2>1, <2>2, <2>3, <2>4, <2>5 DEF Replay
<1>7. CASE Exit \/ Crash
  <2>1. Boot
    BY <1>7 DEF Exit, Crash
  <2>2. \A c \in Consumers, e \in Events : ~Copy(c, e)'
    BY <2>1, ConstantTypes DEF Boot, Copy, Queued, Holds
  <2>3. Committed' = Committed /\ UNCHANGED deadLetters /\ \A r \in Replayers : rpc'[r] = "idle"
    BY <2>1, <1>a DEF Boot, dbVars
  <2> QED BY <2>2, <2>3 DEF RouteInv
<1> QED BY <1>1, <1>2, <1>3, <1>4, <1>5, <1>6, <1>7 DEF Next, Relay

-----------------------------------------------------------------------------
(* Every step is a step of the ledger, or none *)

\* Steps the ledger does not see.
Unseen == UNCHANGED <<rowid, published, processed, deadLetters, dropped>> /\ AllInFlight' = AllInFlight

(* Such a step leaves the ledger as it is.                                        *)
LEMMA UnseenStutters == Unseen => UNCHANGED Ledger!vars
  BY DEF Unseen, Ledger!vars, Committed, Pending

(* Channels, hands and dead goroutines alone decide what is in flight.            *)
LEMMA InFlightFrame == UNCHANGED <<ch, wpc, wev>> => AllInFlight' = AllInFlight
  BY DEF AllInFlight, InFlight, InHand, Queued

(* Bus.deliver carries its pair, or misses it: the bus is closing, or the         *)
(* goroutine at the other end of the channel has returned.                        *)
LEMMA DeliverStep ==
    ASSUME TypeOK, NEW d \in Consumers, NEW f \in Committed, Subscribes(d, f),
           Send(d, f) \/ Skip(d, f),
           UNCHANGED <<rowid, published, processed, deadLetters, wpc, wev>>
    PROVE  Ledger!Next
<1> DEFINE p == <<d, f>>
<1>1. f \in Events /\ p \in Owed
  BY DEF Committed, Owed
<1>2. UNCHANGED <<Committed, Pending>>
  BY DEF Committed, Pending
<1>3. CASE Skip(d, f)
  <2>1. AllInFlight' = AllInFlight /\ dropped' = dropped \cup {p}
    BY <1>3, InFlightFrame DEF Skip
  <2> QED BY <1>1, <1>2, <2>1 DEF Ledger!Next, Ledger!Miss, Owed
<1>4. CASE Send(d, f)
  <2>1. \A c \in Consumers, e \in Events : Queued(c, e)' <=> Queued(c, e) \/ (c = d /\ e = f)
    BY <1>1, <1>4, SendQueues
  <2>2. \A c, e : InHand(c, e)' <=> InHand(c, e)
    BY DEF InHand
  <2>3. \A c \in Consumers, e \in Events :
           InFlight(c, e)' <=> InFlight(c, e) \/ (wpc[d] # "exited" /\ c = d /\ e = f)
    BY <2>1, <2>2 DEF InFlight
  <2>4. CASE wpc[d] = "exited"
    <3>1. AllInFlight' = AllInFlight
      BY <2>3, <2>4 DEF AllInFlight
    <3>2. dropped' = dropped \cup {p}
      BY <1>4, <2>4 DEF Send
    <3> QED BY <1>1, <1>2, <3>1, <3>2 DEF Ledger!Next, Ledger!Miss, Owed
  <2>5. CASE wpc[d] # "exited"
    <3>1. AllInFlight' = AllInFlight \cup {p}
      <4> HIDE DEF InFlight
      <4>1. \A q \in Consumers \X Events :
               InFlight(q[1], q[2])' <=> InFlight(q[1], q[2]) \/ q = p
        BY <2>3, <2>5
      <4> QED BY <1>1, <4>1 DEF AllInFlight
    <3>2. dropped' = dropped \ {p}
      BY <1>4, <2>5 DEF Send
    <3> QED BY <1>1, <1>2, <3>1, <3>2 DEF Ledger!Next, Ledger!Carry, Owed
  <2> QED BY <2>4, <2>5
<1> QED BY <1>3, <1>4

(* When handle returns, the copy in its hand is gone; another may still be queued.*)
LEMMA ReturnPutsDown ==
    ASSUME TypeOK, NEW d \in Consumers, Return(d), UNCHANGED ch, wpc[d] \notin {"idle", "exited"}
    PROVE  /\ wev[d] \in Events
           /\ <<d, wev[d]>> \in AllInFlight
           /\ AllInFlight' \in {AllInFlight, AllInFlight \ {<<d, wev[d]>>}}
<1>t. wpc \in [Consumers -> WorkerStates] /\ wev \in [Consumers -> Events \cup {NoEvent}]
      /\ wev[d] \in Events
  BY DEF TypeOK, WorkerOK
<1>q. \A c, e : Queued(c, e)' <=> Queued(c, e)
  BY DEF Queued
<1>1. <<d, wev[d]>> \in AllInFlight
  BY <1>t DEF AllInFlight, InFlight, InHand
<1>2. ASSUME NEW c \in Consumers, NEW e \in Events, c # d
      PROVE  InFlight(c, e)' <=> InFlight(c, e)
  <2>1. wpc'[c] = wpc[c] /\ wev'[c] = wev[c]
    BY <1>2, <1>t DEF Return
  <2> QED BY <2>1, <1>q DEF InFlight, InHand
<1>3. ASSUME NEW e \in Events PROVE InFlight(d, e)' <=> Queued(d, e)
  <2>1. wpc'[d] = "idle"
    BY <1>t DEF Return
  <2> QED BY <2>1, <1>q DEF InFlight, InHand
<1>4. ASSUME NEW e \in Events PROVE InFlight(d, e) <=> Queued(d, e) \/ wev[d] = e
  BY DEF InFlight, InHand
<1> HIDE DEF InFlight
<1>5. CASE Queued(d, wev[d])
  <2>1. \A q \in Consumers \X Events : InFlight(q[1], q[2])' <=> InFlight(q[1], q[2])
    BY <1>t, <1>2, <1>3, <1>4, <1>5
  <2> QED BY <1>t, <1>1, <2>1 DEF AllInFlight
<1>6. CASE ~Queued(d, wev[d])
  <2>1. \A q \in Consumers \X Events :
           InFlight(q[1], q[2])' <=> InFlight(q[1], q[2]) /\ q # <<d, wev[d]>>
    BY <1>t, <1>2, <1>3, <1>4, <1>6
  <2> QED BY <1>t, <1>1, <2>1 DEF AllInFlight
<1> QED BY <1>t, <1>1, <1>5, <1>6

(* A subscription finishes, buries or abandons what it took, or the ledger does   *)
(* not see its step.                                                              *)
LEMMA WorkerStep ==
    ASSUME TypeOK, RouteInv, NEW d \in Consumers, Worker(d)
    PROVE  [Ledger!Next]_(Ledger!vars)
<1>t. wpc \in [Consumers -> WorkerStates] /\ wev \in [Consumers -> Events \cup {NoEvent}]
      /\ ch \in [Consumers -> Seq(Events)]
  BY DEF TypeOK, WorkerOK, BusOK
<1>c. WorkerUnchanged => UNCHANGED <<rowid, published, Committed, Pending>>
  BY DEF WorkerUnchanged, Committed, Pending
\* steps inside the chain
<1>h. ASSUME WorkerUnchanged, UNCHANGED <<ch, wev, processed, deadLetters, dropped>>,
             wpc[d] \in {"check", "run", "ran", "backoff"},
             NEW s \in {"check", "run", "ran", "backoff", "dead"}, wpc' = [wpc EXCEPT ![d] = s]
      PROVE  UNCHANGED Ledger!vars
  <2>1. \A c \in Consumers : (wpc'[c] = "idle" <=> wpc[c] = "idle")
                             /\ (wpc'[c] = "exited" <=> wpc[c] = "exited")
    BY <1>h, <1>t
  <2>2. \A c \in Consumers, e \in Events : InFlight(c, e)' <=> InFlight(c, e)
    BY <1>h, <2>1 DEF InFlight, InHand, Queued
  <2>3. AllInFlight' = AllInFlight
    BY <2>2 DEF AllInFlight
  <2> QED BY <1>h, <1>c, <2>3, UnseenStutters DEF Unseen
\* the chain returns
<1>r. ASSUME WorkerUnchanged, Return(d), UNCHANGED ch, wpc[d] \notin {"idle", "exited"}
      PROVE  /\ <<d, wev[d]>> \in Owed /\ <<d, wev[d]>> \in AllInFlight
             /\ AllInFlight' \in {AllInFlight, AllInFlight \ {<<d, wev[d]>>}}
             /\ UNCHANGED <<Committed, Pending>>
  <2>1. wev[d] \in Events /\ <<d, wev[d]>> \in AllInFlight
        /\ AllInFlight' \in {AllInFlight, AllInFlight \ {<<d, wev[d]>>}}
    BY <1>r, ReturnPutsDown
  <2>2. Subscribes(d, wev[d])
    BY <2>1 DEF RouteInv, Copy
  <2> QED BY <1>r, <1>c, <2>1, <2>2 DEF Owed
<1>fin. ASSUME WorkerUnchanged, Return(d), UNCHANGED <<ch, deadLetters, dropped>>,
               wpc[d] \in {"check", "ran"}, processed' = processed \cup {<<d, wev[d]>>}
        PROVE  Ledger!Next
  <2>1. Ledger!Finish(<<d, wev[d]>>)
    BY <1>fin, <1>r DEF Ledger!Finish, Ledger!PutDown
  <2> QED BY <2>1, <1>fin, <1>r DEF Ledger!Next, Owed
<1>give. ASSUME WorkerUnchanged, GiveUp(d), UNCHANGED <<ch, processed, deadLetters>>,
                wpc[d] \in {"backoff", "run", "dead"}
         PROVE  Ledger!Next
  <2> DEFINE S == {<<d, wev[d]>>}
  <2>1. /\ S \subseteq AllInFlight /\ dropped' = dropped \cup S
        /\ AllInFlight' = AllInFlight \/ AllInFlight' = AllInFlight \ S
        /\ UNCHANGED <<Committed, Pending, processed, deadLetters>>
    BY <1>give, <1>r DEF GiveUp
  <2> HIDE DEF S
  <2>2. \E T \in SUBSET S : AllInFlight' = AllInFlight \ T
    <3>1. CASE AllInFlight' = AllInFlight
      <4>1. {} \in SUBSET S /\ AllInFlight' = AllInFlight \ {}
        BY <3>1
      <4> QED BY <4>1
    <3>2. CASE AllInFlight' = AllInFlight \ S
      BY <3>2
    <3> QED BY <2>1, <3>1, <3>2
  <2>3. Ledger!Abandon(S)
    BY <2>1, <2>2 DEF Ledger!Abandon
  <2> QED BY <2>1, <2>3 DEF Ledger!Next
<1>1. CASE SubTake(d)
  <2>1. /\ ch[d] \in Seq(Events) /\ ch[d] # <<>> /\ wpc[d] = "idle"
        /\ ch' = [ch EXCEPT ![d] = Tail(ch[d])] /\ wev' = [wev EXCEPT ![d] = Head(ch[d])]
        /\ wpc' = [wpc EXCEPT ![d] = "check"]
        /\ UNCHANGED <<processed, deadLetters, dropped>> /\ WorkerUnchanged
    BY <1>1, <1>t DEF SubTake
  <2>2. ASSUME NEW c \in Consumers, NEW e \in Events PROVE InFlight(c, e)' <=> InFlight(c, e)
    <3>1. CASE c = d
      <4>1. ch'[c] = Tail(ch[d]) /\ wev'[c] = Head(ch[d]) /\ wpc'[c] = "check"
        BY <2>1, <3>1, <1>t
      <4>2. Holds(ch[d], e) <=> Head(ch[d]) = e \/ Holds(Tail(ch[d]), e)
        BY <2>1, HoldsTail
      <4> QED BY <2>1, <3>1, <4>1, <4>2 DEF InFlight, InHand, Queued
    <3>2. CASE c # d
      <4>1. ch'[c] = ch[c] /\ wev'[c] = wev[c] /\ wpc'[c] = wpc[c]
        BY <2>1, <3>2, <1>t
      <4> QED BY <4>1 DEF InFlight, InHand, Queued
    <3> QED BY <3>1, <3>2
  <2>3. AllInFlight' = AllInFlight
    BY <2>2 DEF AllInFlight
  <2> QED BY <1>c, <2>1, <2>3, UnseenStutters DEF Unseen
<1>2. CASE SubExit(d)
  <2> DEFINE S == {p \in {d} \X Events : Queued(d, p[2])}
  <2>1. /\ wpc[d] = "idle" /\ wpc' = [wpc EXCEPT ![d] = "exited"] /\ dropped' = dropped \cup S
        /\ UNCHANGED <<ch, wev, processed, deadLetters>> /\ WorkerUnchanged
    BY <1>2 DEF SubExit
  <2>2. \A c \in Consumers, e \in Events : Queued(c, e)' <=> Queued(c, e)
    BY <2>1 DEF Queued
  <2>3. \A e \in Events : (InFlight(d, e) <=> Queued(d, e)) /\ ~InFlight(d, e)'
    BY <2>1, <1>t DEF InFlight, InHand
  <2>4. ASSUME NEW c \in Consumers, NEW e \in Events, c # d PROVE InFlight(c, e)' <=> InFlight(c, e)
    <3>1. wpc'[c] = wpc[c]
      BY <2>1, <2>4, <1>t
    <3> QED BY <2>1, <2>2, <3>1 DEF InFlight, InHand
  <2>5. S \subseteq AllInFlight
    BY <2>3 DEF AllInFlight
  <2>6. AllInFlight' = AllInFlight \ S
    <3> HIDE DEF InFlight, Queued
    <3>1. \A q \in Consumers \X Events :
             InFlight(q[1], q[2])' <=> InFlight(q[1], q[2]) /\ q \notin S
      <4> SUFFICES ASSUME NEW c \in Consumers, NEW e \in Events
                   PROVE  InFlight(c, e)' <=> InFlight(c, e) /\ <<c, e>> \notin S
        OBVIOUS
      <4>1. <<c, e>> \in S <=> c = d /\ Queued(c, e)
        OBVIOUS
      <4> HIDE DEF S
      <4>2. CASE c = d
        BY <4>1, <4>2, <2>3
      <4>3. CASE c # d
        BY <4>1, <4>3, <2>4
      <4> QED BY <4>2, <4>3
    <3> HIDE DEF S
    <3> QED BY <3>1 DEF AllInFlight
  <2> HIDE DEF S
  <2>7. Ledger!Abandon(S)
    <3>1. \E T \in SUBSET S : AllInFlight' = AllInFlight \ T
      BY <2>6
    <3> QED BY <1>c, <2>1, <3>1 DEF Ledger!Abandon
  <2> QED BY <2>5, <2>7 DEF Ledger!Next
<1>3. CASE SkipSeen(d)
  <2>1. processed' = processed \cup {<<d, wev[d]>>}
    BY <1>3 DEF SkipSeen
  <2> QED BY <1>3, <1>fin, <2>1 DEF SkipSeen
<1>4. CASE Record(d)
  BY <1>4, <1>fin DEF Record
<1>5. CASE CallHandler(d)
  BY <1>5, <1>h DEF CallHandler
<1>6. CASE SeenFails(d) \/ HandlerFails(d) \/ RecordFails(d)
  BY <1>6, <1>h DEF SeenFails, HandlerFails, RecordFails, AttemptFails
<1>7. CASE HandlerSucceeds(d)
  BY <1>7, <1>h DEF HandlerSucceeds
<1>8. CASE HandlerFatal(d)
  BY <1>8, <1>h DEF HandlerFatal
<1>9. CASE Retry(d)
  BY <1>9, <1>h DEF Retry
<1>10. CASE Nack(d) \/ HandlerTimesOut(d) \/ PutFails(d)
  BY <1>10, <1>give DEF Nack, HandlerTimesOut, PutFails
<1>11. CASE Put(d)
  <2>1. /\ WorkerUnchanged /\ Return(d) /\ UNCHANGED <<ch, processed, dropped>> /\ wpc[d] = "dead"
        /\ deadLetters' = deadLetters \cup {wev[d]}
    BY <1>11 DEF Put
  <2>2. Ledger!Bury(<<d, wev[d]>>)
    BY <1>r, <2>1 DEF Ledger!Bury, Ledger!PutDown
  <2> QED BY <1>r, <2>1, <2>2 DEF Ledger!Next, Owed
<1> QED
  BY <1>1, <1>2, <1>3, <1>4, <1>5, <1>6, <1>7, <1>8, <1>9, <1>10, <1>11 DEF Worker

(* A row leaves the outbox only after its whole fan-out: that is what the ledger  *)
(* asks of Publish.                                                               *)
LEMMA MarkStep ==
    ASSUME TypeOK, VanishInv, RelayMark
    PROVE  Ledger!Next
<1>1. cur \in Pending /\ cur \in Events /\ at = Len(SubsOf[cur]) + 1 /\ Len(SubsOf[cur]) \in Nat
  BY ConstantTypes DEF RelayMark, TypeOK, RelayOK, Pending, Committed
<1>2. /\ UNCHANGED Committed /\ Pending' = Pending \ {cur}
      /\ UNCHANGED <<processed, deadLetters, dropped, ch, wpc, wev>>
  BY DEF RelayMark, RelayUnchanged, workerVars, Pending, Committed
<1>3. UNCHANGED AllInFlight
  BY <1>2, InFlightFrame
<1>4. ASSUME NEW c \in Consumers, Subscribes(c, cur) PROVE Accounted(c, cur)
  <2>1. PICK i \in 1..Len(SubsOf[cur]) : SubsOf[cur][i] = c
    BY <1>4 DEF Subscribes, Holds
  <2>2. i \in 1..(at - 1) /\ i <= Len(SubsOf[cur])
    BY <1>1
  <2> QED BY <2>1, <2>2 DEF RelayMark, VanishInv, FannedOut
<1>5. Ledger!Accounted(cur)
  <2>1. \A c \in Consumers : Subscribes(c, cur) =>
           \/ cur \in deadLetters
           \/ <<c, cur>> \in AllInFlight \cup processed \cup dropped
    BY <1>1, <1>4 DEF Accounted, Kept, AllInFlight
  <2> QED BY <1>1, <2>1 DEF Ledger!Accounted
<1>6. Ledger!Publish(cur)
  BY <1>1, <1>2, <1>3, <1>5 DEF Ledger!Publish
<1> QED BY <1>1, <1>6 DEF Ledger!Next

(* The relay's other steps: a delivery, or nothing the ledger sees.               *)
LEMMA RelayStep ==
    ASSUME TypeOK, VanishInv, Relay
    PROVE  [Ledger!Next]_(Ledger!vars)
<1>1. CASE RelayMark
  BY <1>1, MarkStep
<1>2. CASE RelayDeliver
  <2>1. cur \in Committed /\ cur \in Events /\ at \in 1..Len(SubsOf[cur])
    BY <1>2 DEF RelayDeliver, TypeOK, RelayOK, Pending, Committed
  <2>2. SubsOf[cur][at] \in Consumers /\ Subscribes(SubsOf[cur][at], cur)
    BY <2>1, FanOutSubscribes
  <2>3. /\ Send(SubsOf[cur][at], cur) \/ Skip(SubsOf[cur][at], cur)
        /\ UNCHANGED <<rowid, published, processed, deadLetters, wpc, wev>>
    BY <1>2 DEF RelayDeliver, RelayUnchanged, workerVars
  <2> QED BY <2>1, <2>2, <2>3, DeliverStep
<1>3. CASE RelayTake \/ RelayRead \/ RelayReadFails \/ RelayPublish \/ RelayDeliverFails
           \/ RelayMarkFails \/ RelayWake \/ RelayTick \/ RelayStop
  <2>1. RelayUnchanged /\ UNCHANGED <<published, ch, dropped>>
    BY <1>3 DEF RelayTake, RelayRead, RelayReadFails, RelayPublish, RelayDeliverFails,
       RelayMarkFails, RelayWake, RelayTick, RelayStop
  <2> QED BY <2>1, InFlightFrame, UnseenStutters DEF Unseen, RelayUnchanged, workerVars
<1> QED BY <1>1, <1>2, <1>3 DEF Relay

(* A replay delivers its event once more, and then takes the dead letter away.    *)
LEMMA ReplayStep ==
    ASSUME TypeOK, RouteInv, NEW r \in Replayers, Replay(r)
    PROVE  [Ledger!Next]_(Ledger!vars)
<1>w. ReplayUnchanged => UNCHANGED <<rowid, published, processed, wpc, wev>>
  BY DEF ReplayUnchanged, workerVars
<1>1. CASE ReplayDeliver(r)
  <2>1. rev[r] \in Committed /\ rev[r] \in Events /\ rat[r] \in 1..Len(SubsOf[rev[r]])
    BY <1>1 DEF ReplayDeliver, TypeOK, ReplayOK, RouteInv
  <2>2. SubsOf[rev[r]][rat[r]] \in Consumers /\ Subscribes(SubsOf[rev[r]][rat[r]], rev[r])
    BY <2>1, FanOutSubscribes
  <2>3. /\ Send(SubsOf[rev[r]][rat[r]], rev[r]) \/ Skip(SubsOf[rev[r]][rat[r]], rev[r])
        /\ UNCHANGED <<rowid, published, processed, deadLetters, wpc, wev>>
    BY <1>1, <1>w DEF ReplayDeliver
  <2> QED BY <2>1, <2>2, <2>3, DeliverStep
<1>2. CASE ReplayDelete(r)
  <2> DEFINE e == rev[r]
             S == {p \in Consumers \X {e} :
                      Subscribes(p[1], p[2]) /\ p \notin processed /\ ~InFlight(p[1], p[2])}
             L == {p \in Owed : p[2] = e /\ p \notin AllInFlight \cup processed}
  <2>1. /\ e \in Events /\ e \in deadLetters /\ deadLetters' = deadLetters \ {e}
        /\ dropped' = dropped \cup S
        /\ UNCHANGED <<rowid, published, processed, ch, wpc, wev>>
    BY <1>2, <1>w DEF ReplayDelete, TypeOK, ReplayOK
  <2>2. S = L
    <3> HIDE DEF InFlight, Subscribes
    <3>0. e \in Events
      BY <2>1
    <3> HIDE DEF e
    <3> QED BY <3>0 DEF Owed, AllInFlight
  <2>3. UNCHANGED <<Committed, Pending, AllInFlight>>
    BY <2>1, InFlightFrame DEF Committed, Pending
  <2> HIDE DEF S
  <2>4. Ledger!Discard(e)
    BY <2>1, <2>2, <2>3 DEF Ledger!Discard, Owed
  <2> QED BY <2>1, <2>4 DEF Ledger!Next
<1>3. CASE ReplayPublish(r) \/ ReplayFails(r) \/ \E e \in Events : ReplayGet(r, e)
  <2>1. ReplayUnchanged /\ UNCHANGED <<deadLetters, ch, dropped>>
    BY <1>3 DEF ReplayPublish, ReplayFails, ReplayGet
  <2> QED BY <2>1, <1>w, InFlightFrame, UnseenStutters DEF Unseen
<1> QED BY <1>1, <1>2, <1>3 DEF Replay

(* A reboot abandons everything in flight.                                        *)
LEMMA BootStep == ASSUME Boot PROVE Ledger!Next
<1> DEFINE S == AllInFlight
<1>1. dropped' = dropped \cup S /\ UNCHANGED <<Committed, Pending, processed, deadLetters>>
  BY DEF Boot, dbVars, Committed, Pending
<1>2. AllInFlight' = AllInFlight \ S
  <2>1. \A c \in Consumers, e \in Events : ~InFlight(c, e)'
    BY DEF Boot, InFlight, InHand, Queued, Holds
  <2> QED BY <2>1 DEF AllInFlight
<1>3. S \in SUBSET AllInFlight
  OBVIOUS
<1> HIDE DEF S
<1>4. \E T \in SUBSET S : AllInFlight' = AllInFlight \ T
  BY <1>2
<1>5. Ledger!Abandon(S)
  BY <1>1, <1>4 DEF Ledger!Abandon
<1> QED BY <1>3, <1>5 DEF Ledger!Next

(* Every step maps to a step of the ledger or a stutter.                          *)
LEMMA StepRefines == TypeOK /\ VanishInv /\ RouteInv /\ [Next]_vars => [Ledger!Next]_(Ledger!vars)
<1> SUFFICES ASSUME TypeOK, VanishInv, RouteInv, [Next]_vars PROVE [Ledger!Next]_(Ledger!vars)
  OBVIOUS
<1>1. ASSUME NEW e \in Events, Enqueue(e) PROVE Ledger!Next
  <2>1. /\ e \notin Committed /\ Committed' = Committed \cup {e} /\ Pending' = Pending \cup {e}
        /\ UNCHANGED <<processed, deadLetters, dropped, ch, wpc, wev>>
    BY <1>1 DEF Enqueue, Pending, Committed, TypeOK, StoreOK, workerVars
  <2>2. Ledger!Commit(e)
    BY <2>1, InFlightFrame DEF Ledger!Commit
  <2> QED BY <2>2 DEF Ledger!Next
<1>2. CASE Notify \/ Signal \/ Close \/ DrainTimeout \/ UNCHANGED vars
  BY <1>2, InFlightFrame, UnseenStutters
  DEF Unseen, Notify, Signal, Close, DrainTimeout, vars, dbVars, workerVars
<1>3. CASE Relay
  BY <1>3, RelayStep
<1>4. ASSUME NEW d \in Consumers, Worker(d) PROVE [Ledger!Next]_(Ledger!vars)
  BY <1>4, WorkerStep
<1>5. ASSUME NEW r \in Replayers, Replay(r) PROVE [Ledger!Next]_(Ledger!vars)
  BY <1>5, ReplayStep
<1>6. CASE Exit \/ Crash
  BY <1>6, BootStep DEF Exit, Crash
<1> QED BY <1>1, <1>2, <1>3, <1>4, <1>5, <1>6 DEF Next

(* Outbox, relay, channels, middlewares, replays and restarts together implement  *)
(* the ledger of DeliveryLedger, whatever the subscriptions and the faults.       *)
THEOREM LedgerImplemented == Spec => ImplementsLedger
<1>1. Init => Ledger!Init /\ VanishInv /\ RouteInv
  <2>1. Init => Ledger!Init
    BY DEF Init, Ledger!Init, Committed, Pending, AllInFlight, InFlight, InHand, Queued, Holds
  <2>2. Init => VanishInv
    BY DEF Init, VanishInv, NothingVanishes, FannedOut
  <2>3. Init => RouteInv
    BY ConstantTypes DEF Init, RouteInv, Copy, Queued, Holds
  <2> QED BY <2>1, <2>2, <2>3
<1> QED
  BY <1>1, TypeCorrect, NextVanishInv, NextRouteInv, StepRefines, PTL
  DEF Spec, ImplementsLedger, Ledger!Spec
==============
