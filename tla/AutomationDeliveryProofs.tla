-------------------- MODULE AutomationDeliveryProofs --------------------
(***************************************************************************)
(* Proofs about AutomationDelivery, for every log, scope, version of the   *)
(* code, batch size and number of connections, late commits, throws,       *)
(* faults and switches.                                                    *)
(***************************************************************************)
EXTENDS AutomationDelivery, FiniteSetTheorems, SequenceTheorems, WellFoundedInduction, TLAPS

-----------------------------------------------------------------------------
(* Types *)

ConnStates == {"none", "announce", "sync", "cursor", "latest", "skip", "hello", "reading",
               "recording", "ended", "gone"}
LoopStates == {"off", "top", "read", "batch", "sending", "await", "wait"}
Outcomes   == {"idle", "running", "finished", "crashed"}
InLoop     == {"reading", "recording", "ended", "gone"}
InRun      == {"sending", "await"}
Over       == {"ended", "gone"}

Positions == 0..NEvents
Versions  == Codes \cup {NoCode}

ConnRecs == [st : ConnStates, code : Versions, saw : [enabled : BOOLEAN, runs : BOOLEAN],
             at : Positions]
LoopRecs == [st : LoopStates, code : Versions, cur : Positions, batch : SUBSET Events,
             done : BOOLEAN]
HistRecs == [late : SUBSET Positions, skipped : SUBSET Positions, off : SUBSET Positions,
             ran : SUBSET Positions, threw : SUBSET Positions, cut : SUBSET Positions,
             strayed : SUBSET Positions, acked : [Conns -> SUBSET Positions],
             asked : BOOLEAN, stale : BOOLEAN, sentOff : BOOLEAN, sentSkipped : BOOLEAN,
             crashes : Nat, faults : Nat, errs : Nat, toggles : Nat]

RowTypes ==
    /\ log \subseteq Events /\ archived \in BOOLEAN /\ cursor \in NoRow..NEvents
    /\ rec \in [enabled : BOOLEAN, code : Versions]

SideTypes ==
    /\ reg \in Conns \cup {NoConn}
    /\ ws \in [Conns -> BOOLEAN] /\ woken \in [Conns -> BOOLEAN]
    /\ active \in [Conns -> Positions]
    /\ work \in [Conns -> [ev : Positions, out : Outcomes]]

CallTypes ==
    /\ admin \in [st : {"idle", "latest", "skip", "update", "drop"}, to : BOOLEAN,
                  at : Positions, code : Versions]
    /\ wsq \in Seq(BOOLEAN)
    /\ restore \in [st : {"idle", "skip", "drop"}, at : Positions]
    /\ restore.st # "idle" => wsq # <<>> /\ ~Head(wsq)

Types ==
    /\ RowTypes /\ SideTypes /\ CallTypes
    /\ conn \in [Conns -> ConnRecs] /\ loop \in [Conns -> LoopRecs] /\ hist \in HistRecs

-----------------------------------------------------------------------------
(* The inductive invariant, in the parts the theorems are about *)

\* Only the registered connection has an open socket, and it is past its dial and not over.
Sockets ==
    /\ reg # NoConn => conn[reg].st \notin {"none", "gone"}
    /\ \A c \in Conns :
          /\ ws[c] => reg = c /\ conn[c].st \notin Over
          /\ loop[c].st # "off" => conn[c].st \in InLoop

\* Every position a goroutine holds is that of a committed row.
Held ==
    /\ cursor \in log \cup {NoRow, 0}
    /\ admin.at \in log \cup {0} /\ restore.at \in log \cup {0}
    /\ \A c \in Conns :
          /\ conn[c].at \in log \cup {0}
          /\ loop[c].cur \in log \cup {0}
          /\ loop[c].batch \subseteq log
          /\ loop[c].st = "read" => loop[c].code \in Codes
          /\ loop[c].st \in InRun => loop[c].cur \in log /\ \A b \in loop[c].batch : loop[c].cur < b
          /\ loop[c].st \notin InRun \cup {"batch"} => loop[c].batch = {}

\* deliverOne and readLoop hold the same run, until its report releases deliverOne.
SameRun ==
    \A c \in Conns :
       /\ active[c] # 0 => loop[c].st \in InRun /\ loop[c].cur = active[c] /\ ~loop[c].done
       /\ loop[c].st \in InRun /\ ~loop[c].done /\ conn[c].st = "reading" => active[c] = loop[c].cur
       /\ loop[c].st = "await" /\ ~loop[c].done => conn[c].st \in {"reading", "recording"}
       /\ loop[c].st = "sending" /\ ws[c] => ~loop[c].done
       /\ work[c].out # "idle" =>
             ws[c] /\ conn[c].st = "reading" /\ loop[c].st = "await" /\ ~loop[c].done
       /\ conn[c].st = "recording" =>
             /\ loop[c].st = "await" /\ ~loop[c].done
             /\ conn[c].at = loop[c].cur /\ conn[c].at \in hist.ran
             /\ active[c] = 0 /\ woken[c]
       /\ loop[c].st = "await" /\ loop[c].done => woken[c]

Accounted(e) == e \in hist.ran \cup hist.skipped \cup hist.late \cup hist.threw \cup hist.strayed

\* The loop still has e before it, or will never get past it.
Open(c, e) ==
    \/ e \in loop[c].batch
    \/ loop[c].st \in InRun /\ e = loop[c].cur
    \/ conn[c].st \in Over /\ e \in hist.cut

\* Moving the cursor to p would leave no wanted event behind but those still open.
Behind(c, p) == \A e \in log : e < p /\ Wanted(e) => Accounted(e) \/ Open(c, e)

\* What the loop still has to do leaves no wanted event behind.
PassesOn(c) ==
    /\ loop[c].st = "read" => \A e \in log : e <= loop[c].cur /\ Wanted(e) => Accounted(e)
    /\ \A p \in loop[c].batch : Behind(c, p)
    /\ loop[c].st \in InRun => Behind(c, loop[c].cur)
    /\ loop[c].st = "await" /\ loop[c].done =>
          Accounted(loop[c].cur) \/ (conn[c].st \in Over /\ loop[c].cur \in hist.cut)

Passing == PassedIsAccounted /\ \A c \in Conns : PassesOn(c)

\* What a connection has recorded lies behind the cursor it goes on from.
Recorded ==
    \A c \in Conns : \A x \in hist.acked[c] :
       /\ x \in log /\ x <= cursor
       /\ loop[c].st = "read" => x <= loop[c].cur
       /\ x \notin loop[c].batch /\ x # active[c]

\* As long as its channel is open, what the loop has read is what the database says.
Awake ==
    \A c \in Conns : hist.errs = 0 /\ ~woken[c] =>
       /\ loop[c].st = "read" => loop[c].code = rec.code /\ loop[c].cur = CursorRead
       /\ loop[c].st = "batch" => loop[c].batch = After(rec.code, CursorRead)
       /\ loop[c].st = "wait" /\ Runs => After(rec.code, CursorRead) = {}

\* While it is off, an open connection has no loop and will not start one.
Off ==
    /\ ~hist.sentOff
    /\ ~hist.stale => rec.enabled = hist.asked
    /\ ~hist.stale /\ admin.st \in {"latest", "skip"} => ~hist.asked
    /\ ~hist.stale /\ ~hist.asked /\ admin.st # "drop" =>
          \A c \in Conns : ws[c] =>
             /\ loop[c].st = "off"
             /\ conn[c].st # "announce" => ~conn[c].saw.enabled /\ ~conn[c].saw.runs

\* What SetEnabled skipped lies behind the cursor of every loop that can still send.
Skipped ==
    /\ ~hist.sentSkipped
    /\ \A x \in hist.off : x <= cursor
    /\ ~hist.stale => \A c \in Conns : ws[c] => \A x \in hist.off :
          /\ loop[c].st = "read" => x <= loop[c].cur
          /\ x \notin loop[c].batch
          /\ loop[c].st = "sending" => x # loop[c].cur

IInv == Types /\ Sockets /\ Held /\ SameRun /\ Passing /\ Recorded /\ Awake /\ Off /\ Skipped

-----------------------------------------------------------------------------
(* Helpers *)

(* The constants' types, as the leaves below use them. *)
LEMMA ConstantTypes ==
    /\ NEvents \in Nat /\ Conns \subseteq Nat /\ NoConn \notin Conns
    /\ NoCode \notin Codes /\ \A v \in Codes : Subs[v] \subseteq Events
    /\ BatchSize \in Nat
BY AutomationAssumption DEF NoConn, NoCode, Events

(* Latest is the last committed row, or zero on an empty log. *)
LEMMA LatestIsCommitted ==
    ASSUME log \subseteq Events
    PROVE  Latest \in log \cup {0} /\ \A e \in log : e <= Latest
<1>1. CASE log = {}
  BY <1>1 DEF Latest
<1>2. CASE log # {}
  <2> DEFINE T == {NEvents - e : e \in log}
  <2>1. T \subseteq Nat /\ T # {}
    <3>1. \A e \in log : e \in 1..NEvents
      BY DEF Events
    <3>2. \A e \in log : NEvents - e \in Nat
      BY <3>1, ConstantTypes
    <3> QED BY <1>2, <3>2
  <2>2. PICK x \in T : \A y \in T : ~(<<y, x>> \in OpToRel(<, Nat))
    BY <2>1, NatLessThanWellFounded, WFMin
  <2>3. PICK m \in log : x = NEvents - m
    BY <2>2
  <2>4. ASSUME NEW e \in log PROVE e <= m
    <3> DEFINE y == NEvents - e
    <3>1. y \in T /\ y \in Nat /\ x \in Nat
      BY <2>1
    <3>2. y < x => <<y, x>> \in OpToRel(<, Nat)
      <4> HIDE DEF y
      <4> QED BY <3>1 DEF OpToRel
    <3>3. ~(y < x)
      BY <3>1, <3>2, <2>2
    <3> QED BY <3>3, <2>3, ConstantTypes DEF Events
  <2>5. \E z \in log : \A y \in log : z >= y
    BY <2>4, ConstantTypes DEF Events
  <2> QED BY <1>2, <2>5, ConstantTypes DEF Latest, Max, Events
<1> QED BY <1>1, <1>2

(* The batch that follows a cursor: committed rows of the topics beyond it, and with a row all *)
(* the older ones (ListOutboxAfterCursor orders before it limits). *)
LEMMA AfterIsPrefix ==
    ASSUME log \subseteq Events, NEW code, NEW cur \in Int
    PROVE  /\ After(code, cur) \subseteq log
           /\ \A e \in After(code, cur) : e > cur
           /\ \A e \in After(code, cur) : \A f \in log \cap Subscriptions(code) :
                 f > cur /\ f < e => f \in After(code, cur)
<1> DEFINE rows == {e \in log \cap Subscriptions(code) : e > cur}
           older(e) == {f \in rows : f < e}
<1>1. After(code, cur) = {e \in rows : Cardinality(older(e)) < BatchSize}
  BY DEF After
<1>f. rows \subseteq Int /\ \A e : IsFiniteSet(older(e))
  <2>1. IsFiniteSet(1..NEvents) /\ rows \in SUBSET (1..NEvents)
    <3>1. rows \subseteq 1..NEvents
      BY DEF Events
    <3>2. 1 \in Int /\ NEvents \in Int
      BY ConstantTypes
    <3>3. IsFiniteSet(1..NEvents)
      BY <3>2, FS_Interval
    <3> HIDE DEF rows
    <3> QED BY <3>1, <3>3
  <2>2. \A e : older(e) \in SUBSET (1..NEvents)
    BY <2>1
  <2>3. rows \subseteq Int
    BY <2>1
  <2> HIDE DEF older, rows
  <2> QED BY <2>1, <2>2, <2>3, FS_Subset
<1>2. ASSUME NEW e \in rows, NEW f \in rows, f < e
      PROVE  Cardinality(older(f)) <= Cardinality(older(e))
  <2>1. older(f) \subseteq older(e)
    BY <1>2, <1>f
  <2>3. IsFiniteSet(older(e))
    BY <1>f
  <2> HIDE DEF older
  <2> QED BY <2>1, <2>3, FS_Subset
<1>3. ASSUME NEW e \in rows PROVE Cardinality(older(e)) \in Nat
  BY <1>f, FS_CardinalityType
<1>4. ASSUME NEW e \in rows, NEW f \in rows, f < e, Cardinality(older(e)) < BatchSize
      PROVE  Cardinality(older(f)) < BatchSize
  BY <1>2, <1>3, <1>4, ConstantTypes
<1> HIDE DEF older
<1> QED BY <1>1, <1>4

-----------------------------------------------------------------------------
(* Type correctness *)

(* What a step leaves alone keeps its types. *)
LEMMA Frames ==
    ASSUME Types
    PROVE  /\ UNCHANGED <<log, archived, cursor, rec>> => RowTypes'
           /\ UNCHANGED <<reg, ws, woken, active, work>> => SideTypes'
           /\ UNCHANGED <<admin, wsq, restore>> => CallTypes'
           /\ UNCHANGED conn => conn' \in [Conns -> ConnRecs]
           /\ UNCHANGED loop => loop' \in [Conns -> LoopRecs]
           /\ UNCHANGED hist => hist' \in HistRecs
BY DEF Types, RowTypes, SideTypes, CallTypes

(* The positions that a step computes are positions. *)
LEMMA ComputedTypes ==
    ASSUME RowTypes
    PROVE  /\ Latest \in Positions /\ CursorRead \in Positions
           /\ \A v \in Versions, p \in Positions : After(v, p) \in SUBSET Events
<1>1. cursor \in Int /\ log \subseteq Events
  BY ConstantTypes DEF RowTypes, NoRow
<1>2. Latest \in log \cup {0}
  BY <1>1, LatestIsCommitted
<1>3. log \cup {0} \subseteq Positions
  BY <1>1, ConstantTypes DEF Positions, Events
<1>4. CursorRead \in Positions
  BY ConstantTypes DEF RowTypes, CursorRead, NoRow, Positions
<1>5. ASSUME NEW v \in Versions, NEW p \in Positions PROVE After(v, p) \in SUBSET Events
  <2>1. p \in Int
    BY ConstantTypes DEF Positions
  <2>2. After(v, p) \subseteq log
    BY <1>1, <2>1, AfterIsPrefix
  <2> QED BY <1>1, <2>2
<1> QED BY <1>2, <1>3, <1>4, <1>5

(* A step's cursor is a position. *)
LEMMA AdvanceTypes ==
    ASSUME NEW p \in Positions, cursor \in NoRow..NEvents, Advance(p)
    PROVE  cursor' \in NoRow..NEvents
BY ConstantTypes DEF Advance, NoRow, Positions

(* The records that stand for nothing going on. *)
LEMMA RestTypes ==
    /\ NoConnState \in ConnRecs /\ NoConnState.st = "none"
    /\ \A s \in ConnStates : [NoConnState EXCEPT !.st = s] \in ConnRecs
    /\ NoLoop \in LoopRecs /\ [NoLoop EXCEPT !.st = "wait"] \in LoopRecs
    /\ Idle \in [ev : Positions, out : Outcomes]
    /\ NoSwitch \in [st : {"idle", "latest", "skip", "update", "drop"}, to : BOOLEAN,
                     at : Positions, code : Versions]
<1>1. 0 \in Positions /\ NoCode \in Versions
  BY ConstantTypes DEF Positions, Versions
<1> QED BY <1>1 DEF NoConnState, ConnRecs, ConnStates, NoLoop, LoopRecs, LoopStates,
                  Idle, Outcomes, NoSwitch

(* The history, field by field. *)
LEMMA HistTypes ==
    ASSUME hist \in HistRecs
    PROVE  /\ \A S \in SUBSET Positions : [hist EXCEPT !.late = S] \in HistRecs
           /\ \A S \in SUBSET Positions : [hist EXCEPT !.skipped = S] \in HistRecs
           /\ \A S, T \in SUBSET Positions :
                 [hist EXCEPT !.skipped = S, !.off = T] \in HistRecs
           /\ \A S \in SUBSET Positions : [hist EXCEPT !.ran = S] \in HistRecs
           /\ \A S \in SUBSET Positions : [hist EXCEPT !.threw = S] \in HistRecs
           /\ \A S \in SUBSET Positions : [hist EXCEPT !.cut = S] \in HistRecs
           /\ \A S \in SUBSET Positions : [hist EXCEPT !.strayed = S] \in HistRecs
           /\ \A c \in Conns : \A S \in SUBSET Positions :
                 [hist EXCEPT !.acked[c] = S] \in HistRecs
           /\ \A b \in BOOLEAN : [hist EXCEPT !.asked = b] \in HistRecs
           /\ \A b \in BOOLEAN : [hist EXCEPT !.stale = b] \in HistRecs
           /\ \A a, b \in BOOLEAN : [hist EXCEPT !.sentOff = a, !.sentSkipped = b] \in HistRecs
           /\ [hist EXCEPT !.crashes = @ + 1] \in HistRecs
           /\ [hist EXCEPT !.faults = @ + 1] \in HistRecs
           /\ [hist EXCEPT !.toggles = @ + 1] \in HistRecs
           /\ [hist EXCEPT !.errs = @ + 1, !.faults = @ + 1] \in HistRecs
<1>1. /\ hist.crashes + 1 \in Nat /\ hist.faults + 1 \in Nat
      /\ hist.toggles + 1 \in Nat /\ hist.errs + 1 \in Nat
  BY DEF HistRecs
<1> QED BY <1>1 DEF HistRecs

(* What the fields of the history are. *)
LEMMA HistFields ==
    ASSUME hist \in HistRecs
    PROVE  /\ hist.late \in SUBSET Positions /\ hist.skipped \in SUBSET Positions
           /\ hist.off \in SUBSET Positions /\ hist.ran \in SUBSET Positions
           /\ hist.threw \in SUBSET Positions /\ hist.cut \in SUBSET Positions
           /\ hist.strayed \in SUBSET Positions
           /\ hist.acked \in [Conns -> SUBSET Positions]
           /\ hist.asked \in BOOLEAN /\ hist.stale \in BOOLEAN
           /\ hist.sentOff \in BOOLEAN /\ hist.sentSkipped \in BOOLEAN
           /\ hist.errs \in Nat /\ hist.faults \in Nat
BY DEF HistRecs

(* A skip covers positions only. *)
LEMMA SpanTypes == \A p \in Positions : 1..p \in SUBSET Positions
BY ConstantTypes DEF Positions

(* What the steps do to a connection and to its loop. *)
LEMMA ConnSteps ==
    ASSUME conn \in [Conns -> ConnRecs], NEW c \in Conns
    PROVE  /\ \A s \in ConnStates : [conn EXCEPT ![c].st = s] \in [Conns -> ConnRecs]
           /\ \A s \in ConnStates, p \in Positions :
                 [conn EXCEPT ![c].st = s, ![c].at = p] \in [Conns -> ConnRecs]
           /\ \A s \in ConnStates, w \in [enabled : BOOLEAN, runs : BOOLEAN] :
                 [conn EXCEPT ![c].st = s, ![c].saw = w] \in [Conns -> ConnRecs]
           /\ conn[c].at \in Positions /\ conn[c].code \in Versions
BY DEF ConnRecs

LEMMA LoopSteps ==
    ASSUME loop \in [Conns -> LoopRecs], NEW c \in Conns
    PROVE  /\ \A s \in LoopStates : [loop EXCEPT ![c].st = s] \in [Conns -> LoopRecs]
           /\ [loop EXCEPT ![c].done = TRUE] \in [Conns -> LoopRecs]
           /\ \A v \in Versions, p \in Positions :
                 [loop EXCEPT ![c] = [@ EXCEPT !.st = "read", !.code = v, !.cur = p]]
                    \in [Conns -> LoopRecs]
           /\ \A S \in SUBSET Events, v \in Versions, p \in Positions :
                 [loop EXCEPT ![c].st = "batch", ![c].batch = S, ![c].code = v, ![c].cur = p]
                    \in [Conns -> LoopRecs]
           /\ \A r \in LoopRecs : [loop EXCEPT ![c] = r] \in [Conns -> LoopRecs]
           /\ loop[c].code \in Versions /\ loop[c].cur \in Positions
<1>1. {"read", "batch"} \subseteq LoopStates
  BY DEF LoopStates
<1> QED BY <1>1 DEF LoopRecs

(* Every step keeps the types. *)
LEMMA TypesNext == Types /\ [Next]_vars => Types'
<1> SUFFICES ASSUME Types, [Next]_vars PROVE Types'
  OBVIOUS
<1> USE DEF Types
<1>1. ASSUME NEW e \in Events, Commit(e) PROVE Types'
  <2>1. RowTypes'
    BY <1>1 DEF Commit, Notify, RowTypes, Versions
  <2>2. hist' \in HistRecs
    <3>1. hist.late \cup {e} \in SUBSET Positions
      BY HistFields, ConstantTypes DEF Events, Positions
    <3> QED BY <1>1, <3>1, HistTypes, HistFields DEF Commit
  <2>3. SideTypes'
    BY <1>1, ConstantTypes DEF Commit, Notify, SideTypes, Positions, Outcomes
  <2> QED BY <1>1, <2>1, <2>2, <2>3, Frames DEF Types, Commit, Notify
<1>2. ASSUME NEW c \in Conns, NEW v \in Codes, Register(c, v) PROVE Types'
  <2>1. conn' \in [Conns -> ConnRecs]
    BY <1>2 DEF Register, ConnRecs, Versions, ConnStates
  <2>2. SideTypes'
    BY <1>2, RestTypes, ConstantTypes DEF Register, SideTypes, Positions, Outcomes
  <2> QED BY <1>2, <2>1, <2>2, Frames DEF Types, Register
<1>3. ASSUME NEW c \in Conns, SyncReads(c) PROVE Types'
  <2>1. conn' \in [Conns -> ConnRecs]
    <3>1. [enabled |-> rec.enabled, runs |-> Runs] \in [enabled : BOOLEAN, runs : BOOLEAN]
      BY DEF RowTypes, Runs
    <3> QED BY <1>3, <3>1, ConnSteps DEF SyncReads, ConnStates
  <2> QED BY <1>3, <2>1, Frames DEF Types, SyncReads
<1>4. ASSUME NEW c \in Conns, AnnounceFails(c) PROVE Types'
  <2>1. conn' \in [Conns -> ConnRecs]
    BY <1>4, RestTypes DEF AnnounceFails, Leave, ConnStates
  <2>2. SideTypes'
    BY <1>4, ConstantTypes DEF AnnounceFails, Leave, SideTypes, Positions, Outcomes
  <2> QED BY <1>4, <2>1, <2>2, Frames DEF Types, AnnounceFails, Leave
<1>5. ASSUME NEW c \in Conns, SyncWrites(c) PROVE Types'
  <2>1. RowTypes'
    BY <1>5 DEF SyncWrites, Notify, RowTypes, Versions, ConnRecs
  <2>2. hist' \in HistRecs
    BY <1>5, HistTypes, HistFields DEF SyncWrites, Notify
  <2>3. conn' \in [Conns -> ConnRecs]
    BY <1>5 DEF SyncWrites, Notify, ConnRecs, Versions, ConnStates
  <2>4. SideTypes'
    BY <1>5, ConstantTypes DEF SyncWrites, Notify, SideTypes, Positions, Outcomes
  <2> QED BY <1>5, <2>1, <2>2, <2>3, <2>4, Frames DEF Types, SyncWrites, Notify
<1>6. ASSUME NEW c \in Conns, SyncFails(c) PROVE Types'
  <2>1. hist' \in HistRecs
    BY <1>6, HistTypes, HistFields DEF SyncFails, Failed, Fault, Leave, Close
  <2>2. conn' \in [Conns -> ConnRecs]
    BY <1>6, RestTypes DEF SyncFails, Failed, Fault, Leave, Close, ConnStates
  <2>3. SideTypes'
    BY <1>6, RestTypes, ConstantTypes DEF SyncFails, Failed, Fault, Leave, Close, SideTypes,
       Positions, Outcomes
  <2> QED BY <1>6, <2>1, <2>2, <2>3, Frames DEF Types, SyncFails, Failed, Fault, Leave, Close
<1>7. ASSUME NEW c \in Conns, EnsureCursor(c) PROVE Types'
  <2>1. conn' \in [Conns -> ConnRecs]
    <3>1. PICK s \in {"latest", "hello"} : conn' = [conn EXCEPT ![c].st = s]
      BY <1>7 DEF EnsureCursor
    <3>2. s \in ConnStates
      BY DEF ConnStates
    <3>3. [conn EXCEPT ![c].st = s] \in [Conns -> ConnRecs]
      BY <3>2, ConnSteps
    <3> QED BY <3>1, <3>3
  <2>2. hist' \in HistRecs
    BY <1>7, HistTypes, HistFields DEF EnsureCursor, Failed, Fault
  <2> QED BY <1>7, <2>1, <2>2, Frames DEF Types, EnsureCursor, Failed, Fault
<1>8. ASSUME NEW c \in Conns, SkipReads(c) PROVE Types'
  <2>1. conn' \in [Conns -> ConnRecs]
    BY <1>8, ConnSteps, ComputedTypes DEF SkipReads, ConnStates
  <2> QED BY <1>8, <2>1, Frames DEF Types, SkipReads
<1>9. ASSUME NEW c \in Conns, SkipSets(c) PROVE Types'
  <2>1. RowTypes'
    BY <1>9, AdvanceTypes, ConstantTypes DEF SkipSets, Notify, RowTypes, Versions, ConnRecs
  <2>2. hist' \in HistRecs
    BY <1>9, HistTypes, HistFields, SpanTypes DEF SkipSets, Advance, Notify, ConnRecs
  <2>3. conn' \in [Conns -> ConnRecs]
    <3>1. 0 \in Positions
      BY ConstantTypes DEF Positions
    <3> QED BY <1>9, <3>1, ConnSteps DEF SkipSets, ConnStates
  <2>4. SideTypes'
    BY <1>9, ConstantTypes DEF SkipSets, Advance, Notify, SideTypes, Positions, Outcomes
  <2> QED BY <1>9, <2>1, <2>2, <2>3, <2>4, Frames DEF Types, SkipSets, Advance, Notify
<1>10. ASSUME NEW c \in Conns, Hello(c) PROVE Types'
  <2>1. conn' \in [Conns -> ConnRecs]
    BY <1>10, RestTypes DEF Hello, ConnStates
  <2>2. loop' \in [Conns -> LoopRecs]
    BY <1>10 DEF Hello, LoopRecs, LoopStates, Versions
  <2> QED BY <1>10, <2>1, <2>2, Frames DEF Types, Hello
<1>11. ASSUME NEW c \in Conns, HelloFails(c) PROVE Types'
  <2>1. conn' \in [Conns -> ConnRecs]
    BY <1>11, RestTypes DEF HelloFails, Leave, ConnStates
  <2>2. SideTypes'
    BY <1>11, ConstantTypes DEF HelloFails, Leave, SideTypes, Positions, Outcomes
  <2> QED BY <1>11, <2>1, <2>2, Frames DEF Types, HelloFails, Leave
<1>12. ASSUME NEW c \in Conns, ReadFinished(c) PROVE Types'
  <2>1. conn' \in [Conns -> ConnRecs]
    BY <1>12, ConnSteps DEF ReadFinished, ConnStates, SideTypes
  <2>2. SideTypes'
    BY <1>12, RestTypes, ConstantTypes DEF ReadFinished, Notify, SideTypes, Positions, Outcomes
  <2>3. hist' \in HistRecs
    <3>1. hist.ran \cup {active[c]} \in SUBSET Positions
      BY HistFields DEF SideTypes
    <3> QED BY <1>12, <3>1, HistTypes DEF ReadFinished
  <2> QED BY <1>12, <2>1, <2>2, <2>3, Frames DEF Types, ReadFinished, Notify
<1>13. ASSUME NEW c \in Conns, AdvanceCursor(c) PROVE Types'
  <2>1. RowTypes'
    BY <1>13, AdvanceTypes, ConstantTypes DEF AdvanceCursor, Notify, Failed, Fault, CloseDone,
       RowTypes, Versions, ConnRecs
  <2>2. hist' \in HistRecs
    <3>1. hist.acked[c] \cup {conn[c].at} \in SUBSET Positions
      BY HistFields, ConnSteps
    <3>2. \/ hist' = [hist EXCEPT !.acked[c] = hist.acked[c] \cup {conn[c].at}]
          \/ hist' = [hist EXCEPT !.errs = @ + 1, !.faults = @ + 1]
      BY <1>13 DEF AdvanceCursor, Failed
    <3>3. [hist EXCEPT !.acked[c] = hist.acked[c] \cup {conn[c].at}] \in HistRecs
      BY <3>1, HistTypes
    <3>4. [hist EXCEPT !.errs = @ + 1, !.faults = @ + 1] \in HistRecs
      BY HistTypes
    <3> QED BY <3>2, <3>3, <3>4
  <2>3. SideTypes'
    BY <1>13, ConstantTypes DEF AdvanceCursor, Advance, Notify, Failed, Fault, CloseDone,
       SideTypes, Positions, Outcomes
  <2>4. conn' \in [Conns -> ConnRecs]
    <3>1. 0 \in Positions
      BY ConstantTypes DEF Positions
    <3> QED BY <1>13, <3>1, ConnSteps DEF AdvanceCursor, ConnStates
  <2>5. loop' \in [Conns -> LoopRecs]
    BY <1>13, LoopSteps DEF AdvanceCursor, CloseDone
  <2> QED BY <1>13, <2>1, <2>2, <2>3, <2>4, <2>5, Frames DEF Types, AdvanceCursor, Advance,
     Notify, Failed, Fault, CloseDone
<1>14. ASSUME NEW c \in Conns, ReadCrashed(c) PROVE Types'
  <2>1. hist' \in HistRecs
    <3>1. hist.threw \cup {active[c]} \in SUBSET Positions
      BY HistFields DEF SideTypes
    <3> QED BY <1>14, <3>1, HistTypes DEF ReadCrashed
  <2>2. SideTypes'
    BY <1>14, RestTypes, ConstantTypes DEF ReadCrashed, CloseDone, Notify, SideTypes, Positions,
       Outcomes
  <2>3. loop' \in [Conns -> LoopRecs]
    BY <1>14 DEF ReadCrashed, CloseDone, Notify, LoopRecs, LoopStates, Versions
  <2> QED BY <1>14, <2>1, <2>2, <2>3, Frames DEF Types, ReadCrashed, CloseDone, Notify
<1>15. ASSUME NEW c \in Conns, ReadEnds(c) PROVE Types'
  <2>1. conn' \in [Conns -> ConnRecs]
    BY <1>15 DEF ReadEnds, CloseDone, Notify, ConnRecs, Versions, ConnStates
  <2>2. SideTypes'
    <3>1. 0 \in Positions
      BY ConstantTypes DEF Positions
    <3>2. woken' \in [Conns -> BOOLEAN] /\ active' \in [Conns -> Positions]
      BY <1>15, <3>1 DEF ReadEnds, Notify, SideTypes
    <3> QED BY <1>15, <3>2 DEF ReadEnds, SideTypes
  <2>3. loop' \in [Conns -> LoopRecs]
    <3>1. \/ UNCHANGED loop
          \/ loop' = [loop EXCEPT ![c].done = TRUE]
      BY <1>15 DEF ReadEnds, CloseDone
    <3>2. [loop EXCEPT ![c].done = TRUE] \in [Conns -> LoopRecs]
      BY LoopSteps
    <3> QED BY <3>1, <3>2
  <2>4. hist' \in HistRecs
    <3>1. hist.cut \cup {active[c]} \in SUBSET Positions
      BY HistFields DEF SideTypes
    <3> QED BY <1>15, <3>1, HistTypes DEF ReadEnds
  <2> QED BY <1>15, <2>1, <2>2, <2>3, <2>4, Frames DEF Types, ReadEnds, CloseDone, Notify
<1>16. ASSUME NEW c \in Conns, HandlerReturns(c) PROVE Types'
  <2>1. conn' \in [Conns -> ConnRecs]
    BY <1>16, RestTypes DEF HandlerReturns, Leave, ConnStates
  <2>2. SideTypes'
    BY <1>16, ConstantTypes DEF HandlerReturns, Leave, SideTypes, Positions, Outcomes
  <2> QED BY <1>16, <2>1, <2>2, Frames DEF Types, HandlerReturns, Leave
<1>17. ASSUME NEW c \in Conns, Poll(c) PROVE Types'
  <2>1. SideTypes'
    BY <1>17, ConstantTypes DEF Poll, CtxDone, Runs, Failed, Fault, Goes, SideTypes, Positions,
       Outcomes
  <2>2. loop' \in [Conns -> LoopRecs]
    <3>1. CursorRead \in Positions /\ rec.code \in Versions
      BY ComputedTypes DEF RowTypes
    <3>2. \/ loop' = [loop EXCEPT ![c] = [@ EXCEPT !.st = "read", !.code = rec.code,
                                                     !.cur = CursorRead]]
          \/ loop' = [loop EXCEPT ![c].st = "wait"]
      BY <1>17 DEF Poll, Goes
    <3>3. [loop EXCEPT ![c] = [@ EXCEPT !.st = "read", !.code = rec.code, !.cur = CursorRead]]
             \in [Conns -> LoopRecs]
      BY <3>1, LoopSteps
    <3>4. [loop EXCEPT ![c].st = "wait"] \in [Conns -> LoopRecs]
      BY LoopSteps DEF LoopStates
    <3> QED BY <3>2, <3>3, <3>4
  <2>3. hist' \in HistRecs
    BY <1>17, HistTypes, HistFields DEF Poll, CtxDone, Runs, Failed, Fault, Goes
  <2> QED BY <1>17, <2>1, <2>2, <2>3, Frames DEF Types, Poll, Failed, Fault, Goes
<1>18. ASSUME NEW c \in Conns, ReadBatch(c) PROVE Types'
  <2>1. loop' \in [Conns -> LoopRecs]
    <3>1. 0 \in Positions /\ NoCode \in Versions
      BY ConstantTypes DEF Positions, Versions
    <3>2. After(loop[c].code, loop[c].cur) \in SUBSET Events
      BY ComputedTypes, LoopSteps
    <3> QED BY <1>18, <3>1, <3>2, LoopSteps DEF ReadBatch
  <2> QED BY <1>18, <2>1, Frames DEF Types, ReadBatch
<1>19. ASSUME NEW c \in Conns, BatchEnds(c) PROVE Types'
  <2>1. loop' \in [Conns -> LoopRecs]
    BY <1>19, RestTypes DEF BatchEnds, CtxDone, Runs
  <2> QED BY <1>19, <2>1, Frames DEF Types, BatchEnds
<1>20. ASSUME NEW c \in Conns, PassForeign(c) PROVE Types'
  <2>1. RowTypes'
    BY <1>20, AdvanceTypes, ConstantTypes DEF PassForeign, CtxDone, Failed, Fault, Notify,
       RowTypes, Versions, LoopRecs, Events, Positions
  <2>2. loop' \in [Conns -> LoopRecs]
    BY <1>20, RestTypes DEF PassForeign, CtxDone, Advance, Failed, Fault, Notify, LoopRecs,
       LoopStates, Versions
  <2>3. hist' \in HistRecs
    <3>1. hist.strayed \cup hist.cut \in SUBSET Positions
      BY HistFields
    <3>2. \/ hist' = [hist EXCEPT !.strayed = IF ws[c] THEN @ ELSE @ \cup hist.cut]
          \/ hist' = [hist EXCEPT !.errs = @ + 1, !.faults = @ + 1]
      BY <1>20 DEF PassForeign, Failed
    <3> QED BY <3>1, <3>2, HistTypes, HistFields
  <2>4. SideTypes'
    BY <1>20, ConstantTypes DEF PassForeign, CtxDone, Advance, Failed, Fault, Notify, SideTypes,
       Positions, Outcomes
  <2> QED BY <1>20, <2>1, <2>2, <2>3, <2>4, Frames DEF Types, PassForeign, Advance, Failed, Fault,
     Notify
<1>21. ASSUME NEW c \in Conns, BeginRun(c) PROVE Types'
  <2>1. SideTypes'
    BY <1>21, ConstantTypes DEF BeginRun, CtxDone, SideTypes, Positions, Outcomes, LoopRecs,
       Events
  <2>2. loop' \in [Conns -> LoopRecs]
    BY <1>21 DEF BeginRun, CtxDone, Events, Positions, LoopRecs, LoopStates, Versions
  <2> QED BY <1>21, <2>1, <2>2, Frames DEF Types, BeginRun
<1>22. ASSUME NEW c \in Conns, Send(c) PROVE Types'
  <2>1. SideTypes'
    BY <1>22, ConstantTypes DEF Send, Goes, SideTypes, Positions, Outcomes, LoopRecs, Events
  <2>2. hist' \in HistRecs
    BY <1>22, HistTypes, HistFields DEF Send, Goes
  <2>3. loop' \in [Conns -> LoopRecs]
    BY <1>22 DEF Send, Goes, LoopRecs, LoopStates, Versions
  <2> QED BY <1>22, <2>1, <2>2, <2>3, Frames DEF Types, Send, Goes
<1>23. ASSUME NEW c \in Conns, SendFails(c) PROVE Types'
  <2>1. SideTypes'
    BY <1>23, ConstantTypes DEF SendFails, Stops, SideTypes, Positions, Outcomes
  <2>2. loop' \in [Conns -> LoopRecs]
    BY <1>23, RestTypes DEF SendFails, Stops
  <2> QED BY <1>23, <2>1, <2>2, Frames DEF Types, SendFails, Stops
<1>24. ASSUME NEW c \in Conns, RunResolved(c) PROVE Types'
  <2>1. loop' \in [Conns -> LoopRecs]
    BY <1>24, ConstantTypes DEF RunResolved, Positions, LoopRecs, LoopStates, Versions
  <2> QED BY <1>24, <2>1, Frames DEF Types, RunResolved
<1>25. ASSUME NEW c \in Conns, WakesUp(c) PROVE Types'
  <2>1. loop' \in [Conns -> LoopRecs]
    BY <1>25 DEF WakesUp, Goes, CtxDone, LoopRecs, LoopStates, Versions
  <2> QED BY <1>25, <2>1, Frames DEF Types, WakesUp, Goes
<1>26. ASSUME NEW c \in Conns, LoopStops(c) PROVE Types'
  <2>1. loop' \in [Conns -> LoopRecs]
    BY <1>26, RestTypes DEF LoopStops, Stops, CtxDone
  <2>2. SideTypes'
    BY <1>26, ConstantTypes DEF LoopStops, Stops, CtxDone, SideTypes, Positions, Outcomes
  <2> QED BY <1>26, <2>1, <2>2, Frames DEF Types, LoopStops, Stops
<1>27. ASSUME NEW c \in Conns, WorkerFinishes(c) PROVE Types'
  <2>1. SideTypes'
    BY <1>27, ConstantTypes DEF WorkerFinishes, SideTypes, Positions, Outcomes
  <2> QED BY <1>27, <2>1, Frames DEF Types, WorkerFinishes
<1>28. ASSUME NEW c \in Conns, WorkerThrows(c) PROVE Types'
  <2>1. SideTypes'
    BY <1>28, ConstantTypes DEF WorkerThrows, SideTypes, Positions, Outcomes
  <2>2. hist' \in HistRecs
    BY <1>28, HistTypes, HistFields DEF WorkerThrows
  <2> QED BY <1>28, <2>1, <2>2, Frames DEF Types, WorkerThrows
<1>29. ASSUME NEW c \in Conns, Drop(c) PROVE Types'
  <2>1. SideTypes'
    BY <1>29, RestTypes, ConstantTypes DEF Drop, Close, Fault, SideTypes, Positions, Outcomes
  <2>2. hist' \in HistRecs
    BY <1>29, HistTypes, HistFields DEF Drop, Close, Fault
  <2> QED BY <1>29, <2>1, <2>2, Frames DEF Types, Drop, Close, Fault
<1>30. ASSUME SwitchBegins PROVE Types'
  <2>1. CallTypes'
    BY <1>30 DEF SwitchBegins, CallTypes, RowTypes
  <2>2. hist' \in HistRecs
    BY <1>30, HistTypes, HistFields DEF SwitchBegins, CallTypes
  <2> QED BY <1>30, <2>1, <2>2, Frames DEF Types, SwitchBegins
<1>31. ASSUME SwitchReadsLatest PROVE Types'
  <2>1. CallTypes'
    BY <1>31, ComputedTypes DEF SwitchReadsLatest, CallTypes, RowTypes
  <2> QED BY <1>31, <2>1, Frames DEF Types, SwitchReadsLatest
<1>32. ASSUME SwitchSkips PROVE Types'
  <2>1. RowTypes'
    BY <1>32, AdvanceTypes, ConstantTypes DEF SwitchSkips, Notify, RowTypes, Versions, CallTypes
  <2>2. hist' \in HistRecs
    BY <1>32, HistTypes, HistFields, SpanTypes DEF SwitchSkips, Advance, Notify, CallTypes
  <2>3. CallTypes'
    BY <1>32 DEF SwitchSkips, Advance, Notify, CallTypes, RowTypes
  <2>4. SideTypes'
    BY <1>32, ConstantTypes DEF SwitchSkips, Advance, Notify, SideTypes, Positions, Outcomes
  <2> QED BY <1>32, <2>1, <2>2, <2>3, <2>4, Frames DEF Types, SwitchSkips, Advance, Notify
<1>33. ASSUME SwitchUpdates PROVE Types'
  <2>1. RowTypes'
    BY <1>33 DEF SwitchUpdates, Notify, RowTypes, Versions, CallTypes
  <2>2. hist' \in HistRecs
    BY <1>33, HistTypes, HistFields DEF SwitchUpdates, Notify, CallTypes
  <2>3. CallTypes'
    BY <1>33 DEF SwitchUpdates, Notify, CallTypes, RowTypes
  <2>4. SideTypes'
    BY <1>33, ConstantTypes DEF SwitchUpdates, Notify, SideTypes, Positions, Outcomes
  <2> QED BY <1>33, <2>1, <2>2, <2>3, <2>4, Frames DEF Types, SwitchUpdates, Notify
<1>34. ASSUME SwitchFails PROVE Types'
  <2>1. CallTypes'
    BY <1>34, RestTypes DEF SwitchFails, CallTypes, RowTypes
  <2> QED BY <1>34, <2>1, Frames DEF Types, SwitchFails
<1>35. ASSUME SwitchDisconnects PROVE Types'
  <2>1. SideTypes'
    BY <1>35, RestTypes, ConstantTypes DEF SwitchDisconnects, Disconnect, Close, SideTypes,
       Positions, Outcomes
  <2>2. CallTypes'
    BY <1>35, RestTypes DEF SwitchDisconnects, Disconnect, Close, CallTypes, RowTypes
  <2> QED BY <1>35, <2>1, <2>2, Frames DEF Types, SwitchDisconnects, Disconnect, Close
<1>36. ASSUME ArchiveOrRestore PROVE Types'
  <2>1. RowTypes'
    BY <1>36 DEF ArchiveOrRestore, Notify, RowTypes, Versions
  <2>2. CallTypes'
    <3>1. archived' \in BOOLEAN /\ wsq \in Seq(BOOLEAN)
      BY <1>36 DEF ArchiveOrRestore, CallTypes, RowTypes
    <3>2. /\ Append(wsq, archived') \in Seq(BOOLEAN)
          /\ wsq # <<>> => Append(wsq, archived') # <<>> /\ Head(Append(wsq, archived')) = Head(wsq)
      BY <3>1, AppendProperties, HeadTailAppend
    <3> QED BY <1>36, <3>2 DEF ArchiveOrRestore, CallTypes
  <2>3. hist' \in HistRecs
    BY <1>36, HistTypes, HistFields DEF ArchiveOrRestore, Notify
  <2>4. SideTypes'
    BY <1>36, ConstantTypes DEF ArchiveOrRestore, Notify, SideTypes, Positions, Outcomes
  <2> QED BY <1>36, <2>1, <2>2, <2>3, <2>4, Frames DEF Types, ArchiveOrRestore, Notify
<1>37. ASSUME HandleWorkspaceArchived PROVE Types'
  <2>1. SideTypes'
    BY <1>37, RestTypes, ConstantTypes DEF HandleWorkspaceArchived, Disconnect, Close, SideTypes,
       Positions, Outcomes
  <2>2. CallTypes'
    <3>1. Tail(wsq) \in Seq(BOOLEAN) /\ restore.st = "idle"
      BY <1>37, HeadTailProperties DEF HandleWorkspaceArchived, CallTypes
    <3> QED BY <1>37, <3>1 DEF HandleWorkspaceArchived, CallTypes
  <2> QED BY <1>37, <2>1, <2>2, Frames DEF Types, HandleWorkspaceArchived, Disconnect, Close
<1>38. ASSUME RestoreReadsLatest PROVE Types'
  <2>1. CallTypes'
    BY <1>38, ComputedTypes DEF RestoreReadsLatest, CallTypes, RowTypes
  <2> QED BY <1>38, <2>1, Frames DEF Types, RestoreReadsLatest
<1>39. ASSUME RestoreSkips PROVE Types'
  <2>1. RowTypes'
    BY <1>39, AdvanceTypes, ConstantTypes DEF RestoreSkips, Notify, RowTypes, Versions, CallTypes
  <2>2. hist' \in HistRecs
    BY <1>39, HistTypes, HistFields, SpanTypes DEF RestoreSkips, Advance, Notify, CallTypes
  <2>3. CallTypes'
    BY <1>39 DEF RestoreSkips, Advance, Notify, CallTypes, RowTypes
  <2>4. SideTypes'
    BY <1>39, ConstantTypes DEF RestoreSkips, Advance, Notify, SideTypes, Positions, Outcomes
  <2> QED BY <1>39, <2>1, <2>2, <2>3, <2>4, Frames DEF Types, RestoreSkips, Advance, Notify
<1>40. ASSUME RestoreDisconnects PROVE Types'
  <2>1. SideTypes'
    BY <1>40, RestTypes, ConstantTypes DEF RestoreDisconnects, Disconnect, Close, SideTypes,
       Positions, Outcomes
  <2>2. CallTypes'
    <3>1. Tail(wsq) \in Seq(BOOLEAN)
      BY <1>40, HeadTailProperties DEF RestoreDisconnects, CallTypes
    <3>2. 0 \in Positions
      BY ConstantTypes DEF Positions
    <3> QED BY <1>40, <3>1, <3>2 DEF RestoreDisconnects, CallTypes
  <2> QED BY <1>40, <2>1, <2>2, Frames DEF Types, RestoreDisconnects, Disconnect, Close
<1>41. ASSUME Restart PROVE Types'
  <2>1. hist' \in HistRecs
    BY <1>41, HistTypes, HistFields DEF Restart, Fault
  <2>2. conn' \in [Conns -> ConnRecs]
    BY <1>41, RestTypes DEF Restart, Fault, ConnStates
  <2>3. SideTypes'
    BY <1>41, RestTypes, ConstantTypes DEF Restart, Fault, SideTypes, Positions, Outcomes
  <2>4. loop' \in [Conns -> LoopRecs]
    BY <1>41, RestTypes DEF Restart, Fault
  <2>5. CallTypes'
    <3>1. 0 \in Positions
      BY ConstantTypes DEF Positions
    <3>2. wsq' \in Seq(BOOLEAN)
      <4>1. wsq \in Seq(BOOLEAN) /\ <<>> \in Seq(BOOLEAN)
        BY EmptySeq DEF CallTypes
      <4>2. wsq' \in {wsq, <<>>}
        BY <1>41 DEF Restart
      <4> QED BY <4>1, <4>2
    <3>3. restore' = [st |-> "idle", at |-> 0] /\ admin' = NoSwitch
      BY <1>41 DEF Restart
    <3> QED BY <3>1, <3>2, <3>3, RestTypes DEF CallTypes
  <2> QED BY <1>41, <2>1, <2>2, <2>3, <2>4, <2>5, Frames DEF Types, Restart, Fault
<1>42. CASE UNCHANGED vars
  BY <1>42, Frames DEF Types, vars
<1> QED BY <1>1, <1>2, <1>3, <1>4, <1>5, <1>6, <1>7, <1>8, <1>9, <1>10, <1>11, <1>12, <1>13,
   <1>14, <1>15, <1>16, <1>17, <1>18, <1>19, <1>20, <1>21, <1>22, <1>23, <1>24, <1>25, <1>26,
   <1>27, <1>28, <1>29, <1>30, <1>31, <1>32, <1>33, <1>34, <1>35, <1>36, <1>37, <1>38, <1>39,
   <1>40, <1>41, <1>42 DEF Next, HandleConn, DeliverLoop, Worker, SetEnabled, Workspace

(* Every step keeps the registered connection's socket the only open one. *)
LEMMA SocketsNext == Types /\ Sockets /\ [Next]_vars => Sockets'
<1> SUFFICES ASSUME Types, Sockets, [Next]_vars PROVE Sockets'
  OBVIOUS
<1>t. /\ conn \in [Conns -> ConnRecs] /\ loop \in [Conns -> LoopRecs]
    /\ ws \in [Conns -> BOOLEAN] /\ reg \in Conns \cup {NoConn}
  BY DEF Types, SideTypes
<1>1. ASSUME NEW c \in Conns, NEW v \in Codes, Register(c, v) PROVE Sockets'
  BY <1>1, <1>t, ConstantTypes DEF Register, NoConnState, Sockets, ConnRecs, LoopRecs, Over,
     InLoop
<1>2. ASSUME NEW c \in Conns, SyncReads(c) PROVE Sockets'
  BY <1>2, <1>t, ConstantTypes DEF SyncReads, Runs, Sockets, ConnRecs, LoopRecs, Over, InLoop
<1>3. ASSUME NEW c \in Conns, AnnounceFails(c) PROVE Sockets'
  BY <1>3, <1>t, ConstantTypes DEF AnnounceFails, Leave, NoConnState, Sockets, ConnRecs, LoopRecs,
     Over, InLoop
<1>4. ASSUME NEW c \in Conns, SyncWrites(c) PROVE Sockets'
  BY <1>4, <1>t, ConstantTypes DEF SyncWrites, Notify, Sockets, ConnRecs, LoopRecs, Over, InLoop
<1>5. ASSUME NEW c \in Conns, SyncFails(c) PROVE Sockets'
  <2>1. \A d \in Conns : conn'[d].st = IF d = c THEN "gone" ELSE conn[d].st
    BY <1>5, <1>t DEF SyncFails, Leave, NoConnState, ConnRecs
  <2>2. /\ reg' = IF reg = c THEN NoConn ELSE reg
        /\ ws' = [d \in Conns |-> ws[d] /\ d \notin {c}]
        /\ UNCHANGED loop /\ conn[c].st = "sync"
    BY <1>5 DEF SyncFails, Leave, Close
  <2> QED BY <1>t, <2>1, <2>2, ConstantTypes DEF Sockets, Over, InLoop
<1>6. ASSUME NEW c \in Conns, EnsureCursor(c) PROVE Sockets'
  <2>1. PICK s \in {"latest", "hello"} : conn' = [conn EXCEPT ![c].st = s]
    BY <1>6 DEF EnsureCursor
  <2>2. \A d \in Conns : conn'[d].st = IF d = c THEN s ELSE conn[d].st
    BY <1>6, <1>t, <2>1 DEF EnsureCursor, ConnRecs
  <2> QED BY <1>6, <1>t, <2>2 DEF EnsureCursor, Sockets, Over, InLoop
<1>7. ASSUME NEW c \in Conns, SkipReads(c) PROVE Sockets'
  <2>2. \A d \in Conns : conn'[d].st = IF d = c THEN "skip" ELSE conn[d].st
    BY <1>7, <1>t DEF SkipReads, ConnRecs
  <2> QED BY <1>7, <1>t, <2>2 DEF SkipReads, Sockets, Over, InLoop
<1>8. ASSUME NEW c \in Conns, SkipSets(c) PROVE Sockets'
  <2>2. \A d \in Conns : conn'[d].st = IF d = c THEN "hello" ELSE conn[d].st
    BY <1>8, <1>t DEF SkipSets, ConnRecs
  <2> QED BY <1>8, <1>t, <2>2 DEF SkipSets, Sockets, Over, InLoop
<1>9. ASSUME NEW c \in Conns, Hello(c) PROVE Sockets'
  BY <1>9, <1>t, ConstantTypes DEF Hello, NoConnState, Sockets, ConnRecs, LoopRecs, Over, InLoop
<1>10. ASSUME NEW c \in Conns, HelloFails(c) PROVE Sockets'
  BY <1>10, <1>t, ConstantTypes DEF HelloFails, Leave, NoConnState, Sockets, ConnRecs, LoopRecs,
     Over, InLoop
<1>11. ASSUME NEW c \in Conns, ReadFinished(c) PROVE Sockets'
  BY <1>11, <1>t, ConstantTypes DEF ReadFinished, Notify, Idle, Sockets, ConnRecs, LoopRecs, Over,
     InLoop
<1>12. ASSUME NEW c \in Conns, AdvanceCursor(c) PROVE Sockets'
  <2>1. \A d \in Conns : conn'[d].st = IF d = c THEN "reading" ELSE conn[d].st
    BY <1>12, <1>t DEF AdvanceCursor, ConnRecs
  <2>2. \A d \in Conns : loop'[d].st = loop[d].st
    BY <1>12, <1>t DEF AdvanceCursor, CloseDone, LoopRecs
  <2> QED BY <1>12, <1>t, <2>1, <2>2 DEF AdvanceCursor, Sockets, Over, InLoop
<1>13. ASSUME NEW c \in Conns, ReadCrashed(c) PROVE Sockets'
  BY <1>13, <1>t, ConstantTypes DEF ReadCrashed, CloseDone, Notify, Idle, Sockets, ConnRecs,
     LoopRecs, Over, InLoop
<1>14. ASSUME NEW c \in Conns, ReadEnds(c) PROVE Sockets'
  BY <1>14, <1>t, ConstantTypes DEF ReadEnds, CloseDone, Notify, Sockets, ConnRecs, LoopRecs,
     Over, InLoop
<1>15. ASSUME NEW c \in Conns, HandlerReturns(c) PROVE Sockets'
  BY <1>15, <1>t, ConstantTypes DEF HandlerReturns, Leave, NoConnState, Sockets, ConnRecs,
     LoopRecs, Over, InLoop
<1>16. ASSUME NEW c \in Conns, Poll(c) PROVE Sockets'
  BY <1>16, <1>t, ConstantTypes DEF Poll, CtxDone, Runs, Failed, Fault, Goes, Sockets, ConnRecs,
     LoopRecs, Over, InLoop
<1>17. ASSUME NEW c \in Conns, ReadBatch(c) PROVE Sockets'
  BY <1>17, <1>t, ConstantTypes DEF ReadBatch, CtxDone, NoCode, Sockets, ConnRecs, LoopRecs, Over,
     InLoop
<1>18. ASSUME NEW c \in Conns, BatchEnds(c) PROVE Sockets'
  BY <1>18, <1>t, ConstantTypes DEF BatchEnds, CtxDone, NoLoop, NoCode, Runs, Sockets, ConnRecs,
     LoopRecs, Over, InLoop
<1>19. ASSUME NEW c \in Conns, PassForeign(c) PROVE Sockets'
  BY <1>19, <1>t, ConstantTypes DEF PassForeign, CtxDone, Advance, Failed, Fault, Notify, NoLoop,
     NoCode, Sockets, ConnRecs, LoopRecs, Over, InLoop
<1>20. ASSUME NEW c \in Conns, BeginRun(c) PROVE Sockets'
  BY <1>20, <1>t, ConstantTypes DEF BeginRun, CtxDone, Sockets, ConnRecs, LoopRecs, Over, InLoop
<1>21. ASSUME NEW c \in Conns, Send(c) PROVE Sockets'
  BY <1>21, <1>t, ConstantTypes DEF Send, Goes, Sockets, ConnRecs, LoopRecs, Over, InLoop
<1>22. ASSUME NEW c \in Conns, SendFails(c) PROVE Sockets'
  BY <1>22, <1>t, ConstantTypes DEF SendFails, Stops, NoLoop, NoCode, Sockets, ConnRecs, LoopRecs,
     Over, InLoop
<1>23. ASSUME NEW c \in Conns, RunResolved(c) PROVE Sockets'
  BY <1>23, <1>t, ConstantTypes DEF RunResolved, Sockets, ConnRecs, LoopRecs, Over, InLoop
<1>24. ASSUME NEW c \in Conns, WakesUp(c) PROVE Sockets'
  BY <1>24, <1>t, ConstantTypes DEF WakesUp, Goes, CtxDone, Sockets, ConnRecs, LoopRecs, Over,
     InLoop
<1>25. ASSUME NEW c \in Conns, LoopStops(c) PROVE Sockets'
  BY <1>25, <1>t, ConstantTypes DEF LoopStops, Stops, NoLoop, NoCode, CtxDone, Sockets, ConnRecs,
     LoopRecs, Over, InLoop
<1>26. ASSUME NEW c \in Conns, Drop(c) PROVE Sockets'
  BY <1>26, <1>t, ConstantTypes DEF Drop, Close, Fault, Idle, Sockets, ConnRecs, LoopRecs, Over,
     InLoop
<1>27. ASSUME SwitchDisconnects PROVE Sockets'
  BY <1>27, <1>t, ConstantTypes DEF SwitchDisconnects, Disconnect, Close, NoSwitch, NoCode, Idle,
     Sockets, ConnRecs, LoopRecs, Over, InLoop
<1>28. ASSUME HandleWorkspaceArchived PROVE Sockets'
  BY <1>28, <1>t, ConstantTypes DEF HandleWorkspaceArchived, Disconnect, Close, Idle, Sockets,
     ConnRecs, LoopRecs, Over, InLoop
<1>29. ASSUME RestoreDisconnects PROVE Sockets'
  BY <1>29, <1>t, ConstantTypes DEF RestoreDisconnects, Disconnect, Close, Idle, Sockets,
     ConnRecs, LoopRecs, Over, InLoop
<1>30. ASSUME Restart PROVE Sockets'
  BY <1>30, <1>t, ConstantTypes DEF Restart, Fault, NoConnState, NoCode, Idle, NoLoop, NoConn,
     NoSwitch, Sockets, ConnRecs, LoopRecs, Over, InLoop
<1>31. CASE UNCHANGED <<reg, conn, ws, loop>>
  BY <1>31 DEF Sockets, ConnRecs, LoopRecs, Over, InLoop
<1> QED BY <1>1, <1>2, <1>3, <1>4, <1>5, <1>6, <1>7, <1>8, <1>9, <1>10, <1>11, <1>12, <1>13,
   <1>14, <1>15, <1>16, <1>17, <1>18, <1>19, <1>20, <1>21, <1>22, <1>23, <1>24, <1>25, <1>26,
   <1>27, <1>28, <1>29, <1>30, <1>31 DEF Next, HandleConn, DeliverLoop, Worker, SetEnabled,
   Workspace, vars, Commit, WorkerFinishes, WorkerThrows, SwitchBegins, SwitchReadsLatest,
   SwitchSkips, SwitchUpdates, SwitchFails, ArchiveOrRestore, RestoreReadsLatest, RestoreSkips,
   Advance, Notify

(* Every step keeps the positions held those of committed rows. *)
LEMMA HeldNext == Types /\ Sockets /\ Held /\ [Next]_vars => Held'
<1> SUFFICES ASSUME Types, Sockets, Held, [Next]_vars PROVE Held'
  OBVIOUS
<1>t. /\ conn \in [Conns -> ConnRecs] /\ loop \in [Conns -> LoopRecs]
    /\ log \subseteq Events /\ Events \subseteq Int /\ 0 \notin Events
  BY DEF Types, RowTypes, Events
<1>l. Latest \in log \cup {0}
  BY <1>t, LatestIsCommitted
<1>1. ASSUME NEW e \in Events, Commit(e) PROVE Held'
  BY <1>1, <1>t, <1>l DEF Commit, Notify, Held, InRun, ConnRecs, LoopRecs
<1>2. ASSUME NEW c \in Conns, NEW v \in Codes, Register(c, v) PROVE Held'
  BY <1>2, <1>t, <1>l DEF Register, NoConnState, Held, InRun, ConnRecs, LoopRecs
<1>3. ASSUME NEW c \in Conns, SyncReads(c) PROVE Held'
  BY <1>3, <1>t, <1>l DEF SyncReads, Runs, Held, InRun, ConnRecs, LoopRecs
<1>4. ASSUME NEW c \in Conns, AnnounceFails(c) PROVE Held'
  BY <1>4, <1>t, <1>l DEF AnnounceFails, Leave, NoConnState, Held, InRun, ConnRecs, LoopRecs
<1>5. ASSUME NEW c \in Conns, SyncWrites(c) PROVE Held'
  BY <1>5, <1>t, <1>l DEF SyncWrites, Notify, Held, InRun, ConnRecs, LoopRecs
<1>6. ASSUME NEW c \in Conns, SyncFails(c) PROVE Held'
  BY <1>6, <1>t, <1>l DEF SyncFails, Failed, Fault, Leave, Close, NoConnState, Idle, Held, InRun,
     ConnRecs, LoopRecs
<1>7. ASSUME NEW c \in Conns, EnsureCursor(c) PROVE Held'
  <2>1. PICK s \in {"latest", "hello"} : conn' = [conn EXCEPT ![c].st = s]
    BY <1>7 DEF EnsureCursor
  <2>2. \A d \in Conns : conn'[d].at = conn[d].at
    BY <1>t, <2>1 DEF ConnRecs
  <2> QED BY <1>7, <2>2 DEF EnsureCursor, Held
<1>8. ASSUME NEW c \in Conns, SkipReads(c) PROVE Held'
  BY <1>8, <1>t, <1>l DEF SkipReads, Held, InRun, ConnRecs, LoopRecs
<1>9. ASSUME NEW c \in Conns, SkipSets(c) PROVE Held'
  BY <1>9, <1>t, <1>l DEF SkipSets, Advance, Notify, Held, InRun, ConnRecs, LoopRecs
<1>10. ASSUME NEW c \in Conns, Hello(c) PROVE Held'
  <2>1. loop[c].st = "off"
    BY <1>10 DEF Hello, Sockets, InLoop
  <2>2. conn' = [conn EXCEPT ![c] = [NoConnState EXCEPT !.st = "reading"]]
    BY <1>10 DEF Hello
  <2>3. \A d \in Conns : conn'[d].at \in {conn[d].at, 0}
    BY <1>t, <2>2 DEF NoConnState
  <2>4. PICK s \in {"top", "off"} : loop' = [loop EXCEPT ![c].st = s]
    BY <1>10 DEF Hello
  <2>5. \A d \in Conns : /\ loop'[d].st = IF d = c THEN s ELSE loop[d].st
                         /\ loop'[d].cur = loop[d].cur /\ loop'[d].batch = loop[d].batch
                         /\ loop'[d].code = loop[d].code
    BY <1>t, <2>4 DEF LoopRecs
  <2> QED BY <1>10, <2>1, <2>3, <2>5 DEF Hello, Held, InRun
<1>11. ASSUME NEW c \in Conns, HelloFails(c) PROVE Held'
  BY <1>11, <1>t, <1>l DEF HelloFails, Leave, NoConnState, Held, InRun, ConnRecs, LoopRecs
<1>12. ASSUME NEW c \in Conns, ReadFinished(c) PROVE Held'
  BY <1>12, <1>t, <1>l DEF ReadFinished, Notify, Idle, Held, InRun, ConnRecs, LoopRecs
<1>13. ASSUME NEW c \in Conns, AdvanceCursor(c) PROVE Held'
  BY <1>13, <1>t, <1>l DEF AdvanceCursor, Advance, Notify, Failed, Fault, CloseDone, Held, InRun,
     ConnRecs, LoopRecs
<1>14. ASSUME NEW c \in Conns, ReadCrashed(c) PROVE Held'
  BY <1>14, <1>t, <1>l DEF ReadCrashed, CloseDone, Notify, Idle, Held, InRun, ConnRecs, LoopRecs
<1>15. ASSUME NEW c \in Conns, ReadEnds(c) PROVE Held'
  <2>1. \A d \in Conns : conn'[d].at = conn[d].at
    BY <1>15, <1>t DEF ReadEnds, ConnRecs
  <2>2. loop' = loop \/ loop' = [loop EXCEPT ![c].done = TRUE]
    BY <1>15 DEF ReadEnds, CloseDone
  <2>3. \A d \in Conns : /\ loop'[d].st = loop[d].st /\ loop'[d].cur = loop[d].cur
                         /\ loop'[d].batch = loop[d].batch /\ loop'[d].code = loop[d].code
    BY <1>t, <2>2 DEF LoopRecs
  <2> QED BY <1>15, <2>1, <2>3 DEF ReadEnds, Held
<1>16. ASSUME NEW c \in Conns, HandlerReturns(c) PROVE Held'
  BY <1>16, <1>t, <1>l DEF HandlerReturns, Leave, NoConnState, Held, InRun, ConnRecs, LoopRecs
<1>17. ASSUME NEW c \in Conns, Poll(c) PROVE Held'
  <2>1. CursorRead \in log \cup {0}
    BY DEF Held, CursorRead
  <2>2. rec.code = NoCode \/ rec.code \in Codes
    BY DEF Types, RowTypes, Versions
  <2>3. \A d \in Conns : d # c => loop'[d] = loop[d]
    BY <1>17, <1>t DEF Poll, Goes
  <2>4. /\ loop'[c].batch = loop[c].batch /\ loop[c].st = "top"
        /\ \/ /\ loop'[c].st = "read" /\ loop'[c].code = rec.code /\ loop'[c].cur = CursorRead
              /\ Subscriptions(rec.code) # {}
           \/ loop'[c].st = "wait" /\ loop'[c].cur = loop[c].cur
    <3>1. CASE /\ loop' = [loop EXCEPT ![c] = [@ EXCEPT !.st = "read", !.code = rec.code,
                                                       !.cur = CursorRead]]
               /\ Subscriptions(rec.code) # {}
      BY <1>17, <1>t, <3>1 DEF Poll, LoopRecs
    <3>2. CASE loop' = [loop EXCEPT ![c].st = "wait"]
      BY <1>17, <1>t, <3>2 DEF Poll, LoopRecs
    <3> QED BY <1>17, <3>1, <3>2 DEF Poll, Goes
  <2>5. rec.code # NoCode \/ Subscriptions(rec.code) = {}
    BY DEF Subscriptions
  <2>6. UNCHANGED <<log, cursor, admin, restore, conn>>
    BY <1>17 DEF Poll
  <2> QED BY <2>1, <2>2, <2>3, <2>4, <2>5, <2>6 DEF Held, InRun
<1>18. ASSUME NEW c \in Conns, ReadBatch(c) PROVE Held'
  <2>0. Positions \subseteq Int
    BY ConstantTypes DEF Positions
  <2>1. loop[c].cur \in Int
    BY <1>t, <2>0, LoopSteps
  <2>2. After(loop[c].code, loop[c].cur) \subseteq log
    BY <1>t, <2>1, AfterIsPrefix
  <2>3. \A d \in Conns : d # c => loop'[d] = loop[d]
    BY <1>18, <1>t DEF ReadBatch
  <2>4. /\ loop'[c].batch = After(loop[c].code, loop[c].cur) /\ loop'[c].st = "batch"
        /\ loop'[c].cur = 0
    BY <1>18, <1>t DEF ReadBatch, LoopRecs
  <2>5. UNCHANGED <<log, cursor, admin, restore, conn>>
    BY <1>18 DEF ReadBatch
  <2> QED BY <2>2, <2>3, <2>4, <2>5 DEF Held, InRun
<1>19. ASSUME NEW c \in Conns, BatchEnds(c) PROVE Held'
  BY <1>19, <1>t, <1>l DEF BatchEnds, CtxDone, NoLoop, NoCode, Runs, Held, InRun, ConnRecs,
     LoopRecs
<1>20. ASSUME NEW c \in Conns, PassForeign(c) PROVE Held'
  BY <1>20, <1>t, <1>l DEF PassForeign, CtxDone, Advance, Failed, Fault, Notify, NoLoop, NoCode,
     Held, InRun, ConnRecs, LoopRecs
<1>21. ASSUME NEW c \in Conns, BeginRun(c) PROVE Held'
  BY <1>21, <1>t, <1>l DEF BeginRun, CtxDone, Held, InRun, ConnRecs, LoopRecs
<1>22. ASSUME NEW c \in Conns, Send(c) PROVE Held'
  BY <1>22, <1>t, <1>l DEF Send, Goes, Held, InRun, ConnRecs, LoopRecs
<1>23. ASSUME NEW c \in Conns, SendFails(c) PROVE Held'
  BY <1>23, <1>t, <1>l DEF SendFails, Stops, NoLoop, NoCode, Held, InRun, ConnRecs, LoopRecs
<1>24. ASSUME NEW c \in Conns, RunResolved(c) PROVE Held'
  BY <1>24, <1>t, <1>l DEF RunResolved, Held, InRun, ConnRecs, LoopRecs
<1>25. ASSUME NEW c \in Conns, WakesUp(c) PROVE Held'
  BY <1>25, <1>t, <1>l DEF WakesUp, Goes, CtxDone, Held, InRun, ConnRecs, LoopRecs
<1>26. ASSUME NEW c \in Conns, LoopStops(c) PROVE Held'
  BY <1>26, <1>t, <1>l DEF LoopStops, Stops, NoLoop, NoCode, CtxDone, Held, InRun, ConnRecs,
     LoopRecs
<1>27. ASSUME SwitchBegins PROVE Held'
  BY <1>27, <1>t, <1>l DEF SwitchBegins, Held, InRun, ConnRecs, LoopRecs
<1>28. ASSUME SwitchReadsLatest PROVE Held'
  BY <1>28, <1>t, <1>l DEF SwitchReadsLatest, Held, InRun, ConnRecs, LoopRecs
<1>29. ASSUME SwitchSkips PROVE Held'
  BY <1>29, <1>t, <1>l DEF SwitchSkips, Advance, Notify, Held, InRun, ConnRecs, LoopRecs
<1>30. ASSUME SwitchUpdates PROVE Held'
  BY <1>30, <1>t, <1>l DEF SwitchUpdates, Notify, Held, InRun, ConnRecs, LoopRecs
<1>31. ASSUME SwitchFails PROVE Held'
  BY <1>31, <1>t, <1>l DEF SwitchFails, NoSwitch, NoCode, Held, InRun, ConnRecs, LoopRecs
<1>32. ASSUME SwitchDisconnects PROVE Held'
  BY <1>32, <1>t, <1>l DEF SwitchDisconnects, Disconnect, Close, NoSwitch, NoCode, Idle, Held,
     InRun, ConnRecs, LoopRecs
<1>33. ASSUME RestoreReadsLatest PROVE Held'
  BY <1>33, <1>t, <1>l DEF RestoreReadsLatest, Held, InRun, ConnRecs, LoopRecs
<1>34. ASSUME RestoreSkips PROVE Held'
  BY <1>34, <1>t, <1>l DEF RestoreSkips, Advance, Notify, Held, InRun, ConnRecs, LoopRecs
<1>35. ASSUME RestoreDisconnects PROVE Held'
  BY <1>35, <1>t, <1>l DEF RestoreDisconnects, Disconnect, Close, Idle, Held, InRun, ConnRecs,
     LoopRecs
<1>36. ASSUME Restart PROVE Held'
  BY <1>36, <1>t, <1>l DEF Restart, Fault, NoConnState, NoCode, Idle, NoLoop, NoConn, NoSwitch,
     Held, InRun, ConnRecs, LoopRecs
<1>37. CASE UNCHANGED <<log, cursor, admin, restore, conn, loop>>
  BY <1>37 DEF Held, InRun, ConnRecs, LoopRecs
<1> QED BY <1>1, <1>2, <1>3, <1>4, <1>5, <1>6, <1>7, <1>8, <1>9, <1>10, <1>11, <1>12, <1>13,
   <1>14, <1>15, <1>16, <1>17, <1>18, <1>19, <1>20, <1>21, <1>22, <1>23, <1>24, <1>25, <1>26,
   <1>27, <1>28, <1>29, <1>30, <1>31, <1>32, <1>33, <1>34, <1>35, <1>36, <1>37 DEF Next,
   HandleConn, DeliverLoop, Worker, SetEnabled, Workspace, vars, WorkerFinishes, WorkerThrows,
   Drop, ArchiveOrRestore, HandleWorkspaceArchived, Close, Disconnect, Fault, Notify

(* The history only grows. *)
Grows ==
    /\ hist.late \subseteq hist'.late /\ hist.skipped \subseteq hist'.skipped
    /\ hist.ran \subseteq hist'.ran /\ hist.threw \subseteq hist'.threw
    /\ hist.cut \subseteq hist'.cut /\ hist.strayed \subseteq hist'.strayed
    /\ hist.off \subseteq hist'.off
    /\ \A c \in Conns : hist.acked[c] \subseteq hist'.acked[c]
    /\ hist.stale => hist'.stale
    /\ hist'.errs = 0 => hist.errs = 0

LEMMA HistGrows == Types /\ [Next]_vars => Grows
<1> SUFFICES ASSUME Types, [Next]_vars PROVE Grows
  OBVIOUS
<1>t. hist \in HistRecs
  BY DEF Types
<1>u. UNCHANGED hist => Grows
  BY DEF Grows
<1>1. ASSUME NEW e \in Events, Commit(e) PROVE Grows
  BY <1>1, <1>t DEF Commit, Grows, HistRecs
<1>2. ASSUME NEW c \in Conns, SyncWrites(c) PROVE Grows
  BY <1>2, <1>t DEF SyncWrites, Grows, HistRecs
<1>3. ASSUME NEW c \in Conns, SyncFails(c) PROVE Grows
  BY <1>3, <1>t DEF SyncFails, Failed, Grows, HistRecs
<1>4. ASSUME NEW c \in Conns, EnsureCursor(c) PROVE Grows
  <2>1. CASE hist' = [hist EXCEPT !.errs = @ + 1, !.faults = @ + 1]
    BY <1>t, <2>1 DEF Grows, HistRecs
  <2> QED BY <1>4, <1>u, <2>1 DEF EnsureCursor, Failed
<1>5. ASSUME NEW c \in Conns, SkipSets(c) PROVE Grows
  BY <1>5, <1>t DEF SkipSets, Grows, HistRecs
<1>6. ASSUME NEW c \in Conns, ReadFinished(c) PROVE Grows
  BY <1>6, <1>t DEF ReadFinished, Grows, HistRecs
<1>7. ASSUME NEW c \in Conns, AdvanceCursor(c) PROVE Grows
  <2>1. CASE hist' = [hist EXCEPT !.acked[c] = @ \cup {conn[c].at}]
    BY <1>t, <2>1 DEF Grows, HistRecs
  <2>2. CASE hist' = [hist EXCEPT !.errs = @ + 1, !.faults = @ + 1]
    BY <1>t, <2>2 DEF Grows, HistRecs
  <2> QED BY <1>7, <2>1, <2>2 DEF AdvanceCursor, Failed
<1>8. ASSUME NEW c \in Conns, ReadCrashed(c) PROVE Grows
  BY <1>8, <1>t DEF ReadCrashed, Grows, HistRecs
<1>9. ASSUME NEW c \in Conns, ReadEnds(c) PROVE Grows
  <2>1. CASE UNCHANGED hist
    BY <1>u, <2>1
  <2>2. CASE ~UNCHANGED hist
    BY <1>9, <1>t, <2>2 DEF ReadEnds, Grows, HistRecs
  <2> QED BY <2>1, <2>2
<1>10. ASSUME NEW c \in Conns, Poll(c) PROVE Grows
  <2>1. CASE hist' = [hist EXCEPT !.errs = @ + 1, !.faults = @ + 1]
    BY <1>t, <2>1 DEF Grows, HistRecs
  <2> QED BY <1>10, <1>u, <2>1 DEF Poll, Failed
<1>11. ASSUME NEW c \in Conns, PassForeign(c) PROVE Grows
  <2>1. CASE hist' = [hist EXCEPT !.strayed = IF ws[c] THEN @ ELSE @ \cup hist.cut]
    BY <1>t, <2>1 DEF Grows, HistRecs
  <2>2. CASE hist' = [hist EXCEPT !.errs = @ + 1, !.faults = @ + 1]
    BY <1>t, <2>2 DEF Grows, HistRecs
  <2> QED BY <1>11, <2>1, <2>2 DEF PassForeign, Failed
<1>12. ASSUME NEW c \in Conns, Send(c) PROVE Grows
  BY <1>12, <1>t DEF Send, Grows, HistRecs
<1>13. ASSUME NEW c \in Conns, WorkerThrows(c) PROVE Grows
  BY <1>13, <1>t DEF WorkerThrows, Grows, HistRecs
<1>14. ASSUME NEW c \in Conns, Drop(c) PROVE Grows
  BY <1>14, <1>t DEF Drop, Grows, HistRecs
<1>15. ASSUME SwitchBegins PROVE Grows
  BY <1>15, <1>t DEF SwitchBegins, Grows, HistRecs
<1>16. ASSUME SwitchSkips PROVE Grows
  BY <1>16, <1>t DEF SwitchSkips, Grows, HistRecs
<1>17. ASSUME SwitchUpdates PROVE Grows
  BY <1>17, <1>t DEF SwitchUpdates, Grows, HistRecs
<1>18. ASSUME ArchiveOrRestore PROVE Grows
  BY <1>18, <1>t DEF ArchiveOrRestore, Grows, HistRecs
<1>19. ASSUME RestoreSkips PROVE Grows
  BY <1>19, <1>t DEF RestoreSkips, Grows, HistRecs
<1>20. ASSUME Restart PROVE Grows
  BY <1>20, <1>t DEF Restart, Grows, HistRecs
<1>21. CASE UNCHANGED hist
  BY <1>u, <1>21
<1> QED BY <1>1, <1>2, <1>3, <1>4, <1>5, <1>6, <1>7, <1>8, <1>9, <1>10, <1>11, <1>12, <1>13,
   <1>14, <1>15, <1>16, <1>17, <1>18, <1>19, <1>20, <1>21 DEF Next, HandleConn, DeliverLoop,
   Worker, SetEnabled, Workspace, vars, Register, SyncReads, AnnounceFails, SkipReads, Hello,
   HelloFails, HandlerReturns, ReadBatch, BatchEnds, BeginRun, SendFails, RunResolved, WakesUp,
   LoopStops, WorkerFinishes, SwitchReadsLatest, SwitchFails, SwitchDisconnects,
   HandleWorkspaceArchived, RestoreReadsLatest, RestoreDisconnects

(* Every step keeps deliverOne and readLoop on the same run. *)
LEMMA SameRunNext == Types /\ Sockets /\ Held /\ SameRun /\ [Next]_vars => SameRun'
<1> SUFFICES ASSUME Types, Sockets, Held, SameRun, [Next]_vars PROVE SameRun'
  OBVIOUS
<1>t. /\ conn \in [Conns -> ConnRecs] /\ loop \in [Conns -> LoopRecs]
    /\ ws \in [Conns -> BOOLEAN] /\ woken \in [Conns -> BOOLEAN]
    /\ active \in [Conns -> Positions]
    /\ work \in [Conns -> [ev : Positions, out : Outcomes]]
  BY DEF Types, SideTypes
<1>h. Grows
  BY HistGrows
<1>z. \A c \in Conns : loop[c].st \in InRun => loop[c].cur # 0
  BY DEF Types, RowTypes, Held, Events
<1>1. ASSUME NEW e \in Events, Commit(e) PROVE SameRun'
  BY <1>1, <1>t, <1>h, <1>z DEF Commit, Notify, SameRun, InRun, Sockets, Over, InLoop, Grows,
     ConnRecs, LoopRecs
<1>2. ASSUME NEW c \in Conns, NEW v \in Codes, Register(c, v) PROVE SameRun'
  <2>1. reg # NoConn => reg # c
    BY <1>2 DEF Register, Sockets
  <2>2. \A d \in Conns : conn'[d].st = (IF d = c THEN "announce" ELSE conn[d].st)
                         /\ conn'[d].at = conn[d].at
    BY <1>2, <1>t DEF Register, ConnRecs
  <2>3. \A d \in Conns : ws'[d] <=> (d = c \/ (ws[d] /\ d # reg))
    BY <1>2 DEF Register
  <2>4. \A d \in Conns : work'[d] = IF d = reg THEN Idle ELSE work[d]
    BY <1>2 DEF Register
  <2>5. loop[c].st = "off" /\ conn[c].st = "none"
    BY <1>2 DEF Register, Sockets, InLoop
  <2>6. UNCHANGED <<active, loop, woken, hist>>
    BY <1>2 DEF Register
  <2> QED BY <2>1, <2>2, <2>3, <2>4, <2>5, <2>6 DEF SameRun, InRun, Sockets, Idle, InLoop, Over
<1>3. ASSUME NEW c \in Conns, SyncReads(c) PROVE SameRun'
  BY <1>3, <1>t, <1>h, <1>z DEF SyncReads, Runs, SameRun, InRun, Sockets, Over, InLoop, Grows,
     ConnRecs, LoopRecs
<1>4. ASSUME NEW c \in Conns, AnnounceFails(c) PROVE SameRun'
  BY <1>4, <1>t, <1>h, <1>z DEF AnnounceFails, Leave, NoConnState, SameRun, InRun, Sockets, Over,
     InLoop, Grows, ConnRecs, LoopRecs
<1>5. ASSUME NEW c \in Conns, SyncWrites(c) PROVE SameRun'
  BY <1>5, <1>t, <1>h, <1>z DEF SyncWrites, Notify, SameRun, InRun, Sockets, Over, InLoop, Grows,
     ConnRecs, LoopRecs
<1>6. ASSUME NEW c \in Conns, SyncFails(c) PROVE SameRun'
  BY <1>6, <1>t, <1>h, <1>z DEF SyncFails, Failed, Fault, Leave, Close, NoConnState, Idle,
     SameRun, InRun, Sockets, Over, InLoop, Grows, ConnRecs, LoopRecs
<1>7. ASSUME NEW c \in Conns, EnsureCursor(c) PROVE SameRun'
  <2>1. PICK s \in {"latest", "hello"} : conn' = [conn EXCEPT ![c].st = s]
    BY <1>7 DEF EnsureCursor
  <2>2. \A d \in Conns : conn'[d].st = (IF d = c THEN s ELSE conn[d].st) /\ conn'[d].at = conn[d].at
    BY <1>t, <2>1 DEF ConnRecs
  <2>3. conn[c].st = "cursor" /\ UNCHANGED <<loop, active, work, ws, woken>>
    BY <1>7 DEF EnsureCursor
  <2> QED BY <1>h, <2>2, <2>3 DEF SameRun, Grows, Sockets, InRun, InLoop, Over
<1>8. ASSUME NEW c \in Conns, SkipReads(c) PROVE SameRun'
  BY <1>8, <1>t, <1>h, <1>z DEF SkipReads, SameRun, InRun, Sockets, Over, InLoop, Grows, ConnRecs,
     LoopRecs
<1>9. ASSUME NEW c \in Conns, SkipSets(c) PROVE SameRun'
  BY <1>9, <1>t, <1>h, <1>z DEF SkipSets, Advance, Notify, SameRun, InRun, Sockets, Over, InLoop,
     Grows, ConnRecs, LoopRecs
<1>10. ASSUME NEW c \in Conns, Hello(c) PROVE SameRun'
  BY <1>10, <1>t, <1>h, <1>z DEF Hello, NoConnState, SameRun, InRun, Sockets, Over, InLoop, Grows,
     ConnRecs, LoopRecs
<1>11. ASSUME NEW c \in Conns, HelloFails(c) PROVE SameRun'
  BY <1>11, <1>t, <1>h, <1>z DEF HelloFails, Leave, NoConnState, SameRun, InRun, Sockets, Over,
     InLoop, Grows, ConnRecs, LoopRecs
<1>12. ASSUME NEW c \in Conns, ReadFinished(c) PROVE SameRun'
  BY <1>12, <1>t, <1>h, <1>z DEF ReadFinished, Notify, Idle, SameRun, InRun, Sockets, Over,
     InLoop, Grows, ConnRecs, LoopRecs
<1>13. ASSUME NEW c \in Conns, AdvanceCursor(c) PROVE SameRun'
  BY <1>13, <1>t, <1>h, <1>z DEF AdvanceCursor, Advance, Notify, Failed, Fault, CloseDone,
     SameRun, InRun, Sockets, Over, InLoop, Grows, ConnRecs, LoopRecs
<1>14. ASSUME NEW c \in Conns, ReadCrashed(c) PROVE SameRun'
  BY <1>14, <1>t, <1>h, <1>z DEF ReadCrashed, CloseDone, Notify, Idle, SameRun, InRun, Sockets,
     Over, InLoop, Grows, ConnRecs, LoopRecs
<1>15. ASSUME NEW c \in Conns, ReadEnds(c) PROVE SameRun'
  <2>1. \A d \in Conns : conn'[d].st = (IF d = c THEN "ended" ELSE conn[d].st)
                         /\ conn'[d].at = conn[d].at
    BY <1>15, <1>t DEF ReadEnds, ConnRecs
  <2>2. conn[c].st = "reading" /\ ~ws[c] /\ UNCHANGED <<ws, work>>
    BY <1>15 DEF ReadEnds
  <2>3. CASE active[c] = 0
    <3>1. UNCHANGED <<active, loop, woken, hist>>
      BY <1>15, <2>3 DEF ReadEnds
    <3> QED BY <1>z, <2>1, <2>2, <2>3, <3>1 DEF SameRun, InRun, Over
  <2>4. CASE active[c] # 0
    <3>1. /\ active' = [active EXCEPT ![c] = 0] /\ loop' = [loop EXCEPT ![c].done = TRUE]
          /\ woken' = [d \in Conns |-> loop[d].st # "off"]
      BY <1>15, <2>4 DEF ReadEnds, CloseDone, Notify
    <3>2. \A d \in Conns : /\ loop'[d].st = loop[d].st /\ loop'[d].cur = loop[d].cur
                           /\ IF d = c THEN loop'[d].done = TRUE ELSE loop'[d].done = loop[d].done
      BY <1>t, <3>1 DEF LoopRecs
    <3>3. \A d \in Conns : active'[d] = IF d = c THEN 0 ELSE active[d]
      BY <1>t, <3>1
    <3>4. \A d \in Conns : woken'[d] <=> loop[d].st # "off"
      BY <3>1
    <3> QED BY <1>h, <2>1, <2>2, <3>2, <3>3, <3>4 DEF SameRun, Grows, InRun
  <2> QED BY <2>3, <2>4
<1>16. ASSUME NEW c \in Conns, HandlerReturns(c) PROVE SameRun'
  BY <1>16, <1>t, <1>h, <1>z DEF HandlerReturns, Leave, NoConnState, SameRun, InRun, Sockets,
     Over, InLoop, Grows, ConnRecs, LoopRecs
<1>17. ASSUME NEW c \in Conns, Poll(c) PROVE SameRun'
  <2>1. \A d \in Conns : d # c => loop'[d] = loop[d] /\ woken'[d] = woken[d]
    BY <1>17, <1>t DEF Poll, Goes
  <2>2. loop[c].st = "top" /\ loop'[c].st \in {"read", "wait"}
    <3>1. CASE loop' = [loop EXCEPT ![c] = [@ EXCEPT !.st = "read", !.code = rec.code,
                                                     !.cur = CursorRead]]
      BY <1>17, <1>t, <3>1 DEF Poll, LoopRecs
    <3>2. CASE loop' = [loop EXCEPT ![c].st = "wait"]
      BY <1>17, <1>t, <3>2 DEF Poll, LoopRecs
    <3> QED BY <1>17, <3>1, <3>2 DEF Poll, Goes
  <2>3. UNCHANGED <<conn, active, work, ws>>
    BY <1>17 DEF Poll
  <2> QED BY <1>h, <2>1, <2>2, <2>3 DEF SameRun, Grows, InRun
<1>18. ASSUME NEW c \in Conns, ReadBatch(c) PROVE SameRun'
  BY <1>18, <1>t, <1>h, <1>z DEF ReadBatch, CtxDone, NoCode, SameRun, InRun, Sockets, Over,
     InLoop, Grows, ConnRecs, LoopRecs
<1>19. ASSUME NEW c \in Conns, BatchEnds(c) PROVE SameRun'
  BY <1>19, <1>t, <1>h, <1>z DEF BatchEnds, CtxDone, NoLoop, NoCode, Runs, SameRun, InRun,
     Sockets, Over, InLoop, Grows, ConnRecs, LoopRecs
<1>20. ASSUME NEW c \in Conns, PassForeign(c) PROVE SameRun'
  <2>1. \A d \in Conns : d # c => loop'[d] = loop[d]
    BY <1>20, <1>t DEF PassForeign
  <2>2. loop[c].st = "batch" /\ loop'[c].st \in {"batch", "wait"}
    <3>1. ASSUME NEW e, loop' = [loop EXCEPT ![c].batch = @ \ {e}] PROVE loop'[c].st = loop[c].st
      BY <1>t, <3>1 DEF LoopRecs
    <3>2. CASE loop' = [loop EXCEPT ![c] = [NoLoop EXCEPT !.st = "wait"]]
      BY <1>20, <1>t, <3>2 DEF PassForeign, NoLoop
    <3> QED BY <1>20, <3>1, <3>2 DEF PassForeign
  <2>3. \A d \in Conns : woken[d] /\ loop[d].st # "off" => woken'[d]
    BY <1>20, <1>t DEF PassForeign, Notify
  <2>4. UNCHANGED <<conn, active, work, ws>>
    BY <1>20 DEF PassForeign
  <2> QED BY <1>h, <2>1, <2>2, <2>3, <2>4 DEF SameRun, Grows, InRun
<1>21. ASSUME NEW c \in Conns, BeginRun(c) PROVE SameRun'
  BY <1>21, <1>t, <1>h, <1>z DEF BeginRun, CtxDone, SameRun, InRun, Sockets, Over, InLoop, Grows,
     ConnRecs, LoopRecs
<1>22. ASSUME NEW c \in Conns, Send(c) PROVE SameRun'
  BY <1>22, <1>t, <1>h, <1>z DEF Send, Goes, SameRun, InRun, Sockets, Over, InLoop, Grows,
     ConnRecs, LoopRecs
<1>23. ASSUME NEW c \in Conns, SendFails(c) PROVE SameRun'
  BY <1>23, <1>t, <1>h, <1>z DEF SendFails, Stops, NoLoop, NoCode, SameRun, InRun, Sockets, Over,
     InLoop, Grows, ConnRecs, LoopRecs
<1>24. ASSUME NEW c \in Conns, RunResolved(c) PROVE SameRun'
  BY <1>24, <1>t, <1>h, <1>z DEF RunResolved, SameRun, InRun, Sockets, Over, InLoop, Grows,
     ConnRecs, LoopRecs
<1>25. ASSUME NEW c \in Conns, WakesUp(c) PROVE SameRun'
  BY <1>25, <1>t, <1>h, <1>z DEF WakesUp, Goes, CtxDone, SameRun, InRun, Sockets, Over, InLoop,
     Grows, ConnRecs, LoopRecs
<1>26. ASSUME NEW c \in Conns, LoopStops(c) PROVE SameRun'
  BY <1>26, <1>t, <1>h, <1>z DEF LoopStops, Stops, NoLoop, NoCode, CtxDone, SameRun, InRun,
     Sockets, Over, InLoop, Grows, ConnRecs, LoopRecs
<1>27. ASSUME NEW c \in Conns, WorkerFinishes(c) PROVE SameRun'
  BY <1>27, <1>t, <1>h, <1>z DEF WorkerFinishes, SameRun, InRun, Sockets, Over, InLoop, Grows,
     ConnRecs, LoopRecs
<1>28. ASSUME NEW c \in Conns, WorkerThrows(c) PROVE SameRun'
  BY <1>28, <1>t, <1>h, <1>z DEF WorkerThrows, SameRun, InRun, Sockets, Over, InLoop, Grows,
     ConnRecs, LoopRecs
<1>29. ASSUME NEW c \in Conns, Drop(c) PROVE SameRun'
  BY <1>29, <1>t, <1>h, <1>z DEF Drop, Close, Fault, Idle, SameRun, InRun, Sockets, Over, InLoop,
     Grows, ConnRecs, LoopRecs
<1>30. ASSUME SwitchBegins PROVE SameRun'
  BY <1>30, <1>t, <1>h, <1>z DEF SwitchBegins, SameRun, InRun, Sockets, Over, InLoop, Grows,
     ConnRecs, LoopRecs
<1>31. ASSUME SwitchSkips PROVE SameRun'
  BY <1>31, <1>t, <1>h, <1>z DEF SwitchSkips, Advance, Notify, SameRun, InRun, Sockets, Over,
     InLoop, Grows, ConnRecs, LoopRecs
<1>32. ASSUME SwitchUpdates PROVE SameRun'
  BY <1>32, <1>t, <1>h, <1>z DEF SwitchUpdates, Notify, SameRun, InRun, Sockets, Over, InLoop,
     Grows, ConnRecs, LoopRecs
<1>33. ASSUME SwitchDisconnects PROVE SameRun'
  BY <1>33, <1>t, <1>h, <1>z DEF SwitchDisconnects, Disconnect, Close, NoSwitch, NoCode, Idle,
     SameRun, InRun, Sockets, Over, InLoop, Grows, ConnRecs, LoopRecs
<1>34. ASSUME ArchiveOrRestore PROVE SameRun'
  BY <1>34, <1>t, <1>h, <1>z DEF ArchiveOrRestore, Notify, SameRun, InRun, Sockets, Over, InLoop,
     Grows, ConnRecs, LoopRecs
<1>35. ASSUME HandleWorkspaceArchived PROVE SameRun'
  BY <1>35, <1>t, <1>h, <1>z DEF HandleWorkspaceArchived, Disconnect, Close, Idle, SameRun, InRun,
     Sockets, Over, InLoop, Grows, ConnRecs, LoopRecs
<1>36. ASSUME RestoreSkips PROVE SameRun'
  BY <1>36, <1>t, <1>h, <1>z DEF RestoreSkips, Advance, Notify, SameRun, InRun, Sockets, Over,
     InLoop, Grows, ConnRecs, LoopRecs
<1>37. ASSUME RestoreDisconnects PROVE SameRun'
  BY <1>37, <1>t, <1>h, <1>z DEF RestoreDisconnects, Disconnect, Close, Idle, SameRun, InRun,
     Sockets, Over, InLoop, Grows, ConnRecs, LoopRecs
<1>38. ASSUME Restart PROVE SameRun'
  BY <1>38, <1>t, <1>h, <1>z DEF Restart, Fault, NoConnState, NoCode, Idle, NoLoop, NoConn,
     NoSwitch, SameRun, InRun, Sockets, Over, InLoop, Grows, ConnRecs, LoopRecs
<1>39. CASE UNCHANGED <<conn, loop, active, work, ws, woken, hist>>
  BY <1>39 DEF SameRun, InRun, Sockets, Over, InLoop, Grows, ConnRecs, LoopRecs
<1> QED BY <1>1, <1>2, <1>3, <1>4, <1>5, <1>6, <1>7, <1>8, <1>9, <1>10, <1>11, <1>12, <1>13,
   <1>14, <1>15, <1>16, <1>17, <1>18, <1>19, <1>20, <1>21, <1>22, <1>23, <1>24, <1>25, <1>26,
   <1>27, <1>28, <1>29, <1>30, <1>31, <1>32, <1>33, <1>34, <1>35, <1>36, <1>37, <1>38, <1>39 DEF
   Next, HandleConn, DeliverLoop, Worker, SetEnabled, Workspace, vars, SwitchReadsLatest,
   SwitchFails, RestoreReadsLatest

(* Neither the cursor nor the log ever goes back. *)
LEMMA CursorGrows ==
    ASSUME Types, Held, [Next]_vars
    PROVE  /\ cursor \in Int /\ cursor' \in Int /\ cursor' >= cursor
           /\ log \subseteq log'
<1>t. log \subseteq Int /\ cursor \in Int
  BY ConstantTypes DEF Types, RowTypes, Events, NoRow
<1>a. \A p \in log \cup {0} : Advance(p) => cursor' \in Int /\ cursor' >= cursor
  BY <1>t DEF Advance
<1>1. ASSUME NEW c \in Conns, SkipSets(c) PROVE cursor' \in Int /\ cursor' >= cursor
  BY <1>1, <1>a, <1>t DEF SkipSets, Held
<1>2. ASSUME NEW c \in Conns, AdvanceCursor(c) PROVE cursor' \in Int /\ cursor' >= cursor
  BY <1>2, <1>a, <1>t DEF AdvanceCursor, Held
<1>3. ASSUME NEW c \in Conns, PassForeign(c) PROVE cursor' \in Int /\ cursor' >= cursor
  BY <1>3, <1>a, <1>t DEF PassForeign, Held
<1>4. ASSUME SwitchSkips PROVE cursor' \in Int /\ cursor' >= cursor
  BY <1>4, <1>a, <1>t DEF SwitchSkips, Held
<1>5. ASSUME RestoreSkips PROVE cursor' \in Int /\ cursor' >= cursor
  BY <1>5, <1>a, <1>t DEF RestoreSkips, Held
<1>6. ASSUME UNCHANGED cursor PROVE cursor' \in Int /\ cursor' >= cursor
  BY <1>6, <1>t
<1>m. cursor' \in Int /\ cursor' >= cursor
  <2>1. ASSUME NEW c \in Conns, HandleConn(c) PROVE cursor' \in Int /\ cursor' >= cursor
    BY <2>1, <1>1, <1>2, <1>6 DEF HandleConn, Register, SyncReads, AnnounceFails, SyncWrites,
       SyncFails, EnsureCursor, SkipReads, Hello, HelloFails, ReadFinished, ReadCrashed, ReadEnds,
       HandlerReturns
  <2>2. ASSUME NEW c \in Conns, DeliverLoop(c) PROVE cursor' \in Int /\ cursor' >= cursor
    BY <2>2, <1>3, <1>6 DEF DeliverLoop, Poll, ReadBatch, BatchEnds, BeginRun, Send, SendFails,
       RunResolved, WakesUp, LoopStops
  <2>3. ASSUME NEW c \in Conns, Worker(c) PROVE cursor' \in Int /\ cursor' >= cursor
    BY <2>3, <1>6 DEF Worker, WorkerFinishes, WorkerThrows, Drop
  <2>4. ASSUME SetEnabled PROVE cursor' \in Int /\ cursor' >= cursor
    BY <2>4, <1>4, <1>6 DEF SetEnabled, SwitchBegins, SwitchReadsLatest, SwitchUpdates,
       SwitchFails, SwitchDisconnects
  <2>5. ASSUME Workspace PROVE cursor' \in Int /\ cursor' >= cursor
    BY <2>5, <1>5, <1>6 DEF Workspace, ArchiveOrRestore, HandleWorkspaceArchived,
       RestoreReadsLatest, RestoreDisconnects
  <2> QED BY <2>1, <2>2, <2>3, <2>4, <2>5, <1>6 DEF Next, Commit, Restart, vars
<1>u. UNCHANGED log \/ \E e \in Events : Commit(e)
  <2>1. ASSUME NEW c \in Conns, HandleConn(c) PROVE UNCHANGED log \/ \E e \in Events : Commit(e)
    BY <2>1 DEF HandleConn, Register, SyncReads, AnnounceFails, SyncWrites, SyncFails,
       EnsureCursor, SkipReads, SkipSets, Hello, HelloFails, ReadFinished, AdvanceCursor,
       ReadCrashed, ReadEnds, HandlerReturns
  <2>2. ASSUME NEW c \in Conns, DeliverLoop(c) PROVE UNCHANGED log \/ \E e \in Events : Commit(e)
    BY <2>2 DEF DeliverLoop, Poll, ReadBatch, BatchEnds, PassForeign, BeginRun, Send, SendFails,
       RunResolved, WakesUp, LoopStops
  <2>3. ASSUME NEW c \in Conns, Worker(c) PROVE UNCHANGED log \/ \E e \in Events : Commit(e)
    BY <2>3 DEF Worker, WorkerFinishes, WorkerThrows, Drop
  <2>4. ASSUME SetEnabled PROVE UNCHANGED log \/ \E e \in Events : Commit(e)
    BY <2>4 DEF SetEnabled, SwitchBegins, SwitchReadsLatest, SwitchSkips, SwitchUpdates,
       SwitchFails, SwitchDisconnects
  <2>5. ASSUME Workspace PROVE UNCHANGED log \/ \E e \in Events : Commit(e)
    BY <2>5 DEF Workspace, ArchiveOrRestore, HandleWorkspaceArchived, RestoreReadsLatest,
       RestoreSkips, RestoreDisconnects
  <2> QED BY <2>1, <2>2, <2>3, <2>4, <2>5 DEF Next, Restart, vars
<1>l. ASSUME NEW e \in Events, Commit(e) PROVE log \subseteq log'
  BY <1>l DEF Commit
<1> QED BY <1>t, <1>m, <1>l, <1>u

(* Every step leaves no wanted event behind without an account of it. *)
LEMMA PassingNext == Types /\ Sockets /\ Held /\ SameRun /\ Passing /\ [Next]_vars => Passing'
<1> SUFFICES ASSUME Types, Sockets, Held, SameRun, Passing, [Next]_vars PROVE Passing'
  OBVIOUS
<1>t. /\ conn \in [Conns -> ConnRecs] /\ loop \in [Conns -> LoopRecs] /\ hist \in HistRecs
    /\ ws \in [Conns -> BOOLEAN] /\ active \in [Conns -> Positions]
    /\ work \in [Conns -> [ev : Positions, out : Outcomes]]
  BY DEF Types, SideTypes
<1>i. /\ \A x \in log : x \in Int /\ x > 0
      /\ \A x \in Positions : x \in Int
      /\ cursor \in Int
  BY ConstantTypes DEF Types, RowTypes, Events, Positions, NoRow
<1>g. Grows
  BY HistGrows
<1>a. \A x : Accounted(x) => Accounted(x)'
  BY <1>g DEF Grows, Accounted
<1>w. ASSUME NEW p \in Int, Advance(p), log' = log,
             \A e \in log : e <= p /\ Wanted(e) => Accounted(e)'
      PROVE  PassedIsAccounted'
  <2> SUFFICES ASSUME NEW e \in log, e <= cursor', Wanted(e) PROVE Accounted(e)'
    BY <1>w DEF PassedIsAccounted, Accounted, Wanted
  <2>1. e <= p \/ e <= cursor
    BY <1>w DEF Advance
  <2>2. e <= cursor => Accounted(e)
    BY DEF Passing, PassedIsAccounted, Accounted
  <2> QED BY <1>w, <1>a, <2>1, <2>2
<1>c. ASSUME UNCHANGED <<log, cursor>> PROVE PassedIsAccounted'
  <2> SUFFICES ASSUME NEW e \in log, e <= cursor, Wanted(e) PROVE Accounted(e)'
    BY <1>c DEF PassedIsAccounted, Accounted, Wanted
  <2> QED BY <1>a DEF Passing, PassedIsAccounted, Accounted
<1>b. ASSUME NEW d \in Conns, NEW p, log' = log, Behind(d, p),
             \A e \in log : Open(d, e) /\ Wanted(e) => Open(d, e)' \/ Accounted(e)'
      PROVE  Behind(d, p)'
  <2> SUFFICES ASSUME NEW e \in log, e < p, Wanted(e) PROVE Accounted(e)' \/ Open(d, e)'
    BY <1>b DEF Behind, Wanted
  <2> QED BY <1>a, <1>b DEF Behind
<1>d. ASSUME NEW d \in Conns, log' = log,
             loop'[d].st = loop[d].st \/ {loop[d].st, loop'[d].st} \subseteq InRun,
             loop'[d].cur = loop[d].cur, loop'[d].batch = loop[d].batch,
             conn[d].st \in Over => conn'[d].st \in Over,
             loop'[d].st = "await" /\ loop'[d].done =>
                \/ loop[d].st = "await" /\ loop[d].done
                \/ Accounted(loop[d].cur)'
                \/ conn'[d].st \in Over /\ loop[d].cur \in hist'.cut
      PROVE  PassesOn(d)'
  <2>1. \A e : Open(d, e) => Open(d, e)'
    BY <1>d, <1>g DEF Open, Grows, InRun
  <2>2. \A p : Behind(d, p) => Behind(d, p)'
    BY <1>b, <1>d, <2>1
  <2>3. PassesOn(d)
    BY DEF Passing
  <2>4. loop[d].st = "read" => (\A e \in log : e <= loop[d].cur /\ Wanted(e) => Accounted(e)')
    BY <1>a, <2>3 DEF PassesOn
  <2>5. \A p \in loop[d].batch : Behind(d, p)'
    BY <2>2, <2>3 DEF PassesOn
  <2>6. loop[d].st \in InRun => Behind(d, loop[d].cur)'
    <3> SUFFICES ASSUME loop[d].st \in InRun, NEW e \in log, e < loop[d].cur, Wanted(e)
                 PROVE  Accounted(e)' \/ Open(d, e)'
      BY <1>d DEF Behind, Wanted
    <3>1. Accounted(e) \/ Open(d, e)
      BY <2>3 DEF PassesOn, Behind
    <3> QED BY <1>a, <2>1, <3>1
  <2> QED BY <1>a, <1>d, <1>g, <2>3, <2>4, <2>5, <2>6 DEF PassesOn, Grows, InRun
<1>q. ASSUME NEW d \in Conns, loop'[d].st \notin InRun \cup {"read"}, loop'[d].batch = {}
      PROVE  PassesOn(d)'
  BY <1>q DEF PassesOn, InRun
<1>v. ASSUME log' = log, UNCHANGED loop, PassedIsAccounted',
             \A d \in Conns : conn[d].st \in Over => conn'[d].st \in Over
      PROVE  Passing'
  BY <1>d, <1>v DEF Passing
<1>y. \A e \in log : e <= CursorRead /\ Wanted(e) => Accounted(e)'
  <2> SUFFICES ASSUME NEW e \in log, e <= CursorRead, Wanted(e) PROVE Accounted(e)'
    OBVIOUS
  <2>1. e <= cursor
    BY <1>i DEF CursorRead
  <2> QED BY <1>a, <2>1 DEF Passing, PassedIsAccounted, Accounted
<1>1. ASSUME NEW e \in Events, Commit(e) PROVE Passing'
  <2>1. /\ UNCHANGED <<loop, conn, cursor>> /\ log' = log \cup {e}
        /\ e \notin log /\ e \in Int /\ e > 0
    BY <1>1, ConstantTypes DEF Commit, Events
  <2>2. ASSUME NEW x \in log \cup {0, NoRow}, e <= x PROVE Accounted(e)'
    <3>1. x \in log /\ e < x
      BY <1>i, <2>1, <2>2 DEF NoRow
    <3>2. Latest \in Int /\ x <= Latest
      BY <1>i, <3>1, LatestIsCommitted DEF Types, RowTypes
    <3>3. e < Latest
      BY <1>i, <2>1, <3>1, <3>2
    <3>4. hist' = [hist EXCEPT !.late = @ \cup {e}]
      BY <1>1, <3>3 DEF Commit
    <3>5. e \in hist'.late
      BY <1>t, <3>4 DEF HistRecs
    <3> QED BY <3>5 DEF Accounted
  <2>3. PassedIsAccounted'
    <3> SUFFICES ASSUME NEW f \in log', f <= cursor, Wanted(f) PROVE Accounted(f)'
      BY <2>1 DEF PassedIsAccounted, Accounted, Wanted
    <3>1. CASE f \in log
      BY <1>a, <3>1 DEF Passing, PassedIsAccounted, Accounted
    <3>2. CASE f = e
      BY <2>2, <3>2 DEF Held
    <3> QED BY <2>1, <3>1, <3>2
  <2>4. ASSUME NEW d \in Conns, NEW p \in log, Behind(d, p) PROVE Behind(d, p)'
    <3> SUFFICES ASSUME NEW f \in log', f < p, Wanted(f) PROVE Accounted(f)' \/ Open(d, f)'
      BY DEF Behind, Wanted
    <3>1. CASE f \in log
      <4>1. Accounted(f) \/ Open(d, f)
        BY <2>4, <3>1 DEF Behind
      <4> QED BY <1>a, <1>g, <2>1, <4>1 DEF Open, Grows
    <3>2. CASE f = e
      BY <1>i, <2>1, <2>2, <3>2
    <3> QED BY <2>1, <3>1, <3>2
  <2>5. ASSUME NEW d \in Conns PROVE PassesOn(d)'
    <3>1. PassesOn(d) /\ loop'[d] = loop[d] /\ conn'[d] = conn[d]
      BY <2>1 DEF Passing
    <3>2. loop[d].cur \in log \cup {0} /\ loop[d].batch \subseteq log
      BY DEF Held
    <3>3. loop[d].st = "read" =>
             (\A f \in log' : f <= loop[d].cur /\ Wanted(f) => Accounted(f)')
      BY <1>a, <2>1, <2>2, <3>1, <3>2 DEF PassesOn
    <3>4. \A p \in loop[d].batch : Behind(d, p)'
      BY <2>4, <3>1, <3>2 DEF PassesOn
    <3>5. ASSUME loop[d].st \in InRun PROVE Behind(d, loop[d].cur)'
      <4>1. loop[d].cur \in log /\ Behind(d, loop[d].cur)
        BY <3>1, <3>5 DEF Held, PassesOn
      <4>2. \A p : p = loop[d].cur => Behind(d, p)'
        BY <2>4, <4>1
      <4> QED BY <3>1, <4>2 DEF Behind
    <3>6. loop[d].st = "await" /\ loop[d].done =>
             \/ Accounted(loop[d].cur)'
             \/ conn'[d].st \in Over /\ loop[d].cur \in hist'.cut
      <4> SUFFICES ASSUME loop[d].st = "await", loop[d].done
                   PROVE  \/ Accounted(loop[d].cur)'
                          \/ conn'[d].st \in Over /\ loop[d].cur \in hist'.cut
        OBVIOUS
      <4>1. Accounted(loop[d].cur) \/ (conn[d].st \in Over /\ loop[d].cur \in hist.cut)
        BY <3>1 DEF PassesOn
      <4> QED BY <1>g, <3>1, <4>1 DEF Accounted, Grows
    <3> QED BY <3>1, <3>3, <3>4, <3>5, <3>6 DEF PassesOn, Accounted, Wanted
  <2> QED BY <2>3, <2>5 DEF Passing
<1>2. ASSUME NEW c \in Conns, NEW v \in Codes, Register(c, v) PROVE Passing'
  <2>1. UNCHANGED <<log, loop>>
    BY <1>2 DEF Register
  <2>3. \A d \in Conns : conn[d].st \in Over => conn'[d].st \in Over
    BY <1>2, <1>t DEF Register, NoConnState, Over, ConnRecs
  <2>4. UNCHANGED cursor
    BY <1>2 DEF Register
  <2> QED BY <1>c, <1>v, <2>1, <2>3, <2>4
<1>3. ASSUME NEW c \in Conns, SyncReads(c) PROVE Passing'
  <2>1. UNCHANGED <<log, loop>>
    BY <1>3 DEF SyncReads
  <2>3. \A d \in Conns : conn[d].st \in Over => conn'[d].st \in Over
    BY <1>3, <1>t DEF SyncReads, Over, ConnRecs
  <2>4. UNCHANGED cursor
    BY <1>3 DEF SyncReads
  <2> QED BY <1>c, <1>v, <2>1, <2>3, <2>4
<1>4. ASSUME NEW c \in Conns, AnnounceFails(c) PROVE Passing'
  <2>1. UNCHANGED <<log, loop>>
    BY <1>4 DEF AnnounceFails
  <2>3. \A d \in Conns : conn[d].st \in Over => conn'[d].st \in Over
    BY <1>4, <1>t DEF AnnounceFails, Leave, NoConnState, Over, ConnRecs
  <2>4. UNCHANGED cursor
    BY <1>4 DEF AnnounceFails
  <2> QED BY <1>c, <1>v, <2>1, <2>3, <2>4
<1>5. ASSUME NEW c \in Conns, SyncWrites(c) PROVE Passing'
  <2>1. UNCHANGED <<log, loop>>
    BY <1>5 DEF SyncWrites
  <2>3. \A d \in Conns : conn[d].st \in Over => conn'[d].st \in Over
    BY <1>5, <1>t DEF SyncWrites, Over, ConnRecs
  <2>4. UNCHANGED cursor
    BY <1>5 DEF SyncWrites
  <2> QED BY <1>c, <1>v, <2>1, <2>3, <2>4
<1>6. ASSUME NEW c \in Conns, SyncFails(c) PROVE Passing'
  <2>1. UNCHANGED <<log, loop>>
    BY <1>6 DEF SyncFails
  <2>3. \A d \in Conns : conn[d].st \in Over => conn'[d].st \in Over
    BY <1>6, <1>t DEF SyncFails, Leave, NoConnState, Over, ConnRecs
  <2>4. UNCHANGED cursor
    BY <1>6 DEF SyncFails
  <2> QED BY <1>c, <1>v, <2>1, <2>3, <2>4
<1>7. ASSUME NEW c \in Conns, EnsureCursor(c) PROVE Passing'
  <2>1. UNCHANGED <<log, loop>>
    BY <1>7 DEF EnsureCursor
  <2>2. PICK s \in {"latest", "hello"} : conn' = [conn EXCEPT ![c].st = s]
    BY <1>7 DEF EnsureCursor
  <2>3. \A d \in Conns : conn[d].st \in Over => conn'[d].st \in Over
    BY <1>7, <1>t, <2>2 DEF EnsureCursor, Over, ConnRecs
  <2>4. UNCHANGED cursor
    BY <1>7 DEF EnsureCursor
  <2> QED BY <1>c, <1>v, <2>1, <2>3, <2>4
<1>8. ASSUME NEW c \in Conns, SkipReads(c) PROVE Passing'
  <2>1. UNCHANGED <<log, loop>>
    BY <1>8 DEF SkipReads
  <2>3. \A d \in Conns : conn[d].st \in Over => conn'[d].st \in Over
    BY <1>8, <1>t DEF SkipReads, Over, ConnRecs
  <2>4. UNCHANGED cursor
    BY <1>8 DEF SkipReads
  <2> QED BY <1>c, <1>v, <2>1, <2>3, <2>4
<1>9. ASSUME NEW c \in Conns, SkipSets(c) PROVE Passing'
  <2>1. UNCHANGED <<log, loop>>
    BY <1>9 DEF SkipSets
  <2>3. \A d \in Conns : conn[d].st \in Over => conn'[d].st \in Over
    BY <1>9, <1>t DEF SkipSets, Over, ConnRecs
  <2>4. Advance(conn[c].at) /\ conn[c].at \in Int /\ hist'.skipped = hist.skipped \cup 1..conn[c].at
    BY <1>9, <1>t, <1>i, ConnSteps DEF SkipSets, HistRecs, Types, CallTypes
  <2>5. \A e \in log : e <= conn[c].at => Accounted(e)'
    BY <1>i, <2>4 DEF Accounted
  <2>6. PassedIsAccounted'
    BY <1>w, <2>1, <2>4, <2>5
  <2> QED BY <1>v, <2>1, <2>3, <2>6
<1>10. ASSUME NEW c \in Conns, Hello(c) PROVE Passing'
  <2>1. UNCHANGED <<log, cursor>> /\ \A d \in Conns : conn[d].st \in Over => conn'[d].st \in Over
    BY <1>10, <1>t DEF Hello, NoConnState, Over, ConnRecs
  <2>2. \A d \in Conns : d # c => loop'[d] = loop[d]
    BY <1>10, <1>t DEF Hello
  <2>3. loop[c].st = "off" /\ loop[c].batch = {}
    BY <1>10 DEF Hello, Sockets, InLoop, Held, InRun
  <2>4. loop'[c].st \notin InRun \cup {"read"} /\ loop'[c].batch = {}
    BY <1>10, <1>t, <2>3 DEF Hello, LoopRecs, InRun
  <2>9. PassesOn(c)'
    BY <1>q, <2>4
  <2> QED BY <1>c, <1>d, <2>1, <2>2, <2>9 DEF Passing
<1>11. ASSUME NEW c \in Conns, HelloFails(c) PROVE Passing'
  <2>1. UNCHANGED <<log, loop>>
    BY <1>11 DEF HelloFails
  <2>3. \A d \in Conns : conn[d].st \in Over => conn'[d].st \in Over
    BY <1>11, <1>t DEF HelloFails, Leave, NoConnState, Over, ConnRecs
  <2>4. UNCHANGED cursor
    BY <1>11 DEF HelloFails
  <2> QED BY <1>c, <1>v, <2>1, <2>3, <2>4
<1>12. ASSUME NEW c \in Conns, ReadFinished(c) PROVE Passing'
  <2>1. UNCHANGED <<log, loop>>
    BY <1>12 DEF ReadFinished
  <2>3. \A d \in Conns : conn[d].st \in Over => conn'[d].st \in Over
    BY <1>12, <1>t DEF ReadFinished, Over, ConnRecs
  <2>4. UNCHANGED cursor
    BY <1>12 DEF ReadFinished
  <2> QED BY <1>c, <1>v, <2>1, <2>3, <2>4
<1>13. ASSUME NEW c \in Conns, AdvanceCursor(c) PROVE Passing'
  <2>1. /\ log' = log
        /\ \A d \in Conns : conn[d].st \in Over => conn'[d].st \in Over
    BY <1>13, <1>t DEF AdvanceCursor, Over, ConnRecs
  <2>2. /\ conn[c].st = "recording" /\ loop[c].st = "await"
        /\ conn[c].at = loop[c].cur /\ conn[c].at \in hist.ran
    BY <1>13 DEF AdvanceCursor, SameRun
  <2>3. \A d \in Conns : /\ loop'[d].st = loop[d].st /\ loop'[d].cur = loop[d].cur
                         /\ loop'[d].batch = loop[d].batch
                         /\ d # c => loop'[d].done = loop[d].done
    BY <1>13, <1>t DEF AdvanceCursor, CloseDone, LoopRecs
  <2>4. loop[c].cur \in log /\ \A b \in loop[c].batch : loop[c].cur < b /\ b \in log
    BY <2>2 DEF Held, InRun
  <2>5. ASSUME NEW e \in log, e <= conn[c].at, Wanted(e) PROVE Accounted(e)
    <3>1. CASE e = loop[c].cur
      BY <2>2, <3>1 DEF Accounted
    <3>2. CASE e # loop[c].cur
      <4>1. e < loop[c].cur /\ e \notin loop[c].batch
        BY <1>i, <2>2, <2>4, <2>5, <3>2
      <4>2. Behind(c, loop[c].cur)
        BY <2>2 DEF Passing, PassesOn, InRun
      <4> QED BY <2>2, <2>5, <3>2, <4>1, <4>2 DEF Behind, Open, Over
    <3> QED BY <3>1, <3>2
  <2>6. PassedIsAccounted'
    <3>1. CASE Advance(conn[c].at)
      BY <1>a, <1>i, <1>w, <2>1, <2>2, <2>4, <2>5, <3>1
    <3>2. CASE UNCHANGED cursor
      BY <1>c, <2>1, <3>2
    <3> QED BY <1>13, <3>1, <3>2 DEF AdvanceCursor
  <2>7. Accounted(loop[c].cur)
    BY <2>2 DEF Accounted
  <2>8. \A x : x = loop[c].cur => Accounted(x)'
    BY <1>a, <2>7
  <2>9. Accounted(loop[c].cur)'
    BY <2>3, <2>8 DEF Accounted
  <2>10. \A d \in Conns : PassesOn(d)'
    BY <1>d, <2>1, <2>3, <2>9
  <2> QED BY <2>6, <2>10 DEF Passing
<1>14. ASSUME NEW c \in Conns, ReadCrashed(c) PROVE Passing'
  <2>1. UNCHANGED <<log, cursor>> /\ \A d \in Conns : conn[d].st \in Over => conn'[d].st \in Over
    BY <1>14, <1>t DEF ReadCrashed, CloseDone, NoConnState, Over, ConnRecs
  <2>2. \A d \in Conns : d # c => loop'[d] = loop[d]
    BY <1>14, <1>t DEF ReadCrashed, CloseDone
  <2>3. loop'[c].st = loop[c].st /\ loop'[c].cur = loop[c].cur /\ loop'[c].batch = loop[c].batch
    BY <1>14, <1>t DEF ReadCrashed, CloseDone, LoopRecs
  <2>4. loop[c].st = "await" /\ active[c] = loop[c].cur
    BY <1>14 DEF ReadCrashed, SameRun, InRun
  <2>5. hist'.threw = hist.threw \cup {active[c]}
    BY <1>14, <1>t DEF ReadCrashed, HistRecs
  <2>6. Accounted(loop[c].cur)'
    BY <2>3, <2>4, <2>5 DEF Accounted
  <2>9. PassesOn(c)'
    BY <1>d, <2>1, <2>3, <2>6
  <2> QED BY <1>c, <1>d, <2>1, <2>2, <2>9 DEF Passing
<1>15. ASSUME NEW c \in Conns, ReadEnds(c) PROVE Passing'
  <2>1. /\ UNCHANGED <<log, cursor>>
        /\ \A d \in Conns : conn[d].st \in Over => conn'[d].st \in Over
        /\ conn'[c].st = "ended"
    BY <1>15, <1>t DEF ReadEnds, Over, ConnRecs
  <2>2. CASE active[c] = 0
    <3>1. UNCHANGED loop
      BY <1>15, <2>2 DEF ReadEnds
    <3> QED BY <1>c, <1>v, <2>1, <3>1
  <2>3. CASE active[c] # 0
    <3>1. /\ loop' = [loop EXCEPT ![c].done = TRUE]
          /\ hist' = [hist EXCEPT !.cut = @ \cup {active[c]}]
      BY <1>15, <2>3 DEF ReadEnds, CloseDone
    <3>2. \A d \in Conns : /\ loop'[d].st = loop[d].st /\ loop'[d].cur = loop[d].cur
                           /\ loop'[d].batch = loop[d].batch
                           /\ d # c => loop'[d].done = loop[d].done
      BY <1>t, <3>1 DEF LoopRecs
    <3>3. active[c] = loop[c].cur /\ active[c] \in hist'.cut
      BY <1>t, <2>3, <3>1 DEF SameRun, HistRecs
    <3>4. \A d \in Conns : PassesOn(d)'
      BY <1>d, <2>1, <3>2, <3>3 DEF Over
    <3> QED BY <1>c, <2>1, <3>4 DEF Passing
  <2> QED BY <2>2, <2>3
<1>16. ASSUME NEW c \in Conns, HandlerReturns(c) PROVE Passing'
  <2>1. UNCHANGED <<log, loop>>
    BY <1>16 DEF HandlerReturns
  <2>3. \A d \in Conns : conn[d].st \in Over => conn'[d].st \in Over
    BY <1>16, <1>t DEF HandlerReturns, Leave, NoConnState, Over, ConnRecs
  <2>4. UNCHANGED cursor
    BY <1>16 DEF HandlerReturns
  <2> QED BY <1>c, <1>v, <2>1, <2>3, <2>4
<1>17. ASSUME NEW c \in Conns, Poll(c) PROVE Passing'
  <2>1. UNCHANGED <<log, cursor, conn>>
    BY <1>17 DEF Poll
  <2>2. \A d \in Conns : d # c => loop'[d] = loop[d]
    BY <1>17, <1>t DEF Poll, Goes
  <2>3. loop[c].batch = {}
    BY <1>17 DEF Poll, Held, InRun
  <2>4. CASE loop' = [loop EXCEPT ![c] = [@ EXCEPT !.st = "read", !.code = rec.code,
                                                   !.cur = CursorRead]]
    <3>1. loop'[c].st = "read" /\ loop'[c].cur = CursorRead /\ loop'[c].batch = {}
      BY <1>t, <2>3, <2>4 DEF LoopRecs
    <3>2. PassesOn(c)'
      BY <1>y, <2>1, <3>1 DEF PassesOn, InRun, Wanted, Accounted
    <3> QED BY <1>c, <1>d, <2>1, <2>2, <3>2 DEF Passing
  <2>5. CASE loop' = [loop EXCEPT ![c].st = "wait"]
    <3>1. loop'[c].st = "wait" /\ loop'[c].batch = {}
      BY <1>t, <2>3, <2>5 DEF LoopRecs
    <3>2. PassesOn(c)'
      BY <1>q, <3>1 DEF InRun
    <3> QED BY <1>c, <1>d, <2>1, <2>2, <3>2 DEF Passing
  <2> QED BY <1>17, <2>4, <2>5 DEF Poll, Goes
<1>18. ASSUME NEW c \in Conns, ReadBatch(c) PROVE Passing'
  <2>1. UNCHANGED <<log, cursor>> /\ \A d \in Conns : conn[d].st \in Over => conn'[d].st \in Over
    BY <1>18, <1>t DEF ReadBatch, NoConnState, Over, ConnRecs
  <2>2. \A d \in Conns : d # c => loop'[d] = loop[d]
    BY <1>18, <1>t DEF ReadBatch
  <2>3. /\ loop[c].st = "read" /\ loop'[c].st = "batch"
        /\ loop'[c].batch = After(loop[c].code, loop[c].cur)
    BY <1>18, <1>t DEF ReadBatch, LoopRecs
  <2>4. loop[c].cur \in Int /\ loop[c].code \in Codes
    BY <1>i, <1>t, <2>3, LoopSteps DEF Held
  <2>5. /\ \A e \in loop'[c].batch : \A f \in log \cap Subscriptions(loop[c].code) :
              f > loop[c].cur /\ f < e => f \in loop'[c].batch
    BY <2>3, <2>4, AfterIsPrefix DEF Types, RowTypes
  <2>6. \A e \in log : Wanted(e) => e \in Subscriptions(loop[c].code)
    BY <2>4, ConstantTypes DEF Wanted, Subscriptions
  <2>7. \A e \in log : e <= loop[c].cur /\ Wanted(e) => Accounted(e)'
    BY <1>a, <2>3 DEF Passing, PassesOn
  <2>8. ASSUME NEW p \in loop'[c].batch, NEW e \in log, e < p, Wanted(e)
        PROVE  Accounted(e)' \/ Open(c, e)'
    <3>1. CASE e <= loop[c].cur
      BY <2>7, <2>8, <3>1
    <3>2. CASE e > loop[c].cur
      BY <2>5, <2>6, <2>8, <3>2 DEF Open
    <3> QED BY <1>i, <2>4, <3>1, <3>2
  <2>10. \A p \in loop'[c].batch : Behind(c, p)'
    BY <2>1, <2>8 DEF Behind, Wanted
  <2>9. PassesOn(c)'
    BY <2>3, <2>10 DEF PassesOn, InRun
  <2> QED BY <1>c, <1>d, <2>1, <2>2, <2>9 DEF Passing
<1>19. ASSUME NEW c \in Conns, BatchEnds(c) PROVE Passing'
  <2>1. UNCHANGED <<log, cursor>> /\ \A d \in Conns : conn[d].st \in Over => conn'[d].st \in Over
    BY <1>19, <1>t DEF BatchEnds, NoConnState, Over, ConnRecs
  <2>2. \A d \in Conns : d # c => loop'[d] = loop[d]
    BY <1>19, <1>t DEF BatchEnds
  <2>4. loop'[c].st \notin InRun \cup {"read"} /\ loop'[c].batch = {}
    BY <1>19, <1>t DEF BatchEnds, NoLoop, LoopRecs, InRun
  <2>9. PassesOn(c)'
    BY <1>q, <2>4
  <2> QED BY <1>c, <1>d, <2>1, <2>2, <2>9 DEF Passing
<1>20. ASSUME NEW c \in Conns, PassForeign(c) PROVE Passing'
  <2>1. UNCHANGED <<log, conn>> /\ loop[c].st = "batch"
    BY <1>20 DEF PassForeign
  <2>2. \A d \in Conns : d # c => loop'[d] = loop[d]
    BY <1>20, <1>t DEF PassForeign
  <2>3. PICK e \in loop[c].batch \cap Foreign :
           /\ ComesNext(c, e)
           /\ \/ /\ Advance(e)
                 /\ loop' = [loop EXCEPT ![c].batch = @ \ {e}]
                 /\ hist' = [hist EXCEPT !.strayed = IF ws[c] THEN @ ELSE @ \cup hist.cut]
              \/ /\ loop' = [loop EXCEPT ![c] = [NoLoop EXCEPT !.st = "wait"]]
                 /\ UNCHANGED cursor
    BY <1>20 DEF PassForeign
  <2>4. e \in log /\ e \in Int /\ ~Wanted(e) /\ loop[c].batch \subseteq log
    BY <1>i, <2>3 DEF Held, Wanted
  <2>5. CASE /\ Advance(e) /\ loop' = [loop EXCEPT ![c].batch = @ \ {e}]
             /\ hist' = [hist EXCEPT !.strayed = IF ws[c] THEN @ ELSE @ \cup hist.cut]
    <3>1. hist'.strayed = IF ws[c] THEN hist.strayed ELSE hist.strayed \cup hist.cut
      BY <1>t, <2>5 DEF HistRecs
    <3>2. ASSUME NEW f \in log, f <= e, Wanted(f) PROVE Accounted(f)'
      <4>1. f < e
        BY <1>i, <2>4, <3>2
      <4>2. f \notin loop[c].batch
        BY <1>i, <2>3, <2>4, <4>1 DEF ComesNext
      <4>3. Behind(c, e)
        BY <2>3 DEF Passing, PassesOn
      <4>4. Accounted(f) \/ (conn[c].st \in Over /\ f \in hist.cut)
        BY <2>1, <3>2, <4>1, <4>2, <4>3 DEF Behind, Open, InRun
      <4>5. conn[c].st \in Over => ~ws[c]
        BY DEF Sockets
      <4> QED BY <1>a, <3>1, <4>4, <4>5 DEF Accounted
    <3>3. PassedIsAccounted'
      BY <1>w, <2>1, <2>4, <2>5, <3>2
    <3>4. /\ loop'[c].st = "batch" /\ loop'[c].batch = loop[c].batch \ {e}
          /\ loop'[c].cur = loop[c].cur
      BY <1>t, <2>1, <2>5 DEF LoopRecs
    <3>5. ASSUME NEW f \in log, Open(c, f), Wanted(f) PROVE Open(c, f)'
      BY <1>g, <2>1, <2>4, <3>4, <3>5 DEF Open, InRun, Grows
    <3>6. \A p \in loop'[c].batch : Behind(c, p)
      BY <3>4 DEF Passing, PassesOn
    <3>7. \A p \in loop'[c].batch : Behind(c, p)'
      BY <1>b, <2>1, <3>5, <3>6
    <3>8. PassesOn(c)'
      BY <3>4, <3>7 DEF PassesOn, InRun
    <3> QED BY <1>d, <2>1, <2>2, <3>3, <3>8 DEF Passing
  <2>6. CASE loop' = [loop EXCEPT ![c] = [NoLoop EXCEPT !.st = "wait"]] /\ UNCHANGED cursor
    <3>1. loop'[c].st = "wait" /\ loop'[c].batch = {}
      BY <1>t, <2>6 DEF NoLoop
    <3>2. PassesOn(c)'
      BY <1>q, <3>1 DEF InRun
    <3> QED BY <1>c, <1>d, <2>1, <2>2, <2>6, <3>2 DEF Passing
  <2> QED BY <2>3, <2>5, <2>6
<1>21. ASSUME NEW c \in Conns, BeginRun(c) PROVE Passing'
  <2>1. UNCHANGED <<log, cursor>> /\ \A d \in Conns : conn[d].st \in Over => conn'[d].st \in Over
    BY <1>21, <1>t DEF BeginRun, NoConnState, Over, ConnRecs
  <2>2. \A d \in Conns : d # c => loop'[d] = loop[d]
    BY <1>21, <1>t DEF BeginRun
  <2>3. PICK e \in loop[c].batch \ Foreign :
           loop' = [loop EXCEPT ![c].st = "sending", ![c].batch = @ \ {e}, ![c].cur = e,
                                ![c].done = FALSE]
    BY <1>21 DEF BeginRun
  <2>4. /\ loop[c].st = "batch" /\ loop'[c].st = "sending" /\ loop'[c].cur = e
        /\ loop'[c].batch = loop[c].batch \ {e}
    BY <1>21, <1>t, <2>3 DEF BeginRun, LoopRecs
  <2>5. ASSUME NEW f \in log, Open(c, f) PROVE Open(c, f)'
    BY <1>g, <2>1, <2>4, <2>5 DEF Open, InRun, Grows
  <2>6. \A p \in loop[c].batch : Behind(c, p)
    BY DEF Passing, PassesOn
  <2>7. \A p \in loop[c].batch : Behind(c, p)'
    BY <1>b, <2>1, <2>5, <2>6
  <2>8. Behind(c, loop[c].cur)'
    BY <2>3, <2>4, <2>7 DEF Behind
  <2>9. PassesOn(c)'
    BY <2>4, <2>7, <2>8 DEF PassesOn
  <2> QED BY <1>c, <1>d, <2>1, <2>2, <2>9 DEF Passing
<1>22. ASSUME NEW c \in Conns, Send(c) PROVE Passing'
  <2>1. UNCHANGED <<log, cursor>> /\ \A d \in Conns : conn[d].st \in Over => conn'[d].st \in Over
    BY <1>22, <1>t DEF Send, NoConnState, Over, ConnRecs
  <2>2. \A d \in Conns : d # c => loop'[d] = loop[d]
    BY <1>22, <1>t DEF Send, Goes
  <2>3. /\ loop[c].st = "sending" /\ loop'[c].st = "await" /\ loop'[c].cur = loop[c].cur
        /\ loop'[c].batch = loop[c].batch /\ loop'[c].done = loop[c].done
    BY <1>22, <1>t DEF Send, Goes, LoopRecs
  <2>4. ~loop[c].done
    BY <1>22, <2>3 DEF Send, SameRun
  <2>9. PassesOn(c)'
    BY <1>d, <2>1, <2>3, <2>4 DEF InRun
  <2> QED BY <1>c, <1>d, <2>1, <2>2, <2>9 DEF Passing
<1>23. ASSUME NEW c \in Conns, SendFails(c) PROVE Passing'
  <2>1. UNCHANGED <<log, cursor>> /\ \A d \in Conns : conn[d].st \in Over => conn'[d].st \in Over
    BY <1>23, <1>t DEF SendFails, NoConnState, Over, ConnRecs
  <2>2. \A d \in Conns : d # c => loop'[d] = loop[d]
    BY <1>23, <1>t DEF SendFails, Stops
  <2>4. loop'[c].st \notin InRun \cup {"read"} /\ loop'[c].batch = {}
    BY <1>23, <1>t DEF SendFails, Stops, NoLoop, LoopRecs, InRun
  <2>9. PassesOn(c)'
    BY <1>q, <2>4
  <2> QED BY <1>c, <1>d, <2>1, <2>2, <2>9 DEF Passing
<1>24. ASSUME NEW c \in Conns, RunResolved(c) PROVE Passing'
  <2>1. UNCHANGED <<log, cursor>> /\ \A d \in Conns : conn[d].st \in Over => conn'[d].st \in Over
    BY <1>24, <1>t DEF RunResolved, NoConnState, Over, ConnRecs
  <2>2. \A d \in Conns : d # c => loop'[d] = loop[d]
    BY <1>24, <1>t DEF RunResolved
  <2>4. /\ loop[c].st = "await" /\ loop[c].done /\ loop'[c].st = "batch"
        /\ loop'[c].batch = loop[c].batch
    BY <1>24, <1>t DEF RunResolved, LoopRecs
  <2>5. Accounted(loop[c].cur) \/ (conn[c].st \in Over /\ loop[c].cur \in hist.cut)
    BY <2>4 DEF Passing, PassesOn
  <2>6. ASSUME NEW f \in log, Open(c, f) PROVE Open(c, f)' \/ Accounted(f)'
    BY <1>a, <1>g, <2>1, <2>4, <2>5, <2>6 DEF Open, InRun, Grows
  <2>7. \A p \in loop[c].batch : Behind(c, p)
    BY DEF Passing, PassesOn
  <2>8. \A p \in loop[c].batch : Behind(c, p)'
    BY <1>b, <2>1, <2>6, <2>7
  <2>9. PassesOn(c)'
    BY <2>4, <2>8 DEF PassesOn, InRun
  <2> QED BY <1>c, <1>d, <2>1, <2>2, <2>9 DEF Passing
<1>25. ASSUME NEW c \in Conns, WakesUp(c) PROVE Passing'
  <2>1. UNCHANGED <<log, cursor>> /\ \A d \in Conns : conn[d].st \in Over => conn'[d].st \in Over
    BY <1>25, <1>t DEF WakesUp, NoConnState, Over, ConnRecs
  <2>2. \A d \in Conns : d # c => loop'[d] = loop[d]
    BY <1>25, <1>t DEF WakesUp, Goes
  <2>3. loop[c].st = "wait" /\ loop[c].batch = {}
    BY <1>25 DEF WakesUp, Held, InRun
  <2>4. loop'[c].st \notin InRun \cup {"read"} /\ loop'[c].batch = {}
    BY <1>25, <1>t, <2>3 DEF WakesUp, Goes, LoopRecs, InRun
  <2>9. PassesOn(c)'
    BY <1>q, <2>4
  <2> QED BY <1>c, <1>d, <2>1, <2>2, <2>9 DEF Passing
<1>26. ASSUME NEW c \in Conns, LoopStops(c) PROVE Passing'
  <2>1. UNCHANGED <<log, cursor>> /\ \A d \in Conns : conn[d].st \in Over => conn'[d].st \in Over
    BY <1>26, <1>t DEF LoopStops, NoConnState, Over, ConnRecs
  <2>2. \A d \in Conns : d # c => loop'[d] = loop[d]
    BY <1>26, <1>t DEF LoopStops, Stops
  <2>4. loop'[c].st \notin InRun \cup {"read"} /\ loop'[c].batch = {}
    BY <1>26, <1>t DEF LoopStops, Stops, NoLoop, LoopRecs, InRun
  <2>9. PassesOn(c)'
    BY <1>q, <2>4
  <2> QED BY <1>c, <1>d, <2>1, <2>2, <2>9 DEF Passing
<1>27. ASSUME NEW c \in Conns, WorkerThrows(c) PROVE Passing'
  <2>1. UNCHANGED <<log, loop>>
    BY <1>27 DEF WorkerThrows
  <2>3. UNCHANGED conn
    BY <1>27 DEF WorkerThrows
  <2>4. UNCHANGED cursor
    BY <1>27 DEF WorkerThrows
  <2> QED BY <1>c, <1>v, <2>1, <2>3, <2>4
<1>28. ASSUME NEW c \in Conns, Drop(c) PROVE Passing'
  <2>1. UNCHANGED <<log, loop>>
    BY <1>28 DEF Drop
  <2>3. UNCHANGED conn
    BY <1>28 DEF Drop
  <2>4. UNCHANGED cursor
    BY <1>28 DEF Drop
  <2> QED BY <1>c, <1>v, <2>1, <2>3, <2>4
<1>29. ASSUME SwitchBegins PROVE Passing'
  <2>1. UNCHANGED <<log, loop>>
    BY <1>29 DEF SwitchBegins
  <2>3. UNCHANGED conn
    BY <1>29 DEF SwitchBegins
  <2>4. UNCHANGED cursor
    BY <1>29 DEF SwitchBegins
  <2> QED BY <1>c, <1>v, <2>1, <2>3, <2>4
<1>30. ASSUME SwitchSkips PROVE Passing'
  <2>1. UNCHANGED <<log, loop>>
    BY <1>30 DEF SwitchSkips
  <2>3. UNCHANGED conn
    BY <1>30 DEF SwitchSkips
  <2>4. Advance(admin.at) /\ admin.at \in Int /\ hist'.skipped = hist.skipped \cup 1..admin.at
    BY <1>30, <1>t, <1>i, ConnSteps DEF SwitchSkips, HistRecs, Types, CallTypes
  <2>5. \A e \in log : e <= admin.at => Accounted(e)'
    BY <1>i, <2>4 DEF Accounted
  <2>6. PassedIsAccounted'
    BY <1>w, <2>1, <2>4, <2>5
  <2> QED BY <1>v, <2>1, <2>3, <2>6
<1>31. ASSUME SwitchUpdates PROVE Passing'
  <2>1. UNCHANGED <<log, loop>>
    BY <1>31 DEF SwitchUpdates
  <2>3. UNCHANGED conn
    BY <1>31 DEF SwitchUpdates
  <2>4. UNCHANGED cursor
    BY <1>31 DEF SwitchUpdates
  <2> QED BY <1>c, <1>v, <2>1, <2>3, <2>4
<1>32. ASSUME ArchiveOrRestore PROVE Passing'
  <2>1. UNCHANGED <<log, loop>>
    BY <1>32 DEF ArchiveOrRestore
  <2>3. UNCHANGED conn
    BY <1>32 DEF ArchiveOrRestore
  <2>4. UNCHANGED cursor
    BY <1>32 DEF ArchiveOrRestore
  <2> QED BY <1>c, <1>v, <2>1, <2>3, <2>4
<1>33. ASSUME RestoreSkips PROVE Passing'
  <2>1. UNCHANGED <<log, loop>>
    BY <1>33 DEF RestoreSkips
  <2>3. UNCHANGED conn
    BY <1>33 DEF RestoreSkips
  <2>4. Advance(restore.at) /\ restore.at \in Int /\ hist'.skipped = hist.skipped \cup 1..restore.at
    BY <1>33, <1>t, <1>i, ConnSteps DEF RestoreSkips, HistRecs, Types, CallTypes
  <2>5. \A e \in log : e <= restore.at => Accounted(e)'
    BY <1>i, <2>4 DEF Accounted
  <2>6. PassedIsAccounted'
    BY <1>w, <2>1, <2>4, <2>5
  <2> QED BY <1>v, <2>1, <2>3, <2>6
<1>34. ASSUME Restart PROVE Passing'
  <2>1. UNCHANGED <<log, cursor>> /\ \A d \in Conns : loop'[d] = NoLoop
    BY <1>34 DEF Restart
  <2>2. \A d \in Conns : PassesOn(d)'
    BY <1>q, <2>1 DEF NoLoop, InRun
  <2> QED BY <1>c, <2>1, <2>2 DEF Passing
<1>35. CASE UNCHANGED <<hist, log, cursor, loop, conn>>
  BY <1>35, <1>c, <1>v
<1> QED BY <1>1, <1>2, <1>3, <1>4, <1>5, <1>6, <1>7, <1>8, <1>9, <1>10, <1>11, <1>12, <1>13,
   <1>14, <1>15, <1>16, <1>17, <1>18, <1>19, <1>20, <1>21, <1>22, <1>23, <1>24, <1>25, <1>26,
   <1>27, <1>28, <1>29, <1>30, <1>31, <1>32, <1>33, <1>34, <1>35 DEF Next, HandleConn,
   DeliverLoop, Worker, SetEnabled, Workspace, vars, WorkerFinishes, SwitchReadsLatest,
   SwitchFails, SwitchDisconnects, HandleWorkspaceArchived, RestoreReadsLatest,
   RestoreDisconnects, Close, Disconnect

(* Every step keeps what a connection recorded behind what it goes on with. *)
LEMMA RecordedNext == Types /\ Sockets /\ Held /\ SameRun /\ Recorded /\ [Next]_vars => Recorded'
<1> SUFFICES ASSUME Types, Sockets, Held, SameRun, Recorded, [Next]_vars PROVE Recorded'
  OBVIOUS
<1>t. /\ conn \in [Conns -> ConnRecs] /\ loop \in [Conns -> LoopRecs] /\ hist \in HistRecs
    /\ active \in [Conns -> Positions]
  BY DEF Types, SideTypes
<1>i. \A x \in log : x \in Int /\ x # 0
  BY DEF Types, RowTypes, Events
<1>m. cursor \in Int /\ cursor' \in Int /\ cursor' >= cursor
  BY CursorGrows
<1>l. \A x \in log : x \in log'
  BY CursorGrows
<1>r. \A d \in Conns : \A x \in hist.acked[d] :
         /\ x \in log' /\ x \in Int /\ x <= cursor /\ x <= cursor' /\ x # 0
         /\ loop[d].st = "read" => x <= loop[d].cur
         /\ x \notin loop[d].batch /\ x # active[d]
  <2>1. SUFFICES ASSUME NEW d \in Conns, NEW x \in hist.acked[d]
                 PROVE  x \in log' /\ x \in Int /\ x <= cursor /\ x <= cursor' /\ x # 0
    BY DEF Recorded
  <2>2. x \in log /\ x <= cursor
    BY DEF Recorded
  <2>3. x \in Int /\ x # 0 /\ x \in log'
    BY <1>i, <1>l, <2>2
  <2> QED BY <1>m, <2>2, <2>3
<1>q. ASSUME hist'.acked = hist.acked,
             \A d \in Conns : /\ loop'[d].st = "read" =>
                                    loop[d].st = "read" /\ loop'[d].cur = loop[d].cur
                              /\ loop'[d].batch \subseteq loop[d].batch
                              /\ active'[d] \in {active[d], 0}
      PROVE  Recorded'
  <2>1. SUFFICES ASSUME NEW d \in Conns, NEW x \in hist'.acked[d]
                 PROVE  /\ x \in log' /\ x <= cursor'
                        /\ loop'[d].st = "read" => x <= loop'[d].cur
                        /\ x \notin loop'[d].batch /\ x # active'[d]
    BY DEF Recorded
  <2>2. x \in hist.acked[d]
    BY <1>q
  <2> QED BY <1>q, <1>r, <2>2
<1>s. ASSUME UNCHANGED <<loop, active>>, hist'.acked = hist.acked PROVE Recorded'
  BY <1>q, <1>s
<1>1. ASSUME NEW e \in Events, Commit(e) PROVE Recorded'
  <2>1. hist'.acked = hist.acked
    BY <1>1, <1>t DEF Commit, HistRecs
  <2> QED BY <1>1, <1>s, <2>1 DEF Commit
<1>2. ASSUME NEW c \in Conns, SyncWrites(c) PROVE Recorded'
  <2>1. hist'.acked = hist.acked
    BY <1>2, <1>t DEF SyncWrites, HistRecs
  <2> QED BY <1>2, <1>s, <2>1 DEF SyncWrites
<1>3. ASSUME NEW c \in Conns, SyncFails(c) PROVE Recorded'
  <2>1. hist'.acked = hist.acked
    BY <1>3, <1>t DEF SyncFails, HistRecs, Failed
  <2> QED BY <1>3, <1>s, <2>1 DEF SyncFails
<1>4. ASSUME NEW c \in Conns, EnsureCursor(c) PROVE Recorded'
  <2>1. CASE hist' = [hist EXCEPT !.errs = @ + 1, !.faults = @ + 1]
    BY <1>4, <1>s, <1>t, <2>1 DEF EnsureCursor, HistRecs
  <2> QED BY <1>4, <1>s, <2>1 DEF EnsureCursor, Failed
<1>5. ASSUME NEW c \in Conns, SkipSets(c) PROVE Recorded'
  <2>1. hist'.acked = hist.acked
    BY <1>5, <1>t DEF SkipSets, HistRecs
  <2> QED BY <1>5, <1>s, <2>1 DEF SkipSets
<1>6. ASSUME NEW c \in Conns, Hello(c) PROVE Recorded'
  <2>1. hist'.acked = hist.acked
    BY <1>6 DEF Hello
  <2>2. \A d \in Conns : /\ loop'[d].st = "read" =>
                               loop[d].st = "read" /\ loop'[d].cur = loop[d].cur
                         /\ loop'[d].batch \subseteq loop[d].batch
    BY <1>6, <1>t DEF Hello, LoopRecs
  <2>3. \A d \in Conns : active'[d] \in {active[d], 0}
    BY <1>6, <1>t DEF Hello
  <2> QED BY <1>q, <2>1, <2>2, <2>3
<1>7. ASSUME NEW c \in Conns, ReadFinished(c) PROVE Recorded'
  <2>1. hist'.acked = hist.acked
    BY <1>7, <1>t DEF ReadFinished, HistRecs
  <2>2. \A d \in Conns : /\ loop'[d].st = "read" =>
                               loop[d].st = "read" /\ loop'[d].cur = loop[d].cur
                         /\ loop'[d].batch \subseteq loop[d].batch
    BY <1>7, <1>t DEF ReadFinished, LoopRecs
  <2>3. \A d \in Conns : active'[d] \in {active[d], 0}
    BY <1>7, <1>t DEF ReadFinished
  <2> QED BY <1>q, <2>1, <2>2, <2>3
<1>8. ASSUME NEW c \in Conns, AdvanceCursor(c) PROVE Recorded'
  <2>1. /\ conn[c].at \in log /\ loop[c].st = "await" /\ conn[c].at = loop[c].cur /\ active[c] = 0
        /\ \A b \in loop[c].batch : conn[c].at < b
    BY <1>8 DEF AdvanceCursor, SameRun, Held, InRun
  <2>2. \A d \in Conns : /\ loop'[d].st = loop[d].st /\ loop'[d].cur = loop[d].cur
                         /\ loop'[d].batch = loop[d].batch
    BY <1>8, <1>t DEF AdvanceCursor, CloseDone, LoopRecs
  <2>3. UNCHANGED <<log, active>>
    BY <1>8 DEF AdvanceCursor
  <2>4. CASE hist' = [hist EXCEPT !.errs = @ + 1, !.faults = @ + 1]
    <3>1. hist'.acked = hist.acked
      BY <1>t, <2>4 DEF HistRecs
    <3> QED BY <1>q, <2>2, <2>3, <3>1
  <2>5. CASE Advance(conn[c].at) /\ hist' = [hist EXCEPT !.acked[c] = @ \cup {conn[c].at}]
    <3>1. \A d \in Conns : hist'.acked[d] = IF d = c THEN hist.acked[d] \cup {conn[c].at}
                                                     ELSE hist.acked[d]
      BY <1>t, <2>5 DEF HistRecs
    <3>2. conn[c].at <= cursor'
      BY <1>i, <1>m, <2>1, <2>5 DEF Advance
    <3>3. conn[c].at \notin loop[c].batch /\ conn[c].at # 0
      <4>1. conn[c].at \in Int /\ conn[c].at # 0
        BY <1>i, <2>1
      <4> QED BY <2>1, <4>1
    <3>4. SUFFICES ASSUME NEW d \in Conns, NEW x \in hist'.acked[d]
                   PROVE  /\ x \in log' /\ x <= cursor'
                          /\ loop'[d].st = "read" => x <= loop'[d].cur
                          /\ x \notin loop'[d].batch /\ x # active'[d]
      BY DEF Recorded
    <3>5. CASE x \in hist.acked[d]
      BY <1>r, <2>2, <2>3, <3>5
    <3>6. CASE d = c /\ x = conn[c].at
      BY <2>1, <2>2, <2>3, <3>2, <3>3, <3>6
    <3> QED BY <3>1, <3>5, <3>6
  <2> QED BY <1>8, <2>4, <2>5 DEF AdvanceCursor, Failed
<1>9. ASSUME NEW c \in Conns, ReadCrashed(c) PROVE Recorded'
  <2>1. hist'.acked = hist.acked
    BY <1>9, <1>t DEF ReadCrashed, HistRecs
  <2>2. \A d \in Conns : /\ loop'[d].st = "read" =>
                               loop[d].st = "read" /\ loop'[d].cur = loop[d].cur
                         /\ loop'[d].batch \subseteq loop[d].batch
    BY <1>9, <1>t DEF ReadCrashed, CloseDone, LoopRecs
  <2>3. \A d \in Conns : active'[d] \in {active[d], 0}
    BY <1>9, <1>t DEF ReadCrashed
  <2> QED BY <1>q, <2>1, <2>2, <2>3
<1>10. ASSUME NEW c \in Conns, ReadEnds(c) PROVE Recorded'
  <2>1. hist'.acked = hist.acked
    <3>1. CASE hist' = [hist EXCEPT !.cut = @ \cup {active[c]}]
      BY <1>t, <3>1 DEF HistRecs
    <3> QED BY <1>10, <3>1 DEF ReadEnds
  <2>4. loop' = loop \/ loop' = [loop EXCEPT ![c].done = TRUE]
    BY <1>10 DEF ReadEnds, CloseDone
  <2>2. \A d \in Conns : /\ loop'[d].st = "read" =>
                               loop[d].st = "read" /\ loop'[d].cur = loop[d].cur
                         /\ loop'[d].batch \subseteq loop[d].batch
    BY <1>t, <2>4 DEF LoopRecs
  <2>3. \A d \in Conns : active'[d] \in {active[d], 0}
    BY <1>10, <1>t DEF ReadEnds
  <2> QED BY <1>q, <2>1, <2>2, <2>3
<1>11. ASSUME NEW c \in Conns, Poll(c) PROVE Recorded'
  <2>1. hist'.acked = hist.acked
    <3>1. CASE hist' = [hist EXCEPT !.errs = @ + 1, !.faults = @ + 1]
      BY <1>t, <3>1 DEF HistRecs
    <3> QED BY <1>11, <3>1 DEF Poll, Failed
  <2>2. UNCHANGED <<log, cursor, active>>
    BY <1>11 DEF Poll
  <2>3. CASE loop' = [loop EXCEPT ![c] = [@ EXCEPT !.st = "read", !.code = rec.code,
                                                   !.cur = CursorRead]]
    <3>1. \A d \in Conns : /\ loop'[d].batch = loop[d].batch
                           /\ loop'[d].st = (IF d = c THEN "read" ELSE loop[d].st)
                           /\ loop'[d].cur = IF d = c THEN CursorRead ELSE loop[d].cur
      BY <1>t, <2>3 DEF LoopRecs
    <3>2. cursor <= CursorRead
      BY <1>m, ConstantTypes DEF CursorRead, NoRow
    <3>3. CursorRead \in Int
      BY <1>m DEF CursorRead
    <3>4. SUFFICES ASSUME NEW d \in Conns, NEW x \in hist'.acked[d]
                   PROVE  /\ x \in log' /\ x <= cursor'
                          /\ loop'[d].st = "read" => x <= loop'[d].cur
                          /\ x \notin loop'[d].batch /\ x # active'[d]
      BY DEF Recorded
    <3>5. x \in hist.acked[d] /\ x <= CursorRead
      BY <1>m, <1>r, <2>1, <3>2, <3>3
    <3> QED BY <1>r, <2>2, <3>1, <3>5
  <2>4. CASE loop' = [loop EXCEPT ![c].st = "wait"]
    <3>1. \A d \in Conns : /\ loop'[d].batch = loop[d].batch /\ loop'[d].cur = loop[d].cur
                           /\ loop'[d].st = IF d = c THEN "wait" ELSE loop[d].st
      BY <1>t, <2>4 DEF LoopRecs
    <3> QED BY <1>q, <2>1, <2>2, <3>1
  <2> QED BY <1>11, <2>3, <2>4 DEF Poll, Goes
<1>12. ASSUME NEW c \in Conns, ReadBatch(c) PROVE Recorded'
  <2>1. UNCHANGED <<log, cursor, active, hist>>
    BY <1>12 DEF ReadBatch
  <2>2. \A d \in Conns : d # c => loop'[d] = loop[d]
    BY <1>12, <1>t DEF ReadBatch
  <2>3. /\ loop[c].st = "read" /\ loop'[c].st = "batch"
        /\ loop'[c].batch = After(loop[c].code, loop[c].cur)
    BY <1>12, <1>t DEF ReadBatch, LoopRecs
  <2>4. loop[c].cur \in Int
    <3>1. loop[c].cur \in log \cup {0}
      BY DEF Held
    <3> QED BY <1>i, <3>1
  <2>5. \A e \in loop'[c].batch : e > loop[c].cur
    BY <1>t, <2>3, <2>4, AfterIsPrefix DEF Types, RowTypes
  <2>6. \A x \in hist.acked[c] : x \notin loop'[c].batch
    <3>1. \A x \in hist.acked[c] : x <= loop[c].cur /\ x \in Int
      BY <1>r, <2>3
    <3> QED BY <2>4, <2>5, <3>1
  <2> QED BY <2>1, <2>2, <2>3, <2>6 DEF Recorded
<1>13. ASSUME NEW c \in Conns, BatchEnds(c) PROVE Recorded'
  <2>1. hist'.acked = hist.acked
    BY <1>13 DEF BatchEnds
  <2>2. \A d \in Conns : /\ loop'[d].st = "read" =>
                               loop[d].st = "read" /\ loop'[d].cur = loop[d].cur
                         /\ loop'[d].batch \subseteq loop[d].batch
    BY <1>13, <1>t DEF BatchEnds, NoLoop, LoopRecs
  <2>3. \A d \in Conns : active'[d] \in {active[d], 0}
    BY <1>13, <1>t DEF BatchEnds
  <2> QED BY <1>q, <2>1, <2>2, <2>3
<1>14. ASSUME NEW c \in Conns, PassForeign(c) PROVE Recorded'
  <2>1. hist'.acked = hist.acked
    <3>1. CASE hist' = [hist EXCEPT !.strayed = IF ws[c] THEN @ ELSE @ \cup hist.cut]
      BY <1>t, <3>1 DEF HistRecs
    <3>2. CASE hist' = [hist EXCEPT !.errs = @ + 1, !.faults = @ + 1]
      BY <1>t, <3>2 DEF HistRecs
    <3> QED BY <1>14, <3>1, <3>2 DEF PassForeign, Failed
  <2>2. \A d \in Conns : /\ loop'[d].st = "read" =>
                               loop[d].st = "read" /\ loop'[d].cur = loop[d].cur
                         /\ loop'[d].batch \subseteq loop[d].batch
    BY <1>14, <1>t DEF PassForeign, NoLoop, LoopRecs
  <2>3. \A d \in Conns : active'[d] \in {active[d], 0}
    BY <1>14, <1>t DEF PassForeign
  <2> QED BY <1>q, <2>1, <2>2, <2>3
<1>15. ASSUME NEW c \in Conns, BeginRun(c) PROVE Recorded'
  <2>1. UNCHANGED <<log, cursor, hist>>
    BY <1>15 DEF BeginRun
  <2>2. PICK e \in loop[c].batch : /\ active' = [active EXCEPT ![c] = e]
                                   /\ loop' = [loop EXCEPT ![c].st = "sending",
                                         ![c].batch = @ \ {e}, ![c].cur = e, ![c].done = FALSE]
    BY <1>15 DEF BeginRun
  <2>3. \A d \in Conns : d # c => loop'[d] = loop[d] /\ active'[d] = active[d]
    BY <1>t, <2>2
  <2>4. loop'[c].st = "sending" /\ loop'[c].batch \subseteq loop[c].batch /\ active'[c] = e
    BY <1>t, <2>2 DEF LoopRecs
  <2>5. SUFFICES ASSUME NEW d \in Conns, NEW x \in hist'.acked[d]
                 PROVE  /\ x \in log' /\ x <= cursor'
                        /\ loop'[d].st = "read" => x <= loop'[d].cur
                        /\ x \notin loop'[d].batch /\ x # active'[d]
    BY DEF Recorded
  <2>6. x \in hist.acked[d]
    BY <2>1
  <2>7. e \notin hist.acked[c]
    BY <1>r, <2>2
  <2>8. CASE d = c
    BY <1>r, <2>1, <2>4, <2>6, <2>7, <2>8
  <2>9. CASE d # c
    BY <1>r, <2>1, <2>3, <2>6, <2>9
  <2> QED BY <2>8, <2>9
<1>16. ASSUME NEW c \in Conns, Send(c) PROVE Recorded'
  <2>1. hist'.acked = hist.acked
    BY <1>16, <1>t DEF Send, HistRecs
  <2>2. \A d \in Conns : /\ loop'[d].st = "read" =>
                               loop[d].st = "read" /\ loop'[d].cur = loop[d].cur
                         /\ loop'[d].batch \subseteq loop[d].batch
    BY <1>16, <1>t DEF Send, Goes, LoopRecs
  <2>3. \A d \in Conns : active'[d] \in {active[d], 0}
    BY <1>16, <1>t DEF Send
  <2> QED BY <1>q, <2>1, <2>2, <2>3
<1>17. ASSUME NEW c \in Conns, SendFails(c) PROVE Recorded'
  <2>1. hist'.acked = hist.acked
    BY <1>17 DEF SendFails
  <2>2. \A d \in Conns : /\ loop'[d].st = "read" =>
                               loop[d].st = "read" /\ loop'[d].cur = loop[d].cur
                         /\ loop'[d].batch \subseteq loop[d].batch
    BY <1>17, <1>t DEF SendFails, Stops, NoLoop, LoopRecs
  <2>3. \A d \in Conns : active'[d] \in {active[d], 0}
    BY <1>17, <1>t DEF SendFails
  <2> QED BY <1>q, <2>1, <2>2, <2>3
<1>18. ASSUME NEW c \in Conns, RunResolved(c) PROVE Recorded'
  <2>1. hist'.acked = hist.acked
    BY <1>18 DEF RunResolved
  <2>2. \A d \in Conns : /\ loop'[d].st = "read" =>
                               loop[d].st = "read" /\ loop'[d].cur = loop[d].cur
                         /\ loop'[d].batch \subseteq loop[d].batch
    BY <1>18, <1>t DEF RunResolved, LoopRecs
  <2>3. \A d \in Conns : active'[d] \in {active[d], 0}
    BY <1>18, <1>t DEF RunResolved
  <2> QED BY <1>q, <2>1, <2>2, <2>3
<1>19. ASSUME NEW c \in Conns, WakesUp(c) PROVE Recorded'
  <2>1. hist'.acked = hist.acked
    BY <1>19 DEF WakesUp
  <2>2. \A d \in Conns : /\ loop'[d].st = "read" =>
                               loop[d].st = "read" /\ loop'[d].cur = loop[d].cur
                         /\ loop'[d].batch \subseteq loop[d].batch
    BY <1>19, <1>t DEF WakesUp, Goes, LoopRecs
  <2>3. \A d \in Conns : active'[d] \in {active[d], 0}
    BY <1>19, <1>t DEF WakesUp
  <2> QED BY <1>q, <2>1, <2>2, <2>3
<1>20. ASSUME NEW c \in Conns, LoopStops(c) PROVE Recorded'
  <2>1. hist'.acked = hist.acked
    BY <1>20 DEF LoopStops
  <2>2. \A d \in Conns : /\ loop'[d].st = "read" =>
                               loop[d].st = "read" /\ loop'[d].cur = loop[d].cur
                         /\ loop'[d].batch \subseteq loop[d].batch
    BY <1>20, <1>t DEF LoopStops, Stops, NoLoop, LoopRecs
  <2>3. \A d \in Conns : active'[d] \in {active[d], 0}
    BY <1>20, <1>t DEF LoopStops
  <2> QED BY <1>q, <2>1, <2>2, <2>3
<1>21. ASSUME NEW c \in Conns, WorkerThrows(c) PROVE Recorded'
  <2>1. hist'.acked = hist.acked
    BY <1>21, <1>t DEF WorkerThrows, HistRecs
  <2> QED BY <1>21, <1>s, <2>1 DEF WorkerThrows
<1>22. ASSUME NEW c \in Conns, Drop(c) PROVE Recorded'
  <2>1. hist'.acked = hist.acked
    BY <1>22, <1>t DEF Drop, HistRecs
  <2> QED BY <1>22, <1>s, <2>1 DEF Drop
<1>23. ASSUME SwitchBegins PROVE Recorded'
  <2>1. hist'.acked = hist.acked
    BY <1>23, <1>t DEF SwitchBegins, HistRecs
  <2> QED BY <1>23, <1>s, <2>1 DEF SwitchBegins
<1>24. ASSUME SwitchSkips PROVE Recorded'
  <2>1. hist'.acked = hist.acked
    BY <1>24, <1>t DEF SwitchSkips, HistRecs
  <2> QED BY <1>24, <1>s, <2>1 DEF SwitchSkips
<1>25. ASSUME SwitchUpdates PROVE Recorded'
  <2>1. hist'.acked = hist.acked
    BY <1>25, <1>t DEF SwitchUpdates, HistRecs
  <2> QED BY <1>25, <1>s, <2>1 DEF SwitchUpdates
<1>26. ASSUME ArchiveOrRestore PROVE Recorded'
  <2>1. hist'.acked = hist.acked
    BY <1>26, <1>t DEF ArchiveOrRestore, HistRecs
  <2> QED BY <1>26, <1>s, <2>1 DEF ArchiveOrRestore
<1>27. ASSUME RestoreSkips PROVE Recorded'
  <2>1. hist'.acked = hist.acked
    BY <1>27, <1>t DEF RestoreSkips, HistRecs
  <2> QED BY <1>27, <1>s, <2>1 DEF RestoreSkips
<1>28. ASSUME Restart PROVE Recorded'
  <2>1. hist'.acked = hist.acked
    BY <1>28, <1>t DEF Restart, HistRecs
  <2>2. \A d \in Conns : /\ loop'[d].st = "read" =>
                               loop[d].st = "read" /\ loop'[d].cur = loop[d].cur
                         /\ loop'[d].batch \subseteq loop[d].batch
    BY <1>28, <1>t DEF Restart, NoLoop, LoopRecs
  <2>3. \A d \in Conns : active'[d] \in {active[d], 0}
    BY <1>28, <1>t DEF Restart
  <2> QED BY <1>q, <2>1, <2>2, <2>3
<1>29. CASE UNCHANGED <<hist, log, cursor, loop, active>>
  BY <1>29, <1>s
<1> QED BY <1>1, <1>2, <1>3, <1>4, <1>5, <1>6, <1>7, <1>8, <1>9, <1>10, <1>11, <1>12, <1>13,
   <1>14, <1>15, <1>16, <1>17, <1>18, <1>19, <1>20, <1>21, <1>22, <1>23, <1>24, <1>25, <1>26,
   <1>27, <1>28, <1>29 DEF Next, HandleConn, DeliverLoop, Worker, SetEnabled, Workspace, vars,
   Register, SyncReads, AnnounceFails, SkipReads, HelloFails, HandlerReturns, WorkerFinishes,
   SwitchReadsLatest, SwitchFails, SwitchDisconnects, HandleWorkspaceArchived, RestoreReadsLatest,
   RestoreDisconnects, Close, Disconnect, Leave

(* Every step keeps the loop awake over what it has not read. *)
LEMMA AwakeNext == Types /\ SameRun /\ Awake /\ [Next]_vars => Awake'
<1> SUFFICES ASSUME Types, SameRun, Awake, [Next]_vars PROVE Awake'
  OBVIOUS
<1>t. /\ loop \in [Conns -> LoopRecs] /\ hist \in HistRecs
    /\ woken \in [Conns -> BOOLEAN] /\ hist.errs \in Nat
  BY HistFields DEF Types, SideTypes
<1>h. hist'.errs = 0 => hist.errs = 0
  BY HistGrows DEF Grows
<1>e. ASSUME hist' = [hist EXCEPT !.errs = @ + 1, !.faults = @ + 1] PROVE Awake'
  <2>1. hist'.errs = hist.errs + 1
    BY <1>t, <1>e DEF HistRecs
  <2>2. hist'.errs # 0
    BY <1>t, <2>1
  <2> QED BY <2>2 DEF Awake
<1>n. ASSUME \A d \in Conns : woken'[d] <=> loop[d].st # "off",
             \A d \in Conns : loop'[d].st = loop[d].st
      PROVE  Awake'
  BY <1>n DEF Awake
<1>r. ASSUME UNCHANGED <<log, rec, archived, cursor>>
      PROVE  /\ After(rec.code, CursorRead)' = After(rec.code, CursorRead)
             /\ CursorRead' = CursorRead /\ Runs' = Runs
  BY <1>r DEF After, CursorRead, Subscriptions, Runs
<1>s. ASSUME UNCHANGED <<log, rec, archived, cursor, woken>>,
             \A d \in Conns : \/ loop'[d].st \notin {"read", "batch", "wait"} \/ woken[d]
                              \/ /\ loop'[d].st = loop[d].st /\ loop'[d].code = loop[d].code
                                 /\ loop'[d].cur = loop[d].cur /\ loop'[d].batch = loop[d].batch
      PROVE  Awake'
  BY <1>h, <1>r, <1>s DEF Awake
<1>u. ASSUME UNCHANGED <<log, rec, archived, cursor, woken, loop>> PROVE Awake'
  BY <1>s, <1>u
<1>1. ASSUME NEW e \in Events, Commit(e) PROVE Awake'
  <2>1. \A d \in Conns : woken'[d] <=> loop[d].st # "off"
    BY <1>1 DEF Commit, Notify
  <2>2. UNCHANGED loop
    BY <1>1 DEF Commit
  <2> QED BY <1>n, <2>1, <2>2
<1>2. ASSUME NEW c \in Conns, SyncWrites(c) PROVE Awake'
  <2>1. \A d \in Conns : woken'[d] <=> loop[d].st # "off"
    BY <1>2 DEF SyncWrites, Notify
  <2>2. UNCHANGED loop
    BY <1>2 DEF SyncWrites
  <2> QED BY <1>n, <2>1, <2>2
<1>3. ASSUME NEW c \in Conns, SyncFails(c) PROVE Awake'
  BY <1>3, <1>u DEF SyncFails
<1>4. ASSUME NEW c \in Conns, EnsureCursor(c) PROVE Awake'
  BY <1>4, <1>u DEF EnsureCursor
<1>5. ASSUME NEW c \in Conns, SkipSets(c) PROVE Awake'
  <2>1. \A d \in Conns : woken'[d] <=> loop[d].st # "off"
    BY <1>5 DEF SkipSets, Notify
  <2>2. UNCHANGED loop
    BY <1>5 DEF SkipSets
  <2> QED BY <1>n, <2>1, <2>2
<1>6. ASSUME NEW c \in Conns, Hello(c) PROVE Awake'
  <2>1. \A d \in Conns : loop'[d].st \notin {"read", "batch", "wait"} \/ loop'[d] = loop[d]
    BY <1>6, <1>t DEF Hello, LoopRecs
  <2> QED BY <1>6, <1>s, <2>1 DEF Hello
<1>7. ASSUME NEW c \in Conns, ReadFinished(c) PROVE Awake'
  <2>1. \A d \in Conns : woken'[d] <=> loop[d].st # "off"
    BY <1>7 DEF ReadFinished, Notify
  <2>2. UNCHANGED loop
    BY <1>7 DEF ReadFinished
  <2> QED BY <1>n, <2>1, <2>2
<1>8. ASSUME NEW c \in Conns, AdvanceCursor(c) PROVE Awake'
  <2>1. CASE hist' = [hist EXCEPT !.errs = @ + 1, !.faults = @ + 1]
    BY <1>e, <2>1
  <2>2. CASE Notify
    <3>1. \A d \in Conns : loop'[d].st = loop[d].st
      BY <1>8, <1>t DEF AdvanceCursor, CloseDone, LoopRecs
    <3> QED BY <1>n, <2>2, <3>1 DEF Notify
  <2> QED BY <1>8, <2>1, <2>2 DEF AdvanceCursor, Failed
<1>9. ASSUME NEW c \in Conns, ReadCrashed(c) PROVE Awake'
  <2>1. \A d \in Conns : woken'[d] <=> loop[d].st # "off"
    BY <1>9 DEF ReadCrashed, Notify
  <2>2. \A d \in Conns : loop'[d].st = loop[d].st
    BY <1>9, <1>t DEF ReadCrashed, CloseDone, LoopRecs
  <2> QED BY <1>n, <2>1, <2>2
<1>10. ASSUME NEW c \in Conns, ReadEnds(c) PROVE Awake'
  <2>1. CASE active[c] = 0
    BY <1>10, <1>u, <2>1 DEF ReadEnds
  <2>2. CASE active[c] # 0
    <3>1. loop' = [loop EXCEPT ![c].done = TRUE] /\ Notify
      BY <1>10, <2>2 DEF ReadEnds, CloseDone
    <3>2. \A d \in Conns : loop'[d].st = loop[d].st
      BY <1>t, <3>1 DEF LoopRecs
    <3> QED BY <1>n, <3>1, <3>2 DEF Notify
  <2> QED BY <2>1, <2>2
<1>11. ASSUME NEW c \in Conns, Poll(c) PROVE Awake'
  <2>1. \A d \in Conns : d # c => loop'[d] = loop[d] /\ woken'[d] = woken[d]
    BY <1>11, <1>t DEF Poll, Goes
  <2>2. UNCHANGED <<log, rec, archived, cursor>>
    BY <1>11 DEF Poll
  <2>3. CASE hist' = [hist EXCEPT !.errs = @ + 1, !.faults = @ + 1]
    BY <1>e, <2>3
  <2>4. CASE loop' = [loop EXCEPT ![c] = [@ EXCEPT !.st = "read", !.code = rec.code,
                                                   !.cur = CursorRead]]
    <3>1. loop'[c].st = "read" /\ loop'[c].code = rec.code /\ loop'[c].cur = CursorRead
      BY <1>11, <1>t, <2>4 DEF Poll, LoopRecs
    <3> QED BY <1>h, <1>r, <2>1, <2>2, <3>1 DEF Awake
  <2>5. CASE loop' = [loop EXCEPT ![c].st = "wait"] /\ ~(Runs /\ Subscriptions(rec.code) # {})
    <3>1. loop'[c].st = "wait"
      BY <1>t, <2>5 DEF LoopRecs
    <3>2. Runs => After(rec.code, CursorRead) = {}
      BY <2>5 DEF After
    <3> QED BY <1>h, <1>r, <2>1, <2>2, <3>1, <3>2 DEF Awake
  <2> QED BY <1>11, <2>3, <2>4, <2>5 DEF Poll, Failed, Goes
<1>12. ASSUME NEW c \in Conns, ReadBatch(c) PROVE Awake'
  <2>1. \A d \in Conns : d # c => loop'[d] = loop[d]
    BY <1>12, <1>t DEF ReadBatch
  <2>2. UNCHANGED <<log, rec, archived, cursor, woken>>
    BY <1>12 DEF ReadBatch
  <2>3. /\ loop[c].st = "read" /\ loop'[c].st = "batch"
        /\ loop'[c].batch = After(loop[c].code, loop[c].cur)
    BY <1>12, <1>t DEF ReadBatch, LoopRecs
  <2>4. hist.errs = 0 /\ ~woken[c] => loop'[c].batch = After(rec.code, CursorRead)
    BY <2>3 DEF Awake
  <2> QED BY <1>h, <1>r, <2>1, <2>2, <2>3, <2>4 DEF Awake
<1>13. ASSUME NEW c \in Conns, BatchEnds(c) PROVE Awake'
  <2>1. \A d \in Conns : d # c => loop'[d] = loop[d]
    BY <1>13, <1>t DEF BatchEnds
  <2>2. UNCHANGED <<log, rec, archived, cursor, woken>>
    BY <1>13 DEF BatchEnds
  <2>3. loop[c].st = "batch" /\ loop'[c].st = "wait" /\ (loop[c].batch = {} \/ ~Runs)
    BY <1>13, <1>t DEF BatchEnds, NoLoop
  <2>4. hist.errs = 0 /\ ~woken[c] /\ Runs => After(rec.code, CursorRead) = {}
    BY <2>3 DEF Awake
  <2> QED BY <1>h, <1>r, <2>1, <2>2, <2>3, <2>4 DEF Awake
<1>14. ASSUME NEW c \in Conns, PassForeign(c) PROVE Awake'
  <2>1. CASE hist' = [hist EXCEPT !.errs = @ + 1, !.faults = @ + 1]
    BY <1>e, <2>1
  <2>2. ASSUME NEW e, Notify, loop' = [loop EXCEPT ![c].batch = @ \ {e}] PROVE Awake'
    <3>1. \A d \in Conns : loop'[d].st = loop[d].st
      BY <1>t, <2>2 DEF LoopRecs
    <3>2. \A d \in Conns : woken'[d] <=> loop[d].st # "off"
      BY <2>2 DEF Notify
    <3> QED BY <1>n, <3>1, <3>2
  <2> QED BY <1>14, <2>1, <2>2 DEF PassForeign, Failed
<1>15. ASSUME NEW c \in Conns, BeginRun(c) PROVE Awake'
  <2>1. \A d \in Conns : loop'[d].st \notin {"read", "batch", "wait"} \/ loop'[d] = loop[d]
    BY <1>15, <1>t DEF BeginRun, LoopRecs
  <2> QED BY <1>15, <1>s, <2>1 DEF BeginRun
<1>16. ASSUME NEW c \in Conns, Send(c) PROVE Awake'
  <2>1. \A d \in Conns : loop'[d].st \notin {"read", "batch", "wait"} \/ loop'[d] = loop[d]
    BY <1>16, <1>t DEF Send, Goes, LoopRecs
  <2> QED BY <1>16, <1>s, <2>1 DEF Send
<1>17. ASSUME NEW c \in Conns, SendFails(c) PROVE Awake'
  <2>1. \A d \in Conns : loop'[d].st \notin {"read", "batch", "wait"} \/ loop'[d] = loop[d]
    BY <1>17, <1>t DEF SendFails, Stops, NoLoop, LoopRecs
  <2> QED BY <1>17, <1>s, <2>1 DEF SendFails
<1>18. ASSUME NEW c \in Conns, RunResolved(c) PROVE Awake'
  <2>1. woken[c]
    BY <1>18 DEF RunResolved, SameRun
  <2>2. \A d \in Conns : d # c => loop'[d] = loop[d]
    BY <1>18, <1>t DEF RunResolved
  <2> QED BY <1>18, <1>s, <2>1, <2>2 DEF RunResolved
<1>19. ASSUME NEW c \in Conns, WakesUp(c) PROVE Awake'
  <2>1. \A d \in Conns : loop'[d].st \notin {"read", "batch", "wait"} \/ loop'[d] = loop[d]
    BY <1>19, <1>t DEF WakesUp, Goes, LoopRecs
  <2> QED BY <1>19, <1>s, <2>1 DEF WakesUp
<1>20. ASSUME NEW c \in Conns, LoopStops(c) PROVE Awake'
  <2>1. \A d \in Conns : d # c => loop'[d] = loop[d] /\ woken'[d] = woken[d]
    BY <1>20, <1>t DEF LoopStops, Stops
  <2>2. loop'[c].st = "off"
    BY <1>20, <1>t DEF LoopStops, Stops, NoLoop
  <2>3. UNCHANGED <<log, rec, archived, cursor>>
    BY <1>20 DEF LoopStops
  <2> QED BY <1>h, <1>r, <2>1, <2>2, <2>3 DEF Awake
<1>21. ASSUME NEW c \in Conns, WorkerThrows(c) PROVE Awake'
  BY <1>21, <1>u DEF WorkerThrows
<1>22. ASSUME NEW c \in Conns, Drop(c) PROVE Awake'
  BY <1>22, <1>u DEF Drop
<1>23. ASSUME SwitchBegins PROVE Awake'
  BY <1>23, <1>u DEF SwitchBegins
<1>24. ASSUME SwitchSkips PROVE Awake'
  <2>1. \A d \in Conns : woken'[d] <=> loop[d].st # "off"
    BY <1>24 DEF SwitchSkips, Notify
  <2>2. UNCHANGED loop
    BY <1>24 DEF SwitchSkips
  <2> QED BY <1>n, <2>1, <2>2
<1>25. ASSUME SwitchUpdates PROVE Awake'
  <2>1. \A d \in Conns : woken'[d] <=> loop[d].st # "off"
    BY <1>25 DEF SwitchUpdates, Notify
  <2>2. UNCHANGED loop
    BY <1>25 DEF SwitchUpdates
  <2> QED BY <1>n, <2>1, <2>2
<1>26. ASSUME ArchiveOrRestore PROVE Awake'
  <2>1. \A d \in Conns : woken'[d] <=> loop[d].st # "off"
    BY <1>26 DEF ArchiveOrRestore, Notify
  <2>2. UNCHANGED loop
    BY <1>26 DEF ArchiveOrRestore
  <2> QED BY <1>n, <2>1, <2>2
<1>27. ASSUME RestoreSkips PROVE Awake'
  <2>1. \A d \in Conns : woken'[d] <=> loop[d].st # "off"
    BY <1>27 DEF RestoreSkips, Notify
  <2>2. UNCHANGED loop
    BY <1>27 DEF RestoreSkips
  <2> QED BY <1>n, <2>1, <2>2
<1>28. ASSUME Restart PROVE Awake'
  <2>1. \A d \in Conns : loop'[d].st = "off"
    BY <1>28 DEF Restart, NoLoop
  <2> QED BY <2>1 DEF Awake
<1>29. CASE UNCHANGED <<hist, woken, loop, cursor, log, rec, archived>>
  BY <1>29, <1>u
<1> QED BY <1>1, <1>2, <1>3, <1>4, <1>5, <1>6, <1>7, <1>8, <1>9, <1>10, <1>11, <1>12, <1>13,
   <1>14, <1>15, <1>16, <1>17, <1>18, <1>19, <1>20, <1>21, <1>22, <1>23, <1>24, <1>25, <1>26,
   <1>27, <1>28, <1>29 DEF Next, HandleConn, DeliverLoop, Worker, SetEnabled, Workspace, vars,
   Register, SyncReads, AnnounceFails, SkipReads, HelloFails, HandlerReturns, WorkerFinishes,
   SwitchReadsLatest, SwitchFails, SwitchDisconnects, HandleWorkspaceArchived, RestoreReadsLatest,
   RestoreDisconnects, Close, Disconnect, Leave

(* Every step keeps an automation that is off without a loop that could send. *)
LEMMA OffNext == Types /\ Sockets /\ Off /\ [Next]_vars => Off'
<1> SUFFICES ASSUME Types, Sockets, Off, [Next]_vars PROVE Off'
  OBVIOUS
<1>t. /\ conn \in [Conns -> ConnRecs] /\ loop \in [Conns -> LoopRecs] /\ hist \in HistRecs
    /\ ws \in [Conns -> BOOLEAN]
  BY DEF Types, SideTypes
<1>r. rec.enabled \in BOOLEAN /\ hist.asked \in BOOLEAN /\ hist.stale \in BOOLEAN
  BY <1>t, HistFields DEF Types, RowTypes
<1>s. ASSUME UNCHANGED <<rec, admin>>,
             hist'.asked = hist.asked, hist'.stale = hist.stale, hist'.sentOff = hist.sentOff,
             \A d \in Conns : ws'[d] =>
                /\ ws[d]
                /\ loop[d].st = "off" => loop'[d].st = "off"
                /\ \/ conn'[d].st = "announce"
                   \/ ~conn'[d].saw.enabled /\ ~conn'[d].saw.runs
                   \/ conn[d].st # "announce" /\ conn'[d].saw = conn[d].saw
      PROVE  Off'
  BY <1>s DEF Off
<1>u. ASSUME UNCHANGED <<rec, admin, conn, loop>>,
             hist'.asked = hist.asked, hist'.stale = hist.stale, hist'.sentOff = hist.sentOff,
             \A d \in Conns : ws'[d] => ws[d]
      PROVE  Off'
  BY <1>u DEF Off
<1>1. ASSUME NEW e \in Events, Commit(e) PROVE Off'
  <2>1. hist'.asked = hist.asked /\ hist'.stale = hist.stale /\ hist'.sentOff = hist.sentOff
    BY <1>1, <1>t DEF Commit, HistRecs
  <2>2. \A d \in Conns : ws'[d] => ws[d]
    BY <1>1 DEF Commit
  <2> QED BY <1>1, <1>u, <2>1, <2>2 DEF Commit
<1>2. ASSUME NEW c \in Conns, NEW v \in Codes, Register(c, v) PROVE Off'
  <2>1. \A d \in Conns : d # c => conn'[d] = conn[d] /\ (ws'[d] => ws[d])
    BY <1>2, <1>t DEF Register
  <2>2. conn'[c].st = "announce"
    BY <1>2, <1>t DEF Register, ConnRecs
  <2>3. loop[c].st = "off"
    BY <1>2 DEF Register, Sockets, InLoop
  <2>4. UNCHANGED <<rec, admin, loop, hist>>
    BY <1>2 DEF Register
  <2> QED BY <2>1, <2>2, <2>3, <2>4 DEF Off
<1>3. ASSUME NEW c \in Conns, SyncReads(c) PROVE Off'
  <2>1. \A d \in Conns : d # c => conn'[d] = conn[d]
    BY <1>3, <1>t DEF SyncReads
  <2>2. conn'[c].saw = [enabled |-> rec.enabled, runs |-> Runs]
    BY <1>3, <1>t DEF SyncReads, ConnRecs
  <2>3. UNCHANGED <<rec, admin, ws, loop, hist>>
    BY <1>3 DEF SyncReads
  <2>4. ~hist.stale /\ ~hist.asked => ~rec.enabled /\ ~Runs
    BY DEF Off, Runs
  <2> QED BY <2>1, <2>2, <2>3, <2>4 DEF Off
<1>4. ASSUME NEW c \in Conns, AnnounceFails(c) PROVE Off'
  <2>1. hist'.asked = hist.asked /\ hist'.stale = hist.stale /\ hist'.sentOff = hist.sentOff
    BY <1>4 DEF AnnounceFails
  <2>2. \A d \in Conns : ws'[d] => ws[d]
    BY <1>4 DEF AnnounceFails
  <2>4. UNCHANGED loop
    BY <1>4 DEF AnnounceFails
  <2>6. \A d \in Conns : /\ d # c => conn'[d] = conn[d]
                         /\ \/ conn'[d].saw = conn[d].saw
                            \/ ~conn'[d].saw.enabled /\ ~conn'[d].saw.runs
    BY <1>4, <1>t DEF AnnounceFails, Leave, NoConnState, ConnRecs
  <2> QED BY <1>4, <1>s, <2>1, <2>2, <2>4, <2>6 DEF AnnounceFails
<1>5. ASSUME NEW c \in Conns, SyncWrites(c) PROVE Off'
  <2>1. hist'.asked = hist.asked /\ hist'.sentOff = hist.sentOff
    BY <1>5, <1>t DEF SyncWrites, HistRecs
  <2>2. hist'.stale = (hist.stale \/ rec'.enabled # rec.enabled)
    BY <1>5, <1>t DEF SyncWrites, HistRecs
  <2>3. UNCHANGED <<admin, ws, loop>> /\ conn[c].st = "sync"
    BY <1>5 DEF SyncWrites
  <2>4. \A d \in Conns : conn'[d].saw = conn[d].saw /\ (d # c => conn'[d] = conn[d])
    BY <1>5, <1>t DEF SyncWrites, ConnRecs
  <2> QED BY <1>r, <2>1, <2>2, <2>3, <2>4 DEF Off
<1>6. ASSUME NEW c \in Conns, SyncFails(c) PROVE Off'
  <2>1. hist'.asked = hist.asked /\ hist'.stale = hist.stale /\ hist'.sentOff = hist.sentOff
    BY <1>6, <1>t DEF SyncFails, HistRecs, Failed
  <2>2. \A d \in Conns : ws'[d] => ws[d]
    BY <1>6 DEF SyncFails, Close
  <2>4. UNCHANGED loop
    BY <1>6 DEF SyncFails
  <2>6. \A d \in Conns : /\ d # c => conn'[d] = conn[d]
                         /\ \/ conn'[d].saw = conn[d].saw
                            \/ ~conn'[d].saw.enabled /\ ~conn'[d].saw.runs
    BY <1>6, <1>t DEF SyncFails, Leave, NoConnState, ConnRecs
  <2> QED BY <1>6, <1>s, <2>1, <2>2, <2>4, <2>6 DEF SyncFails
<1>7. ASSUME NEW c \in Conns, EnsureCursor(c) PROVE Off'
  <2>1. hist'.asked = hist.asked /\ hist'.stale = hist.stale /\ hist'.sentOff = hist.sentOff
    <3>1. CASE hist' = [hist EXCEPT !.errs = @ + 1, !.faults = @ + 1]
      BY <1>t, <3>1 DEF HistRecs
    <3> QED BY <1>7, <3>1 DEF EnsureCursor, Failed
  <2>2. \A d \in Conns : ws'[d] => ws[d]
    BY <1>7 DEF EnsureCursor
  <2>4. UNCHANGED loop
    BY <1>7 DEF EnsureCursor
  <2>5. PICK s \in {"latest", "hello"} : conn' = [conn EXCEPT ![c].st = s]
    BY <1>7 DEF EnsureCursor
  <2>6. \A d \in Conns : conn'[d].saw = conn[d].saw /\ (d # c => conn'[d] = conn[d])
    BY <1>t, <2>5 DEF ConnRecs
  <2> QED BY <1>7, <1>s, <2>1, <2>2, <2>4, <2>6 DEF EnsureCursor
<1>8. ASSUME NEW c \in Conns, SkipReads(c) PROVE Off'
  <2>1. hist'.asked = hist.asked /\ hist'.stale = hist.stale /\ hist'.sentOff = hist.sentOff
    BY <1>8 DEF SkipReads
  <2>2. \A d \in Conns : ws'[d] => ws[d]
    BY <1>8 DEF SkipReads
  <2>4. UNCHANGED loop
    BY <1>8 DEF SkipReads
  <2>6. \A d \in Conns : /\ d # c => conn'[d] = conn[d]
                         /\ \/ conn'[d].saw = conn[d].saw
                            \/ ~conn'[d].saw.enabled /\ ~conn'[d].saw.runs
    BY <1>8, <1>t DEF SkipReads, ConnRecs
  <2> QED BY <1>8, <1>s, <2>1, <2>2, <2>4, <2>6 DEF SkipReads
<1>9. ASSUME NEW c \in Conns, SkipSets(c) PROVE Off'
  <2>1. hist'.asked = hist.asked /\ hist'.stale = hist.stale /\ hist'.sentOff = hist.sentOff
    BY <1>9, <1>t DEF SkipSets, HistRecs
  <2>2. \A d \in Conns : ws'[d] => ws[d]
    BY <1>9 DEF SkipSets
  <2>4. UNCHANGED loop
    BY <1>9 DEF SkipSets
  <2>6. \A d \in Conns : /\ d # c => conn'[d] = conn[d]
                         /\ \/ conn'[d].saw = conn[d].saw
                            \/ ~conn'[d].saw.enabled /\ ~conn'[d].saw.runs
    BY <1>9, <1>t DEF SkipSets, ConnRecs
  <2> QED BY <1>9, <1>s, <2>1, <2>2, <2>4, <2>6 DEF SkipSets
<1>10. ASSUME NEW c \in Conns, Hello(c) PROVE Off'
  <2>1. loop[c].st = "off" /\ ws[c] /\ conn[c].st = "hello"
    BY <1>10 DEF Hello, Sockets, InLoop
  <2>2. \A d \in Conns : d # c => conn'[d] = conn[d] /\ loop'[d] = loop[d]
    BY <1>10, <1>t DEF Hello
  <2>3. ~conn'[c].saw.enabled /\ ~conn'[c].saw.runs
    BY <1>10, <1>t DEF Hello, NoConnState
  <2>4. ~conn[c].saw.runs => loop'[c].st = "off"
    BY <1>10, <1>t DEF Hello, LoopRecs
  <2>5. UNCHANGED <<rec, admin, ws, hist>>
    BY <1>10 DEF Hello
  <2> QED BY <2>1, <2>2, <2>3, <2>4, <2>5 DEF Off
<1>11. ASSUME NEW c \in Conns, HelloFails(c) PROVE Off'
  <2>1. hist'.asked = hist.asked /\ hist'.stale = hist.stale /\ hist'.sentOff = hist.sentOff
    BY <1>11 DEF HelloFails
  <2>2. \A d \in Conns : ws'[d] => ws[d]
    BY <1>11 DEF HelloFails
  <2>4. UNCHANGED loop
    BY <1>11 DEF HelloFails
  <2>6. \A d \in Conns : /\ d # c => conn'[d] = conn[d]
                         /\ \/ conn'[d].saw = conn[d].saw
                            \/ ~conn'[d].saw.enabled /\ ~conn'[d].saw.runs
    BY <1>11, <1>t DEF HelloFails, Leave, NoConnState, ConnRecs
  <2> QED BY <1>11, <1>s, <2>1, <2>2, <2>4, <2>6 DEF HelloFails
<1>12. ASSUME NEW c \in Conns, ReadFinished(c) PROVE Off'
  <2>1. hist'.asked = hist.asked /\ hist'.stale = hist.stale /\ hist'.sentOff = hist.sentOff
    BY <1>12, <1>t DEF ReadFinished, HistRecs
  <2>2. \A d \in Conns : ws'[d] => ws[d]
    BY <1>12 DEF ReadFinished
  <2>4. UNCHANGED loop
    BY <1>12 DEF ReadFinished
  <2>6. \A d \in Conns : /\ d # c => conn'[d] = conn[d]
                         /\ \/ conn'[d].saw = conn[d].saw
                            \/ ~conn'[d].saw.enabled /\ ~conn'[d].saw.runs
    BY <1>12, <1>t DEF ReadFinished, ConnRecs
  <2> QED BY <1>12, <1>s, <2>1, <2>2, <2>4, <2>6 DEF ReadFinished
<1>13. ASSUME NEW c \in Conns, AdvanceCursor(c) PROVE Off'
  <2>1. hist'.asked = hist.asked /\ hist'.stale = hist.stale /\ hist'.sentOff = hist.sentOff
    <3>1. CASE hist' = [hist EXCEPT !.acked[c] = @ \cup {conn[c].at}]
      BY <1>t, <3>1 DEF HistRecs
    <3>2. CASE hist' = [hist EXCEPT !.errs = @ + 1, !.faults = @ + 1]
      BY <1>t, <3>2 DEF HistRecs
    <3> QED BY <1>13, <3>1, <3>2 DEF AdvanceCursor, Failed
  <2>2. \A d \in Conns : ws'[d] => ws[d]
    BY <1>13 DEF AdvanceCursor
  <2>4. \A d \in Conns : loop[d].st = "off" => loop'[d].st = "off"
    BY <1>13, <1>t DEF AdvanceCursor, CloseDone, LoopRecs
  <2>6. \A d \in Conns : /\ d # c => conn'[d] = conn[d]
                         /\ \/ conn'[d].saw = conn[d].saw
                            \/ ~conn'[d].saw.enabled /\ ~conn'[d].saw.runs
    BY <1>13, <1>t DEF AdvanceCursor, ConnRecs
  <2> QED BY <1>13, <1>s, <2>1, <2>2, <2>4, <2>6 DEF AdvanceCursor
<1>14. ASSUME NEW c \in Conns, ReadCrashed(c) PROVE Off'
  <2>1. hist'.asked = hist.asked /\ hist'.stale = hist.stale /\ hist'.sentOff = hist.sentOff
    BY <1>14, <1>t DEF ReadCrashed, HistRecs
  <2>2. \A d \in Conns : ws'[d] => ws[d]
    BY <1>14 DEF ReadCrashed
  <2>4. \A d \in Conns : loop[d].st = "off" => loop'[d].st = "off"
    BY <1>14, <1>t DEF ReadCrashed, CloseDone, LoopRecs
  <2> QED BY <1>14, <1>s, <1>u, <2>1, <2>2, <2>4 DEF ReadCrashed, Off
<1>15. ASSUME NEW c \in Conns, ReadEnds(c) PROVE Off'
  <2>1. hist'.asked = hist.asked /\ hist'.stale = hist.stale /\ hist'.sentOff = hist.sentOff
    <3>1. CASE hist' = [hist EXCEPT !.cut = @ \cup {active[c]}]
      BY <1>t, <3>1 DEF HistRecs
    <3> QED BY <1>15, <3>1 DEF ReadEnds
  <2>2. \A d \in Conns : ws'[d] => ws[d]
    BY <1>15 DEF ReadEnds
  <2>3. loop' = loop \/ loop' = [loop EXCEPT ![c].done = TRUE]
    BY <1>15 DEF ReadEnds, CloseDone
  <2>4. \A d \in Conns : loop[d].st = "off" => loop'[d].st = "off"
    BY <1>t, <2>3 DEF LoopRecs
  <2>6. \A d \in Conns : /\ d # c => conn'[d] = conn[d]
                         /\ \/ conn'[d].saw = conn[d].saw
                            \/ ~conn'[d].saw.enabled /\ ~conn'[d].saw.runs
    BY <1>15, <1>t DEF ReadEnds, ConnRecs
  <2> QED BY <1>15, <1>s, <2>1, <2>2, <2>4, <2>6 DEF ReadEnds
<1>16. ASSUME NEW c \in Conns, HandlerReturns(c) PROVE Off'
  <2>1. hist'.asked = hist.asked /\ hist'.stale = hist.stale /\ hist'.sentOff = hist.sentOff
    BY <1>16 DEF HandlerReturns
  <2>2. \A d \in Conns : ws'[d] => ws[d]
    BY <1>16 DEF HandlerReturns
  <2>4. UNCHANGED loop
    BY <1>16 DEF HandlerReturns
  <2>6. \A d \in Conns : /\ d # c => conn'[d] = conn[d]
                         /\ \/ conn'[d].saw = conn[d].saw
                            \/ ~conn'[d].saw.enabled /\ ~conn'[d].saw.runs
    BY <1>16, <1>t DEF HandlerReturns, Leave, NoConnState, ConnRecs
  <2> QED BY <1>16, <1>s, <2>1, <2>2, <2>4, <2>6 DEF HandlerReturns
<1>17. ASSUME NEW c \in Conns, Poll(c) PROVE Off'
  <2>1. hist'.asked = hist.asked /\ hist'.stale = hist.stale /\ hist'.sentOff = hist.sentOff
    <3>1. CASE hist' = [hist EXCEPT !.errs = @ + 1, !.faults = @ + 1]
      BY <1>t, <3>1 DEF HistRecs
    <3> QED BY <1>17, <3>1 DEF Poll, Failed
  <2>2. \A d \in Conns : ws'[d] => ws[d]
    BY <1>17 DEF Poll
  <2>4. \A d \in Conns : loop[d].st = "off" => loop'[d].st = "off"
    BY <1>17, <1>t DEF Poll, Goes, LoopRecs
  <2> QED BY <1>17, <1>s, <1>u, <2>1, <2>2, <2>4 DEF Poll, Off
<1>18. ASSUME NEW c \in Conns, ReadBatch(c) PROVE Off'
  <2>1. hist'.asked = hist.asked /\ hist'.stale = hist.stale /\ hist'.sentOff = hist.sentOff
    BY <1>18 DEF ReadBatch
  <2>2. \A d \in Conns : ws'[d] => ws[d]
    BY <1>18 DEF ReadBatch
  <2>4. \A d \in Conns : loop[d].st = "off" => loop'[d].st = "off"
    BY <1>18, <1>t DEF ReadBatch, LoopRecs
  <2> QED BY <1>18, <1>s, <1>u, <2>1, <2>2, <2>4 DEF ReadBatch, Off
<1>19. ASSUME NEW c \in Conns, BatchEnds(c) PROVE Off'
  <2>1. hist'.asked = hist.asked /\ hist'.stale = hist.stale /\ hist'.sentOff = hist.sentOff
    BY <1>19 DEF BatchEnds
  <2>2. \A d \in Conns : ws'[d] => ws[d]
    BY <1>19 DEF BatchEnds
  <2>4. \A d \in Conns : loop[d].st = "off" => loop'[d].st = "off"
    BY <1>19, <1>t DEF BatchEnds, NoLoop, LoopRecs
  <2> QED BY <1>19, <1>s, <1>u, <2>1, <2>2, <2>4 DEF BatchEnds, Off
<1>20. ASSUME NEW c \in Conns, PassForeign(c) PROVE Off'
  <2>1. hist'.asked = hist.asked /\ hist'.stale = hist.stale /\ hist'.sentOff = hist.sentOff
    <3>1. CASE hist' = [hist EXCEPT !.strayed = IF ws[c] THEN @ ELSE @ \cup hist.cut]
      BY <1>t, <3>1 DEF HistRecs
    <3>2. CASE hist' = [hist EXCEPT !.errs = @ + 1, !.faults = @ + 1]
      BY <1>t, <3>2 DEF HistRecs
    <3> QED BY <1>20, <3>1, <3>2 DEF PassForeign, Failed
  <2>2. \A d \in Conns : ws'[d] => ws[d]
    BY <1>20 DEF PassForeign
  <2>4. \A d \in Conns : loop[d].st = "off" => loop'[d].st = "off"
    BY <1>20, <1>t DEF PassForeign, NoLoop, LoopRecs
  <2> QED BY <1>20, <1>s, <1>u, <2>1, <2>2, <2>4 DEF PassForeign, Off
<1>21. ASSUME NEW c \in Conns, BeginRun(c) PROVE Off'
  <2>1. hist'.asked = hist.asked /\ hist'.stale = hist.stale /\ hist'.sentOff = hist.sentOff
    BY <1>21 DEF BeginRun
  <2>2. \A d \in Conns : ws'[d] => ws[d]
    BY <1>21 DEF BeginRun
  <2>4. \A d \in Conns : loop[d].st = "off" => loop'[d].st = "off"
    BY <1>21, <1>t DEF BeginRun, LoopRecs
  <2> QED BY <1>21, <1>s, <1>u, <2>1, <2>2, <2>4 DEF BeginRun, Off
<1>22. ASSUME NEW c \in Conns, Send(c) PROVE Off'
  <2>1. hist'.asked = hist.asked /\ hist'.stale = hist.stale
    BY <1>22, <1>t DEF Send, HistRecs
  <2>2. hist'.sentOff = (hist.sentOff \/ (~hist.asked /\ admin.st = "idle" /\ ~hist.stale))
    BY <1>22, <1>t DEF Send, HistRecs
  <2>3. loop[c].st = "sending" /\ ws[c]
    BY <1>22 DEF Send
  <2>4. ~hist'.sentOff
    BY <2>2, <2>3 DEF Off
  <2>5. \A d \in Conns : loop[d].st = "off" => loop'[d].st = "off"
    BY <1>22, <1>t DEF Send, Goes, LoopRecs
  <2>6. UNCHANGED <<rec, admin, ws, conn>>
    BY <1>22 DEF Send
  <2> QED BY <2>1, <2>4, <2>5, <2>6 DEF Off
<1>23. ASSUME NEW c \in Conns, SendFails(c) PROVE Off'
  <2>1. hist'.asked = hist.asked /\ hist'.stale = hist.stale /\ hist'.sentOff = hist.sentOff
    BY <1>23 DEF SendFails
  <2>2. \A d \in Conns : ws'[d] => ws[d]
    BY <1>23 DEF SendFails
  <2>4. \A d \in Conns : loop[d].st = "off" => loop'[d].st = "off"
    BY <1>23, <1>t DEF SendFails, Stops, NoLoop, LoopRecs
  <2> QED BY <1>23, <1>s, <1>u, <2>1, <2>2, <2>4 DEF SendFails, Off
<1>24. ASSUME NEW c \in Conns, RunResolved(c) PROVE Off'
  <2>1. hist'.asked = hist.asked /\ hist'.stale = hist.stale /\ hist'.sentOff = hist.sentOff
    BY <1>24 DEF RunResolved
  <2>2. \A d \in Conns : ws'[d] => ws[d]
    BY <1>24 DEF RunResolved
  <2>4. \A d \in Conns : loop[d].st = "off" => loop'[d].st = "off"
    BY <1>24, <1>t DEF RunResolved, LoopRecs
  <2> QED BY <1>24, <1>s, <1>u, <2>1, <2>2, <2>4 DEF RunResolved, Off
<1>25. ASSUME NEW c \in Conns, WakesUp(c) PROVE Off'
  <2>1. hist'.asked = hist.asked /\ hist'.stale = hist.stale /\ hist'.sentOff = hist.sentOff
    BY <1>25 DEF WakesUp
  <2>2. \A d \in Conns : ws'[d] => ws[d]
    BY <1>25 DEF WakesUp
  <2>4. \A d \in Conns : loop[d].st = "off" => loop'[d].st = "off"
    BY <1>25, <1>t DEF WakesUp, Goes, LoopRecs
  <2> QED BY <1>25, <1>s, <1>u, <2>1, <2>2, <2>4 DEF WakesUp, Off
<1>26. ASSUME NEW c \in Conns, LoopStops(c) PROVE Off'
  <2>1. hist'.asked = hist.asked /\ hist'.stale = hist.stale /\ hist'.sentOff = hist.sentOff
    BY <1>26 DEF LoopStops
  <2>2. \A d \in Conns : ws'[d] => ws[d]
    BY <1>26 DEF LoopStops
  <2>4. \A d \in Conns : loop[d].st = "off" => loop'[d].st = "off"
    BY <1>26, <1>t DEF LoopStops, Stops, NoLoop, LoopRecs
  <2> QED BY <1>26, <1>s, <1>u, <2>1, <2>2, <2>4 DEF LoopStops, Off
<1>27. ASSUME NEW c \in Conns, WorkerThrows(c) PROVE Off'
  <2>1. hist'.asked = hist.asked /\ hist'.stale = hist.stale /\ hist'.sentOff = hist.sentOff
    BY <1>27, <1>t DEF WorkerThrows, HistRecs
  <2>2. \A d \in Conns : ws'[d] => ws[d]
    BY <1>27 DEF WorkerThrows
  <2> QED BY <1>27, <1>u, <2>1, <2>2 DEF WorkerThrows
<1>28. ASSUME NEW c \in Conns, Drop(c) PROVE Off'
  <2>1. hist'.asked = hist.asked /\ hist'.stale = hist.stale /\ hist'.sentOff = hist.sentOff
    BY <1>28, <1>t DEF Drop, HistRecs
  <2>2. \A d \in Conns : ws'[d] => ws[d]
    BY <1>28 DEF Drop, Close
  <2> QED BY <1>28, <1>u, <2>1, <2>2 DEF Drop
<1>29. ASSUME SwitchBegins PROVE Off'
  <2>1. hist'.asked = hist.asked /\ hist'.stale = hist.stale /\ hist'.sentOff = hist.sentOff
    BY <1>29, <1>t DEF SwitchBegins, HistRecs
  <2>2. admin.st = "idle" /\ admin'.st = IF rec.enabled THEN "update" ELSE "latest"
    BY <1>29 DEF SwitchBegins, Types, CallTypes
  <2>3. UNCHANGED <<rec, ws, loop, conn>>
    BY <1>29 DEF SwitchBegins
  <2> QED BY <1>r, <2>1, <2>2, <2>3 DEF Off
<1>30. ASSUME SwitchReadsLatest PROVE Off'
  <2>1. admin.st = "latest" /\ admin'.st = "skip"
    BY <1>30 DEF SwitchReadsLatest, Types, CallTypes
  <2> QED BY <1>30, <2>1 DEF SwitchReadsLatest, Off
<1>31. ASSUME SwitchSkips PROVE Off'
  <2>1. hist'.asked = hist.asked /\ hist'.stale = hist.stale /\ hist'.sentOff = hist.sentOff
    BY <1>31, <1>t DEF SwitchSkips, HistRecs
  <2>2. admin.st = "skip" /\ admin'.st = "update"
    BY <1>31 DEF SwitchSkips, Types, CallTypes
  <2> QED BY <1>31, <2>1, <2>2 DEF SwitchSkips, Off
<1>32. ASSUME SwitchUpdates PROVE Off'
  <2>1. hist'.asked = admin.to /\ hist'.stale = hist.stale /\ hist'.sentOff = hist.sentOff
    BY <1>32, <1>t DEF SwitchUpdates, HistRecs
  <2>2. admin'.st = "drop" /\ rec'.enabled = admin.to
    BY <1>32 DEF SwitchUpdates, Types, CallTypes
  <2> QED BY <2>1, <2>2 DEF Off
<1>33. ASSUME SwitchFails PROVE Off'
  <2>1. admin.st # "drop" /\ admin'.st = "idle"
    BY <1>33 DEF SwitchFails, NoSwitch
  <2> QED BY <1>33, <2>1 DEF SwitchFails, Off
<1>34. ASSUME SwitchDisconnects PROVE Off'
  <2>1. \A d \in Conns : ~ws'[d]
    BY <1>34 DEF SwitchDisconnects, Disconnect, Close, Sockets
  <2>2. admin'.st = "idle" /\ UNCHANGED <<rec, hist>>
    BY <1>34 DEF SwitchDisconnects, NoSwitch
  <2> QED BY <2>1, <2>2 DEF Off
<1>35. ASSUME ArchiveOrRestore PROVE Off'
  <2>1. hist'.asked = hist.asked /\ hist'.stale = hist.stale /\ hist'.sentOff = hist.sentOff
    BY <1>35, <1>t DEF ArchiveOrRestore, HistRecs
  <2>2. \A d \in Conns : ws'[d] => ws[d]
    BY <1>35 DEF ArchiveOrRestore
  <2> QED BY <1>35, <1>u, <2>1, <2>2 DEF ArchiveOrRestore
<1>36. ASSUME HandleWorkspaceArchived PROVE Off'
  <2>1. hist'.asked = hist.asked /\ hist'.stale = hist.stale /\ hist'.sentOff = hist.sentOff
    BY <1>36 DEF HandleWorkspaceArchived
  <2>2. \A d \in Conns : ws'[d] => ws[d]
    BY <1>36 DEF HandleWorkspaceArchived, Disconnect, Close
  <2> QED BY <1>36, <1>u, <2>1, <2>2 DEF HandleWorkspaceArchived
<1>37. ASSUME RestoreSkips PROVE Off'
  <2>1. hist'.asked = hist.asked /\ hist'.stale = hist.stale /\ hist'.sentOff = hist.sentOff
    BY <1>37, <1>t DEF RestoreSkips, HistRecs
  <2>2. \A d \in Conns : ws'[d] => ws[d]
    BY <1>37 DEF RestoreSkips
  <2> QED BY <1>37, <1>u, <2>1, <2>2 DEF RestoreSkips
<1>38. ASSUME RestoreDisconnects PROVE Off'
  <2>1. hist'.asked = hist.asked /\ hist'.stale = hist.stale /\ hist'.sentOff = hist.sentOff
    BY <1>38 DEF RestoreDisconnects
  <2>2. \A d \in Conns : ws'[d] => ws[d]
    BY <1>38 DEF RestoreDisconnects, Disconnect, Close
  <2> QED BY <1>38, <1>u, <2>1, <2>2 DEF RestoreDisconnects
<1>39. ASSUME Restart PROVE Off'
  <2>1. hist'.asked = hist.asked /\ hist'.stale = hist.stale /\ hist'.sentOff = hist.sentOff
    BY <1>39, <1>t DEF Restart, HistRecs
  <2>2. \A d \in Conns : ~ws'[d]
    BY <1>39 DEF Restart
  <2>3. admin'.st = "idle" /\ UNCHANGED rec
    BY <1>39 DEF Restart, NoSwitch
  <2> QED BY <2>1, <2>2, <2>3 DEF Off
<1>40. CASE UNCHANGED <<hist, rec, admin, ws, loop, conn>>
  BY <1>40 DEF Off
<1> QED BY <1>1, <1>2, <1>3, <1>4, <1>5, <1>6, <1>7, <1>8, <1>9, <1>10, <1>11, <1>12, <1>13,
   <1>14, <1>15, <1>16, <1>17, <1>18, <1>19, <1>20, <1>21, <1>22, <1>23, <1>24, <1>25, <1>26,
   <1>27, <1>28, <1>29, <1>30, <1>31, <1>32, <1>33, <1>34, <1>35, <1>36, <1>37, <1>38, <1>39,
   <1>40 DEF Next, HandleConn, DeliverLoop, Worker, SetEnabled, Workspace, vars, WorkerFinishes,
   RestoreReadsLatest

(* Every step keeps what was skipped behind every loop that can still send. *)
LEMMA SkippedNext == Types /\ Sockets /\ Held /\ Off /\ Skipped /\ [Next]_vars => Skipped'
<1> SUFFICES ASSUME Types, Sockets, Held, Off, Skipped, [Next]_vars PROVE Skipped'
  OBVIOUS
<1>t. /\ conn \in [Conns -> ConnRecs] /\ loop \in [Conns -> LoopRecs] /\ hist \in HistRecs
    /\ ws \in [Conns -> BOOLEAN]
  BY DEF Types, SideTypes
<1>g. hist.stale => hist'.stale
  BY HistGrows DEF Grows
<1>m. cursor \in Int /\ cursor' \in Int /\ cursor' >= cursor
  BY CursorGrows
<1>p. \A x \in Positions : x \in Int
  BY ConstantTypes DEF Positions
<1>o. \A x \in hist.off : x \in Int /\ x <= cursor /\ x <= cursor'
  <2>1. \A x \in hist.off : x \in Int /\ x <= cursor
    BY <1>t, <1>p, HistFields DEF Skipped
  <2> QED BY <1>m, <2>1
<1>s. ASSUME hist'.off = hist.off, hist'.sentSkipped = hist.sentSkipped,
             \A d \in Conns : ws'[d] =>
                /\ ws[d]
                /\ loop'[d].st = "read" => loop[d].st = "read" /\ loop'[d].cur = loop[d].cur
                /\ loop'[d].batch \subseteq loop[d].batch
                /\ loop'[d].st = "sending" => loop[d].st = "sending" /\ loop'[d].cur = loop[d].cur
      PROVE  Skipped'
  BY <1>g, <1>o, <1>s DEF Skipped
<1>u. ASSUME hist'.off = hist.off, hist'.sentSkipped = hist.sentSkipped, UNCHANGED loop,
             \A d \in Conns : ws'[d] => ws[d]
      PROVE  Skipped'
  BY <1>g, <1>o, <1>u DEF Skipped
<1>1. ASSUME NEW e \in Events, Commit(e) PROVE Skipped'
  <2>1. hist'.off = hist.off /\ hist'.sentSkipped = hist.sentSkipped
    BY <1>1, <1>t DEF Commit, HistRecs
  <2>2. UNCHANGED ws
    BY <1>1 DEF Commit
  <2> QED BY <1>1, <1>u, <2>1, <2>2 DEF Commit
<1>2. ASSUME NEW c \in Conns, NEW v \in Codes, Register(c, v) PROVE Skipped'
  <2>1. \A d \in Conns : d # c => (ws'[d] => ws[d])
    BY <1>2 DEF Register
  <2>2. loop[c].st = "off"
    BY <1>2 DEF Register, Sockets, InLoop
  <2>3. loop[c].batch = {}
    BY <2>2 DEF Held, InRun
  <2>4. UNCHANGED <<cursor, loop, hist>>
    BY <1>2 DEF Register
  <2> QED BY <2>1, <2>2, <2>3, <2>4 DEF Skipped
<1>3. ASSUME NEW c \in Conns, SyncWrites(c) PROVE Skipped'
  <2>1. hist'.off = hist.off /\ hist'.sentSkipped = hist.sentSkipped
    BY <1>3, <1>t DEF SyncWrites, HistRecs
  <2>2. UNCHANGED ws
    BY <1>3 DEF SyncWrites
  <2> QED BY <1>3, <1>u, <2>1, <2>2 DEF SyncWrites
<1>4. ASSUME NEW c \in Conns, SyncFails(c) PROVE Skipped'
  <2>1. hist'.off = hist.off /\ hist'.sentSkipped = hist.sentSkipped
    BY <1>4, <1>t DEF SyncFails, HistRecs, Failed
  <2>2. \A d \in Conns : ws'[d] => ws[d]
    BY <1>4 DEF SyncFails, Close
  <2> QED BY <1>4, <1>u, <2>1, <2>2 DEF SyncFails
<1>5. ASSUME NEW c \in Conns, EnsureCursor(c) PROVE Skipped'
  <2>1. hist'.off = hist.off /\ hist'.sentSkipped = hist.sentSkipped
    <3>1. CASE hist' = [hist EXCEPT !.errs = @ + 1, !.faults = @ + 1]
      BY <1>t, <3>1 DEF HistRecs
    <3> QED BY <1>5, <3>1 DEF EnsureCursor, Failed
  <2>2. UNCHANGED ws
    BY <1>5 DEF EnsureCursor
  <2> QED BY <1>5, <1>u, <2>1, <2>2 DEF EnsureCursor
<1>6. ASSUME NEW c \in Conns, SkipSets(c) PROVE Skipped'
  <2>1. hist'.off = hist.off /\ hist'.sentSkipped = hist.sentSkipped
    BY <1>6, <1>t DEF SkipSets, HistRecs
  <2>2. UNCHANGED ws
    BY <1>6 DEF SkipSets
  <2> QED BY <1>6, <1>u, <2>1, <2>2 DEF SkipSets
<1>7. ASSUME NEW c \in Conns, Hello(c) PROVE Skipped'
  <2>1. hist'.off = hist.off /\ hist'.sentSkipped = hist.sentSkipped
    BY <1>7 DEF Hello
  <2>2. UNCHANGED ws
    BY <1>7 DEF Hello
  <2>3. loop[c].st = "off"
    BY <1>7 DEF Hello, Sockets, InLoop
  <2>4. \A d \in Conns :
           /\ loop'[d].st = "read" => loop[d].st = "read" /\ loop'[d].cur = loop[d].cur
           /\ loop'[d].batch \subseteq loop[d].batch
           /\ loop'[d].st = "sending" => loop[d].st = "sending" /\ loop'[d].cur = loop[d].cur
    BY <1>7, <1>t DEF Hello, LoopRecs
  <2> QED BY <1>s, <2>1, <2>2, <2>4
<1>8. ASSUME NEW c \in Conns, ReadFinished(c) PROVE Skipped'
  <2>1. hist'.off = hist.off /\ hist'.sentSkipped = hist.sentSkipped
    BY <1>8, <1>t DEF ReadFinished, HistRecs
  <2>2. UNCHANGED ws
    BY <1>8 DEF ReadFinished
  <2> QED BY <1>8, <1>u, <2>1, <2>2 DEF ReadFinished
<1>9. ASSUME NEW c \in Conns, AdvanceCursor(c) PROVE Skipped'
  <2>1. hist'.off = hist.off /\ hist'.sentSkipped = hist.sentSkipped
    <3>1. CASE hist' = [hist EXCEPT !.acked[c] = @ \cup {conn[c].at}]
      BY <1>t, <3>1 DEF HistRecs
    <3>2. CASE hist' = [hist EXCEPT !.errs = @ + 1, !.faults = @ + 1]
      BY <1>t, <3>2 DEF HistRecs
    <3> QED BY <1>9, <3>1, <3>2 DEF AdvanceCursor, Failed
  <2>2. UNCHANGED ws
    BY <1>9 DEF AdvanceCursor
  <2>4. \A d \in Conns :
           /\ loop'[d].st = "read" => loop[d].st = "read" /\ loop'[d].cur = loop[d].cur
           /\ loop'[d].batch \subseteq loop[d].batch
           /\ loop'[d].st = "sending" => loop[d].st = "sending" /\ loop'[d].cur = loop[d].cur
    BY <1>9, <1>t DEF AdvanceCursor, CloseDone, LoopRecs
  <2> QED BY <1>s, <2>1, <2>2, <2>4
<1>10. ASSUME NEW c \in Conns, ReadCrashed(c) PROVE Skipped'
  <2>1. hist'.off = hist.off /\ hist'.sentSkipped = hist.sentSkipped
    BY <1>10, <1>t DEF ReadCrashed, HistRecs
  <2>2. UNCHANGED ws
    BY <1>10 DEF ReadCrashed
  <2>4. \A d \in Conns :
           /\ loop'[d].st = "read" => loop[d].st = "read" /\ loop'[d].cur = loop[d].cur
           /\ loop'[d].batch \subseteq loop[d].batch
           /\ loop'[d].st = "sending" => loop[d].st = "sending" /\ loop'[d].cur = loop[d].cur
    BY <1>10, <1>t DEF ReadCrashed, CloseDone, LoopRecs
  <2> QED BY <1>s, <2>1, <2>2, <2>4
<1>11. ASSUME NEW c \in Conns, ReadEnds(c) PROVE Skipped'
  <2>1. hist'.off = hist.off /\ hist'.sentSkipped = hist.sentSkipped
    <3>1. CASE hist' = [hist EXCEPT !.cut = @ \cup {active[c]}]
      BY <1>t, <3>1 DEF HistRecs
    <3> QED BY <1>11, <3>1 DEF ReadEnds
  <2>2. UNCHANGED ws
    BY <1>11 DEF ReadEnds
  <2>3. loop' = loop \/ loop' = [loop EXCEPT ![c].done = TRUE]
    BY <1>11 DEF ReadEnds, CloseDone
  <2>4. \A d \in Conns :
           /\ loop'[d].st = "read" => loop[d].st = "read" /\ loop'[d].cur = loop[d].cur
           /\ loop'[d].batch \subseteq loop[d].batch
           /\ loop'[d].st = "sending" => loop[d].st = "sending" /\ loop'[d].cur = loop[d].cur
    BY <1>t, <2>3 DEF LoopRecs
  <2> QED BY <1>s, <2>1, <2>2, <2>4
<1>12. ASSUME NEW c \in Conns, Poll(c) PROVE Skipped'
  <2>1. hist'.off = hist.off /\ hist'.sentSkipped = hist.sentSkipped
    <3>1. CASE hist' = [hist EXCEPT !.errs = @ + 1, !.faults = @ + 1]
      BY <1>t, <3>1 DEF HistRecs
    <3> QED BY <1>12, <3>1 DEF Poll, Failed
  <2>2. UNCHANGED <<ws, cursor>>
    BY <1>12 DEF Poll
  <2>3. CASE loop' = [loop EXCEPT ![c] = [@ EXCEPT !.st = "read", !.code = rec.code,
                                                   !.cur = CursorRead]]
    <3>1. \A d \in Conns : /\ loop'[d].batch = loop[d].batch
                           /\ loop'[d].st = (IF d = c THEN "read" ELSE loop[d].st)
                           /\ loop'[d].cur = IF d = c THEN CursorRead ELSE loop[d].cur
      BY <1>t, <2>3 DEF LoopRecs
    <3>2. cursor <= CursorRead /\ CursorRead \in Int
      BY <1>m, ConstantTypes DEF CursorRead, NoRow
    <3>3. \A x \in hist.off : x <= CursorRead
      BY <1>m, <1>o, <3>2
    <3> QED BY <1>g, <1>o, <2>1, <2>2, <3>1, <3>3 DEF Skipped
  <2>4. CASE loop' = [loop EXCEPT ![c].st = "wait"]
    <3>1. \A d \in Conns : /\ loop'[d].batch = loop[d].batch /\ loop'[d].cur = loop[d].cur
                           /\ loop'[d].st = IF d = c THEN "wait" ELSE loop[d].st
      BY <1>t, <2>4 DEF LoopRecs
    <3> QED BY <1>s, <2>1, <2>2, <3>1
  <2> QED BY <1>12, <2>3, <2>4 DEF Poll, Goes
<1>13. ASSUME NEW c \in Conns, ReadBatch(c) PROVE Skipped'
  <2>1. UNCHANGED <<cursor, ws, hist>>
    BY <1>13 DEF ReadBatch
  <2>2. \A d \in Conns : d # c => loop'[d] = loop[d]
    BY <1>13, <1>t DEF ReadBatch
  <2>3. /\ loop[c].st = "read" /\ loop'[c].st = "batch"
        /\ loop'[c].batch = After(loop[c].code, loop[c].cur)
    BY <1>13, <1>t DEF ReadBatch, LoopRecs
  <2>4. loop[c].cur \in Int
    BY <1>t, <1>p, LoopSteps
  <2>5. \A e \in loop'[c].batch : e > loop[c].cur
    BY <2>3, <2>4, AfterIsPrefix DEF Types, RowTypes
  <2>6. ~hist.stale /\ ws[c] => \A x \in hist.off : x <= loop[c].cur /\ x \in Int
    BY <1>o, <2>3 DEF Skipped
  <2>7. ~hist.stale /\ ws[c] => \A x \in hist.off : x \notin loop'[c].batch
    BY <2>4, <2>5, <2>6
  <2> QED BY <2>1, <2>2, <2>3, <2>7 DEF Skipped
<1>14. ASSUME NEW c \in Conns, BatchEnds(c) PROVE Skipped'
  <2>1. hist'.off = hist.off /\ hist'.sentSkipped = hist.sentSkipped
    BY <1>14 DEF BatchEnds
  <2>2. UNCHANGED ws
    BY <1>14 DEF BatchEnds
  <2>4. \A d \in Conns :
           /\ loop'[d].st = "read" => loop[d].st = "read" /\ loop'[d].cur = loop[d].cur
           /\ loop'[d].batch \subseteq loop[d].batch
           /\ loop'[d].st = "sending" => loop[d].st = "sending" /\ loop'[d].cur = loop[d].cur
    BY <1>14, <1>t DEF BatchEnds, NoLoop, LoopRecs
  <2> QED BY <1>s, <2>1, <2>2, <2>4
<1>15. ASSUME NEW c \in Conns, PassForeign(c) PROVE Skipped'
  <2>1. hist'.off = hist.off /\ hist'.sentSkipped = hist.sentSkipped
    <3>1. CASE hist' = [hist EXCEPT !.strayed = IF ws[c] THEN @ ELSE @ \cup hist.cut]
      BY <1>t, <3>1 DEF HistRecs
    <3>2. CASE hist' = [hist EXCEPT !.errs = @ + 1, !.faults = @ + 1]
      BY <1>t, <3>2 DEF HistRecs
    <3> QED BY <1>15, <3>1, <3>2 DEF PassForeign, Failed
  <2>2. UNCHANGED ws
    BY <1>15 DEF PassForeign
  <2>4. \A d \in Conns :
           /\ loop'[d].st = "read" => loop[d].st = "read" /\ loop'[d].cur = loop[d].cur
           /\ loop'[d].batch \subseteq loop[d].batch
           /\ loop'[d].st = "sending" => loop[d].st = "sending" /\ loop'[d].cur = loop[d].cur
    <3>1. ASSUME NEW e, loop' = [loop EXCEPT ![c].batch = @ \ {e}] PROVE
               \A d \in Conns : /\ loop'[d].st = loop[d].st /\ loop'[d].cur = loop[d].cur
                                /\ loop'[d].batch \subseteq loop[d].batch
      BY <1>t, <3>1 DEF LoopRecs
    <3>2. CASE loop' = [loop EXCEPT ![c] = [NoLoop EXCEPT !.st = "wait"]]
      BY <1>t, <3>2 DEF NoLoop
    <3> QED BY <1>15, <3>1, <3>2 DEF PassForeign
  <2> QED BY <1>s, <2>1, <2>2, <2>4
<1>16. ASSUME NEW c \in Conns, BeginRun(c) PROVE Skipped'
  <2>1. UNCHANGED <<cursor, ws, hist>>
    BY <1>16 DEF BeginRun
  <2>2. PICK e \in loop[c].batch : loop' = [loop EXCEPT ![c].st = "sending",
                                      ![c].batch = @ \ {e}, ![c].cur = e, ![c].done = FALSE]
    BY <1>16 DEF BeginRun
  <2>3. \A d \in Conns : d # c => loop'[d] = loop[d]
    BY <1>t, <2>2
  <2>4. loop'[c].st = "sending" /\ loop'[c].batch \subseteq loop[c].batch /\ loop'[c].cur = e
    BY <1>t, <2>2 DEF LoopRecs
  <2>5. ~hist.stale /\ ws[c] => e \notin hist.off
    BY <2>2 DEF Skipped
  <2> QED BY <2>1, <2>3, <2>4, <2>5 DEF Skipped
<1>17. ASSUME NEW c \in Conns, Send(c) PROVE Skipped'
  <2>1. hist'.off = hist.off /\ hist'.stale = hist.stale
    BY <1>17, <1>t DEF Send, HistRecs
  <2>2. hist'.sentSkipped = (hist.sentSkipped \/ (loop[c].cur \in hist.off /\ ~hist.stale))
    BY <1>17, <1>t DEF Send, HistRecs
  <2>3. loop[c].st = "sending" /\ ws[c]
    BY <1>17 DEF Send
  <2>4. hist'.sentSkipped = hist.sentSkipped
    BY <1>t, <2>2, <2>3, HistFields DEF Skipped
  <2>5. \A d \in Conns :
           /\ loop'[d].st = "read" => loop[d].st = "read" /\ loop'[d].cur = loop[d].cur
           /\ loop'[d].batch \subseteq loop[d].batch
           /\ loop'[d].st = "sending" => loop[d].st = "sending" /\ loop'[d].cur = loop[d].cur
    BY <1>17, <1>t DEF Send, Goes, LoopRecs
  <2>6. UNCHANGED ws
    BY <1>17 DEF Send
  <2> QED BY <1>s, <2>1, <2>4, <2>5, <2>6
<1>18. ASSUME NEW c \in Conns, SendFails(c) PROVE Skipped'
  <2>1. hist'.off = hist.off /\ hist'.sentSkipped = hist.sentSkipped
    BY <1>18 DEF SendFails
  <2>2. UNCHANGED ws
    BY <1>18 DEF SendFails
  <2>4. \A d \in Conns :
           /\ loop'[d].st = "read" => loop[d].st = "read" /\ loop'[d].cur = loop[d].cur
           /\ loop'[d].batch \subseteq loop[d].batch
           /\ loop'[d].st = "sending" => loop[d].st = "sending" /\ loop'[d].cur = loop[d].cur
    BY <1>18, <1>t DEF SendFails, Stops, NoLoop, LoopRecs
  <2> QED BY <1>s, <2>1, <2>2, <2>4
<1>19. ASSUME NEW c \in Conns, RunResolved(c) PROVE Skipped'
  <2>1. hist'.off = hist.off /\ hist'.sentSkipped = hist.sentSkipped
    BY <1>19 DEF RunResolved
  <2>2. UNCHANGED ws
    BY <1>19 DEF RunResolved
  <2>4. \A d \in Conns :
           /\ loop'[d].st = "read" => loop[d].st = "read" /\ loop'[d].cur = loop[d].cur
           /\ loop'[d].batch \subseteq loop[d].batch
           /\ loop'[d].st = "sending" => loop[d].st = "sending" /\ loop'[d].cur = loop[d].cur
    BY <1>19, <1>t DEF RunResolved, LoopRecs
  <2> QED BY <1>s, <2>1, <2>2, <2>4
<1>20. ASSUME NEW c \in Conns, WakesUp(c) PROVE Skipped'
  <2>1. hist'.off = hist.off /\ hist'.sentSkipped = hist.sentSkipped
    BY <1>20 DEF WakesUp
  <2>2. UNCHANGED ws
    BY <1>20 DEF WakesUp
  <2>4. \A d \in Conns :
           /\ loop'[d].st = "read" => loop[d].st = "read" /\ loop'[d].cur = loop[d].cur
           /\ loop'[d].batch \subseteq loop[d].batch
           /\ loop'[d].st = "sending" => loop[d].st = "sending" /\ loop'[d].cur = loop[d].cur
    BY <1>20, <1>t DEF WakesUp, Goes, LoopRecs
  <2> QED BY <1>s, <2>1, <2>2, <2>4
<1>21. ASSUME NEW c \in Conns, LoopStops(c) PROVE Skipped'
  <2>1. hist'.off = hist.off /\ hist'.sentSkipped = hist.sentSkipped
    BY <1>21 DEF LoopStops
  <2>2. UNCHANGED ws
    BY <1>21 DEF LoopStops
  <2>4. \A d \in Conns :
           /\ loop'[d].st = "read" => loop[d].st = "read" /\ loop'[d].cur = loop[d].cur
           /\ loop'[d].batch \subseteq loop[d].batch
           /\ loop'[d].st = "sending" => loop[d].st = "sending" /\ loop'[d].cur = loop[d].cur
    BY <1>21, <1>t DEF LoopStops, Stops, NoLoop, LoopRecs
  <2> QED BY <1>s, <2>1, <2>2, <2>4
<1>22. ASSUME NEW c \in Conns, WorkerThrows(c) PROVE Skipped'
  <2>1. hist'.off = hist.off /\ hist'.sentSkipped = hist.sentSkipped
    BY <1>22, <1>t DEF WorkerThrows, HistRecs
  <2>2. UNCHANGED ws
    BY <1>22 DEF WorkerThrows
  <2> QED BY <1>22, <1>u, <2>1, <2>2 DEF WorkerThrows
<1>23. ASSUME NEW c \in Conns, Drop(c) PROVE Skipped'
  <2>1. hist'.off = hist.off /\ hist'.sentSkipped = hist.sentSkipped
    BY <1>23, <1>t DEF Drop, HistRecs
  <2>2. \A d \in Conns : ws'[d] => ws[d]
    BY <1>23 DEF Drop, Close
  <2> QED BY <1>23, <1>u, <2>1, <2>2 DEF Drop
<1>24. ASSUME SwitchBegins PROVE Skipped'
  <2>1. hist'.off = hist.off /\ hist'.sentSkipped = hist.sentSkipped
    BY <1>24, <1>t DEF SwitchBegins, HistRecs
  <2>2. UNCHANGED ws
    BY <1>24 DEF SwitchBegins
  <2> QED BY <1>24, <1>u, <2>1, <2>2 DEF SwitchBegins
<1>25. ASSUME SwitchSkips PROVE Skipped'
  <2>1. hist'.off = hist.off \cup 1..admin.at /\ hist'.sentSkipped = hist.sentSkipped
    BY <1>25, <1>t DEF SwitchSkips, HistRecs
  <2>2. hist'.stale = hist.stale /\ UNCHANGED <<ws, loop>> /\ Advance(admin.at) /\ admin.st = "skip"
    BY <1>25, <1>t DEF SwitchSkips, HistRecs
  <2>3. admin.at \in Int
    BY <1>p DEF Types, CallTypes
  <2>4. \A x \in 1..admin.at : x <= cursor'
    BY <1>m, <2>2, <2>3 DEF Advance
  <2>5. ~hist.stale => \A d \in Conns : ws[d] => loop[d].st = "off" /\ loop[d].batch = {}
    BY <2>2 DEF Off, Held, InRun
  <2> QED BY <1>o, <2>1, <2>2, <2>4, <2>5 DEF Skipped
<1>26. ASSUME SwitchUpdates PROVE Skipped'
  <2>1. hist'.off = hist.off /\ hist'.sentSkipped = hist.sentSkipped
    BY <1>26, <1>t DEF SwitchUpdates, HistRecs
  <2>2. UNCHANGED ws
    BY <1>26 DEF SwitchUpdates
  <2> QED BY <1>26, <1>u, <2>1, <2>2 DEF SwitchUpdates
<1>27. ASSUME SwitchDisconnects PROVE Skipped'
  <2>1. hist'.off = hist.off /\ hist'.sentSkipped = hist.sentSkipped
    BY <1>27 DEF SwitchDisconnects
  <2>2. \A d \in Conns : ws'[d] => ws[d]
    BY <1>27 DEF SwitchDisconnects, Disconnect, Close
  <2> QED BY <1>27, <1>u, <2>1, <2>2 DEF SwitchDisconnects
<1>28. ASSUME ArchiveOrRestore PROVE Skipped'
  <2>1. hist'.off = hist.off /\ hist'.sentSkipped = hist.sentSkipped
    BY <1>28, <1>t DEF ArchiveOrRestore, HistRecs
  <2>2. UNCHANGED ws
    BY <1>28 DEF ArchiveOrRestore
  <2> QED BY <1>28, <1>u, <2>1, <2>2 DEF ArchiveOrRestore
<1>29. ASSUME HandleWorkspaceArchived PROVE Skipped'
  <2>1. hist'.off = hist.off /\ hist'.sentSkipped = hist.sentSkipped
    BY <1>29 DEF HandleWorkspaceArchived
  <2>2. \A d \in Conns : ws'[d] => ws[d]
    BY <1>29 DEF HandleWorkspaceArchived, Disconnect, Close
  <2> QED BY <1>29, <1>u, <2>1, <2>2 DEF HandleWorkspaceArchived
<1>30. ASSUME RestoreSkips PROVE Skipped'
  <2>1. hist'.off = hist.off /\ hist'.sentSkipped = hist.sentSkipped
    BY <1>30, <1>t DEF RestoreSkips, HistRecs
  <2>2. UNCHANGED ws
    BY <1>30 DEF RestoreSkips
  <2> QED BY <1>30, <1>u, <2>1, <2>2 DEF RestoreSkips
<1>31. ASSUME RestoreDisconnects PROVE Skipped'
  <2>1. hist'.off = hist.off /\ hist'.sentSkipped = hist.sentSkipped
    BY <1>31 DEF RestoreDisconnects
  <2>2. \A d \in Conns : ws'[d] => ws[d]
    BY <1>31 DEF RestoreDisconnects, Disconnect, Close
  <2> QED BY <1>31, <1>u, <2>1, <2>2 DEF RestoreDisconnects
<1>32. ASSUME Restart PROVE Skipped'
  <2>1. hist'.off = hist.off /\ hist'.sentSkipped = hist.sentSkipped
    BY <1>32, <1>t DEF Restart, HistRecs
  <2>2. \A d \in Conns : ws'[d] => ws[d]
    BY <1>32 DEF Restart
  <2>4. \A d \in Conns :
           /\ loop'[d].st = "read" => loop[d].st = "read" /\ loop'[d].cur = loop[d].cur
           /\ loop'[d].batch \subseteq loop[d].batch
           /\ loop'[d].st = "sending" => loop[d].st = "sending" /\ loop'[d].cur = loop[d].cur
    BY <1>32, <1>t DEF Restart, NoLoop, LoopRecs
  <2> QED BY <1>s, <2>1, <2>2, <2>4
<1>33. CASE UNCHANGED <<hist, ws, loop, cursor>>
  BY <1>33 DEF Skipped
<1> QED BY <1>1, <1>2, <1>3, <1>4, <1>5, <1>6, <1>7, <1>8, <1>9, <1>10, <1>11, <1>12, <1>13,
   <1>14, <1>15, <1>16, <1>17, <1>18, <1>19, <1>20, <1>21, <1>22, <1>23, <1>24, <1>25, <1>26,
   <1>27, <1>28, <1>29, <1>30, <1>31, <1>32, <1>33 DEF Next, HandleConn, DeliverLoop, Worker,
   SetEnabled, Workspace, vars, SyncReads, AnnounceFails, SkipReads, HelloFails, HandlerReturns,
   WorkerFinishes, SwitchReadsLatest, SwitchFails, RestoreReadsLatest, Leave

-----------------------------------------------------------------------------
(* The theorems *)

(* A server that has just started meets all of it. *)
LEMMA InitIInv == Init => IInv
<1> SUFFICES ASSUME Init PROVE IInv
  OBVIOUS
<1>0. 0 \in Positions /\ NoCode \in Versions /\ NoRow \in NoRow..NEvents
  BY ConstantTypes DEF Positions, Versions, NoRow
<1>1. Types
  <2>1. RowTypes
    BY <1>0 DEF Init, RowTypes
  <2>2. SideTypes
    BY <1>0, RestTypes DEF Init, SideTypes
  <2>3. CallTypes
    <3>1. admin = NoSwitch /\ wsq = <<>> /\ restore = [st |-> "idle", at |-> 0]
      BY DEF Init
    <3>2. wsq \in Seq(BOOLEAN) /\ restore.st = "idle"
      BY <3>1
    <3>3. restore \in [st : {"idle", "skip", "drop"}, at : Positions]
      BY <1>0, <3>1
    <3> QED BY <3>1, <3>2, <3>3, RestTypes DEF CallTypes
  <2>4. conn \in [Conns -> ConnRecs] /\ loop \in [Conns -> LoopRecs]
    BY RestTypes DEF Init
  <2>5. hist \in HistRecs
    BY DEF Init, HistRecs
  <2> QED BY <2>1, <2>2, <2>3, <2>4, <2>5 DEF Types
<1>2. \A c \in Conns : /\ conn[c].st = "none" /\ conn[c].at = 0 /\ ~ws[c] /\ active[c] = 0
                       /\ loop[c].st = "off" /\ loop[c].cur = 0 /\ loop[c].batch = {}
                       /\ work[c].out = "idle" /\ hist.acked[c] = {}
  BY DEF Init, NoConnState, NoLoop, Idle
<1>3. log = {} /\ cursor = NoRow /\ reg = NoConn /\ admin.at = 0 /\ restore.at = 0
  BY DEF Init, NoSwitch
<1>4. /\ hist.off = {} /\ ~hist.sentOff /\ ~hist.sentSkipped /\ hist.asked /\ rec.enabled
      /\ admin.st = "idle"
  BY DEF Init, NoSwitch
<1>5. Sockets /\ Held /\ SameRun
  BY <1>2, <1>3 DEF Sockets, Held, SameRun, InRun
<1>6. Passing
  BY <1>2, <1>3 DEF Passing, PassedIsAccounted, PassesOn, InRun
<1>7. Recorded /\ Awake
  BY <1>2 DEF Recorded, Awake
<1>8. Off /\ Skipped
  BY <1>2, <1>4 DEF Off, Skipped
<1> QED BY <1>1, <1>5, <1>6, <1>7, <1>8 DEF IInv

(* Every step keeps the invariant, part by part. *)
LEMMA NextIInv == IInv /\ [Next]_vars => IInv'
BY TypesNext, SocketsNext, HeldNext, SameRunNext, PassingNext, RecordedNext, AwakeNext, OffNext,
   SkippedNext DEF IInv

(* The invariant holds of every state that handlers, loops, workers, calls and restarts lead to. *)
THEOREM Invariant == Spec => []IInv
BY InitIInv, NextIInv, PTL DEF Spec

(* Every field holds a value of its type, only a connection in progress is registered, and a *)
(* deliverLoop runs for a connection past its hello alone (dialin.go handleConn). *)
THEOREM TypeCorrect == Spec => []TypeOK
<1>1. IInv => TypeOK
  <2> SUFFICES ASSUME IInv PROVE TypeOK
    OBVIOUS
  <2>1. log \subseteq Events /\ archived \in BOOLEAN /\ cursor \in NoRow..NEvents
        /\ rec \in [enabled : BOOLEAN, code : Codes \cup {NoCode}]
    BY DEF IInv, Types, RowTypes, Versions
  <2>2. /\ reg \in Conns \cup {NoConn} /\ ws \in [Conns -> BOOLEAN] /\ woken \in [Conns -> BOOLEAN]
        /\ active \in [Conns -> 0..NEvents]
        /\ \A c \in Conns : work[c].ev \in 0..NEvents
    BY DEF IInv, Types, SideTypes, Positions
  <2>3. /\ admin.st \in {"idle", "latest", "skip", "update", "drop"} /\ admin.at \in 0..NEvents
        /\ restore.st \in {"idle", "skip", "drop"} /\ restore.at \in 0..NEvents
    BY DEF IInv, Types, CallTypes, Positions
  <2>4. conn \in [Conns -> [st : {"none", "announce", "sync", "cursor", "latest", "skip", "hello",
                                  "reading", "recording", "ended", "gone"},
                            code : Codes \cup {NoCode},
                            saw : [enabled : BOOLEAN, runs : BOOLEAN], at : 0..NEvents]]
    BY DEF IInv, Types, ConnRecs, ConnStates, Versions, Positions
  <2>5. \A c \in Conns : /\ loop[c].st \in {"off", "top", "read", "batch", "sending",
                                            "await", "wait"}
                         /\ loop[c].batch \subseteq Events /\ loop[c].cur \in 0..NEvents
    BY DEF IInv, Types, LoopRecs, LoopStates, Positions
  <2>6. /\ reg # NoConn => conn[reg].st \notin {"none", "gone"}
        /\ \A c \in Conns : loop[c].st # "off" =>
              conn[c].st \in {"reading", "recording", "ended", "gone"}
    BY DEF IInv, Sockets, InLoop
  <2> QED BY <2>1, <2>2, <2>3, <2>4, <2>5, <2>6 DEF TypeOK
<1> QED BY <1>1, Invariant, PTL

(* The cursor leaves a wanted event behind only with an account of it: it ran, or one of the four *)
(* steps that may pass it did, for every batch size, order of commits, loss and restart *)
(* (deliverBatch, recordRun, readLoop). *)
THEOREM PassedAccounted == Spec => []PassedIsAccounted
<1>1. IInv => PassedIsAccounted
  BY DEF IInv, Passing
<1> QED BY <1>1, Invariant, PTL

(* A connection never starts again a run whose cursor it has persisted: the next batch is read *)
(* after close(done), and close(done) comes after the cursor (recordRun, deliverLoop). *)
THEOREM FinishedNotRunAgain == Spec => []NotRunAgain
<1>1. IInv => NotRunAgain
  BY DEF IInv, Recorded, NotRunAgain
<1> QED BY <1>1, Invariant, PTL

(* A deliverLoop never sleeps on an open channel over an event it could deliver, as long as no *)
(* database call failed (deliverLoop takes Wake() before deliverPending reads). *)
THEOREM LoopNeverSleeps == Spec => []NoLostWakeup
<1>1. IInv => NoLostWakeup
  BY DEF IInv, Awake, NoLostWakeup
<1> QED BY <1>1, Invariant, PTL

(* Between the return of SetEnabled(false) and the next SetEnabled(true) no event frame goes out, *)
(* unless an announce has written the switch back (SetEnabled, deliverLoop, handleConn). *)
THEOREM OffGetsNothing == Spec => []OffDeliversNothing
<1>1. IInv => OffDeliversNothing
  BY DEF IInv, Off, OffDeliversNothing
<1> QED BY <1>1, Invariant, PTL

(* What SetEnabled(true) skipped no connection ever sends, unless an announce has written the *)
(* switch back: the cursor only advances and every loop that can send reads it after the skip *)
(* (SkipBacklog, SetAutomationCursor, deliverPending). *)
THEOREM SkippedNeverSent == Spec => []SkippedStaysSkipped
<1>1. IInv => SkippedStaysSkipped
  BY DEF IInv, Skipped, SkippedStaysSkipped
<1> QED BY <1>1, Invariant, PTL
=============================================================================
