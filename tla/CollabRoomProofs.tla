-------------------------- MODULE CollabRoomProofs --------------------------
(***************************************************************************)
(* Proofs about CollabRoom, for every set of tabs, editors, connections,   *)
(* edits and server-side writes, both stores, and every number of drops,   *)
(* failed writes and restarts.                                             *)
(***************************************************************************)
EXTENDS CollabRoom, FiniteSetTheorems, SequenceTheorems, TLAPS

-----------------------------------------------------------------------------
(* Types *)

Texts == Edits \cup Writes \cup FirstBody

ConnStates == {"new", "got", "joined", "loaded", "claimed", "seeds", "read", "left", "gone"}
Sockets    == {"open", "lost", "hung"}
ResetSteps == {"idle", "fenced", "written", "cleared"}

Replays  == [ops : SUBSET Ops, any : BOOLEAN, seq : Nat]
ConnRecs == [pc : ConnStates, sess : Sessions \cup {None}, member : BOOLEAN,
             stale : BOOLEAN, sock : Sockets, replay : Replays]
SessRecs == [hasState : BOOLEAN, seeder : Conns \cup {None}, resetSeq : Nat,
             lastBody : SUBSET Texts]
TabRecs  == [link : Conns \cup {None}, inited : BOOLEAN, lastSeq : Nat, dirty : BOOLEAN,
             doc : SUBSET Ops, seed : Conns \cup {None}, seeded : BOOLEAN, loaded : SUBSET Texts]
Entries  == [seq : Nat, ops : SUBSET Ops]

\* Frames by their type, since a field that a frame lacks is not read.
UpFrames ==
    [type : {"update"}, ops : SUBSET Ops] \cup [type : {"commit"}, ops : SUBSET Ops, base : Nat]
DownFrames ==
    [type : {"init", "update"}, ops : SUBSET Ops, seq : Nat] \cup [type : {"commit"}, seq : Nat]
        \cup [type : {"seed", "reset"}]

StoreTypes ==
    /\ store \in [rowid : Nat, last : Nat, snap : SUBSET Entries, incs : SUBSET Entries]
    /\ \E e : store.snap \subseteq {e}
    /\ body \subseteq Texts

HubTypes ==
    /\ hub \in [room : Sessions \cup {None}, made : 0..MaxSessions, resets : Nat]
    /\ sess \in [Sessions -> SessRecs]
    /\ rst \in [pc : ResetSteps, sess : Sessions \cup {None}, seq : Nat, write : Writes \cup {None}]
    /\ rst.pc # "idle" => rst.write \in Writes

ConnTypes ==
    /\ conn \in [Conns -> ConnRecs]
    /\ \A c \in Conns : conn[c].sess = None <=> conn[c].pc \in {"new", "gone"}
    /\ \A c \in Conns : conn[c].member => conn[c].pc \notin {"new", "got", "left", "gone"}

FrameTypes == up \in [Conns -> Seq(UpFrames)] /\ down \in [Conns -> Seq(DownFrames)]

TabTypes ==
    /\ tab \in [Tabs -> TabRecs]
    /\ \A t \in Tabs : tab[t].link # None => TabOf[tab[t].link] = t

HistTypes ==
    /\ hist \in [accepted : SUBSET [op : Ops, seq : Nat], gaps : SUBSET Ops, early : BOOLEAN, unsent : BOOLEAN,
                 split : BOOLEAN, unsynced : BOOLEAN, wrote : Writes \cup {None}]
    /\ faults \in [drops : Nat, errs : Nat, restarts : Nat]

Types == StoreTypes /\ HubTypes /\ ConnTypes /\ FrameTypes /\ TabTypes /\ HistTypes

-----------------------------------------------------------------------------
\* A session handed out is one the hub made.
Handed ==
    /\ hub.room # None => hub.room <= hub.made
    /\ rst.sess # None => rst.sess <= hub.made
    /\ \A c \in Conns : conn[c].sess # None => conn[c].sess <= hub.made

\* A session that somebody may still use.
InUse(s) == hub.room = s \/ \E c \in Conns : conn[c].sess = s

\* The seeder of a room is one of its participants.
SeederIsMember ==
    \A s \in Sessions : InUse(s) /\ sess[s].seeder # None => sess[s].seeder \in Members(s)

\* An empty room with somebody who may seed it has a seeder.
Initialized == {"claimed", "seeds", "read"}
EmptyIsClaimed ==
    \A c \in Conns :
        (conn[c].sess # None /\ MayClaim(conn[c].sess, c) /\ conn[c].pc \in Initialized)
            => sess[conn[c].sess].seeder # None

SeedInv == Handed /\ SeederIsMember /\ EmptyIsClaimed

-----------------------------------------------------------------------------
\* As long as the room has had one session at a time, its participants are in
\* the one the hub holds.
OneRoom ==
    ~hist.split => \A c \in Conns : conn[c].member => conn[c].sess = hub.room

\* While a reset is under way no earlier one's write counts as the body.
NothingWritten == rst.pc # "idle" => hist.wrote = None

\* From the write to the end of a fenced reset the body is the server's.
WriteKept == (rst.pc \in {"written", "cleared"} /\ Fenced /\ ~hist.split) => body = {rst.write}

\* From the clearing to the end of a fenced reset the log has no snapshot.
LogCleared == (rst.pc = "cleared" /\ Fenced /\ ~hist.split) => store.snap = {}

\* Outside a reset's writes the body, the log and what the room believes it
\* wrote last agree.
InSync ==
    (~hist.split /\ ~hist.unsynced /\ rst.pc \in {"idle", "fenced"}) =>
        /\ \A snap \in store.snap : Text(snap.ops) \in {{}, body}
        /\ hub.room # None => sess[hub.room].lastBody \in {{}, body}

Sync == NothingWritten /\ WriteKept /\ LogCleared /\ InSync /\ ServerWriteWins
BodyInv == Handed /\ OneRoom /\ Sync

-----------------------------------------------------------------------------
\* The counter of the room never goes back, but for a restart that loses it.
CounterKept == store'.last >= store.last \/ Restart

\* Past the loading of its replay.
Loaded == {"loaded", "claimed", "seeds", "read"}

\* No reset on record is ahead of the counter.
JoinInv ==
    /\ Handed /\ JoinedPastReset
    /\ hub.resets <= store.last
    /\ rst.pc = "cleared" => rst.seq <= store.last
    /\ \A s \in Sessions : InUse(s) => sess[s].resetSeq <= store.last

-----------------------------------------------------------------------------
(* Helpers *)

(* The constants' assumptions the types use. *)
LEMMA ConstantTypes ==
    /\ None \notin Conns /\ None \notin Writes /\ None \notin Nat /\ None \notin Sessions
    /\ Conns \subseteq Nat /\ MaxSessions \in Nat /\ Sessions \subseteq Nat
    /\ TabOf \in [Conns -> Tabs] /\ Editors \subseteq Tabs
<1>1. Sessions \subseteq Nat /\ MaxSessions \in Nat
  BY CollabRoomAssumption DEF Sessions
<1> QED BY <1>1, CollabRoomAssumption

(* Sending a frame keeps the queues of frames well-typed. *)
LEMMA SentIs ==
    ASSUME NEW F, NEW q \in [Conns -> Seq(F)], NEW f \in F
    PROVE  /\ \A c \in Conns : Sent(q, c, f) \in [Conns -> Seq(F)]
           /\ \A cs : SentAll(q, cs, f) \in [Conns -> Seq(F)]
<1>1. \A d \in Conns : Append(q[d], f) \in Seq(F)
  BY AppendProperties
<1> QED BY <1>1 DEF Sent, SentAll

(* A tab that receives a frame has a connection, and takes the frame off it. *)
LEMMA ReceivedIs ==
    ASSUME TabTypes, FrameTypes, NEW t \in Tabs, NEW k, Receives(t, k)
    PROVE  /\ tab[t].link \in Conns
           /\ Frame(t) \in DownFrames /\ Frame(t).type = k
           /\ Taken(t) \in [Conns -> Seq(DownFrames)]
<1>1. tab[t].link \in Conns
  BY DEF TabTypes, TabRecs, Receives
<1> DEFINE q == down[tab[t].link]
<1>2. q \in Seq(DownFrames) /\ q # <<>>
  BY <1>1 DEF FrameTypes, Receives
<1>3. Head(q) \in DownFrames /\ Tail(q) \in Seq(DownFrames)
  <2> HIDE DEF q
  <2> QED BY <1>2, HeadTailProperties
<1> QED BY <1>1, <1>3 DEF Frame, Taken, Receives, FrameTypes

(* What the frames of each type carry. *)
LEMMA FrameFields ==
    /\ \A f \in DownFrames : f.type \in {"init", "update"} => f.ops \in SUBSET Ops /\ f.seq \in Nat
    /\ \A f \in DownFrames : f.type = "commit" => f.seq \in Nat
    /\ \A f \in UpFrames : f.ops \in SUBSET Ops
    /\ \A f \in UpFrames : f.type = "commit" => f.base \in Nat
  BY DEF DownFrames, UpFrames

(* A connection read from has a frame, whole. *)
LEMMA ReadIs ==
    ASSUME FrameTypes, NEW c \in Conns, NEW k, Reads(c, k)
    PROVE  /\ conn[c].pc = "read"
           /\ Head(up[c]) \in UpFrames /\ Head(up[c]).type = k
           /\ up' \in [Conns -> Seq(UpFrames)]
<1> DEFINE q == up[c]
<1>1. q \in Seq(UpFrames) /\ q # <<>>
  BY DEF FrameTypes, Reads
<1>2. Head(q) \in UpFrames /\ Tail(q) \in Seq(UpFrames)
  <2> HIDE DEF q
  <2> QED BY <1>1, HeadTailProperties
<1> QED BY <1>2 DEF Reads, FrameTypes

(* Documents stay sets of operations. *)
LEMMA DocTypes ==
    /\ \A e \in Edits : Ins(e, e) \in Ops
    /\ \A doc \in SUBSET Ops : Text(doc) \in SUBSET Texts
    /\ \A doc \in SUBSET Ops, by \in Conns, value \in SUBSET Texts :
          SetBody(doc, by, value) \in SUBSET Ops
<1>1. \A e \in Edits : Ins(e, e) \in Ops
  BY DEF Ins, Ops
<1>2. ASSUME NEW doc \in SUBSET Ops PROVE Text(doc) \in SUBSET Texts /\ Shown(doc) \in SUBSET Ops
  BY DEF Text, Shown, Texts, Ops
<1>3. \A op \in Ops : Hidden(op) \in Ops
  BY DEF Hidden, Ops
<1>4. \A by \in Conns, x \in Texts : Ins(by, x) \in Ops
  BY DEF Ins, Ops, Texts
<1> QED BY <1>1, <1>2, <1>3, <1>4 DEF SetBody

(* What the store does with its record. *)
LEMMA StoreIs ==
    ASSUME StoreTypes, NEW ops \in SUBSET Ops, NEW base \in Nat
    PROVE  /\ NextSeq \in Nat /\ LoadReplay \in Replays
           /\ store' = AppendUpdate(ops) \/ store' = AppendSnapshot(ops, base)
                \/ store' = StoreReset \/ store' = EmptyStore
              => /\ store' \in [rowid : Nat, last : Nat, snap : SUBSET Entries, incs : SUBSET Entries]
                 /\ \E e : store'.snap \subseteq {e}
<1> DEFINE S == [rowid : Nat, last : Nat, snap : SUBSET Entries, incs : SUBSET Entries]
<1>1. store \in S /\ \E e : store.snap \subseteq {e}
  BY DEF StoreTypes
<1>2. NextSeq \in Nat
  BY <1>1 DEF NextSeq
<1>3. LoadReplay \in Replays
  <2> DEFINE after == {u \in store.incs : \A x \in store.snap : u.seq > x.seq}
             all == UNION {u.ops : u \in store.snap \cup after}
             any == store.snap # {} \/ after # {}
  <2>1. all \in SUBSET Ops
    BY <1>1 DEF Entries
  <2>2. store.last \in Nat
    BY <1>1
  <2>3. any \in BOOLEAN
    OBVIOUS
  <2>4. LoadReplay = [ops |-> all, any |-> any, seq |-> store.last]
    BY DEF LoadReplay
  <2> HIDE DEF all, any
  <2> QED BY <2>1, <2>2, <2>3, <2>4 DEF Replays
<1> DEFINE e == [seq |-> NextSeq, ops |-> ops]
           a == Append1(store, NextSeq)
<1>4. e \in Entries
  BY <1>2 DEF Entries
<1>5. a \in S /\ a.snap = store.snap /\ a.incs = store.incs
  BY <1>1, <1>2 DEF Append1
<1>6. AppendUpdate(ops) = [a EXCEPT !.incs = @ \cup {e}]
  BY DEF AppendUpdate
<1> DEFINE kept == IF Durable THEN {u \in a.incs : u.seq > base} ELSE {}
<1>7. AppendSnapshot(ops, base) = [a EXCEPT !.snap = {e}, !.incs = kept]
  BY DEF AppendSnapshot
<1>12. kept \in SUBSET Entries
  BY <1>5
<1> HIDE DEF e, a, kept
<1>8. AppendUpdate(ops) \in S /\ AppendUpdate(ops).snap = store.snap
  BY <1>4, <1>5, <1>6
<1>9. AppendSnapshot(ops, base) \in S /\ AppendSnapshot(ops, base).snap = {e}
  BY <1>4, <1>5, <1>7, <1>12
<1>10. StoreReset \in S /\ StoreReset.snap = {}
  <2> DEFINE n == store.last + 1
  <2>1. n \in Nat
    BY <1>1
  <2>2. StoreReset = [store EXCEPT !.last = n, !.snap = {}, !.incs = {}]
    BY DEF StoreReset
  <2> HIDE DEF n
  <2> QED BY <1>1, <2>1, <2>2
<1>11. EmptyStore \in S /\ EmptyStore.snap = {}
  BY DEF EmptyStore
<1> QED BY <1>1, <1>2, <1>3, <1>8, <1>9, <1>10, <1>11

(* What a step that leaves the variables of a part alone keeps. *)
LEMMA Frames ==
    ASSUME Types
    PROVE  /\ UNCHANGED <<store, body>> => StoreTypes'
           /\ UNCHANGED <<hub, sess, rst>> => HubTypes'
           /\ UNCHANGED conn => ConnTypes'
           /\ UNCHANGED <<up, down>> => FrameTypes'
           /\ UNCHANGED tab => TabTypes'
           /\ UNCHANGED <<hist, faults>> => HistTypes'
<1>1. UNCHANGED conn => ConnTypes'
  BY DEF Types, ConnTypes
<1> QED BY <1>1 DEF Types, StoreTypes, HubTypes, FrameTypes, TabTypes, HistTypes

(* One connection changes, and the others stay. *)
LEMMA ConnIs ==
    ASSUME ConnTypes, NEW c \in Conns, NEW r \in ConnRecs, conn' = [conn EXCEPT ![c] = r],
           r.sess = None <=> r.pc \in {"new", "gone"},
           r.member => r.pc \notin {"new", "got", "left", "gone"}
    PROVE  ConnTypes' /\ conn'[c] = r /\ \A d \in Conns \ {c} : conn'[d] = conn[d]
  BY DEF ConnTypes

(* One tab changes, and the others stay. *)
LEMMA TabIs ==
    ASSUME TabTypes, NEW t \in Tabs, NEW r \in TabRecs, tab' = [tab EXCEPT ![t] = r],
           r.link # None => TabOf[r.link] = t
    PROVE  TabTypes' /\ tab'[t] = r /\ \A u \in Tabs \ {t} : tab'[u] = tab[u]
  BY DEF TabTypes

(* What a step sets of a session keeps it well-typed. *)
LEMMA SessIs ==
    ASSUME HubTypes, NEW s \in Sessions, NEW b \in BOOLEAN, NEW n \in Conns \cup {None},
           NEW l \in SUBSET Texts
    PROVE  /\ [sess EXCEPT ![s].hasState = b] \in [Sessions -> SessRecs]
           /\ [sess EXCEPT ![s].seeder = n] \in [Sessions -> SessRecs]
           /\ [sess EXCEPT ![s].hasState = b, ![s].seeder = n] \in [Sessions -> SessRecs]
           /\ [sess EXCEPT ![s].hasState = b, ![s].lastBody = l] \in [Sessions -> SessRecs]
<1>0. sess[s] \in SessRecs /\ \A r \in SessRecs : [sess EXCEPT ![s] = r] \in [Sessions -> SessRecs]
  BY DEF HubTypes
<1>1. /\ [sess[s] EXCEPT !.hasState = b] \in SessRecs
      /\ [sess[s] EXCEPT !.seeder = n] \in SessRecs
  BY <1>0 DEF SessRecs
<1>2. [sess[s] EXCEPT !.hasState = b, !.seeder = n] \in SessRecs
  BY <1>0 DEF SessRecs
<1>3. [sess[s] EXCEPT !.hasState = b, !.lastBody = l] \in SessRecs
  BY <1>0 DEF SessRecs
<1> QED BY <1>0, <1>1, <1>2, <1>3

(* A lost socket changes nothing else of its connection. *)
LEMMA OnlySocket ==
    ASSUME ConnTypes, (\E t \in Tabs : RecvReset(t)) \/ (\E c \in Conns : Lose(c)), NEW d \in Conns
    PROVE  /\ conn'[d].sess = conn[d].sess /\ conn'[d].member = conn[d].member
           /\ conn'[d].stale = conn[d].stale /\ conn'[d].pc = conn[d].pc
           /\ conn'[d].replay = conn[d].replay
<1>1. ASSUME NEW c, NEW k, conn' = [conn EXCEPT ![c].sock = k]
      PROVE  /\ conn'[d].sess = conn[d].sess /\ conn'[d].member = conn[d].member
             /\ conn'[d].stale = conn[d].stale /\ conn'[d].pc = conn[d].pc
             /\ conn'[d].replay = conn[d].replay
  BY <1>1 DEF ConnTypes, ConnRecs
<1>2. \E c, k : conn' = [conn EXCEPT ![c].sock = k]
  BY DEF RecvReset, Lose
<1> QED BY <1>1, <1>2

(* The stages of sendInit leave everybody's seat as it is. *)
LEMMA OnlyStage ==
    ASSUME ConnTypes, NEW c \in Conns, Load(c) \/ ClaimSeed(c) \/ SendInit(c), NEW d \in Conns
    PROVE  /\ conn'[d].sess = conn[d].sess /\ conn'[d].member = conn[d].member
           /\ conn'[d].stale = conn[d].stale
           /\ d # c => conn'[d] = conn[d]
<1>1. ASSUME NEW k, NEW r, conn' = [conn EXCEPT ![c].pc = k, ![c].replay = r]
      PROVE  /\ conn'[d].sess = conn[d].sess /\ conn'[d].member = conn[d].member
             /\ conn'[d].stale = conn[d].stale
             /\ d # c => conn'[d] = conn[d]
  BY <1>1 DEF ConnTypes, ConnRecs
<1>2. ASSUME NEW k, conn' = [conn EXCEPT ![c].pc = k]
      PROVE  /\ conn'[d].sess = conn[d].sess /\ conn'[d].member = conn[d].member
             /\ conn'[d].stale = conn[d].stale
             /\ d # c => conn'[d] = conn[d]
  BY <1>2 DEF ConnTypes, ConnRecs
<1>3. CASE Load(c)
  <2>1. \E r : conn' = [conn EXCEPT ![c].pc = "loaded", ![c].replay = r]
    BY <1>3 DEF Load
  <2> QED BY <1>1, <2>1
<1>4. CASE ClaimSeed(c)
  <2>1. \E k : conn' = [conn EXCEPT ![c].pc = k]
    BY <1>4 DEF ClaimSeed
  <2> QED BY <1>2, <2>1
<1>5. CASE SendInit(c)
  <2>1. conn' = [conn EXCEPT ![c].pc = "read", ![c].replay.ops = {}]
    BY <1>5 DEF SendInit
  <2> QED BY <2>1 DEF ConnTypes, ConnRecs
<1> QED BY <1>3, <1>4, <1>5

(* A step that fails is counted. *)
LEMMA FailIs == HistTypes /\ Fail => faults' \in [drops : Nat, errs : Nat, restarts : Nat]
  BY DEF HistTypes, Fail

(* A dial touches the history only to note text that will not be resynced. *)
LEMMA DialHist ==
    ASSUME HistTypes, NEW t \in Tabs, NEW c \in Conns, Dial(t, c)
    PROVE  /\ HistTypes' /\ UNCHANGED <<store, body, rst, faults>>
           /\ \A f \in {"accepted", "gaps", "early", "split", "unsynced", "wrote"} : hist'[f] = hist[f]
           /\ hist.unsent => hist'.unsent
           /\ ~hist'.unsent => tab[t].inited \/ tab[t].dirty \/ tab[t].doc = {}
<1> DEFINE u == hist.unsent \/ (tab[t].doc # {} /\ ~tab[t].inited /\ ~tab[t].dirty)
<1>1. hist' = [hist EXCEPT !.unsent = u] /\ u \in BOOLEAN
  BY DEF Dial, HistTypes
<1>2. UNCHANGED <<store, body, rst, faults>>
  BY DEF Dial
<1>3. (hist.unsent => u) /\ (~u => tab[t].inited \/ tab[t].dirty \/ tab[t].doc = {})
  OBVIOUS
<1> HIDE DEF u
<1>4. hist'.unsent = u /\ HistTypes'
  BY <1>1, <1>2 DEF HistTypes
<1>5. \A f \in {"accepted", "gaps", "early", "split", "unsynced", "wrote"} : hist'[f] = hist[f]
  BY <1>1 DEF HistTypes
<1> QED BY <1>2, <1>3, <1>4, <1>5

(* A connection is dropped, and its seed handed on. *)
LEMMA LeaveIs ==
    ASSUME Types, NEW c \in Conns, NEW p \in {conn[c].pc, "left"}, NEW k \in Sockets,
           conn[c].pc \notin {"new", "gone"}, Leave(c, p, k)
    PROVE  /\ ConnTypes' /\ sess' \in [Sessions -> SessRecs]
           /\ down' \in [Conns -> Seq(DownFrames)]
<1> DEFINE r == [conn[c] EXCEPT !.member = FALSE, !.pc = p, !.sock = k]
<1>0. conn[c] \in ConnRecs /\ conn[c].sess \in Sessions /\ conn[c].sess # None
  BY DEF Types, ConnTypes, ConnRecs
<1>1. r \in ConnRecs /\ r.pc = p /\ r.sess = conn[c].sess /\ ~r.member
  BY <1>0 DEF ConnRecs, ConnStates
<1>2. conn' = [conn EXCEPT ![c] = r]
  BY DEF Leave
<1>3. ConnTypes'
  <2> HIDE DEF r
  <2> QED BY <1>0, <1>1, <1>2, ConnIs DEF Types
<1>4. CASE UNCHANGED <<sess, down>>
  BY <1>3, <1>4 DEF Types, HubTypes, FrameTypes
<1>5. ASSUME NEW n \in Conns \cup {None}, sess' = [sess EXCEPT ![conn[c].sess].seeder = n],
             down' = IF n = None THEN down ELSE Sent(down, n, [type |-> "seed"])
      PROVE  sess' \in [Sessions -> SessRecs] /\ down' \in [Conns -> Seq(DownFrames)]
  <2>1. sess' \in [Sessions -> SessRecs]
    BY <1>0, <1>5, SessIs DEF Types
  <2>2. [type |-> "seed"] \in DownFrames
    BY DEF DownFrames
  <2>3. down' \in [Conns -> Seq(DownFrames)]
    BY <1>5, <2>2, SentIs DEF Types, FrameTypes
  <2> QED BY <2>1, <2>3
<1> QED BY <1>3, <1>4, <1>5 DEF Leave

(* Every step keeps the types. *)
LEMMA NextTypes == Types /\ [Next]_vars => Types'
<1> SUFFICES ASSUME Types, [Next]_vars PROVE Types'
  OBVIOUS
<1> USE DEF Types
<1>1. ASSUME NEW t \in Tabs, NEW c \in Conns, Dial(t, c) PROVE Types'
  <2>0. conn[c] \in ConnRecs /\ tab[t] \in TabRecs
    BY DEF ConnTypes, TabTypes
  <2>1. CASE tab[t].inited /\ tab[t].lastSeq < hub.resets
    <3>1. FreshTab(body) \in TabRecs /\ FreshTab(body).link = None
      BY DEF FreshTab, TabRecs, StoreTypes
    <3>2. GoneConn \in ConnRecs /\ GoneConn.pc = "gone" /\ ~GoneConn.member /\ GoneConn.sess = None
      BY DEF GoneConn, NewConn, NoReplay, ConnRecs, Replays, ConnStates, Sockets
    <3>3. TabTypes'
      BY <1>1, <2>1, <3>1, TabIs DEF Dial
    <3>4. ConnTypes'
      BY <1>1, <2>1, <3>2, ConnIs DEF Dial
    <3> QED BY <1>1, <2>1, <3>3, <3>4, DialHist, Frames DEF Dial
  <2>2. CASE ~(tab[t].inited /\ tab[t].lastSeq < hub.resets)
    <3> DEFINE make == hub.room = None
               s == IF make THEN hub.made + 1 ELSE hub.room
               r == [tab[t] EXCEPT !.link = c]
               k == [conn[c] EXCEPT !.pc = "got", !.sess = s]
    <3>1. /\ s \in Sessions /\ TabOf[c] = t /\ conn[c].pc = "new"
          /\ tab' = [tab EXCEPT ![t] = r]
          /\ conn' = [conn EXCEPT ![c] = k]
          /\ hub' = [hub EXCEPT !.room = s, !.made = IF make THEN s ELSE @]
          /\ sess' = IF make THEN [sess EXCEPT ![s] = FreshSession(hub.resets)] ELSE sess
          /\ UNCHANGED <<store, body, up, down, rst, typed, faults>> /\ HistTypes'
      BY <1>1, <2>2, DialHist DEF Dial
    <3>2. r \in TabRecs /\ r.link = c
      BY <2>0 DEF TabRecs
    <3>3. k \in ConnRecs /\ k.pc = "got" /\ k.sess = s /\ k.member = conn[c].member /\ s # None
      BY <2>0, <3>1, ConstantTypes DEF ConnRecs, ConnStates
    <3>4. ~conn[c].member
      BY <3>1 DEF ConnTypes
    <3>5. FreshSession(hub.resets) \in SessRecs
      BY DEF FreshSession, SessRecs, HubTypes
    <3>6. hub' \in [room : Sessions \cup {None}, made : 0..MaxSessions, resets : Nat]
      <4> DEFINE n == IF make THEN s ELSE hub.made
      <4>1. n \in 0..MaxSessions
        BY <3>1, ConstantTypes DEF HubTypes, Sessions
      <4>2. hub' = [hub EXCEPT !.room = s, !.made = n]
        BY <3>1
      <4> HIDE DEF n, s
      <4> QED BY <3>1, <4>1, <4>2 DEF HubTypes
    <3> HIDE DEF r, k, s, make
    <3>7. HubTypes'
      BY <3>1, <3>5, <3>6 DEF HubTypes
    <3>8. TabTypes'
      BY <3>1, <3>2, TabIs
    <3>9. ConnTypes'
      BY <3>1, <3>3, <3>4, ConnIs
    <3> QED BY <3>1, <3>7, <3>8, <3>9, Frames
  <2> QED BY <2>1, <2>2
<1>2. ASSUME NEW c \in Conns, JoinRoom(c) PROVE Types'
  <2>1. ConnTypes'
    BY <1>2 DEF JoinRoom, ConnTypes, ConnRecs, ConnStates
  <2>2. HistTypes'
    BY <1>2 DEF JoinRoom, HistTypes
  <2> QED BY <1>2, <2>1, <2>2, Frames DEF JoinRoom
<1>3. ASSUME NEW c \in Conns, Load(c) PROVE Types'
  <2>1. LoadReplay \in Replays
    BY StoreIs
  <2>2. ConnTypes'
    <3> DEFINE r == LoadReplay
               k == [conn[c] EXCEPT !.pc = "loaded", !.replay = r]
    <3>1. conn[c] \in ConnRecs /\ conn[c].pc = "joined" /\ conn' = [conn EXCEPT ![c] = k]
      BY <1>3 DEF Load, ConnTypes
    <3> HIDE DEF r
    <3>2. k \in ConnRecs /\ k.pc = "loaded" /\ k.sess = conn[c].sess /\ k.member = conn[c].member
      BY <2>1, <3>1 DEF ConnRecs, ConnStates, r
    <3>3. conn[c].sess # None
      BY <3>1 DEF ConnTypes
    <3> HIDE DEF k
    <3> QED BY <3>1, <3>2, <3>3, ConnIs
  <2> QED BY <1>3, <2>2, Frames DEF Load
<1>4. ASSUME NEW c \in Conns, ClaimSeed(c) PROVE Types'
  <2>0. conn[c] \in ConnRecs /\ conn[c].sess \in Sessions /\ conn[c].replay \in Replays
    BY <1>4 DEF ClaimSeed, ConnTypes, ConnRecs
  <2>1. ConnTypes'
    BY <1>4 DEF ClaimSeed, ConnTypes, ConnRecs, ConnStates
  <2>2. sess' \in [Sessions -> SessRecs]
    <3> DEFINE s == conn[c].sess
               b == sess[s].hasState \/ conn[c].replay.any
               n == IF MayClaim(s, c) /\ ~conn[c].replay.any /\ sess[s].seeder = None
                    THEN c ELSE sess[s].seeder
    <3>1. b \in BOOLEAN /\ n \in Conns \cup {None}
      BY <2>0 DEF HubTypes, SessRecs
    <3>2. sess' = [sess EXCEPT ![s].hasState = b, ![s].seeder = n]
      BY <1>4 DEF ClaimSeed
    <3> HIDE DEF b, n
    <3> QED BY <2>0, <3>1, <3>2, SessIs
  <2> QED BY <1>4, <2>1, <2>2, Frames DEF ClaimSeed, HubTypes
<1>5. ASSUME NEW c \in Conns, SendInit(c) PROVE Types'
  <2>0. conn[c] \in ConnRecs /\ conn[c].replay \in Replays /\ conn[c].sess \in Sessions
    BY <1>5 DEF SendInit, ConnTypes, ConnRecs
  <2> DEFINE r == conn[c].replay
             i == [type |-> "init", ops |-> r.ops, seq |-> r.seq]
  <2>1. i \in DownFrames /\ [type |-> "seed"] \in DownFrames
    BY <2>0 DEF DownFrames, Replays
  <2>2. Sent(down, c, i) \in [Conns -> Seq(DownFrames)]
    BY <2>1, SentIs DEF FrameTypes
  <2>3. FrameTypes'
    <3> HIDE DEF i
    <3>1. Append(Sent(down, c, i)[c], [type |-> "seed"]) \in Seq(DownFrames)
      BY <2>1, <2>2, AppendProperties
    <3> QED BY <1>5, <2>2, <3>1 DEF SendInit, FrameTypes, i
  <2>4. ConnTypes'
    BY <1>5, <2>0 DEF SendInit, ConnTypes, ConnRecs, ConnStates, Replays
  <2> QED BY <1>5, <2>3, <2>4, Frames DEF SendInit
<1>6. ASSUME NEW c \in Conns, HandleUpdate(c) PROVE Types'
  <2>1. /\ conn[c].pc = "read" /\ Head(up[c]) \in UpFrames /\ Head(up[c]).type = "update"
        /\ up' \in [Conns -> Seq(UpFrames)]
    BY <1>6, ReadIs DEF HandleUpdate
  <2> DEFINE ops == Head(up[c]).ops
  <2>2. ops \in SUBSET Ops /\ conn[c].sess \in Sessions
    BY <2>1, FrameFields DEF ConnTypes, ConnRecs
  <2>3. CASE Writable(c)
    <3> HIDE DEF ops
    <3>1. HubTypes'
      <4>1. /\ sess' = [sess EXCEPT ![conn[c].sess].hasState = TRUE]
            /\ UNCHANGED <<hub, rst>>
        BY <1>6, <2>3 DEF HandleUpdate
      <4>2. sess' \in [Sessions -> SessRecs]
        BY <2>2, <4>1, SessIs
      <4> QED BY <4>1, <4>2 DEF HubTypes
    <3>2. NextSeq \in Nat /\ (store' = AppendUpdate(ops) /\ body' = body => StoreTypes')
      BY <2>2, StoreIs DEF StoreTypes
    <3>3. CASE StoreAndRelay(c, ops)
      <4>1. StoreTypes'
        BY <1>6, <2>3, <3>2, <3>3 DEF StoreAndRelay, HandleUpdate
      <4>2. [type |-> "update", ops |-> ops, seq |-> NextSeq] \in DownFrames
        BY <2>2, <3>2 DEF DownFrames
      <4>3. FrameTypes'
        BY <2>1, <3>3, <4>2, SentIs DEF StoreAndRelay, FrameTypes
      <4>4. HistTypes'
        <5> DEFINE new == {[op |-> op, seq |-> NextSeq] : op \in ops}
        <5>1. new \in SUBSET [op : Ops, seq : Nat]
          BY <2>2, <3>2
        <5>2. hist' = [hist EXCEPT !.accepted = @ \cup new] /\ UNCHANGED faults
          BY <3>3 DEF StoreAndRelay
        <5> HIDE DEF new
        <5> QED BY <5>1, <5>2 DEF HistTypes
      <4> QED BY <1>6, <3>1, <4>1, <4>3, <4>4, Frames DEF HandleUpdate
    <3>4. CASE RelayUnstored(c, ops)
      <4>1. [type |-> "update", ops |-> ops, seq |-> 0] \in DownFrames
        BY <2>2 DEF DownFrames
      <4>2. FrameTypes'
        BY <2>1, <3>4, <4>1, SentIs DEF RelayUnstored, FrameTypes
      <4>3. HistTypes'
        BY <2>2, <3>4, FailIs DEF RelayUnstored, HistTypes
      <4> QED BY <1>6, <2>3, <3>1, <3>4, <4>2, <4>3, Frames DEF HandleUpdate, RelayUnstored
    <3> QED BY <1>6, <2>3, <3>3, <3>4 DEF HandleUpdate, ops
  <2>4. CASE ~Writable(c)
    BY <1>6, <2>1, <2>4, Frames DEF HandleUpdate, Refused, FrameTypes
  <2> QED BY <2>3, <2>4
<1>7. ASSUME NEW c \in Conns, HandleCommit(c) PROVE Types'
  <2> DEFINE m == Head(up[c])
             s == conn[c].sess
  <2>1. /\ conn[c].pc = "read" /\ m \in UpFrames /\ m.type = "commit"
        /\ up' \in [Conns -> Seq(UpFrames)]
    BY <1>7, ReadIs DEF HandleCommit
  <2>2. m.ops \in SUBSET Ops /\ m.base \in Nat /\ s \in Sessions /\ NextSeq \in Nat
    BY <2>1, FrameFields, StoreIs DEF ConnTypes, ConnRecs
  <2>3. Text(m.ops) \in SUBSET Texts
    BY <2>2, DocTypes
  <2>4. UNCHANGED <<hub, conn, tab, rst, typed>>
    BY <1>7 DEF HandleCommit
  <2>5. CASE Snapshots(c, m)
    <3> HIDE DEF m
    <3>1. StoreTypes'
      <4>1. store' = AppendSnapshot(m.ops, m.base) /\ body' \in {body, Text(m.ops)}
        BY <2>5 DEF Snapshots
      <4> QED BY <2>2, <2>3, <4>1, StoreIs DEF StoreTypes
    <3>2. HubTypes'
      <4> DEFINE last == IF Text(m.ops) \notin {{}, sess[s].lastBody} THEN Text(m.ops) ELSE sess[s].lastBody
      <4>1. last \in SUBSET Texts
        BY <2>2, <2>3 DEF HubTypes, SessRecs
      <4>2. sess' = [sess EXCEPT ![s].hasState = TRUE, ![s].lastBody = last]
        BY <2>5 DEF Snapshots
      <4> HIDE DEF last
      <4>3. sess' \in [Sessions -> SessRecs]
        BY <2>2, <4>1, <4>2, SessIs
      <4> QED BY <2>4, <4>3 DEF HubTypes
    <3>3. FrameTypes'
      <4>1. [type |-> "commit", seq |-> NextSeq] \in DownFrames
        BY <2>2 DEF DownFrames
      <4> QED BY <2>1, <2>5, <4>1, SentIs DEF Snapshots, FrameTypes
    <3>4. HistTypes'
      <4> DEFINE hidden == {a.op : a \in {b \in hist.accepted : b.seq > m.base /\ b.op \notin m.ops}}
                 new == Text(m.ops) \notin {{}, sess[s].lastBody}
                 un == IF new THEN FALSE ELSE hist.unsynced
      <4>1. hidden \in SUBSET Ops /\ un \in BOOLEAN
        BY DEF HistTypes
      <4>2. \/ hist' = [hist EXCEPT !.gaps = @ \cup hidden, !.unsynced = un] /\ UNCHANGED faults
            \/ hist' = [hist EXCEPT !.gaps = @ \cup hidden, !.unsynced = TRUE] /\ Fail
        BY <2>5 DEF Snapshots
      <4> HIDE DEF hidden, un
      <4> QED BY <4>1, <4>2, FailIs DEF HistTypes
    <3> QED BY <2>4, <3>1, <3>2, <3>3, <3>4, Frames
  <2>6. CASE SnapshotFails(m)
    BY <2>1, <2>4, <2>6, FailIs, Frames DEF SnapshotFails, FrameTypes, HistTypes, HubTypes
  <2>7. CASE Refused
    BY <2>1, <2>4, <2>7, Frames DEF Refused, FrameTypes
  <2> QED BY <1>7, <2>5, <2>6, <2>7 DEF HandleCommit
<1>8. ASSUME NEW c \in Conns, HangUp(c) PROVE Types'
  <2>1. conn[c].pc \notin {"new", "gone"} /\ "hung" \in Sockets
    BY <1>8 DEF HangUp, ConnTypes, Sockets
  <2>2. ConnTypes' /\ sess' \in [Sessions -> SessRecs] /\ down' \in [Conns -> Seq(DownFrames)]
    BY <1>8, <2>1, LeaveIs DEF HangUp
  <2>3. HistTypes'
    BY <1>8 DEF HangUp, HistTypes
  <2> QED BY <1>8, <2>2, <2>3, Frames DEF HangUp, HubTypes, FrameTypes
<1>9. ASSUME NEW c \in Conns, ReadEnds(c) PROVE Types'
  <2>1. conn[c].pc \notin {"new", "gone"} /\ conn[c].sock \in Sockets /\ "hung" \in Sockets
    BY <1>9 DEF ReadEnds, ConnTypes, ConnRecs, Sockets
  <2>2. ConnTypes' /\ sess' \in [Sessions -> SessRecs] /\ down' \in [Conns -> Seq(DownFrames)]
    BY <1>9, <2>1, LeaveIs DEF ReadEnds
  <2>3. HistTypes'
    BY <1>9, FailIs DEF ReadEnds, HistTypes
  <2> QED BY <1>9, <2>2, <2>3, Frames DEF ReadEnds, HubTypes, FrameTypes
<1>10. ASSUME NEW c \in Conns, RemoveSession(c) PROVE Types'
  <2>1. GoneConn \in ConnRecs /\ GoneConn.pc = "gone" /\ ~GoneConn.member /\ GoneConn.sess = None
    BY DEF GoneConn, NewConn, NoReplay, ConnRecs, Replays, ConnStates, Sockets
  <2>2. ConnTypes'
    BY <1>10, <2>1, ConnIs DEF RemoveSession
  <2>3. FrameTypes'
    BY <1>10 DEF RemoveSession, FrameTypes
  <2>4. HubTypes'
    <3> DEFINE r == IF hub.room # None /\ Members(hub.room) = {} THEN None ELSE hub.room
    <3>1. hub' = [hub EXCEPT !.room = r] /\ UNCHANGED <<sess, rst>>
      BY <1>10 DEF RemoveSession
    <3>2. r \in Sessions \cup {None}
      BY DEF HubTypes
    <3> HIDE DEF r
    <3> QED BY <3>1, <3>2 DEF HubTypes
  <2> QED BY <1>10, <2>2, <2>3, <2>4, Frames DEF RemoveSession
<1>11. ASSUME NEW c \in Conns, Lose(c) PROVE Types'
  <2>1. ConnTypes'
    BY <1>11 DEF Lose, ConnTypes, ConnRecs, Sockets
  <2>2. HistTypes'
    BY <1>11 DEF Lose, HistTypes
  <2> QED BY <1>11, <2>1, <2>2, Frames DEF Lose
<1>12. ASSUME NEW t \in Tabs, NEW e \in Edits, Type(t, e) PROVE Types'
  <2>0. tab[t] \in TabRecs /\ Ins(e, e) \in Ops
    BY DocTypes DEF TabTypes
  <2>1. TabTypes'
    <3> DEFINE d == tab[t].doc \cup {Ins(e, e)}
               r == [tab[t] EXCEPT !.doc = d, !.dirty = TRUE]
    <3>1. d \in SUBSET Ops
      BY <2>0 DEF TabRecs
    <3>2. tab' = [tab EXCEPT ![t] = r]
      BY <1>12 DEF Type
    <3> HIDE DEF d
    <3>3. r \in TabRecs /\ r.link = tab[t].link
      BY <2>0, <3>1 DEF TabRecs
    <3> HIDE DEF r
    <3> QED BY <3>2, <3>3, TabIs DEF TabTypes
  <2>2. FrameTypes'
    <3> DEFINE f == [type |-> "update", ops |-> {Ins(e, e)}]
    <3>1. f \in UpFrames
      BY <2>0 DEF UpFrames
    <3>2. \/ UNCHANGED up
          \/ tab[t].link \in Conns /\ up' = Sent(up, tab[t].link, f)
      BY <1>12, <2>0 DEF Type, TabRecs
    <3> HIDE DEF f
    <3> QED BY <1>12, <3>1, <3>2, SentIs DEF Type, FrameTypes
  <2> QED BY <1>12, <2>1, <2>2, Frames DEF Type
<1>13. ASSUME NEW t \in Tabs, Commit(t) PROVE Types'
  <2>0. tab[t] \in TabRecs /\ tab[t].link \in Conns
    BY <1>13 DEF Commit, TabTypes, TabRecs
  <2>1. TabTypes'
    BY <1>13, <2>0 DEF Commit, TabTypes, TabRecs
  <2>2. [type |-> "commit", ops |-> tab[t].doc, base |-> tab[t].lastSeq] \in UpFrames
    BY <2>0 DEF UpFrames, TabRecs
  <2>3. FrameTypes'
    BY <1>13, <2>0, <2>2, SentIs DEF Commit, FrameTypes
  <2>4. HistTypes'
    <3> DEFINE early == hist.early \/ AwaitsInit(tab[t].link)
    <3>1. early \in BOOLEAN
      BY DEF HistTypes, AwaitsInit
    <3>2. hist' = [hist EXCEPT !.early = early] /\ UNCHANGED faults
      BY <1>13 DEF Commit
    <3> HIDE DEF early
    <3> QED BY <3>1, <3>2 DEF HistTypes
  <2> QED BY <1>13, <2>1, <2>3, <2>4, Frames DEF Commit
<1>14. ASSUME NEW t \in Tabs, RecvInit(t) PROVE Types'
  <2> DEFINE m == Frame(t)
             missing == tab[t].doc \ m.ops
             resync == (tab[t].inited \/ tab[t].dirty) /\ missing # {}
             dirty == tab[t].dirty \/ resync
             r == [tab[t] EXCEPT !.inited = TRUE, !.lastSeq = m.seq, !.doc = @ \cup m.ops, !.dirty = dirty]
  <2>1. /\ tab[t].link \in Conns /\ m \in DownFrames /\ m.type = "init"
        /\ Taken(t) \in [Conns -> Seq(DownFrames)]
    BY <1>14, ReceivedIs DEF RecvInit
  <2>2. m.ops \in SUBSET Ops /\ m.seq \in Nat
    BY <2>1, FrameFields
  <2>3. tab[t] \in TabRecs /\ dirty \in BOOLEAN /\ tab' = [tab EXCEPT ![t] = r]
    BY <1>14 DEF RecvInit, TabTypes, TabRecs
  <2>4. missing \in SUBSET Ops
    BY <2>2, <2>3 DEF TabRecs
  <2>5. up' \in [Conns -> Seq(UpFrames)]
    <3>1. [type |-> "update", ops |-> missing] \in UpFrames
      BY <2>4 DEF UpFrames
    <3> DEFINE f == [type |-> "update", ops |-> missing]
    <3>2. up' = up \/ up' = Sent(up, tab[t].link, f)
      BY <1>14 DEF RecvInit
    <3> HIDE DEF f
    <3>3. Sent(up, tab[t].link, f) \in [Conns -> Seq(UpFrames)]
      BY <2>1, <3>1, SentIs DEF FrameTypes, f
    <3> QED BY <3>2, <3>3 DEF FrameTypes
  <2>6. TabTypes'
    <3> HIDE DEF m, dirty
    <3>1. r \in TabRecs /\ r.link = tab[t].link
      BY <2>2, <2>3 DEF TabRecs
    <3> HIDE DEF r
    <3> QED BY <2>1, <2>3, <3>1, TabIs DEF TabTypes
  <2> QED BY <1>14, <2>1, <2>5, <2>6, Frames DEF RecvInit, FrameTypes
<1>15. ASSUME NEW t \in Tabs, RecvUpdate(t) PROVE Types'
  <2>1. /\ tab[t].link \in Conns /\ Frame(t) \in DownFrames /\ Frame(t).type = "update"
        /\ Taken(t) \in [Conns -> Seq(DownFrames)]
    BY <1>15, ReceivedIs DEF RecvUpdate
  <2>2. Frame(t).ops \in SUBSET Ops /\ Frame(t).seq \in Nat
    BY <2>1, FrameFields
  <2>3. tab[t] \in TabRecs /\ Later(tab[t].lastSeq, Frame(t).seq) \in Nat
    BY <2>2 DEF TabTypes, TabRecs, Later
  <2>4. TabTypes'
    BY <1>15, <2>2, <2>3 DEF RecvUpdate, TabTypes, TabRecs
  <2> QED BY <1>15, <2>1, <2>4, Frames DEF RecvUpdate, FrameTypes
<1>16. ASSUME NEW t \in Tabs, RecvCommit(t) PROVE Types'
  <2>1. /\ tab[t].link \in Conns /\ Frame(t) \in DownFrames /\ Frame(t).type = "commit"
        /\ Taken(t) \in [Conns -> Seq(DownFrames)]
    BY <1>16, ReceivedIs DEF RecvCommit
  <2>2. Frame(t).seq \in Nat
    BY <2>1, FrameFields
  <2>3. tab[t] \in TabRecs /\ Later(tab[t].lastSeq, Frame(t).seq) \in Nat
    BY <2>2 DEF TabTypes, TabRecs, Later
  <2>4. TabTypes'
    BY <1>16, <2>2, <2>3 DEF RecvCommit, TabTypes, TabRecs
  <2> QED BY <1>16, <2>1, <2>4, Frames DEF RecvCommit, FrameTypes
<1>17. ASSUME NEW t \in Tabs, RecvSeed(t) PROVE Types'
  <2>1. tab[t].link \in Conns /\ Taken(t) \in [Conns -> Seq(DownFrames)]
    BY <1>17, ReceivedIs DEF RecvSeed
  <2>2. TabTypes'
    <3> DEFINE r == [tab[t] EXCEPT !.seed = tab[t].link]
    <3>1. r \in TabRecs /\ r.link = tab[t].link
      BY <2>1 DEF TabTypes, TabRecs
    <3>2. tab' = [tab EXCEPT ![t] = r]
      BY <1>17 DEF RecvSeed
    <3> HIDE DEF r
    <3> QED BY <3>1, <3>2, TabIs DEF TabTypes
  <2> QED BY <1>17, <2>1, <2>2, Frames DEF RecvSeed, FrameTypes
<1>18. ASSUME NEW t \in Tabs, SeedEffect(t) PROVE Types'
  <2>0. tab[t] \in TabRecs /\ tab[t].seed \in Conns
    BY <1>18 DEF SeedEffect, TabTypes, TabRecs
  <2>1. PICK value \in {tab[t].loaded, body} \ {{}} : SeedsWith(t, value)
    BY <1>18 DEF SeedEffect
  <2> DEFINE ops == SetBody(tab[t].doc, tab[t].seed, value)
  <2>2. value \in SUBSET Texts /\ tab[t].doc \in SUBSET Ops
    BY <2>0 DEF TabRecs, StoreTypes
  <2>3. ops \in SUBSET Ops
    BY <2>0, <2>2, DocTypes
  <2>4. /\ tab' = [tab EXCEPT ![t].seeded = TRUE, ![t].doc = @ \cup ops]
        /\ \/ UNCHANGED up
           \/ tab[t].link # None /\ up' = Sent(up, tab[t].link, [type |-> "update", ops |-> ops])
    BY <2>1 DEF SeedsWith
  <2> HIDE DEF ops
  <2>5. TabTypes'
    BY <2>0, <2>3, <2>4 DEF TabTypes, TabRecs
  <2>6. FrameTypes'
    <3> DEFINE f == [type |-> "update", ops |-> ops]
    <3>1. f \in UpFrames
      BY <2>3 DEF UpFrames
    <3>2. UNCHANGED up \/ (tab[t].link \in Conns /\ up' = Sent(up, tab[t].link, f))
      BY <2>0, <2>4 DEF TabRecs
    <3> HIDE DEF f
    <3>3. \A c \in Conns : Sent(up, c, f) \in [Conns -> Seq(UpFrames)]
      BY <3>1, SentIs DEF FrameTypes
    <3> QED BY <1>18, <3>2, <3>3 DEF SeedEffect, FrameTypes
  <2> QED BY <1>18, <2>5, <2>6, Frames DEF SeedEffect
<1>19. ASSUME NEW t \in Tabs, RecvReset(t) PROVE Types'
  <2>0. tab[t].link \in Conns
    BY <1>19, ReceivedIs DEF RecvReset
  <2>1. FreshTab(body) \in TabRecs /\ FreshTab(body).link = None
    BY DEF FreshTab, TabRecs, StoreTypes
  <2>2. TabTypes'
    BY <1>19, <2>1, TabIs DEF RecvReset
  <2>3. ConnTypes'
    BY <1>19, <2>0 DEF RecvReset, ConnTypes, ConnRecs, Sockets
  <2>4. FrameTypes'
    <3>1. <<>> \in Seq(DownFrames)
      BY EmptySeq
    <3> QED BY <1>19, <2>0, <3>1 DEF RecvReset, FrameTypes
  <2> QED BY <1>19, <2>2, <2>3, <2>4, Frames DEF RecvReset
<1>20. ASSUME NEW t \in Tabs, TabCloses(t) PROVE Types'
  <2>0. tab[t] \in TabRecs /\ tab[t].link \in Conns
    BY <1>20 DEF TabCloses, TabTypes, TabRecs
  <2>1. TabTypes'
    <3> DEFINE r == [tab[t] EXCEPT !.link = None]
    <3>1. r \in TabRecs /\ r.link = None /\ tab' = [tab EXCEPT ![t] = r]
      BY <1>20, <2>0 DEF TabCloses, TabRecs
    <3> HIDE DEF r
    <3> QED BY <3>1, TabIs
  <2>2. FrameTypes'
    <3>1. <<>> \in Seq(DownFrames)
      BY EmptySeq
    <3> QED BY <1>20, <2>0, <3>1 DEF TabCloses, FrameTypes
  <2> QED BY <1>20, <2>1, <2>2, Frames DEF TabCloses
<1>21. ASSUME NEW w \in Writes, ResetFences(w) PROVE Types'
  <2>1. HubTypes'
    BY <1>21 DEF ResetFences, HubTypes, ResetSteps
  <2>2. HistTypes'
    BY <1>21 DEF ResetFences, HistTypes
  <2> QED BY <1>21, <2>1, <2>2, Frames DEF ResetFences
<1>22. CASE ResetWrites
  <2>1. HubTypes'
    BY <1>22 DEF ResetWrites, ResetEnds, HubTypes, ResetSteps
  <2>2. StoreTypes'
    BY <1>22 DEF ResetWrites, HubTypes, StoreTypes, Texts
  <2>3. HistTypes'
    BY <1>22, FailIs DEF ResetWrites, HistTypes
  <2> QED BY <1>22, <2>1, <2>2, <2>3, Frames DEF ResetWrites
<1>23. CASE ResetClears
  <2>1. StoreTypes' /\ StoreReset.last \in Nat
    <3>1. StoreReset \in [rowid : Nat, last : Nat, snap : SUBSET Entries, incs : SUBSET Entries]
          /\ \E e : StoreReset.snap \subseteq {e}
      <4> DEFINE n == store.last + 1
      <4>1. n \in Nat
        BY DEF StoreTypes
      <4>2. StoreReset = [store EXCEPT !.last = n, !.snap = {}, !.incs = {}]
        BY DEF StoreReset
      <4> HIDE DEF n
      <4> QED BY <4>1, <4>2 DEF StoreTypes
    <3>2. store' \in {store, StoreReset} /\ body' = body
      BY <1>23 DEF ResetClears
    <3> QED BY <3>1, <3>2 DEF StoreTypes
  <2>2. HubTypes'
    BY <1>23, <2>1 DEF ResetClears, ResetEnds, HubTypes, ResetSteps
  <2>3. HistTypes'
    BY <1>23, FailIs DEF ResetClears, HistTypes
  <2> QED BY <1>23, <2>1, <2>2, <2>3, Frames DEF ResetClears
<1>24. CASE ResetAnnounces
  <2>1. FreshSession(rst.seq) \in SessRecs
    BY DEF FreshSession, SessRecs, HubTypes
  <2>2. HubTypes'
    BY <1>24, <2>1 DEF ResetAnnounces, ResetEnds, HubTypes, ResetSteps
  <2>3. ConnTypes'
    <3>1. \A c \in Conns : [conn[c] EXCEPT !.stale = TRUE] \in ConnRecs
      BY DEF ConnTypes, ConnRecs
    <3>2. \A c \in Conns : /\ [conn[c] EXCEPT !.stale = TRUE].pc = conn[c].pc
                           /\ [conn[c] EXCEPT !.stale = TRUE].sess = conn[c].sess
                           /\ [conn[c] EXCEPT !.stale = TRUE].member = conn[c].member
      BY DEF ConnTypes, ConnRecs
    <3>3. \/ UNCHANGED conn
          \/ conn' = [c \in Conns |-> IF c \in Members(hub.room)
                                      THEN [conn[c] EXCEPT !.stale = TRUE] ELSE conn[c]]
      BY <1>24 DEF ResetAnnounces
    <3>4. \A c \in Conns : /\ conn'[c] \in ConnRecs /\ conn'[c].pc = conn[c].pc
                           /\ conn'[c].sess = conn[c].sess /\ conn'[c].member = conn[c].member
      BY <3>1, <3>2, <3>3 DEF ConnTypes
    <3>5. conn' \in [Conns -> ConnRecs]
      BY <3>3, <3>4 DEF ConnTypes
    <3> QED BY <3>4, <3>5 DEF ConnTypes
  <2>4. FrameTypes'
    <3>1. [type |-> "reset"] \in DownFrames
      BY DEF DownFrames
    <3>2. down' \in {down, SentAll(down, Members(hub.room), [type |-> "reset"])}
      BY <1>24 DEF ResetAnnounces
    <3>3. down' \in [Conns -> Seq(DownFrames)]
      BY <3>1, <3>2, SentIs DEF FrameTypes
    <3> QED BY <1>24, <3>3 DEF ResetAnnounces, FrameTypes
  <2>5. HistTypes'
    <3> DEFINE w == IF Fenced THEN rst.write ELSE None
               u == hist.unsynced \/ ~Fenced
    <3>1. w \in Writes \cup {None} /\ u \in BOOLEAN
      BY DEF HubTypes, HistTypes
    <3>2. hist' = [hist EXCEPT !.wrote = w, !.unsynced = u] /\ UNCHANGED faults
      BY <1>24 DEF ResetAnnounces
    <3> HIDE DEF w, u
    <3> QED BY <3>1, <3>2 DEF HistTypes
  <2> QED BY <1>24, <2>2, <2>3, <2>4, <2>5, Frames DEF ResetAnnounces
<1>25. CASE Restart
  <2>1. StoreTypes'
    BY <1>25, StoreIs DEF Restart, StoreTypes
  <2>2. HubTypes'
    BY <1>25 DEF Restart, ResetEnds, HubTypes, ResetSteps
  <2>3. GoneConn \in ConnRecs /\ GoneConn.pc = "gone" /\ ~GoneConn.member /\ GoneConn.sess = None
    BY DEF GoneConn, NewConn, NoReplay, ConnRecs, Replays, ConnStates, Sockets
  <2>4. ConnTypes'
    BY <1>25, <2>3 DEF Restart, ConnTypes
  <2>5. FrameTypes'
    BY <1>25 DEF Restart, FrameTypes
  <2>6. HistTypes'
    <3> DEFINE a == IF Durable THEN hist.accepted ELSE {}
               g == IF Durable THEN hist.gaps ELSE {}
               u == hist.unsynced \/ rst.pc = "written" \/ (rst.pc = "cleared" /\ ~Fenced)
    <3>1. a \in SUBSET [op : Ops, seq : Nat] /\ g \in SUBSET Ops /\ u \in BOOLEAN
      BY DEF HistTypes
    <3>2. hist' = [hist EXCEPT !.accepted = a, !.gaps = g, !.wrote = None, !.unsynced = u]
      BY <1>25 DEF Restart
    <3>3. faults' \in [drops : Nat, errs : Nat, restarts : Nat]
      BY <1>25 DEF Restart, HistTypes
    <3> HIDE DEF a, g, u
    <3> QED BY <3>1, <3>2, <3>3 DEF HistTypes
  <2> QED BY <1>25, <2>1, <2>2, <2>4, <2>5, <2>6, Frames DEF Restart
<1>26. CASE UNCHANGED vars
  BY <1>26, Frames DEF vars
<1> QED
  BY <1>1, <1>2, <1>3, <1>4, <1>5, <1>6, <1>7, <1>8, <1>9, <1>10, <1>11, <1>12, <1>13, <1>14,
     <1>15, <1>16, <1>17, <1>18, <1>19, <1>20, <1>21, <1>22, <1>23, <1>24, <1>25, <1>26
     DEF Next, ConnStep, TabStep, ResetStep

(* Every variable starts in its type. *)
LEMMA InitTypes == Init => Types
<1> SUFFICES ASSUME Init PROVE Types
  OBVIOUS
<1>1. StoreTypes
  BY DEF Init, EmptyStore, StoreTypes, Entries, Texts
<1>2. HubTypes
  <2>1. FreshSession(0) \in SessRecs
    BY DEF FreshSession, SessRecs
  <2>2. 0 \in 0..MaxSessions
    BY ConstantTypes
  <2> QED BY <2>1, <2>2 DEF Init, HubTypes, ResetSteps
<1>3. ConnTypes
  <2>1. NewConn \in ConnRecs /\ NewConn.pc = "new" /\ ~NewConn.member /\ NewConn.sess = None
    BY DEF NewConn, NoReplay, ConnRecs, Replays, ConnStates, Sockets
  <2> QED BY <2>1 DEF Init, ConnTypes
<1>4. FrameTypes
  <2>1. <<>> \in Seq(UpFrames) /\ <<>> \in Seq(DownFrames)
    BY EmptySeq
  <2> QED BY <2>1 DEF Init, FrameTypes
<1>5. TabTypes
  <2>1. FreshTab(FirstBody) \in TabRecs /\ FreshTab(FirstBody).link = None
    BY DEF FreshTab, TabRecs, Texts
  <2> QED BY <2>1 DEF Init, TabTypes
<1>6. HistTypes
  BY DEF Init, HistInit, HistTypes
<1> QED BY <1>1, <1>2, <1>3, <1>4, <1>5, <1>6 DEF Types

(* Types always hold. *)
LEMMA TypesHold == Spec => []Types
<1>1. Init => Types
  BY InitTypes
<1>2. Types /\ [Next]_vars => Types'
  BY NextTypes
<1> QED BY <1>1, <1>2, PTL DEF Spec

(* Type correctness: what the store, the hub, the connections and the tabs *)
(* hold; a participant is between its join and its leave.                  *)
THEOREM TypeCorrect == Spec => []TypeOK
<1>1. Types => TypeOK
  <2> SUFFICES ASSUME Types PROVE TypeOK
    OBVIOUS
  <2> USE DEF Types
  <2>1. {store.rowid, store.last} \subseteq Nat
    BY DEF StoreTypes
  <2>2. \A u \in store.snap \cup store.incs : u.seq \in Nat /\ u.ops \subseteq Ops
    BY DEF StoreTypes, Entries
  <2>3. Cardinality(store.snap) <= 1
    <3>1. PICK e : store.snap \subseteq {e}
      BY DEF StoreTypes
    <3>2. store.snap = {} \/ store.snap = {e}
      BY <3>1
    <3>3. Cardinality({}) = 0 /\ Cardinality({e}) = 1
      BY FS_EmptySet, FS_Singleton
    <3> QED BY <3>2, <3>3
  <2>4. hub.room \in Sessions \cup {None} /\ hub.made \in 0..MaxSessions /\ hub.resets \in Nat
    BY DEF HubTypes
  <2>5. ASSUME NEW s \in Sessions
        PROVE  /\ sess[s].hasState \in BOOLEAN /\ sess[s].resetSeq \in Nat
               /\ sess[s].seeder \in Conns \cup {None}
    BY DEF HubTypes, SessRecs
  <2>6. ASSUME NEW c \in Conns
        PROVE  /\ conn[c].pc \in ConnStates /\ conn[c].sess \in Sessions \cup {None}
               /\ conn[c].sock \in Sockets
               /\ conn[c].member => conn[c].pc \notin {"new", "got", "left", "gone"} /\ conn[c].sess \in Sessions
    BY DEF ConnTypes, ConnRecs
  <2>7. ASSUME NEW t \in Tabs
        PROVE  /\ tab[t].link \in {c \in Conns : TabOf[c] = t} \cup {None}
               /\ tab[t].lastSeq \in Nat /\ tab[t].doc \subseteq Ops
    BY DEF TabTypes, TabRecs
  <2>8. rst.pc \in ResetSteps
    BY DEF HubTypes
  <2> QED BY <2>1, <2>2, <2>3, <2>4, <2>5, <2>6, <2>7, <2>8 DEF TypeOK, ConnStates, Sockets, ResetSteps
<1> QED BY <1>1, TypesHold, PTL

-----------------------------------------------------------------------------
(* Sessions, and who is in them *)

(* A session number once handed out is never handed out again.             *)
LEMMA NextHanded == Types /\ Handed /\ [Next]_vars => Handed' /\ hub'.made >= hub.made
<1> SUFFICES ASSUME Types, Handed, [Next]_vars PROVE Handed' /\ hub'.made >= hub.made
  OBVIOUS
<1> USE DEF Types
<1>0. hub.made \in Nat /\ hub.room \in Sessions \cup {None}
  BY DEF HubTypes
<1>1. ASSUME NEW t \in Tabs, NEW c \in Conns, Dial(t, c) PROVE Handed' /\ hub'.made >= hub.made
  <2>1. CASE tab[t].inited /\ tab[t].lastSeq < hub.resets
    <3>1. conn' = [conn EXCEPT ![c] = GoneConn] /\ GoneConn.sess = None /\ UNCHANGED <<hub, rst>>
      BY <1>1, <2>1 DEF Dial, GoneConn, NewConn
    <3> QED BY <1>0, <3>1 DEF Handed, ConnTypes
  <2>2. CASE ~(tab[t].inited /\ tab[t].lastSeq < hub.resets)
    <3> DEFINE make == hub.room = None
               s == IF make THEN hub.made + 1 ELSE hub.room
               n == IF make THEN s ELSE hub.made
    <3>1. /\ s \in Sessions
          /\ conn' = [conn EXCEPT ![c].pc = "got", ![c].sess = s]
          /\ hub' = [hub EXCEPT !.room = s, !.made = n]
          /\ UNCHANGED rst
      BY <1>1, <2>2 DEF Dial
    <3>2. s <= n /\ n >= hub.made /\ n \in Nat /\ s \in Nat /\ s # None
      BY <1>0, <3>1, ConstantTypes DEF Handed, HubTypes
    <3> HIDE DEF s, n, make
    <3>3. hub'.room = s /\ hub'.made = n
      BY <3>1 DEF HubTypes
    <3>4. conn'[c].sess = s /\ \A d \in Conns \ {c} : conn'[d] = conn[d]
      BY <3>1 DEF ConnTypes, ConnRecs
    <3>0. \A x \in Sessions : x <= hub.made => x <= n
      BY <1>0, <3>2, ConstantTypes
    <3>5. ASSUME NEW d \in Conns, conn'[d].sess # None PROVE conn'[d].sess <= n
      <4>1. CASE d = c
        BY <3>2, <3>4, <4>1
      <4>2. CASE d # c
        <5>1. conn'[d].sess = conn[d].sess /\ conn[d].sess \in Sessions
          BY <3>4, <3>5, <4>2 DEF ConnTypes, ConnRecs
        <5> QED BY <3>0, <3>5, <5>1 DEF Handed
      <4> QED BY <4>1, <4>2
    <3>6. rst.sess # None => rst.sess <= n
      BY <3>0 DEF Handed, HubTypes
    <3> QED BY <3>1, <3>2, <3>3, <3>5, <3>6 DEF Handed
  <2> QED BY <2>1, <2>2
<1>2. ASSUME NEW c \in Conns, RemoveSession(c) PROVE Handed' /\ hub'.made >= hub.made
  <2>1. GoneConn.sess = None
    BY DEF GoneConn, NewConn
  <2>2. hub'.made = hub.made /\ hub'.room \in {hub.room, None} /\ UNCHANGED rst
    BY <1>2 DEF RemoveSession, HubTypes
  <2> QED BY <1>0, <1>2, <2>1, <2>2 DEF RemoveSession, Handed, ConnTypes
<1>3. ASSUME NEW w \in Writes, ResetFences(w) PROVE Handed' /\ hub'.made >= hub.made
  BY <1>0, <1>3 DEF ResetFences, Handed
<1>4. CASE ResetAnnounces
  <2>1. hub'.made = hub.made /\ hub'.room = hub.room /\ rst'.sess = rst.sess
    BY <1>4 DEF ResetAnnounces, ResetEnds, HubTypes
  <2>2. \A c \in Conns : conn'[c].sess = conn[c].sess
    BY <1>4 DEF ResetAnnounces, ConnTypes, ConnRecs
  <2> QED BY <1>0, <2>1, <2>2 DEF Handed
<1>5. CASE Restart
  <2>1. hub'.made = hub.made /\ hub'.room = None /\ rst'.sess = rst.sess
    BY <1>5 DEF Restart, ResetEnds, HubTypes
  <2>2. \A c \in Conns : conn'[c].sess \in {conn[c].sess, None}
    BY <1>5 DEF Restart, ConnTypes, ConnRecs, GoneConn, NewConn
  <2> QED BY <1>0, <2>1, <2>2 DEF Handed
<1>6. ASSUME UNCHANGED hub, rst'.sess = rst.sess, \A c \in Conns : conn'[c].sess = conn[c].sess
      PROVE  Handed' /\ hub'.made >= hub.made
  BY <1>0, <1>6 DEF Handed
<1>7. CASE ResetWrites \/ ResetClears
  BY <1>6, <1>7 DEF ResetWrites, ResetClears, ResetEnds, HubTypes
<1>8. CASE \E t \in Tabs : \/ RecvInit(t) \/ RecvUpdate(t) \/ RecvCommit(t) \/ RecvSeed(t) \/ SeedEffect(t)
                           \/ TabCloses(t) \/ Commit(t) \/ \E e \in Edits : Type(t, e)
  BY <1>6, <1>8 DEF RecvInit, RecvUpdate, RecvCommit, RecvSeed, SeedEffect, TabCloses, Commit, Type
<1>9. ASSUME NEW t \in Tabs, RecvReset(t) PROVE Handed' /\ hub'.made >= hub.made
  BY <1>6, <1>9, OnlySocket DEF RecvReset
<1>10. ASSUME NEW c \in Conns, \/ JoinRoom(c) \/ Load(c) \/ ClaimSeed(c) \/ SendInit(c) \/ Lose(c)
       PROVE  Handed' /\ hub'.made >= hub.made
  <2>1. UNCHANGED <<hub, rst>>
    BY <1>10 DEF JoinRoom, Load, ClaimSeed, SendInit, Lose
  <2>2. CASE JoinRoom(c)
    BY <1>6, <2>1, <2>2 DEF JoinRoom, ConnTypes, ConnRecs
  <2> QED BY <1>6, <1>10, <2>1, <2>2, OnlySocket, OnlyStage
<1>11. ASSUME NEW c \in Conns, HandleUpdate(c) \/ HandleCommit(c) PROVE Handed' /\ hub'.made >= hub.made
  BY <1>6, <1>11 DEF HandleUpdate, HandleCommit
<1>12. ASSUME NEW c \in Conns, HangUp(c) \/ ReadEnds(c) PROVE Handed' /\ hub'.made >= hub.made
  BY <1>6, <1>12 DEF HangUp, ReadEnds, Leave, ConnTypes, ConnRecs
<1>13. CASE UNCHANGED vars
  BY <1>6, <1>13 DEF vars
<1> QED
  BY <1>1, <1>2, <1>3, <1>4, <1>5, <1>7, <1>8, <1>9, <1>10, <1>11, <1>12, <1>13
     DEF Next, ConnStep, TabStep, ResetStep

-----------------------------------------------------------------------------
(* A step that names no seeder, admits no participant and empties no room  *)
(* keeps the seeds in order.                                               *)
LEMMA SeedKeeps ==
    ASSUME Types, Types', SeederIsMember, EmptyIsClaimed,
           \A s \in Sessions : /\ sess'[s].seeder = sess[s].seeder
                               /\ sess[s].hasState => sess'[s].hasState,
           \A c \in Conns : /\ conn'[c].member = conn[c].member /\ conn'[c].stale = conn[c].stale
                            /\ \/ conn'[c].sess = conn[c].sess
                               \/ conn'[c].sess = None /\ ~conn[c].member
                            /\ conn'[c].pc \in Initialized => conn[c].pc \in Initialized,
           hub'.room \in {hub.room, None}
    PROVE  SeederIsMember' /\ EmptyIsClaimed'
<1> USE DEF Types
<1>1. \A s \in Sessions : InUse(s)' => InUse(s)
  BY ConstantTypes DEF InUse
<1>2. \A s \in Sessions : Members(s)' = Members(s)
  BY ConstantTypes DEF Members
<1>3. SeederIsMember'
  BY <1>1, <1>2 DEF SeederIsMember
<1>4. ASSUME NEW c \in Conns, conn'[c].sess # None, MayClaim(conn[c].sess, c)', conn'[c].pc \in Initialized
      PROVE  sess'[conn'[c].sess].seeder # None
  <2>1. conn'[c].sess = conn[c].sess /\ conn[c].sess \in Sessions
    BY <1>4 DEF ConnTypes, ConnRecs
  <2>2. MayClaim(conn[c].sess, c)
    BY <1>2, <1>4, <2>1 DEF MayClaim
  <2> QED BY <1>4, <2>1, <2>2 DEF EmptyIsClaimed
<1>5. EmptyIsClaimed'
  BY <1>4 DEF EmptyIsClaimed
<1> QED BY <1>3, <1>5

(* Whoever leaves hands its seed to somebody who may have it.              *)
LEMMA LeaveKeeps ==
    ASSUME Types, Types', SeederIsMember, EmptyIsClaimed, UNCHANGED hub,
           NEW c \in Conns, NEW p \in {conn[c].pc, "left"}, NEW k, Leave(c, p, k),
           conn[c].pc \notin {"new", "gone"}
    PROVE  SeederIsMember' /\ EmptyIsClaimed'
<1> USE DEF Types
<1> DEFINE s == conn[c].sess
<1>1. s \in Sessions /\ s # None /\ InUse(s)
  BY DEF ConnTypes, ConnRecs, InUse
<1>2. /\ ~conn'[c].member /\ conn'[c].sess = s
      /\ conn'[c].pc \in Initialized => conn[c].pc \in Initialized
      /\ \A d \in Conns \ {c} : conn'[d] = conn[d]
  BY DEF Leave, ConnTypes, ConnRecs, Initialized
<1>3. \A x \in Sessions : InUse(x)' <=> InUse(x)
  BY <1>2 DEF InUse
<1>4. \A x \in Sessions : Members(x)' = Members(x) \ {c}
  BY <1>2 DEF Members
<1>5. \A x \in Sessions : sess'[x].hasState = sess[x].hasState
  <2>1. ASSUME NEW n, sess' = [sess EXCEPT ![s].seeder = n], NEW x \in Sessions
        PROVE  sess'[x].hasState = sess[x].hasState
    BY <1>1, <2>1 DEF HubTypes, SessRecs
  <2>2. UNCHANGED sess \/ \E n : sess' = [sess EXCEPT ![s].seeder = n]
    BY DEF Leave
  <2> QED BY <2>1, <2>2
<1>6. ASSUME NEW d \in Conns, NEW x \in Sessions, MayClaim(x, d)' PROVE d # c /\ MayClaim(x, d)
  BY <1>2, <1>4, <1>5, <1>6 DEF MayClaim
<1>7. CASE ~(conn[c].member /\ sess[s].seeder = c)
  <2>1. UNCHANGED sess
    BY <1>7 DEF Leave
  <2>2. \A x \in Sessions : InUse(x) /\ sess[x].seeder # None => sess[x].seeder # c
    BY <1>7 DEF SeederIsMember, Members
  <2>3. SeederIsMember'
    BY <1>3, <1>4, <2>1, <2>2 DEF SeederIsMember
  <2>4. EmptyIsClaimed'
    <3> SUFFICES ASSUME NEW d \in Conns, conn'[d].sess # None, MayClaim(conn[d].sess, d)',
                        conn'[d].pc \in Initialized
                 PROVE  sess'[conn'[d].sess].seeder # None
      BY DEF EmptyIsClaimed
    <3>1. conn'[d].sess = conn[d].sess /\ conn[d].sess \in Sessions
      BY <1>2 DEF ConnTypes, ConnRecs
    <3>2. d # c /\ MayClaim(conn[d].sess, d) /\ conn[d].pc \in Initialized
      BY <1>2, <1>6, <3>1
    <3> QED BY <2>1, <3>1, <3>2 DEF EmptyIsClaimed
  <2> QED BY <2>3, <2>4
<1>8. CASE conn[c].member /\ sess[s].seeder = c
  <2> DEFINE heirs == {d \in Conns \ {c} : MayClaim(s, d)}
  <2>1. PICK n \in IF heirs = {} THEN {None} ELSE heirs : sess' = [sess EXCEPT ![s].seeder = n]
    BY <1>8 DEF Leave
  <2>2. sess'[s].seeder = n /\ \A x \in Sessions \ {s} : sess'[x] = sess[x]
    BY <1>1, <2>1 DEF HubTypes, SessRecs
  <2>3. n # None => n \in Members(s) /\ n # c
    BY <2>1 DEF MayClaim
  <2>4. \A x \in Sessions \ {s} : InUse(x) /\ sess[x].seeder # None => sess[x].seeder # c
    BY DEF SeederIsMember, Members
  <2>5. SeederIsMember'
    BY <1>3, <1>4, <2>2, <2>3, <2>4 DEF SeederIsMember
  <2>6. EmptyIsClaimed'
    <3> SUFFICES ASSUME NEW d \in Conns, conn'[d].sess # None, MayClaim(conn[d].sess, d)',
                        conn'[d].pc \in Initialized
                 PROVE  sess'[conn'[d].sess].seeder # None
      BY DEF EmptyIsClaimed
    <3>1. conn'[d].sess = conn[d].sess /\ conn[d].sess \in Sessions
      BY <1>2 DEF ConnTypes, ConnRecs
    <3>2. d # c /\ MayClaim(conn[d].sess, d) /\ conn[d].pc \in Initialized
      BY <1>2, <1>6, <3>1
    <3>3. CASE conn[d].sess = s
      <4>1. n # None
        BY <2>1, <3>2, <3>3, ConstantTypes
      <4> QED BY <2>2, <3>1, <3>3, <4>1
    <3>4. CASE conn[d].sess # s
      BY <2>2, <3>1, <3>2, <3>4 DEF EmptyIsClaimed
    <3> QED BY <3>3, <3>4
  <2> QED BY <2>5, <2>6
<1> QED BY <1>7, <1>8

(* Every step keeps the seeds of the rooms in order.                       *)
LEMMA NextSeed == Types /\ Types' /\ SeedInv /\ [Next]_vars => SeedInv'
<1> SUFFICES ASSUME Types, Types', SeedInv, [Next]_vars PROVE SeederIsMember' /\ EmptyIsClaimed'
  BY NextHanded DEF SeedInv
<1> USE DEF Types, SeedInv
<1> DEFINE Goal == SeederIsMember' /\ EmptyIsClaimed'
<1>1. ASSUME NEW t \in Tabs, NEW c \in Conns, Dial(t, c) PROVE Goal
  <2>1. CASE tab[t].inited /\ tab[t].lastSeq < hub.resets
    <3>1. conn' = [conn EXCEPT ![c] = GoneConn] /\ ~conn[c].member /\ conn[c].pc = "new" /\ UNCHANGED <<hub, sess>>
      BY <1>1, <2>1 DEF Dial, ConnTypes
    <3>2. /\ GoneConn.sess = None /\ ~GoneConn.member /\ GoneConn.pc \notin Initialized
          /\ conn[c].sess = None
      BY <3>1 DEF GoneConn, NewConn, Initialized, ConnTypes
    <3>3. \A d \in Conns : \/ conn'[d] = conn[d]
                           \/ d = c /\ conn'[d] = GoneConn
      BY <3>1 DEF ConnTypes
    <3>4. /\ \A s \in Sessions : InUse(s)' <=> InUse(s)
          /\ \A s \in Sessions : Members(s)' = Members(s)
      BY <3>1, <3>2, <3>3, ConstantTypes DEF InUse, Members
    <3>5. SeederIsMember'
      BY <3>1, <3>4 DEF SeederIsMember
    <3>6. EmptyIsClaimed'
      BY <3>1, <3>2, <3>3 DEF EmptyIsClaimed, MayClaim, Members
    <3> QED BY <3>5, <3>6
  <2>2. CASE ~(tab[t].inited /\ tab[t].lastSeq < hub.resets)
    <3> DEFINE make == hub.room = None
               s == IF make THEN hub.made + 1 ELSE hub.room
    <3>1. /\ s \in Sessions /\ conn[c].pc = "new"
          /\ conn' = [conn EXCEPT ![c].pc = "got", ![c].sess = s]
          /\ hub' = [hub EXCEPT !.room = s, !.made = IF make THEN s ELSE @]
          /\ sess' = IF make THEN [sess EXCEPT ![s] = FreshSession(hub.resets)] ELSE sess
      BY <1>1, <2>2 DEF Dial
    <3>2. hub'.room = s
      BY <3>1 DEF HubTypes
    <3>3. /\ conn'[c].sess = s /\ conn'[c].pc = "got" /\ ~conn'[c].member /\ ~conn[c].member
          /\ \A d \in Conns \ {c} : conn'[d] = conn[d]
      BY <3>1 DEF ConnTypes, ConnRecs
    <3>4. make => \A d \in Conns : conn[d].sess # s
      <4> SUFFICES ASSUME make, NEW d \in Conns, conn[d].sess = s PROVE FALSE
        OBVIOUS
      <4>1. conn[d].sess <= hub.made
        BY <3>1, ConstantTypes DEF Handed
      <4> QED BY <4>1 DEF HubTypes
    <3>5. make => sess'[s].seeder = None /\ \A x \in Sessions \ {s} : sess'[x] = sess[x]
      BY <3>1 DEF HubTypes, FreshSession
    <3> HIDE DEF s
    <3>6. \A x \in Sessions : Members(x)' = Members(x)
      BY <3>3 DEF Members
    <3>7. \A x \in Sessions \ {s} : InUse(x)' => InUse(x)
      BY <3>2, <3>3, ConstantTypes DEF InUse
    <3>8. SeederIsMember'
      <4>1. CASE make
        BY <3>1, <3>5, <3>6, <3>7, <4>1 DEF SeederIsMember
      <4>2. CASE ~make
        <5>1. InUse(s) /\ UNCHANGED sess
          BY <3>1, <4>2 DEF InUse, s
        <5> QED BY <3>6, <3>7, <5>1 DEF SeederIsMember
      <4> HIDE DEF make
      <4> QED BY <4>1, <4>2
    <3>9. EmptyIsClaimed'
      <4> SUFFICES ASSUME NEW d \in Conns, conn'[d].sess # None, MayClaim(conn[d].sess, d)',
                          conn'[d].pc \in Initialized
                   PROVE  sess'[conn'[d].sess].seeder # None
        BY DEF EmptyIsClaimed
      <4>1. d # c /\ conn'[d] = conn[d] /\ conn[d].sess \in Sessions
        BY <3>3 DEF Initialized, ConnTypes, ConnRecs
      <4>2. sess'[conn[d].sess] = sess[conn[d].sess]
        BY <3>1, <3>4, <3>5, <4>1
      <4>3. MayClaim(conn[d].sess, d)
        BY <3>6, <4>1, <4>2 DEF MayClaim
      <4> QED BY <4>1, <4>2, <4>3 DEF EmptyIsClaimed
    <3> QED BY <3>8, <3>9
  <2> QED BY <2>1, <2>2
<1>2. ASSUME NEW c \in Conns, JoinRoom(c) PROVE Goal
  <2>1. /\ conn[c].pc = "got" /\ conn'[c].pc = "joined" /\ conn'[c].sess = conn[c].sess /\ UNCHANGED <<hub, sess>>
        /\ \A d \in Conns \ {c} : conn'[d] = conn[d]
    BY <1>2 DEF JoinRoom, ConnTypes, ConnRecs
  <2>2. /\ \A s \in Sessions : InUse(s)' <=> InUse(s)
        /\ \A s \in Sessions : Members(s) \subseteq Members(s)'
        /\ \A s \in Sessions : Members(s)' \subseteq Members(s) \cup {c}
    <3>1. \A d \in Conns : conn'[d].sess = conn[d].sess /\ (conn[d].member => conn'[d].member)
      BY <1>2 DEF JoinRoom, ConnTypes, ConnRecs
    <3>2. \A s \in Sessions : InUse(s)' <=> InUse(s)
      BY <2>1, <3>1 DEF InUse
    <3> QED BY <2>1, <3>1, <3>2 DEF Members
  <2>3. SeederIsMember'
    BY <2>1, <2>2 DEF SeederIsMember
  <2>4. EmptyIsClaimed'
    BY <2>1, <2>2 DEF EmptyIsClaimed, MayClaim, Initialized, ConnTypes, ConnRecs
  <2> QED BY <2>3, <2>4
<1>3. ASSUME NEW c \in Conns, ClaimSeed(c) PROVE Goal
  <2> DEFINE s == conn[c].sess
             any == conn[c].replay.any
             seed == MayClaim(s, c) /\ ~any /\ sess[s].seeder = None
  <2>1. /\ conn[c].pc = "loaded" /\ UNCHANGED hub
        /\ sess' = [sess EXCEPT ![s].hasState = @ \/ any, ![s].seeder = IF seed THEN c ELSE @]
        /\ \A d \in Conns : /\ conn'[d].sess = conn[d].sess /\ conn'[d].member = conn[d].member
                            /\ conn'[d].stale = conn[d].stale
                            /\ d # c => conn'[d].pc = conn[d].pc
    BY <1>3, OnlyStage DEF ClaimSeed
  <2>2. s \in Sessions /\ any \in BOOLEAN /\ InUse(s)
    BY <2>1 DEF ConnTypes, ConnRecs, Replays, InUse
  <2>3. /\ sess'[s].hasState = (sess[s].hasState \/ any)
        /\ sess'[s].seeder = IF seed THEN c ELSE sess[s].seeder
        /\ \A x \in Sessions \ {s} : sess'[x] = sess[x]
    BY <2>1, <2>2 DEF HubTypes, SessRecs
  <2>4. /\ \A x \in Sessions : InUse(x)' <=> InUse(x)
        /\ \A x \in Sessions : Members(x)' = Members(x)
    <3> HIDE DEF s, any, seed
    <3>1. \A x \in Sessions : InUse(x)' <=> InUse(x)
      BY <2>1 DEF InUse
    <3>2. \A x \in Sessions : Members(x)' = Members(x)
      BY <2>1 DEF Members
    <3> QED BY <3>1, <3>2
  <2>5. seed => c \in Members(s)
    BY DEF MayClaim
  <2> HIDE DEF seed
  <2>6. SeederIsMember'
    BY <2>2, <2>3, <2>4, <2>5 DEF SeederIsMember
  <2>7. EmptyIsClaimed'
    <3> SUFFICES ASSUME NEW d \in Conns, conn'[d].sess # None, MayClaim(conn[d].sess, d)',
                        conn'[d].pc \in Initialized
                 PROVE  sess'[conn'[d].sess].seeder # None
      BY DEF EmptyIsClaimed
    <3>1. conn'[d].sess = conn[d].sess /\ conn[d].sess \in Sessions
      BY <2>1 DEF ConnTypes, ConnRecs
    <3>2. ~sess'[conn[d].sess].hasState /\ MayClaim(conn[d].sess, d)
      <4>1. ~sess'[conn[d].sess].hasState /\ d \in Members(conn[d].sess)' /\ ~conn'[d].stale
            /\ TabOf[d] \in Editors
        BY <3>1 DEF MayClaim
      <4>2. ~sess[conn[d].sess].hasState
        BY <2>2, <2>3, <3>1, <4>1
      <4> QED BY <2>1, <2>4, <3>1, <4>1, <4>2 DEF MayClaim
    <3>3. sess[conn[d].sess].seeder # None => sess'[conn[d].sess].seeder # None
      BY <2>3, <3>1, ConstantTypes DEF seed
    <3>4. CASE d # c
      BY <2>1, <3>1, <3>2, <3>3, <3>4 DEF EmptyIsClaimed
    <3>5. CASE d = c
      <4>1. ~any /\ MayClaim(s, c)
        BY <2>2, <2>3, <3>2, <3>5
      <4>2. sess'[s].seeder # None
        BY <2>3, <4>1, <3>3, <3>5, ConstantTypes DEF seed
      <4> QED BY <3>1, <3>5, <4>2
    <3> QED BY <3>4, <3>5
  <2> QED BY <2>6, <2>7
<1>4. ASSUME NEW c \in Conns, HangUp(c) PROVE Goal
  <2>1. conn[c].pc \notin {"new", "gone"} /\ UNCHANGED hub /\ Leave(c, conn[c].pc, "hung")
    BY <1>4 DEF HangUp, ConnTypes
  <2> QED BY <2>1, LeaveKeeps
<1>5. ASSUME NEW c \in Conns, ReadEnds(c) PROVE Goal
  <2>1. /\ conn[c].pc \notin {"new", "gone"} /\ UNCHANGED hub
        /\ Leave(c, "left", IF conn[c].sock = "open" THEN "hung" ELSE conn[c].sock)
    BY <1>5 DEF ReadEnds
  <2> QED BY <2>1, LeaveKeeps
<1>6. ASSUME NEW c \in Conns, \/ Load(c) \/ SendInit(c) \/ Lose(c) PROVE Goal
  <2>1. UNCHANGED <<hub, sess>>
    BY <1>6 DEF Load, SendInit, Lose
  <2>2. \A d \in Conns : /\ conn'[d].member = conn[d].member /\ conn'[d].stale = conn[d].stale
                         /\ conn'[d].sess = conn[d].sess
                         /\ conn'[d].pc \in Initialized => conn[d].pc \in Initialized
    BY <1>6 DEF Load, SendInit, Lose, Initialized, ConnTypes, ConnRecs
  <2> QED BY <2>1, <2>2, SeedKeeps
<1>7. ASSUME NEW c \in Conns, HandleUpdate(c) PROVE Goal
  <2>1. /\ UNCHANGED <<hub, conn>> /\ conn[c].pc = "read"
        /\ \/ UNCHANGED sess
           \/ sess' = [sess EXCEPT ![conn[c].sess].hasState = TRUE]
    BY <1>7 DEF HandleUpdate, Refused, Reads
  <2>2. \A s \in Sessions : /\ sess'[s].seeder = sess[s].seeder
                            /\ sess[s].hasState => sess'[s].hasState
    BY <2>1 DEF HubTypes, SessRecs
  <2> QED BY <2>1, <2>2, SeedKeeps
<1>8. ASSUME NEW c \in Conns, HandleCommit(c) PROVE Goal
  <2>1. /\ UNCHANGED <<hub, conn>> /\ conn[c].pc = "read"
        /\ \/ UNCHANGED sess
           \/ \E l : sess' = [sess EXCEPT ![conn[c].sess].hasState = TRUE, ![conn[c].sess].lastBody = l]
    BY <1>8 DEF HandleCommit, Refused, Reads, Snapshots, SnapshotFails
  <2>2. ASSUME NEW l, sess' = [sess EXCEPT ![conn[c].sess].hasState = TRUE, ![conn[c].sess].lastBody = l],
               NEW s \in Sessions
        PROVE  sess'[s].seeder = sess[s].seeder /\ (sess[s].hasState => sess'[s].hasState)
    BY <2>2 DEF HubTypes, SessRecs
  <2> QED BY <2>1, <2>2, SeedKeeps
<1>9. ASSUME NEW c \in Conns, RemoveSession(c) PROVE Goal
  <2>1. UNCHANGED sess /\ hub'.room \in {hub.room, None}
    BY <1>9 DEF RemoveSession, HubTypes
  <2>2. GoneConn.sess = None /\ ~GoneConn.member /\ ~GoneConn.stale /\ GoneConn.pc \notin Initialized
    BY DEF GoneConn, NewConn, Initialized
  <2>3. ~conn[c].member /\ \A d \in Conns : conn'[d] = IF d = c THEN GoneConn ELSE conn[d]
    BY <1>9 DEF RemoveSession, ConnTypes
  <2>4. /\ \A s \in Sessions : InUse(s)' => InUse(s)
        /\ \A s \in Sessions : Members(s)' = Members(s)
    BY <2>1, <2>2, <2>3, ConstantTypes DEF InUse, Members
  <2>5. SeederIsMember'
    BY <2>1, <2>4 DEF SeederIsMember
  <2>6. EmptyIsClaimed'
    BY <2>1, <2>2, <2>3 DEF EmptyIsClaimed, MayClaim, Members
  <2> QED BY <2>5, <2>6
<1>10. CASE \E t \in Tabs : \/ RecvInit(t) \/ RecvUpdate(t) \/ RecvCommit(t) \/ RecvSeed(t) \/ SeedEffect(t)
                            \/ TabCloses(t) \/ Commit(t) \/ \E e \in Edits : Type(t, e)
  <2>1. UNCHANGED <<hub, sess, conn>>
    BY <1>10 DEF RecvInit, RecvUpdate, RecvCommit, RecvSeed, SeedEffect, TabCloses, Commit, Type
  <2> QED BY <2>1, SeedKeeps
<1>11. ASSUME NEW t \in Tabs, RecvReset(t) PROVE Goal
  <2>1. UNCHANGED <<hub, sess>>
    BY <1>11 DEF RecvReset
  <2>2. \A d \in Conns : /\ conn'[d].member = conn[d].member /\ conn'[d].stale = conn[d].stale
                         /\ conn'[d].sess = conn[d].sess /\ conn'[d].pc = conn[d].pc
    BY <1>11, OnlySocket
  <2> QED BY <2>1, <2>2, SeedKeeps
<1>12. CASE ResetWrites \/ ResetClears \/ \E w \in Writes : ResetFences(w)
  <2>1. UNCHANGED <<hub, sess, conn>>
    BY <1>12 DEF ResetWrites, ResetClears, ResetFences
  <2> QED BY <2>1, SeedKeeps
<1>13. CASE ResetAnnounces
  <2> DEFINE s == hub.room
  <2>1. hub'.room = s
    BY <1>13 DEF ResetAnnounces, HubTypes
  <2>2. CASE s = None
    BY <1>13, <2>1, <2>2, SeedKeeps DEF ResetAnnounces
  <2>3. CASE s # None
    <3>1. /\ s \in Sessions /\ sess' = [sess EXCEPT ![s] = FreshSession(rst.seq)]
          /\ conn' = [c \in Conns |-> IF c \in Members(s)
                                      THEN [conn[c] EXCEPT !.stale = TRUE] ELSE conn[c]]
      BY <1>13, <2>3 DEF ResetAnnounces, HubTypes
    <3>2. sess'[s].seeder = None /\ \A x \in Sessions \ {s} : sess'[x] = sess[x]
      BY <3>1 DEF HubTypes, FreshSession
    <3>3. /\ \A c \in Conns : /\ conn'[c].sess = conn[c].sess /\ conn'[c].member = conn[c].member
                              /\ conn'[c].pc = conn[c].pc
          /\ \A c \in Members(s) : conn'[c].stale
          /\ \A c \in Conns \ Members(s) : conn'[c] = conn[c]
      BY <3>1 DEF ConnTypes, ConnRecs, Members
    <3>4. /\ \A x \in Sessions : InUse(x)' <=> InUse(x)
          /\ \A x \in Sessions : Members(x)' = Members(x)
      BY <2>1, <3>3 DEF InUse, Members
    <3>5. SeederIsMember'
      BY <3>2, <3>4 DEF SeederIsMember
    <3>6. EmptyIsClaimed'
      <4> SUFFICES ASSUME NEW d \in Conns, conn'[d].sess # None, MayClaim(conn[d].sess, d)',
                          conn'[d].pc \in Initialized
                   PROVE  sess'[conn'[d].sess].seeder # None
        BY DEF EmptyIsClaimed
      <4>1. conn'[d].sess = conn[d].sess /\ conn[d].sess \in Sessions
        BY <3>3 DEF ConnTypes, ConnRecs
      <4>2. d \in Members(conn[d].sess) /\ ~conn'[d].stale
        BY <3>4, <4>1 DEF MayClaim
      <4>3. conn[d].sess # s /\ conn'[d] = conn[d]
        BY <3>3, <4>2 DEF Members
      <4>4. MayClaim(conn[d].sess, d)
        BY <3>2, <4>1, <4>2, <4>3 DEF MayClaim
      <4> QED BY <3>2, <4>1, <4>3, <4>4 DEF EmptyIsClaimed
    <3> QED BY <3>5, <3>6
  <2> QED BY <2>2, <2>3
<1>14. CASE Restart
  <2>1. /\ hub'.room = None
        /\ \A c \in Conns : ~conn'[c].member /\ conn'[c].sess = None
    BY <1>14 DEF Restart, HubTypes, ConnTypes, GoneConn, NewConn
  <2>2. \A s \in Sessions : ~InUse(s)'
    BY <2>1, ConstantTypes DEF InUse
  <2> QED BY <2>1, <2>2 DEF SeederIsMember, EmptyIsClaimed
<1>15. CASE UNCHANGED vars
  BY <1>15, SeedKeeps DEF vars
<1> QED
  BY <1>1, <1>2, <1>3, <1>4, <1>5, <1>6, <1>7, <1>8, <1>9, <1>10, <1>11, <1>12, <1>13, <1>14, <1>15
     DEF Next, ConnStep, TabStep, ResetStep

(* No room has anybody in it at first. *)
LEMMA InitSeed == Init => SeedInv
<1> SUFFICES ASSUME Init PROVE SeedInv
  OBVIOUS
<1>1. \A c \in Conns : conn[c].sess = None
  BY DEF Init, NewConn
<1>2. \A s \in Sessions : sess[s].seeder = None
  BY DEF Init, FreshSession
<1> QED BY <1>1, <1>2 DEF Init, SeedInv, Handed, SeederIsMember, EmptyIsClaimed

(* An empty room with an editor in it has a seeder that is still there,    *)
(* however participants join, leave, are dropped, reset or restarted       *)
(* (claimSeed, handOffSeed, session.reset).                                *)
THEOREM EmptyRoomsSeeded == Spec => []RoomSeeded
<1>1. Init => SeedInv
  BY InitSeed
<1>2. Types /\ Types' /\ SeedInv /\ [Next]_vars => SeedInv'
  BY NextSeed
<1>3. Types /\ SeedInv => RoomSeeded
  <2> SUFFICES ASSUME Types, SeedInv, NEW s \in Sessions, NEW c \in Conns,
                      MayClaim(s, c), conn[c].pc = "read"
               PROVE  sess[s].seeder \in Members(s)
    BY DEF RoomSeeded
  <2>1. conn[c].sess = s /\ s # None
    BY ConstantTypes DEF MayClaim, Members
  <2>2. sess[s].seeder # None /\ InUse(s)
    BY <2>1 DEF SeedInv, EmptyIsClaimed, Initialized, InUse
  <2> QED BY <2>2 DEF SeedInv, SeederIsMember
<1> QED BY <1>1, <1>2, <1>3, TypesHold, PTL DEF Spec

-----------------------------------------------------------------------------
(* The body, the log and the reset *)

(* Participants stay in the hub's session until a second one is joined.    *)
LEMMA NextRoom ==
    ASSUME Types, Types', OneRoom, [Next]_vars
    PROVE  OneRoom' /\ (hist.split => hist'.split)
<1> USE DEF Types
<1>1. ASSUME NEW t \in Tabs, NEW c \in Conns, Dial(t, c) PROVE OneRoom' /\ (hist.split => hist'.split)
  <2>1. /\ conn[c].pc = "new" /\ ~conn'[c].member /\ hist'.split = hist.split
        /\ \A d \in Conns \ {c} : conn'[d] = conn[d]
    <3>1. conn[c].pc = "new" /\ ~conn[c].member /\ hist'.split = hist.split
      BY <1>1, DialHist DEF Dial, ConnTypes
    <3>2. \/ conn' = [conn EXCEPT ![c] = GoneConn]
          \/ \E s : conn' = [conn EXCEPT ![c].pc = "got", ![c].sess = s]
      BY <1>1 DEF Dial
    <3>3. ~GoneConn.member
      BY DEF GoneConn, NewConn
    <3>4. ASSUME NEW s, conn' = [conn EXCEPT ![c].pc = "got", ![c].sess = s]
          PROVE  ~conn'[c].member /\ \A d \in Conns \ {c} : conn'[d] = conn[d]
      BY <3>1, <3>4 DEF ConnTypes, ConnRecs
    <3> QED BY <3>1, <3>2, <3>3, <3>4 DEF ConnTypes
  <2>2. hub'.room = hub.room \/ hub.room = None
    BY <1>1 DEF Dial, HubTypes
  <2>3. CASE hub'.room = hub.room
    BY <2>1, <2>3 DEF OneRoom
  <2>4. CASE hub.room = None
    <3>1. ~hist.split => \A d \in Conns : ~conn[d].member
      BY <2>4 DEF OneRoom, ConnTypes
    <3> QED BY <2>1, <3>1 DEF OneRoom
  <2> QED BY <2>1, <2>2, <2>3, <2>4
<1>2. ASSUME NEW c \in Conns, JoinRoom(c) PROVE OneRoom' /\ (hist.split => hist'.split)
  <2>1. /\ hist'.split = (hist.split \/ conn[c].sess # hub.room) /\ UNCHANGED hub
    BY <1>2 DEF JoinRoom, HistTypes
  <2>2. \A d \in Conns : conn'[d].sess = conn[d].sess /\ (d # c => conn'[d].member = conn[d].member)
    BY <1>2 DEF JoinRoom, ConnTypes, ConnRecs
  <2> QED BY <2>1, <2>2 DEF OneRoom
<1>3. ASSUME NEW c \in Conns, RemoveSession(c) PROVE OneRoom' /\ (hist.split => hist'.split)
  <2>1. /\ ~conn'[c].member /\ UNCHANGED hist
        /\ \A d \in Conns \ {c} : conn'[d] = conn[d]
    BY <1>3 DEF RemoveSession, GoneConn, NewConn, ConnTypes, ConnRecs
  <2>2. hub'.room = hub.room \/ Members(hub.room) = {}
    BY <1>3 DEF RemoveSession, HubTypes
  <2> QED BY <2>1, <2>2 DEF OneRoom, Members
<1>4. CASE Restart
  <2>1. \A d \in Conns : ~conn'[d].member
    BY <1>4 DEF Restart, GoneConn, NewConn, ConnTypes
  <2>2. hist'.split = hist.split
    BY <1>4 DEF Restart, HistTypes
  <2> QED BY <2>1, <2>2 DEF OneRoom
<1>5. CASE ResetAnnounces
  <2>1. hub'.room = hub.room
    BY <1>5 DEF ResetAnnounces, HubTypes
  <2>2. hist'.split = hist.split
    BY <1>5 DEF ResetAnnounces, HistTypes
  <2>3. \A d \in Conns : conn'[d].sess = conn[d].sess /\ conn'[d].member = conn[d].member
    BY <1>5 DEF ResetAnnounces, ConnTypes, ConnRecs
  <2> QED BY <2>1, <2>2, <2>3 DEF OneRoom
<1>6. ASSUME UNCHANGED hub, hist'.split = hist.split,
             \A d \in Conns : conn'[d].sess = conn[d].sess /\ (conn'[d].member => conn[d].member)
      PROVE  OneRoom' /\ (hist.split => hist'.split)
  BY <1>6 DEF OneRoom
<1>7. ASSUME NEW c \in Conns, \/ Load(c) \/ ClaimSeed(c) \/ SendInit(c) \/ Lose(c)
                              \/ HangUp(c) \/ ReadEnds(c)
      PROVE  OneRoom' /\ (hist.split => hist'.split)
  <2>1. UNCHANGED <<hub, hist>>
    BY <1>7 DEF Load, ClaimSeed, SendInit, Lose, HangUp, ReadEnds
  <2>2. \A d \in Conns : conn'[d].sess = conn[d].sess /\ (conn'[d].member => conn[d].member)
    <3>1. CASE HangUp(c) \/ ReadEnds(c)
      BY <3>1 DEF HangUp, ReadEnds, Leave, ConnTypes, ConnRecs
    <3> QED BY <1>7, <3>1, OnlySocket, OnlyStage
  <2> QED BY <1>6, <2>1, <2>2
<1>8. ASSUME NEW c \in Conns, HandleUpdate(c) \/ HandleCommit(c)
      PROVE  OneRoom' /\ (hist.split => hist'.split)
  <2>1. UNCHANGED <<hub, conn>>
    BY <1>8 DEF HandleUpdate, HandleCommit
  <2>2. hist'.split = hist.split
    BY <1>8 DEF HandleUpdate, StoreAndRelay, RelayUnstored, HandleCommit, Snapshots, SnapshotFails,
       Refused, HistTypes
  <2> QED BY <1>6, <2>1, <2>2
<1>9. CASE \E t \in Tabs : \/ RecvInit(t) \/ RecvUpdate(t) \/ RecvCommit(t) \/ RecvSeed(t) \/ SeedEffect(t)
                           \/ TabCloses(t) \/ \E e \in Edits : Type(t, e)
  BY <1>6, <1>9 DEF RecvInit, RecvUpdate, RecvCommit, RecvSeed, SeedEffect, TabCloses, Type
<1>10. ASSUME NEW t \in Tabs, Commit(t) PROVE OneRoom' /\ (hist.split => hist'.split)
  BY <1>6, <1>10 DEF Commit, HistTypes
<1>11. ASSUME NEW t \in Tabs, RecvReset(t) PROVE OneRoom' /\ (hist.split => hist'.split)
  BY <1>6, <1>11, OnlySocket DEF RecvReset
<1>12. CASE ResetWrites \/ ResetClears \/ \E w \in Writes : ResetFences(w)
  <2>1. UNCHANGED <<hub, conn>>
    BY <1>12 DEF ResetWrites, ResetClears, ResetFences
  <2>2. hist'.split = hist.split
    BY <1>12 DEF ResetWrites, ResetClears, ResetFences, HistTypes
  <2> QED BY <1>6, <2>1, <2>2
<1>13. CASE UNCHANGED vars
  BY <1>6, <1>13 DEF vars
<1> QED
  BY <1>1, <1>2, <1>3, <1>4, <1>5, <1>7, <1>8, <1>9, <1>10, <1>11, <1>12, <1>13
     DEF Next, ConnStep, TabStep, ResetStep

(* A step that touches neither the body, the snapshots nor a reset under   *)
(* way keeps them in agreement.                                            *)
LEMMA SyncKeeps ==
    ASSUME Types, Types', Sync, UNCHANGED <<body, rst>>, store'.snap = store.snap,
           hub'.room = hub.room,
           \A s \in Sessions : sess'[s].lastBody = sess[s].lastBody,
           hist'.wrote = hist.wrote, hist'.unsynced = hist.unsynced, hist.split => hist'.split
    PROVE  Sync'
<1>1. NothingWritten' /\ WriteKept' /\ LogCleared' /\ ServerWriteWins'
  BY DEF Sync, NothingWritten, WriteKept, LogCleared, ServerWriteWins, Fenced
<1>2. InSync'
  BY DEF Sync, InSync, Types, HubTypes
<1> QED BY <1>1, <1>2 DEF Sync

(* Nor does an update, which is no snapshot.                               *)
LEMMA UpdateIs == \A ops : StoreTypes => AppendUpdate(ops).snap = store.snap
  BY DEF AppendUpdate, Append1, StoreTypes

(* A snapshot is a new one, and the only one.                              *)
LEMMA SnapshotIs ==
    \A ops, base : StoreTypes => AppendSnapshot(ops, base).snap = {[seq |-> NextSeq, ops |-> ops]}
  BY DEF AppendSnapshot, Append1, StoreTypes

(* Every step keeps body and log in agreement.                             *)
LEMMA NextSync == Types /\ Types' /\ BodyInv /\ [Next]_vars => BodyInv'
<1> SUFFICES ASSUME Types, Types', BodyInv, [Next]_vars PROVE Sync'
  BY NextHanded, NextRoom DEF BodyInv
<1> USE DEF Types
<1>0. Handed /\ OneRoom /\ Sync /\ (hist.split => hist'.split)
  BY NextRoom DEF BodyInv
<1>1. ASSUME NEW t \in Tabs, NEW c \in Conns, Dial(t, c) PROVE Sync'
  <2>1. /\ UNCHANGED <<store, body, rst>>
        /\ hist'.wrote = hist.wrote /\ hist'.unsynced = hist.unsynced /\ hist'.split = hist.split
    BY <1>1, DialHist DEF Dial
  <2>2. CASE UNCHANGED <<hub, sess>>
    BY <1>0, <2>1, <2>2, SyncKeeps
  <2>3. CASE ~UNCHANGED <<hub, sess>>
    <3> DEFINE make == hub.room = None
               s == IF make THEN hub.made + 1 ELSE hub.room
    <3>1. /\ s \in Sessions
          /\ hub' = [hub EXCEPT !.room = s, !.made = IF make THEN s ELSE @]
          /\ sess' = IF make THEN [sess EXCEPT ![s] = FreshSession(hub.resets)] ELSE sess
      BY <1>1, <2>3 DEF Dial
    <3>2. hub'.room = s
      BY <3>1 DEF HubTypes
    <3>3. CASE ~make
      BY <1>0, <2>1, <3>1, <3>2, <3>3, SyncKeeps
    <3>4. CASE make
      <4>1. s = hub.made + 1 /\ hub.made \in Nat
        BY <3>4 DEF HubTypes
      <4>2. rst.sess # s
        <5> SUFFICES ASSUME rst.sess = s PROVE FALSE
          OBVIOUS
        <5>1. rst.sess <= hub.made
          BY <1>0, <3>1, ConstantTypes DEF Handed
        <5> QED BY <4>1, <5>1
      <4>3. sess'[s].lastBody = {}
        BY <3>1, <3>4 DEF HubTypes, FreshSession
      <4> HIDE DEF s
      <4>4. ~Fenced'
        BY <2>1, <3>2, <4>2 DEF Fenced
      <4>5. InSync'
        BY <1>0, <2>1, <3>2, <4>3 DEF InSync, Sync
      <4> QED BY <1>0, <2>1, <4>4, <4>5 DEF Sync, NothingWritten, WriteKept, LogCleared, ServerWriteWins
    <3> QED BY <3>3, <3>4
  <2> QED BY <2>2, <2>3
<1>2. ASSUME NEW c \in Conns, RemoveSession(c) PROVE Sync'
  <2>1. UNCHANGED <<store, body, rst, hist, sess>> /\ hub'.room \in {hub.room, None}
    BY <1>2 DEF RemoveSession, HubTypes
  <2>2. CASE hub'.room = hub.room
    BY <1>0, <2>1, <2>2, SyncKeeps
  <2>3. CASE hub'.room = None
    <3>1. ~Fenced'
      BY <2>1, <2>3 DEF Fenced
    <3>2. InSync'
      BY <1>0, <2>1, <2>3 DEF InSync, Sync
    <3> QED BY <1>0, <2>1, <3>1, <3>2 DEF Sync, NothingWritten, WriteKept, LogCleared, ServerWriteWins
  <2> QED BY <2>1, <2>2, <2>3
<1>3. ASSUME NEW c \in Conns, HandleCommit(c) PROVE Sync'
  <2> DEFINE m == Head(up[c])
             s == conn[c].sess
             text == Text(m.ops)
             new == text \notin {{}, sess[s].lastBody}
  <2>1. UNCHANGED <<hub, conn, rst>> /\ WriteMuFree(s) /\ conn[c].pc = "read"
    BY <1>3 DEF HandleCommit, Reads
  <2>2. CASE SnapshotFails(m) \/ Refused
    BY <1>0, <2>1, <2>2, SyncKeeps DEF SnapshotFails, Refused
  <2>3. CASE Writable(c) /\ Snapshots(c, m)
    <3> HIDE DEF m
    <3>1. s \in Sessions /\ s # None /\ (~hist.split => s = hub.room)
      BY <1>0, <2>1, <2>3 DEF Writable, OneRoom, ConnTypes, ConnRecs
    <3>2. hist'.split = hist.split /\ hist'.wrote = hist.wrote
      BY <2>3 DEF Snapshots, HistTypes
    <3>3. store'.snap = {[seq |-> NextSeq, ops |-> m.ops]}
      BY <2>3, SnapshotIs DEF Snapshots
    <3>4. hist.split \/ rst.pc = "idle" \/ ~Fenced
      BY <2>1, <3>1 DEF WriteMuFree, Fenced
    <3>5. NothingWritten' /\ WriteKept' /\ LogCleared'
      BY <1>0, <2>1, <3>2, <3>4 DEF Sync, NothingWritten, WriteKept, LogCleared, Fenced
    <3>6. ServerWriteWins'
      BY <3>3 DEF ServerWriteWins
    <3>7. InSync'
      <4> SUFFICES ASSUME ~hist'.split, ~hist'.unsynced, rst'.pc \in {"idle", "fenced"}
                   PROVE  /\ \A snap \in store'.snap : Text(snap.ops) \in {{}, body'}
                          /\ hub'.room # None => sess'[hub'.room].lastBody \in {{}, body'}
        BY DEF InSync
      <4>1. s = hub.room /\ s = hub'.room
        BY <2>1, <3>1, <3>2
      <4>2. \A snap \in store'.snap : Text(snap.ops) = text
        BY <3>3
      <4>3. sess'[s].lastBody = IF new THEN text ELSE sess[s].lastBody
        <5> DEFINE last == IF new THEN text ELSE sess[s].lastBody
        <5>1. sess' = [sess EXCEPT ![s].hasState = TRUE, ![s].lastBody = last]
          BY <2>3 DEF Snapshots
        <5> HIDE DEF last
        <5>2. sess'[s].lastBody = last
          BY <3>1, <5>1 DEF HubTypes, SessRecs
        <5> QED BY <5>2 DEF last
      <4>4. /\ body' = IF new THEN text ELSE body
            /\ ~new => ~hist.unsynced
        BY <2>3 DEF Snapshots, HistTypes
      <4>5. CASE new
        BY <4>1, <4>2, <4>3, <4>4, <4>5
      <4>6. CASE ~new
        <5>1. sess[s].lastBody \in {{}, body}
          BY <1>0, <2>1, <3>1, <3>2, <4>1, <4>4, <4>6 DEF Sync, InSync
        <5>2. text \in {{}, body}
          BY <4>6, <5>1
        <5> QED BY <4>1, <4>2, <4>3, <4>4, <4>6, <5>1, <5>2
      <4> QED BY <4>5, <4>6
    <3> QED BY <3>5, <3>6, <3>7 DEF Sync
  <2> QED BY <1>3, <2>2, <2>3 DEF HandleCommit
<1>4. ASSUME NEW w \in Writes, ResetFences(w) PROVE Sync'
  <2>1. /\ rst.pc = "idle" /\ rst'.pc = "fenced" /\ UNCHANGED <<store, body, hub, sess>>
        /\ hist'.wrote = None /\ hist'.unsynced = hist.unsynced /\ hist'.split = hist.split
    BY <1>4 DEF ResetFences, HistTypes
  <2>2. InSync'
    BY <1>0, <2>1 DEF Sync, InSync
  <2> QED BY <2>1, <2>2 DEF Sync, NothingWritten, WriteKept, LogCleared, ServerWriteWins
<1>5. CASE ResetWrites
  <2>1. rst.pc = "fenced" /\ UNCHANGED <<store, hub, sess, hist>>
    BY <1>5 DEF ResetWrites
  <2>2. hist'.wrote = None
    BY <1>0, <2>1 DEF Sync, NothingWritten
  <2>3. CASE body' = {rst.write} /\ rst' = [rst EXCEPT !.pc = "written"]
    <3>1. rst'.pc = "written" /\ rst'.write = rst.write
      BY <2>3 DEF HubTypes
    <3> QED BY <2>1, <2>2, <2>3, <3>1 DEF Sync, NothingWritten, WriteKept, LogCleared, InSync, ServerWriteWins
  <2>4. CASE ResetEnds /\ UNCHANGED body
    <3>1. rst'.pc = "idle"
      BY <2>4 DEF ResetEnds, HubTypes
    <3>2. InSync'
      BY <1>0, <2>1, <2>4, <3>1 DEF Sync, InSync
    <3> QED BY <2>2, <3>1, <3>2 DEF Sync, NothingWritten, WriteKept, LogCleared, ServerWriteWins
  <2> QED BY <1>5, <2>3, <2>4 DEF ResetWrites
<1>6. CASE ResetClears
  <2>1. rst.pc = "written" /\ UNCHANGED <<body, hub, sess>>
    BY <1>6 DEF ResetClears
  <2>2. hist'.wrote = None /\ hist'.split = hist.split
    BY <1>0, <1>6, <2>1 DEF Sync, NothingWritten, ResetClears, HistTypes
  <2>3. CASE store' = StoreReset /\ rst' = [rst EXCEPT !.pc = "cleared", !.seq = StoreReset.last]
    <3>1. /\ rst'.pc = "cleared" /\ rst'.write = rst.write /\ rst'.sess = rst.sess
      BY <2>3 DEF HubTypes
    <3>2. store'.snap = {}
      BY <2>3 DEF StoreReset, StoreTypes
    <3>3. WriteKept'
      BY <1>0, <2>1, <2>2, <3>1 DEF Sync, WriteKept, Fenced
    <3> QED BY <2>2, <3>1, <3>2, <3>3 DEF Sync, NothingWritten, LogCleared, InSync, ServerWriteWins
  <2>4. CASE ResetEnds /\ hist' = [hist EXCEPT !.unsynced = TRUE]
    <3>1. rst'.pc = "idle" /\ hist'.unsynced
      BY <2>4 DEF ResetEnds, HubTypes, HistTypes
    <3> QED BY <2>2, <3>1 DEF Sync, NothingWritten, WriteKept, LogCleared, InSync, ServerWriteWins
  <2> QED BY <1>6, <2>3, <2>4 DEF ResetClears
<1>7. CASE ResetAnnounces
  <2>1. /\ rst.pc = "cleared" /\ rst'.pc = "idle" /\ UNCHANGED <<store, body>>
        /\ hub'.room = hub.room
    BY <1>7 DEF ResetAnnounces, ResetEnds, HubTypes
  <2>2. /\ hist'.wrote = IF Fenced THEN rst.write ELSE None
        /\ hist'.split = hist.split
        /\ ~Fenced => hist'.unsynced
    <3> DEFINE w == IF Fenced THEN rst.write ELSE None
               u == hist.unsynced \/ ~Fenced
    <3>1. hist' = [hist EXCEPT !.wrote = w, !.unsynced = u]
      BY <1>7 DEF ResetAnnounces
    <3>2. ~Fenced => u
      OBVIOUS
    <3> HIDE DEF w, u
    <3>3. hist'.wrote = w /\ hist'.unsynced = u /\ hist'.split = hist.split
      BY <3>1 DEF HistTypes
    <3> QED BY <3>2, <3>3 DEF w
  <2>3. hub.room # None => sess'[hub.room].lastBody = {}
    BY <1>7 DEF ResetAnnounces, HubTypes, FreshSession
  <2>4. ServerWriteWins'
    BY <1>0, <2>1, <2>2 DEF Sync, WriteKept, ServerWriteWins
  <2>5. InSync'
    BY <1>0, <2>1, <2>2, <2>3 DEF Sync, LogCleared, InSync
  <2> QED BY <2>1, <2>4, <2>5 DEF Sync, NothingWritten, WriteKept, LogCleared
<1>8. CASE Restart
  <2>1. /\ rst'.pc = "idle" /\ hub'.room = None /\ UNCHANGED body /\ store' \in {store, EmptyStore}
    BY <1>8 DEF Restart, ResetEnds, HubTypes
  <2>2. /\ hist'.wrote = None /\ hist'.split = hist.split
        /\ ~hist'.unsynced => ~hist.unsynced /\ rst.pc # "written" /\ (rst.pc = "cleared" => Fenced)
    <3> DEFINE u == hist.unsynced \/ rst.pc = "written" \/ (rst.pc = "cleared" /\ ~Fenced)
               a == IF Durable THEN hist.accepted ELSE {}
               g == IF Durable THEN hist.gaps ELSE {}
    <3>1. hist' = [hist EXCEPT !.accepted = a, !.gaps = g, !.wrote = None, !.unsynced = u]
      BY <1>8 DEF Restart
    <3>2. ~u => ~hist.unsynced /\ rst.pc # "written" /\ (rst.pc = "cleared" => Fenced)
      OBVIOUS
    <3> HIDE DEF u, a, g
    <3>3. hist'.wrote = None /\ hist'.unsynced = u /\ hist'.split = hist.split
      BY <3>1 DEF HistTypes
    <3> QED BY <3>2, <3>3
  <2>3. EmptyStore.snap = {}
    BY DEF EmptyStore
  <2>4. InSync'
    <3> SUFFICES ASSUME ~hist'.split, ~hist'.unsynced, NEW snap \in store'.snap
                 PROVE  Text(snap.ops) \in {{}, body'}
      BY <2>1 DEF InSync
    <3>1. store' = store /\ snap \in store.snap
      BY <2>1, <2>3
    <3>2. rst.pc # "cleared"
      BY <1>0, <2>2, <3>1 DEF Sync, LogCleared
    <3>3. rst.pc \in {"idle", "fenced"}
      BY <2>2, <3>2 DEF HubTypes, ResetSteps
    <3> QED BY <1>0, <2>1, <2>2, <3>1, <3>3 DEF Sync, InSync
  <2> QED BY <2>1, <2>2, <2>4 DEF Sync, NothingWritten, WriteKept, LogCleared, ServerWriteWins
<1>9. ASSUME NEW c \in Conns, HandleUpdate(c) PROVE Sync'
  <2>1. UNCHANGED <<hub, rst, body>> /\ conn[c].pc = "read"
    BY <1>9 DEF HandleUpdate, Refused, Reads
  <2>2. store'.snap = store.snap
    BY <1>9, UpdateIs DEF HandleUpdate, StoreAndRelay, RelayUnstored, Refused
  <2>3. /\ hist'.wrote = hist.wrote /\ hist'.unsynced = hist.unsynced
    BY <1>9 DEF HandleUpdate, StoreAndRelay, RelayUnstored, Refused, HistTypes
  <2>4. \A s \in Sessions : sess'[s].lastBody = sess[s].lastBody
    BY <1>9 DEF HandleUpdate, Refused, HubTypes, SessRecs
  <2> QED BY <1>0, <2>1, <2>2, <2>3, <2>4, SyncKeeps
<1>10. ASSUME NEW c \in Conns, HangUp(c) \/ ReadEnds(c) PROVE Sync'
  <2>1. UNCHANGED <<hub, rst, body, store, hist>>
    BY <1>10 DEF HangUp, ReadEnds
  <2>2. UNCHANGED sess \/ \E n : sess' = [sess EXCEPT ![conn[c].sess].seeder = n]
    BY <1>10 DEF HangUp, ReadEnds, Leave
  <2>3. ASSUME NEW n, sess' = [sess EXCEPT ![conn[c].sess].seeder = n], NEW s \in Sessions
        PROVE  sess'[s].lastBody = sess[s].lastBody
    BY <2>3 DEF HubTypes, SessRecs
  <2> QED BY <1>0, <2>1, <2>2, <2>3, SyncKeeps
<1>11. ASSUME NEW c \in Conns, ClaimSeed(c) PROVE Sync'
  <2>1. UNCHANGED <<hub, rst, body, store, hist>>
    BY <1>11 DEF ClaimSeed
  <2>2. \E b, n : sess' = [sess EXCEPT ![conn[c].sess].hasState = b, ![conn[c].sess].seeder = n]
    BY <1>11 DEF ClaimSeed
  <2>3. ASSUME NEW b, NEW n, sess' = [sess EXCEPT ![conn[c].sess].hasState = b, ![conn[c].sess].seeder = n],
               NEW s \in Sessions
        PROVE  sess'[s].lastBody = sess[s].lastBody
    BY <2>3 DEF HubTypes, SessRecs
  <2> QED BY <1>0, <2>1, <2>2, <2>3, SyncKeeps
<1>12. ASSUME NEW c \in Conns, \/ JoinRoom(c) \/ Load(c) \/ SendInit(c) \/ Lose(c) PROVE Sync'
  <2>1. UNCHANGED <<hub, rst, body, store, sess>>
    BY <1>12 DEF JoinRoom, Load, SendInit, Lose
  <2>2. hist'.wrote = hist.wrote /\ hist'.unsynced = hist.unsynced
    BY <1>12 DEF JoinRoom, Load, SendInit, Lose, HistTypes
  <2> QED BY <1>0, <2>1, <2>2, SyncKeeps
<1>13. CASE \E t \in Tabs : \/ RecvInit(t) \/ RecvUpdate(t) \/ RecvCommit(t) \/ RecvSeed(t) \/ SeedEffect(t)
                            \/ RecvReset(t) \/ TabCloses(t) \/ \E e \in Edits : Type(t, e)
  <2>1. UNCHANGED <<hub, rst, body, store, sess, hist>>
    BY <1>13 DEF RecvInit, RecvUpdate, RecvCommit, RecvSeed, SeedEffect, RecvReset, TabCloses, Type
  <2> QED BY <1>0, <2>1, SyncKeeps
<1>14. ASSUME NEW t \in Tabs, Commit(t) PROVE Sync'
  <2>1. UNCHANGED <<hub, rst, body, store, sess>>
    BY <1>14 DEF Commit
  <2>2. hist'.wrote = hist.wrote /\ hist'.unsynced = hist.unsynced
    BY <1>14 DEF Commit, HistTypes
  <2> QED BY <1>0, <2>1, <2>2, SyncKeeps
<1>15. CASE UNCHANGED vars
  BY <1>0, <1>15, SyncKeeps DEF vars
<1> QED
  BY <1>1, <1>2, <1>3, <1>4, <1>5, <1>6, <1>7, <1>8, <1>9, <1>10, <1>11, <1>12, <1>13, <1>14, <1>15
     DEF Next, ConnStep, TabStep, ResetStep

(* Body and log agree before the room is opened. *)
LEMMA InitSync == Init => BodyInv
<1> SUFFICES ASSUME Init PROVE BodyInv
  OBVIOUS
<1>1. Handed /\ OneRoom
  BY DEF Init, Handed, OneRoom, NewConn
<1>2. Sync
  BY DEF Init, HistInit, EmptyStore, Sync, NothingWritten, WriteKept, LogCleared, InSync, ServerWriteWins
<1> QED BY <1>1, <1>2 DEF BodyInv

(* Body and log stay in agreement. *)
LEMMA SyncHolds == Spec => []BodyInv
<1>1. Init => BodyInv
  BY InitSync
<1>2. Types /\ Types' /\ BodyInv /\ [Next]_vars => BodyInv'
  BY NextSync
<1> QED BY <1>1, <1>2, TypesHold, PTL DEF Spec

(* No commit of an open editor slips between a server-side write and the   *)
(* reset that announces it (session.writeMu, Hub.Reset).                   *)
THEOREM WriteWins == Spec => []ServerWriteWins
<1>1. BodyInv => ServerWriteWins
  BY DEF BodyInv, Sync
<1> QED BY <1>1, SyncHolds, PTL

(* Between resets the canonical body is the newest snapshot's text, unless *)
(* that is empty or a step that the history names came apart               *)
(* (handleCommit's dedupe, writeBody, Hub.Reset).                          *)
THEOREM BodyFollowsLog == Spec => []BodyIsSnapshot
<1>1. BodyInv => BodyIsSnapshot
  BY DEF BodyInv, Sync, InSync, BodyIsSnapshot
<1> QED BY <1>1, SyncHolds, PTL

-----------------------------------------------------------------------------
(* A step that records no reset and loads no replay keeps joiners past the *)
(* last reset, as long as the counter does not go back.                    *)
LEMMA JoinKeeps ==
    ASSUME Types, Types', JoinInv, Handed', store'.last >= store.last,
           hub'.resets = hub.resets, hub'.room \in {hub.room, None},
           rst'.pc = "cleared" => rst.pc = "cleared" /\ rst'.seq = rst.seq,
           \A s \in Sessions : sess'[s].resetSeq = sess[s].resetSeq,
           \A c \in Conns :
              /\ conn'[c].sess \in {conn[c].sess, None}
              /\ (conn'[c].member /\ ~conn'[c].stale /\ conn'[c].pc \in Loaded) =>
                    /\ conn[c].member /\ ~conn[c].stale /\ conn[c].pc \in Loaded
                    /\ conn'[c].sess = conn[c].sess /\ conn'[c].replay.seq = conn[c].replay.seq
    PROVE  JoinInv'
<1> USE DEF Types
<1>1. store.last \in Nat /\ store'.last \in Nat
  BY DEF StoreTypes
<1>2. \A n \in Nat : n <= store.last => n <= store'.last
  BY <1>1
<1>3. hub.resets \in Nat /\ rst.seq \in Nat /\ \A s \in Sessions : sess[s].resetSeq \in Nat
  BY DEF HubTypes, SessRecs
<1>4. ASSUME NEW s \in Sessions, InUse(s)' PROVE sess'[s].resetSeq <= store'.last
  <2>1. InUse(s)
    BY <1>4, ConstantTypes DEF InUse
  <2> QED BY <1>2, <1>3, <2>1 DEF JoinInv
<1>5. JoinedPastReset'
  <2> SUFFICES ASSUME NEW c \in Conns, conn'[c].member, ~conn'[c].stale, conn'[c].pc \in Loaded
               PROVE  conn'[c].replay.seq >= sess'[conn'[c].sess].resetSeq
    BY DEF JoinedPastReset, Loaded
  <2>1. conn[c].sess \in Sessions
    BY DEF ConnTypes, ConnRecs, Loaded
  <2>2. conn[c].replay.seq >= sess[conn[c].sess].resetSeq
    BY DEF JoinInv, JoinedPastReset, Loaded
  <2> QED BY <2>1, <2>2
<1> QED BY <1>2, <1>3, <1>4, <1>5 DEF JoinInv

(* Every step that keeps the counter keeps them, and so does a restart.    *)
LEMMA NextJoin == Types /\ Types' /\ JoinInv /\ [Next]_vars /\ CounterKept => JoinInv'
<1> SUFFICES ASSUME Types, Types', JoinInv, [Next]_vars, CounterKept PROVE JoinInv'
  OBVIOUS
<1> USE DEF Types
<1>0. Handed /\ Handed'
  BY NextHanded DEF JoinInv
<1>1. /\ store.last \in Nat /\ hub.resets \in Nat /\ rst.seq \in Nat
      /\ \A s \in Sessions : sess[s].resetSeq \in Nat
  BY DEF StoreTypes, HubTypes, SessRecs
<1>2. ASSUME NEW t \in Tabs, NEW c \in Conns, Dial(t, c) PROVE JoinInv'
  <2>0. UNCHANGED <<store, rst>> /\ store'.last >= store.last
    BY <1>1, <1>2 DEF Dial
  <2>1. CASE tab[t].inited /\ tab[t].lastSeq < hub.resets
    <3>1. conn' = [conn EXCEPT ![c] = GoneConn] /\ UNCHANGED <<hub, sess>>
      BY <1>2, <2>1 DEF Dial
    <3>2. GoneConn.sess = None /\ ~GoneConn.member
      BY DEF GoneConn, NewConn
    <3>3. \A d \in Conns : conn'[d] = IF d = c THEN GoneConn ELSE conn[d]
      BY <3>1 DEF ConnTypes
    <3> QED BY <1>0, <2>0, <3>1, <3>2, <3>3, JoinKeeps
  <2>2. CASE ~(tab[t].inited /\ tab[t].lastSeq < hub.resets)
    <3> DEFINE make == hub.room = None
               s == IF make THEN hub.made + 1 ELSE hub.room
               n == IF make THEN s ELSE hub.made
    <3>1. /\ s \in Sessions
          /\ conn' = [conn EXCEPT ![c].pc = "got", ![c].sess = s]
          /\ hub' = [hub EXCEPT !.room = s, !.made = n]
          /\ sess' = IF make THEN [sess EXCEPT ![s] = FreshSession(hub.resets)] ELSE sess
      BY <1>2, <2>2 DEF Dial
    <3>2. hub'.room = s /\ hub'.resets = hub.resets
      <4> HIDE DEF s, n, make
      <4> QED BY <3>1 DEF HubTypes
    <3>3. conn'[c].sess = s /\ conn'[c].pc = "got" /\ \A d \in Conns \ {c} : conn'[d] = conn[d]
      <4> HIDE DEF s, n, make
      <4> QED BY <3>1 DEF ConnTypes, ConnRecs
    <3>4. ASSUME make, NEW d \in Conns PROVE conn[d].sess # s
      <4>1. s = hub.made + 1 /\ hub.made \in Nat
        BY <3>4 DEF HubTypes
      <4>2. conn[d].sess \in Sessions => conn[d].sess <= hub.made /\ conn[d].sess \in Nat
        BY <1>0, ConstantTypes DEF Handed
      <4> QED BY <3>1, <4>1, <4>2
    <3>5. ASSUME NEW x \in Sessions
          PROVE  sess'[x].resetSeq = IF make /\ x = s THEN hub.resets ELSE sess[x].resetSeq
      <4> HIDE DEF s, n, make
      <4> QED BY <3>1 DEF HubTypes, FreshSession
    <3> HIDE DEF n, s
    <3>6. ASSUME NEW x \in Sessions, InUse(x)' PROVE sess'[x].resetSeq <= store'.last
      <4>1. CASE make /\ x = s
        BY <2>0, <3>5, <4>1 DEF JoinInv
      <4>2. CASE ~(make /\ x = s)
        <5>1. x = s => ~make /\ s = hub.room
          BY <4>2 DEF s
        <5>2. InUse(x)
          BY <3>2, <3>3, <3>6, <5>1 DEF InUse
        <5> QED BY <2>0, <3>5, <4>2, <5>2 DEF JoinInv
      <4> QED BY <4>1, <4>2
    <3>7. JoinedPastReset'
      <4> SUFFICES ASSUME NEW d \in Conns, conn'[d].member, ~conn'[d].stale, conn'[d].pc \in Loaded
                   PROVE  conn'[d].replay.seq >= sess'[conn'[d].sess].resetSeq
        BY DEF JoinedPastReset, Loaded
      <4>1. conn'[d] = conn[d]
        BY <3>3 DEF Loaded
      <4>2. conn[d].sess \in Sessions
        BY <4>1 DEF ConnTypes, ConnRecs, Loaded
      <4>3. sess'[conn[d].sess].resetSeq = sess[conn[d].sess].resetSeq
        BY <3>4, <3>5, <4>2
      <4>4. conn[d].replay.seq >= sess[conn[d].sess].resetSeq
        BY <4>1 DEF JoinInv, JoinedPastReset, Loaded
      <4> QED BY <4>1, <4>3, <4>4
    <3> QED BY <1>0, <2>0, <3>2, <3>6, <3>7 DEF JoinInv
  <2> QED BY <2>1, <2>2
<1>3. ASSUME NEW c \in Conns, Load(c) PROVE JoinInv'
  <2>1. UNCHANGED <<store, hub, sess, rst>> /\ conn[c].pc = "joined"
    BY <1>3 DEF Load
  <2>2. LoadReplay.seq = store.last
    BY DEF LoadReplay
  <2> DEFINE r == LoadReplay
  <2> HIDE DEF r
  <2>3. conn' = [conn EXCEPT ![c].pc = "loaded", ![c].replay = r]
    BY <1>3 DEF Load, r
  <2>4. /\ conn'[c].sess = conn[c].sess /\ conn'[c].replay.seq = r.seq
        /\ \A d \in Conns \ {c} : conn'[d] = conn[d]
    BY <2>3 DEF ConnTypes, ConnRecs
  <2>5. conn[c].sess \in Sessions /\ conn[c].sess # None
    BY <2>1 DEF ConnTypes, ConnRecs
  <2>6. sess[conn[c].sess].resetSeq <= store.last
    BY <2>5 DEF JoinInv, InUse
  <2>7. conn'[c].replay.seq >= sess'[conn'[c].sess].resetSeq
    BY <1>1, <2>1, <2>2, <2>4, <2>5, <2>6 DEF r
  <2>8. JoinedPastReset'
    BY <2>1, <2>4, <2>7 DEF JoinInv, JoinedPastReset
  <2>9. ASSUME NEW s \in Sessions, InUse(s)' PROVE sess'[s].resetSeq <= store'.last
    <3>1. InUse(s)
      BY <2>1, <2>4, <2>9 DEF InUse
    <3> QED BY <2>1, <3>1 DEF JoinInv
  <2> QED BY <1>0, <2>1, <2>8, <2>9 DEF JoinInv
<1>4. CASE ResetClears
  <2>1. UNCHANGED <<hub, sess, conn>> /\ rst.pc = "written"
    BY <1>4 DEF ResetClears
  <2>2. CASE ResetEnds /\ UNCHANGED store
    <3>1. rst'.pc = "idle"
      BY <2>2 DEF ResetEnds, HubTypes
    <3> QED BY <1>0, <1>1, <2>1, <2>2, <3>1, JoinKeeps
  <2>3. CASE store' = StoreReset /\ rst' = [rst EXCEPT !.pc = "cleared", !.seq = StoreReset.last]
    <3> DEFINE n == store.last + 1
    <3>1. n \in Nat /\ n >= store.last /\ \A m \in Nat : m <= store.last => m <= n
      BY <1>1
    <3>2. StoreReset = [store EXCEPT !.last = n, !.snap = {}, !.incs = {}]
      BY DEF StoreReset
    <3> HIDE DEF n
    <3>3. store'.last = n
      BY <2>3, <3>2 DEF StoreTypes
    <3>4. rst'.seq = n
      BY <2>3, <3>3 DEF HubTypes
    <3>5. ASSUME NEW s \in Sessions, InUse(s)' PROVE sess'[s].resetSeq <= store'.last
      BY <1>1, <2>1, <3>1, <3>3, <3>5 DEF JoinInv, InUse
    <3> QED BY <1>0, <1>1, <2>1, <3>1, <3>3, <3>4, <3>5 DEF JoinInv, JoinedPastReset
  <2> QED BY <1>4, <2>2, <2>3 DEF ResetClears
<1>5. CASE ResetAnnounces
  <2> DEFINE s == hub.room
  <2>1. /\ rst.pc = "cleared" /\ rst'.pc = "idle" /\ UNCHANGED store
        /\ hub'.resets = rst.seq /\ hub'.room = s
    BY <1>5 DEF ResetAnnounces, ResetEnds, HubTypes
  <2>2. /\ \A c \in Conns : conn'[c].sess = conn[c].sess /\ conn'[c].member = conn[c].member
                            /\ conn'[c].pc = conn[c].pc /\ conn'[c].replay = conn[c].replay
        /\ \A c \in Conns : ~conn'[c].stale => ~conn[c].stale /\ (s = None \/ c \notin Members(s))
    BY <1>5 DEF ResetAnnounces, ConnTypes, ConnRecs
  <2>3. \A x \in Sessions : sess'[x].resetSeq = IF x = s THEN rst.seq ELSE sess[x].resetSeq
    BY <1>5, ConstantTypes DEF ResetAnnounces, HubTypes, FreshSession
  <2>4. ASSUME NEW x \in Sessions, InUse(x)' PROVE sess'[x].resetSeq <= store'.last
    <3>1. InUse(x)
      BY <2>1, <2>2, <2>4 DEF InUse
    <3> QED BY <2>1, <2>3, <3>1 DEF JoinInv
  <2>5. JoinedPastReset'
    <3> SUFFICES ASSUME NEW c \in Conns, conn'[c].member, ~conn'[c].stale, conn'[c].pc \in Loaded
                 PROVE  conn'[c].replay.seq >= sess'[conn'[c].sess].resetSeq
      BY DEF JoinedPastReset, Loaded
    <3>1. conn[c].sess \in Sessions
      BY <2>2 DEF ConnTypes, ConnRecs, Loaded
    <3>2. conn[c].sess # s
      BY <2>2, <3>1, ConstantTypes DEF Members
    <3>3. conn[c].replay.seq >= sess[conn[c].sess].resetSeq
      BY <2>2 DEF JoinInv, JoinedPastReset, Loaded
    <3> QED BY <2>2, <2>3, <3>1, <3>2, <3>3
  <2> QED BY <1>0, <2>1, <2>4, <2>5 DEF JoinInv
<1>6. CASE Restart
  <2>1. rst'.pc = "idle" /\ hub'.room = None /\ hub'.resets = 0
    BY <1>6 DEF Restart, ResetEnds, HubTypes
  <2>2. \A c \in Conns : conn'[c].sess = None /\ ~conn'[c].member
    BY <1>6 DEF Restart, ConnTypes, GoneConn, NewConn
  <2>3. store'.last >= 0
    BY DEF StoreTypes
  <2> QED BY <1>0, <2>1, <2>2, <2>3, ConstantTypes DEF JoinInv, JoinedPastReset, InUse
<1>7. ASSUME ~Restart, hub'.resets = hub.resets, hub'.room \in {hub.room, None},
             rst'.pc = "cleared" => rst.pc = "cleared" /\ rst'.seq = rst.seq,
             \A s \in Sessions : sess'[s].resetSeq = sess[s].resetSeq,
             \A c \in Conns :
                /\ conn'[c].sess \in {conn[c].sess, None}
                /\ (conn'[c].member /\ ~conn'[c].stale /\ conn'[c].pc \in Loaded) =>
                      /\ conn[c].member /\ ~conn[c].stale /\ conn[c].pc \in Loaded
                      /\ conn'[c].sess = conn[c].sess /\ conn'[c].replay.seq = conn[c].replay.seq
      PROVE  JoinInv'
  BY <1>0, <1>7, JoinKeeps DEF CounterKept
<1>8. ASSUME NEW c \in Conns, JoinRoom(c) \/ ClaimSeed(c) \/ SendInit(c) PROVE JoinInv' \/ Restart
  <2>1. UNCHANGED <<hub, rst>>
    BY <1>8 DEF JoinRoom, ClaimSeed, SendInit
  <2>2. \A s \in Sessions : sess'[s].resetSeq = sess[s].resetSeq
    <3>1. UNCHANGED sess \/ \E b, n : sess' = [sess EXCEPT ![conn[c].sess].hasState = b,
                                                         ![conn[c].sess].seeder = n]
      <4>1. CASE JoinRoom(c) \/ SendInit(c)
        BY <4>1 DEF JoinRoom, SendInit
      <4>2. CASE ClaimSeed(c)
        BY <4>2 DEF ClaimSeed
      <4> QED BY <1>8, <4>1, <4>2
    <3>2. ASSUME NEW b, NEW n, sess' = [sess EXCEPT ![conn[c].sess].hasState = b,
                                                    ![conn[c].sess].seeder = n],
                 NEW s \in Sessions
          PROVE  sess'[s].resetSeq = sess[s].resetSeq
      BY <3>2 DEF HubTypes, SessRecs
    <3> QED BY <3>1, <3>2
  <2>3. \A d \in Conns \ {c} : conn'[d] = conn[d]
    BY <1>8 DEF JoinRoom, ClaimSeed, SendInit, ConnTypes
  <2>4. conn'[c].sess = conn[c].sess /\ conn'[c].replay.seq = conn[c].replay.seq
    <3>1. CASE JoinRoom(c) \/ ClaimSeed(c)
      BY <3>1 DEF JoinRoom, ClaimSeed, ConnTypes, ConnRecs
    <3>2. CASE SendInit(c)
      BY <3>2 DEF SendInit, ConnTypes, ConnRecs, Replays
    <3> QED BY <1>8, <3>1, <3>2
  <2>5. conn'[c].pc \in Loaded => /\ conn[c].pc \in Loaded /\ conn'[c].member = conn[c].member
                                  /\ conn'[c].stale = conn[c].stale
    <3>1. CASE JoinRoom(c)
      BY <3>1 DEF JoinRoom, ConnTypes, ConnRecs, Loaded
    <3>2. CASE ClaimSeed(c) \/ SendInit(c)
      BY <3>2, OnlyStage DEF ClaimSeed, SendInit, Loaded
    <3> QED BY <1>8, <3>1, <3>2
  <2> QED BY <1>7, <2>1, <2>2, <2>3, <2>4, <2>5
<1>9. ASSUME NEW c \in Conns, HandleUpdate(c) \/ HandleCommit(c) PROVE JoinInv' \/ Restart
  <2>1. UNCHANGED <<hub, rst, conn>>
    BY <1>9 DEF HandleUpdate, HandleCommit
  <2>2. \A s \in Sessions : sess'[s].resetSeq = sess[s].resetSeq
    BY <1>9 DEF HandleUpdate, HandleCommit, Snapshots, SnapshotFails, Refused, HubTypes, SessRecs
  <2> QED BY <1>7, <2>1, <2>2
<1>10. ASSUME NEW c \in Conns, HangUp(c) \/ ReadEnds(c) PROVE JoinInv' \/ Restart
  <2>1. UNCHANGED <<hub, rst>>
    BY <1>10 DEF HangUp, ReadEnds
  <2>2. UNCHANGED sess \/ \E n : sess' = [sess EXCEPT ![conn[c].sess].seeder = n]
    BY <1>10 DEF HangUp, ReadEnds, Leave
  <2>3. ASSUME NEW n, sess' = [sess EXCEPT ![conn[c].sess].seeder = n], NEW s \in Sessions
        PROVE  sess'[s].resetSeq = sess[s].resetSeq
    BY <2>3 DEF HubTypes, SessRecs
  <2>4. /\ conn'[c].sess = conn[c].sess /\ ~conn'[c].member
        /\ \A d \in Conns \ {c} : conn'[d] = conn[d]
    BY <1>10 DEF HangUp, ReadEnds, Leave, ConnTypes, ConnRecs
  <2> QED BY <1>7, <2>1, <2>2, <2>3, <2>4
<1>11. ASSUME NEW c \in Conns, RemoveSession(c) PROVE JoinInv' \/ Restart
  <2>1. hub'.resets = hub.resets /\ hub'.room \in {hub.room, None} /\ UNCHANGED <<rst, sess>>
    BY <1>11 DEF RemoveSession, HubTypes
  <2>2. conn'[c] = GoneConn /\ \A d \in Conns \ {c} : conn'[d] = conn[d]
    BY <1>11 DEF RemoveSession, ConnTypes
  <2>3. GoneConn.sess = None /\ ~GoneConn.member
    BY DEF GoneConn, NewConn
  <2> QED BY <1>7, <2>1, <2>2, <2>3
<1>12. CASE ResetWrites \/ \E w \in Writes : ResetFences(w)
  <2>1. UNCHANGED <<hub, sess, conn>> /\ rst'.pc # "cleared"
    BY <1>12 DEF ResetWrites, ResetFences, ResetEnds, HubTypes
  <2> QED BY <1>6, <1>7, <2>1
<1>13. CASE \E t \in Tabs : \/ RecvInit(t) \/ RecvUpdate(t) \/ RecvCommit(t) \/ RecvSeed(t) \/ SeedEffect(t)
                            \/ TabCloses(t) \/ Commit(t) \/ \E e \in Edits : Type(t, e)
  <2>1. UNCHANGED <<hub, rst, sess, conn>>
    BY <1>13 DEF RecvInit, RecvUpdate, RecvCommit, RecvSeed, SeedEffect, TabCloses, Commit, Type
  <2> QED BY <1>6, <1>7, <2>1
<1>14. CASE \/ \E t \in Tabs : RecvReset(t)
            \/ \E c \in Conns : Lose(c)
  <2>1. UNCHANGED <<hub, rst, sess>>
    BY <1>14 DEF RecvReset, Lose
  <2>2. \A d \in Conns : /\ conn'[d].sess = conn[d].sess /\ conn'[d].replay = conn[d].replay
                         /\ conn'[d].pc = conn[d].pc /\ conn'[d].member = conn[d].member
                         /\ conn'[d].stale = conn[d].stale
    BY <1>14, OnlySocket
  <2> QED BY <1>6, <1>7, <2>1, <2>2
<1>15. CASE UNCHANGED vars
  BY <1>6, <1>7, <1>15 DEF vars
<1> QED
  BY <1>2, <1>3, <1>4, <1>5, <1>6, <1>8, <1>9, <1>10, <1>11, <1>12, <1>13, <1>14, <1>15
     DEF Next, ConnStep, TabStep, ResetStep

(* The memory store numbers the updates of a room by its own counter,      *)
(* which only a restart takes back.                                        *)
LEMMA MemoryCounts == ~Durable /\ Types /\ [Next]_vars => CounterKept
<1> SUFFICES ASSUME ~Durable, Types, [Next]_vars, ~Restart PROVE store'.last >= store.last
  BY DEF CounterKept
<1>1. store.last \in Nat
  BY DEF Types, StoreTypes
<1> DEFINE n == store.last + 1
<1>2. n \in Nat /\ n >= store.last /\ NextSeq = n
  BY <1>1 DEF NextSeq
<1> HIDE DEF n
<1>3. \A ops, base : AppendUpdate(ops).last = n /\ AppendSnapshot(ops, base).last = n
  BY <1>2 DEF AppendUpdate, AppendSnapshot, Append1, Types, StoreTypes
<1>4. StoreReset.last = n
  <2>1. StoreReset = [store EXCEPT !.last = n, !.snap = {}, !.incs = {}]
    BY DEF StoreReset, n
  <2> QED BY <2>1 DEF Types, StoreTypes
<1>5. CASE UNCHANGED store
  BY <1>1, <1>5
<1>6. ASSUME NEW c \in Conns, HandleUpdate(c) \/ HandleCommit(c) PROVE store'.last >= store.last
  BY <1>2, <1>3, <1>5, <1>6
     DEF HandleUpdate, HandleCommit, StoreAndRelay, RelayUnstored, Snapshots, SnapshotFails, Refused
<1>7. CASE ResetClears
  BY <1>2, <1>4, <1>5, <1>7 DEF ResetClears
<1>8. ASSUME NEW c \in Conns, \/ JoinRoom(c) \/ Load(c) \/ ClaimSeed(c) \/ SendInit(c) \/ HangUp(c)
                              \/ ReadEnds(c) \/ RemoveSession(c) \/ Lose(c)
      PROVE  UNCHANGED store
  BY <1>8 DEF JoinRoom, Load, ClaimSeed, SendInit, HangUp, ReadEnds, RemoveSession, Lose
<1>9. ASSUME NEW t \in Tabs, TabStep(t) \/ Commit(t) \/ \E e \in Edits : Type(t, e)
      PROVE  UNCHANGED store
  BY <1>9 DEF TabStep, Dial, RecvInit, RecvUpdate, RecvCommit, RecvSeed, SeedEffect, RecvReset,
              TabCloses, Commit, Type
<1>10. CASE ResetWrites \/ ResetAnnounces \/ \E w \in Writes : ResetFences(w)
  BY <1>5, <1>10 DEF ResetWrites, ResetAnnounces, ResetFences
<1>11. CASE UNCHANGED vars
  BY <1>5, <1>11 DEF vars
<1> QED
  BY <1>5, <1>6, <1>7, <1>8, <1>9, <1>10, <1>11 DEF Next, ConnStep, ResetStep

(* Before anybody dials, nobody has joined and nothing was reset.          *)
LEMMA InitJoin == Init => JoinInv
  BY DEF Init, JoinInv, Handed, JoinedPastReset, InUse, NewConn, EmptyStore, FreshSession

(* A participant that is not stale was given a seq at or past the last     *)
(* reset, so its commits count, in every run of the room in which the      *)
(* counter of its log never goes back.  The premise is the one thing that  *)
(* Store.Reset promises and the SQL store does not keep: the last_seq it   *)
(* counts up is overwritten by the row number of the next update.          *)
THEOREM JoinersMayCommit == Spec /\ [][CounterKept]_vars => []JoinedPastReset
<1>1. Init => JoinInv
  BY InitJoin
<1>2. Types /\ Types' /\ JoinInv /\ [Next]_vars /\ [CounterKept]_vars => JoinInv'
  <2>1. Types /\ UNCHANGED vars => CounterKept
    BY DEF vars, CounterKept, Types, StoreTypes
  <2> QED BY <2>1, NextJoin
<1>3. JoinInv => JoinedPastReset
  BY DEF JoinInv
<1> QED BY <1>1, <1>2, <1>3, TypesHold, PTL DEF Spec

(* Over the memory store that premise holds, so joiners may always commit  *)
(* (MemoryStore.AppendUpdate, MemoryStore.Reset).                          *)
THEOREM MemoryJoinersMayCommit == ASSUME ~Durable PROVE Spec => []JoinedPastReset
<1>1. Init => JoinInv
  BY InitJoin
<1>2. Types /\ Types' /\ JoinInv /\ [Next]_vars => JoinInv'
  BY MemoryCounts, NextJoin
<1>3. JoinInv => JoinedPastReset
  BY DEF JoinInv
<1> QED BY <1>1, <1>2, <1>3, TypesHold, PTL DEF Spec
=============================================================================
