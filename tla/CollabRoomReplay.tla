-------------------------- MODULE CollabRoomReplay --------------------------
(***************************************************************************)
(* The proofs that a stored edit is in every later replay of its room, and *)
(* that an open editor holds what a replay would bring (CollabRoom's       *)
(* ReplayKeepsEdits and OpenEditorsCatchUp), over either store, for any    *)
(* number of tabs, connections, edits, drops, failed writes and restarts.  *)
(*                                                                         *)
(* What has to be shown of a snapshot is that it holds every edit up to    *)
(* the seq it names: the store drops those.  So a tab must hold, when it   *)
(* commits, all that its lastSeq stands for, and with that every frame on  *)
(* its way to the tab must come after the edits that its seq stands for.   *)
(* For the second one, a snapshot must bring nothing that its author did   *)
(* not get from the room or send to it.                                    *)
(***************************************************************************)
EXTENDS CollabRoomProofs

-----------------------------------------------------------------------------
(* The inductive invariant *)

\* The next stored update gets a number above every one the room has seen.
Fresh == NextSeq > store.last

\* A connection whose tab has not noticed an end of it.
Linked(c) == conn[c].sock = "open" /\ conn[c].pc \notin {"new", "gone"}

\* A connection that has loaded its replay, and whose socket still carries frames.
Live(c) == conn[c].sock = "open" /\ conn[c].pc \in Loaded

Seated == {"joined"} \cup Loaded

Doc(c) == tab[TabOf[c]].doc

LastSeq(c) == tab[TabOf[c]].lastSeq

\* A tab writes and is written to on the connection it dialled last.
Links(c) ==
    /\ Linked(c) => tab[TabOf[c]].link = c
    /\ tab[TabOf[c]].link = c => conn[c].pc # "new"
    /\ conn[c].sock = "open" /\ conn[c].pc \in Seated => conn[c].member
    /\ conn[c].pc \in {"new", "got"} => down[c] = <<>>
    /\ conn[c].pc = "new" => up[c] = <<>>

\* What a tab has sent and the server has not read, the tab holds.
OwnHeld(c) ==
    Linked(c) => \A i \in 1..Len(up[c]) : up[c][i].ops \subseteq Doc(c)

\* No replay comes after the first j frames for the tab of c.
NoInitAfter(c, j) == \A i \in 1..Len(down[c]) : i > j => down[c][i].type # "init"

\* A connection is sent one replay.
OneInit(c) ==
    /\ Linked(c) /\ conn[c].pc # "read" => NoInitAfter(c, 0)
    /\ \A i \in 1..Len(down[c]) : down[c][i].type = "init" => NoInitAfter(c, i)

Shape == \A c \in Conns : Links(c) /\ OwnHeld(c) /\ OneInit(c)

Content  == {"init", "update"}
Numbered == {"init", "update", "commit"}

\* The numbers in use are those the counter has given out.
StoreCounted ==
    /\ \A a \in hist.accepted : a.seq <= store.last
    /\ \A u \in store.snap \cup store.incs : u.seq <= store.last

\* And so are those that tabs and frames carry.
FramesCounted(c) ==
    /\ ~hist.early => \A i \in 1..Len(up[c]) : up[c][i].type = "commit" => up[c][i].base <= store.last
    /\ conn[c].member => \A i \in 1..Len(down[c]) :
          down[c][i].type \in Numbered => down[c][i].seq <= store.last
    /\ Live(c) => conn[c].replay.seq <= store.last
    /\ Live(c) /\ conn[c].pc = "read" /\ NoInitAfter(c, 0) => LastSeq(c) <= store.last

Counted == StoreCounted /\ \A c \in Conns : FramesCounted(c)

\* The tab of c holds op, or one of the first j frames on their way to it
\* does, or a replay may lack it.
Has(c, op, j) ==
    \/ op \in Doc(c) \cup hist.gaps
    \/ \E i \in 1..Len(down[c]) : i <= j /\ down[c][i].type \in Content /\ op \in down[c][i].ops

\* Every stored edit is at the tab, on its way there, or in the replay it will be sent.
AllComing(c) ==
    \A a \in hist.accepted :
       Has(c, a.op, Len(down[c])) \/ (conn[c].pc # "read" /\ a.op \in conn[c].replay.ops)

\* A replay has the edits up to its seq.
ReplayIsWhole(c) ==
    conn[c].pc # "read" => \A a \in hist.accepted :
       a.seq <= conn[c].replay.seq => a.op \in conn[c].replay.ops \cup hist.gaps

\* Once the replay is out, a frame comes after the edits up to its seq.
FramesInOrder(c) ==
    conn[c].pc = "read" => \A j \in 1..Len(down[c]) :
       down[c][j].type \in Numbered /\ NoInitAfter(c, j) =>
          \A a \in hist.accepted : a.seq <= down[c][j].seq => Has(c, a.op, j)

\* Past its replay, a tab holds the edits up to the seq it commits with.
TabInOrder(c) ==
    conn[c].pc = "read" /\ NoInitAfter(c, 0) =>
       \A a \in hist.accepted : a.seq <= LastSeq(c) => a.op \in Doc(c) \cup hist.gaps

Knows(c) == AllComing(c) /\ ReplayIsWhole(c) /\ FramesInOrder(c) /\ TabInOrder(c)

\* A commit under way has the edits up to its base.
CommitsAreWhole(c) ==
    \A i \in 1..Len(up[c]) : up[c][i].type = "commit" => \A a \in hist.accepted :
       a.seq <= up[c][i].base => a.op \in up[c][i].ops \cup hist.gaps

\* What a snapshot is allowed to hide is on record.
Calm == ~hist.split /\ ~hist.early

Whole == Calm => /\ ReplayKeepsEdits
                 /\ \A c \in Conns : CommitsAreWhole(c) /\ (Live(c) => Knows(c))

ReplayInv == Shape /\ Counted /\ Whole
-----------------------------------------------------------------------------
(* Sequences of frames *)

(* A frame put at the end of a sequence. *)
LEMMA Longer ==
    ASSUME NEW S, NEW q \in Seq(S), NEW f \in S
    PROVE  /\ Len(q) \in Nat /\ Len(Append(q, f)) = Len(q) + 1
           /\ \A i \in 1..Len(q) : Append(q, f)[i] = q[i]
           /\ Append(q, f)[Len(q) + 1] = f
  BY AppendProperties, LenProperties

(* A frame taken from the front of one. *)
LEMMA Shorter ==
    ASSUME NEW S, NEW q \in Seq(S), q # <<>>
    PROVE  /\ Len(q) \in Nat /\ Len(q) >= 1 /\ Len(Tail(q)) = Len(q) - 1
           /\ \A i \in 1..Len(Tail(q)) : Tail(q)[i] = q[i + 1]
           /\ Head(q) = q[1]
  BY HeadTailProperties, EmptySeq, LenProperties

-----------------------------------------------------------------------------
(* What a step may do to a connection and its frames *)

\* The socket only breaks, a join and a replay come from their own steps.
ConnMoves(c) ==
    /\ conn'[c].sock = "open" => conn[c].sock = "open"
    /\ conn'[c].pc # conn[c].pc =>
          \/ conn'[c].pc \in {"left", "gone"} /\ conn'[c].sock # "open"
          \/ conn[c].pc = "new" /\ conn'[c].pc = "got" /\ tab'[TabOf[c]].link = c /\ Dial(TabOf[c], c)
          \/ JoinRoom(c) \/ Load(c) \/ ClaimSeed(c) \/ SendInit(c)
    /\ conn'[c].member /\ ~conn[c].member => JoinRoom(c)
    /\ conn'[c].sock = "open" /\ conn[c].member => conn'[c].member
    /\ conn[c].stale => conn'[c].stale \/ (conn'[c].sock # "open" /\ ~conn'[c].member)
    /\ conn'[c].sock = "open" => Load(c) \/ conn'[c].replay.seq = conn[c].replay.seq
    /\ conn'[c].sock = "open" => Load(c) \/ SendInit(c) \/ conn'[c].replay = conn[c].replay

(* Leaving ends a seat and its socket. *)
LEMMA LeaveMoves ==
    ASSUME ConnTypes, NEW c \in Conns, HangUp(c) \/ ReadEnds(c)
    PROVE  /\ conn'[c].sock # "open" /\ ~conn'[c].member /\ conn'[c].pc \in {conn[c].pc, "left"}
           /\ \A d \in Conns \ {c} : conn'[d] = conn[d]
<1>1. ASSUME NEW k, NEW s, s # "open", Leave(c, k, s)
      PROVE  /\ conn'[c].sock # "open" /\ ~conn'[c].member /\ conn'[c].pc = k
             /\ \A d \in Conns \ {c} : conn'[d] = conn[d]
  BY <1>1 DEF Leave, ConnTypes, ConnRecs
<1>2. CASE HangUp(c)
  BY <1>1, <1>2 DEF HangUp
<1>3. CASE ReadEnds(c)
  <2>1. (IF conn[c].sock = "open" THEN "hung" ELSE conn[c].sock) # "open"
    OBVIOUS
  <2> QED BY <1>1, <1>3, <2>1 DEF ReadEnds
<1> QED BY <1>2, <1>3

(* No step mends a socket, seats a connection or changes its replay but    *)
(* those of its own join (connect, session.join, sendInit).                *)
LEMMA NextConn == Types /\ [Next]_vars => \A c \in Conns : ConnMoves(c)
<1> SUFFICES ASSUME Types, [Next]_vars, NEW c \in Conns PROVE ConnMoves(c)
  OBVIOUS
<1> USE DEF Types
<1>0. ConnTypes /\ conn[c] \in ConnRecs
  BY DEF ConnTypes
<1>1. CASE conn'[c] = conn[c]
  BY <1>1 DEF ConnMoves
<1>2. CASE conn'[c].sock # "open" /\ conn'[c].pc \in {conn[c].pc, "left", "gone"}
           /\ ~conn'[c].member
  BY <1>2 DEF ConnMoves
<1>3. GoneConn.sock # "open" /\ GoneConn.pc = "gone" /\ ~GoneConn.member
  BY DEF GoneConn, NewConn
<1>4. ASSUME NEW t \in Tabs, NEW d \in Conns, Dial(t, d) PROVE ConnMoves(c)
  <2>1. CASE d # c
    BY <1>1, <1>4, <2>1 DEF Dial, ConnTypes
  <2>2. CASE d = c /\ conn' = [conn EXCEPT ![c] = GoneConn]
    BY <1>2, <1>3, <2>2 DEF ConnTypes
  <2>3. CASE d = c /\ \E s : /\ conn' = [conn EXCEPT ![d].pc = "got", ![d].sess = s]
                             /\ tab' = [tab EXCEPT ![t].link = d]
    <3>1. TabOf[c] = t /\ conn[c].pc = "new"
      BY <1>4, <2>3 DEF Dial
    <3>2. PICK s : conn' = [conn EXCEPT ![c].pc = "got", ![c].sess = s]
      BY <2>3
    <3>3. /\ conn'[c].pc = "got" /\ conn'[c].sock = conn[c].sock /\ conn'[c].member = conn[c].member
          /\ conn'[c].replay = conn[c].replay /\ conn'[c].stale = conn[c].stale
      BY <3>2 DEF ConnTypes, ConnRecs
    <3>4. tab'[t].link = c
      BY <2>3 DEF TabTypes, TabRecs
    <3> QED BY <1>4, <2>3, <3>1, <3>3, <3>4 DEF ConnMoves
  <2> QED BY <1>4, <2>1, <2>2, <2>3 DEF Dial
<1>5. ASSUME NEW d \in Conns, JoinRoom(d) PROVE ConnMoves(c)
  BY <1>5 DEF JoinRoom, ConnMoves, ConnTypes, ConnRecs
<1>6. ASSUME NEW d \in Conns, Load(d) \/ ClaimSeed(d) \/ SendInit(d) PROVE ConnMoves(c)
  <2>1. CASE d # c
    BY <1>1, <1>6, <2>1, OnlyStage
  <2>2. CASE d = c
    <3>1. conn'[c].member = conn[c].member /\ conn'[c].stale = conn[c].stale
      BY <1>6, <2>2, OnlyStage
    <3>2. conn'[c].sock = conn[c].sock
      BY <1>6, <2>2 DEF Load, ClaimSeed, SendInit, ConnTypes, ConnRecs
    <3>3. CASE Load(c)
      BY <3>1, <3>2, <3>3 DEF ConnMoves
    <3>4. CASE ClaimSeed(c)
      <4>1. conn'[c].replay = conn[c].replay
        BY <3>4 DEF ClaimSeed, ConnTypes, ConnRecs
      <4> QED BY <3>1, <3>2, <3>4, <4>1 DEF ConnMoves
    <3>5. CASE SendInit(c)
      <4>1. conn'[c].replay.seq = conn[c].replay.seq
        BY <3>5 DEF SendInit, ConnTypes, ConnRecs, Replays
      <4> QED BY <3>1, <3>2, <3>5, <4>1 DEF ConnMoves
    <3> QED BY <1>6, <2>2, <3>3, <3>4, <3>5
  <2> QED BY <2>1, <2>2
<1>7. ASSUME NEW d \in Conns, HangUp(d) \/ ReadEnds(d) PROVE ConnMoves(c)
  BY <1>1, <1>2, <1>7, LeaveMoves
<1>8. ASSUME NEW d \in Conns, RemoveSession(d) PROVE ConnMoves(c)
  BY <1>1, <1>2, <1>3, <1>8 DEF RemoveSession, ConnTypes
<1>9. CASE (\E t \in Tabs : RecvReset(t)) \/ (\E d \in Conns : Lose(d))
  <2>0. \E d, k : k # "open" /\ conn' = [conn EXCEPT ![d].sock = k]
    <3>1. CASE \E d \in Conns : Lose(d)
      BY <3>1 DEF Lose
    <3>2. ASSUME NEW t \in Tabs, RecvReset(t) PROVE \E d, k : k # "open" /\ conn' = [conn EXCEPT ![d].sock = k]
      <4> DEFINE k == IF conn[tab[t].link].sock = "open" THEN "lost" ELSE conn[tab[t].link].sock
      <4>1. k # "open" /\ conn' = [conn EXCEPT ![tab[t].link].sock = k]
        BY <3>2 DEF RecvReset
      <4> QED BY <4>1
    <3> QED BY <1>9, <3>1, <3>2
  <2>1. conn'[c].sock = "open" => conn[c].sock = "open"
    BY <2>0 DEF ConnTypes, ConnRecs
  <2> QED BY <1>9, <2>1, OnlySocket DEF ConnMoves
<1>10. CASE ResetAnnounces
  <2>1. /\ conn'[c].pc = conn[c].pc /\ conn'[c].sock = conn[c].sock
        /\ conn'[c].member = conn[c].member /\ conn'[c].replay = conn[c].replay
        /\ conn[c].stale => conn'[c].stale
    BY <1>10 DEF ResetAnnounces, ConnTypes, ConnRecs
  <2> QED BY <2>1 DEF ConnMoves
<1>11. CASE Restart
  BY <1>1, <1>2, <1>3, <1>11 DEF Restart
<1>12. ASSUME NEW d \in Conns, HandleUpdate(d) \/ HandleCommit(d) PROVE ConnMoves(c)
  BY <1>1, <1>12 DEF HandleUpdate, HandleCommit
<1>13. CASE \/ UNCHANGED vars \/ ResetWrites \/ ResetClears \/ \E w \in Writes : ResetFences(w)
            \/ \E t \in Tabs : \/ RecvInit(t) \/ RecvUpdate(t) \/ RecvCommit(t) \/ RecvSeed(t)
                               \/ SeedEffect(t) \/ TabCloses(t) \/ Commit(t) \/ \E e \in Edits : Type(t, e)
  <2>1. UNCHANGED conn
    BY <1>13 DEF vars, ResetWrites, ResetClears, ResetFences, RecvInit, RecvUpdate, RecvCommit,
                 RecvSeed, SeedEffect, TabCloses, Commit, Type
  <2> QED BY <1>1, <2>1
<1> QED
  BY <1>4, <1>5, <1>6, <1>7, <1>8, <1>9, <1>10, <1>11, <1>12, <1>13
     DEF Next, ConnStep, TabStep, ResetStep
-----------------------------------------------------------------------------
(* What a step may do to a tab and the frames from it *)

\* A tab that types, sends or receives: its link stays, its document grows.
Works(t) ==
    \/ RecvInit(t) \/ RecvUpdate(t) \/ RecvCommit(t) \/ RecvSeed(t)
    \/ SeedEffect(t) \/ Commit(t) \/ \E e \in Edits : Type(t, e)

(* A frame that a tab takes is merged into its document, and its seq noted. *)
LEMMA TakenIs ==
    ASSUME TabTypes, FrameTypes, NEW t \in Tabs,
           RecvInit(t) \/ RecvUpdate(t) \/ RecvCommit(t) \/ RecvSeed(t)
    PROVE  LET c == tab[t].link
               f == Head(down[c])
           IN  /\ c \in Conns /\ TabOf[c] = t /\ f \in DownFrames
               /\ down[c] # <<>> /\ down' = [down EXCEPT ![c] = Tail(@)]
               /\ \A u \in Tabs \ {t} : tab'[u] = tab[u]
               /\ tab'[t].link = c /\ tab[t].doc \subseteq tab'[t].doc
               /\ f.type \in Content => f.ops \subseteq tab'[t].doc
               /\ tab'[t].lastSeq = CASE f.type = "init" -> f.seq
                                      [] f.type \in {"update", "commit"} -> Later(tab[t].lastSeq, f.seq)
                                      [] OTHER -> tab[t].lastSeq
<1> DEFINE c == tab[t].link
           f == Head(down[c])
           k == f.type
<1>1. \E x : Receives(t, x) /\ (k \in {"init", "update", "commit", "seed"})
  BY DEF RecvInit, RecvUpdate, RecvCommit, RecvSeed, Receives
<1>2. c \in Conns /\ f \in DownFrames /\ TabOf[c] = t /\ down[c] # <<>>
  BY <1>1, ReceivedIs DEF Frame, Receives, TabTypes
<1>3. down' = [down EXCEPT ![c] = Tail(@)]
  BY DEF RecvInit, RecvUpdate, RecvCommit, RecvSeed, Taken
<1> DEFINE D == tab[t].doc
           n == tab[t].lastSeq
<1>4. tab[t] \in TabRecs
  BY DEF TabTypes
<1>5. CASE RecvInit(t)
  <2> DEFINE d == D \cup f.ops
             g == tab[t].dirty \/ ((tab[t].inited \/ tab[t].dirty) /\ D \ f.ops # {})
  <2>1. k = "init" /\ tab' = [tab EXCEPT ![t].inited = TRUE, ![t].lastSeq = f.seq, ![t].doc = d, ![t].dirty = g]
    BY <1>5 DEF RecvInit, Receives, Frame
  <2>2. D \subseteq d /\ f.ops \subseteq d
    OBVIOUS
  <2> HIDE DEF d, g, f
  <2>3. /\ \A u \in Tabs \ {t} : tab'[u] = tab[u]
        /\ tab'[t].link = c /\ tab'[t].doc = d /\ tab'[t].lastSeq = f.seq
    BY <1>4, <2>1 DEF TabTypes, TabRecs
  <2> QED BY <1>2, <1>3, <2>1, <2>2, <2>3 DEF f
<1>6. CASE RecvUpdate(t)
  <2> DEFINE d == D \cup f.ops
             m == Later(n, f.seq)
  <2>1. k = "update" /\ tab' = [tab EXCEPT ![t].doc = d, ![t].lastSeq = m]
    BY <1>6 DEF RecvUpdate, Receives, Frame
  <2>2. D \subseteq d /\ f.ops \subseteq d
    OBVIOUS
  <2> HIDE DEF d, m, f
  <2>3. /\ \A u \in Tabs \ {t} : tab'[u] = tab[u]
        /\ tab'[t].link = c /\ tab'[t].doc = d /\ tab'[t].lastSeq = m
    BY <1>4, <2>1 DEF TabTypes, TabRecs
  <2> QED BY <1>2, <1>3, <2>1, <2>2, <2>3 DEF f, m
<1>7. CASE RecvCommit(t)
  <2> DEFINE m == Later(n, f.seq)
  <2>1. k = "commit" /\ tab' = [tab EXCEPT ![t].lastSeq = m]
    BY <1>7 DEF RecvCommit, Receives, Frame
  <2> HIDE DEF m, f
  <2>3. /\ \A u \in Tabs \ {t} : tab'[u] = tab[u]
        /\ tab'[t].link = c /\ tab'[t].doc = D /\ tab'[t].lastSeq = m
    BY <1>4, <2>1 DEF TabTypes, TabRecs
  <2>4. k \notin Content
    BY <2>1 DEF Content
  <2> QED BY <1>2, <1>3, <2>1, <2>3, <2>4 DEF f, m
<1>8. CASE RecvSeed(t)
  <2>1. k = "seed" /\ tab' = [tab EXCEPT ![t].seed = c]
    BY <1>8 DEF RecvSeed, Receives
  <2> HIDE DEF f
  <2>3. /\ \A u \in Tabs \ {t} : tab'[u] = tab[u]
        /\ tab'[t].link = c /\ tab'[t].doc = D /\ tab'[t].lastSeq = n
    BY <1>4, <2>1 DEF TabTypes, TabRecs
  <2>4. k \notin Content
    BY <2>1 DEF Content
  <2> QED BY <1>2, <1>3, <2>1, <2>3, <2>4 DEF f
<1> QED BY <1>5, <1>6, <1>7, <1>8

(* What a tab types, seeds or commits it sends on its connection.          *)
LEMMA SpokenIs ==
    ASSUME TabTypes, FrameTypes, NEW t \in Tabs,
           SeedEffect(t) \/ Commit(t) \/ \E e \in Edits : Type(t, e)
    PROVE  /\ UNCHANGED <<conn, down, store>>
           /\ \A u \in Tabs \ {t} : tab'[u] = tab[u]
           /\ tab'[t].link = tab[t].link /\ tab[t].doc \subseteq tab'[t].doc
           /\ tab'[t].lastSeq = tab[t].lastSeq
<1>1. tab[t] \in TabRecs /\ UNCHANGED <<conn, down, store>>
  BY DEF TabTypes, SeedEffect, Commit, Type
<1>2. CASE SeedEffect(t)
  <2>1. PICK value : SeedsWith(t, value)
    BY <1>2 DEF SeedEffect
  <2> DEFINE d == tab[t].doc \cup SetBody(tab[t].doc, tab[t].seed, value)
  <2>2. tab' = [tab EXCEPT ![t].seeded = TRUE, ![t].doc = d] /\ tab[t].doc \subseteq d
    BY <2>1 DEF SeedsWith
  <2> HIDE DEF d
  <2> QED BY <1>1, <2>2 DEF TabTypes, TabRecs
<1>3. CASE Commit(t)
  BY <1>1, <1>3 DEF Commit, TabTypes, TabRecs
<1>4. CASE \E e \in Edits : Type(t, e)
  <2>1. PICK e \in Edits : Type(t, e)
    BY <1>4
  <2> DEFINE d == tab[t].doc \cup {Ins(e, e)}
  <2>2. tab' = [tab EXCEPT ![t].doc = d, ![t].dirty = TRUE] /\ tab[t].doc \subseteq d
    BY <2>1 DEF Type
  <2> HIDE DEF d
  <2> QED BY <1>1, <2>2 DEF TabTypes, TabRecs
<1> QED BY <1>1, <1>2, <1>3, <1>4

\* A linked tab stays linked, or its socket breaks.
TabMoves(c) ==
    Linked(c) => \/ conn'[c].sock # "open"
                 \/ tab'[TabOf[c]].link = c /\ Doc(c) \subseteq Doc(c)'

(* A tab keeps the connection it dialled, and what it holds, for as long as *)
(* the socket lasts (provider: connect, handleClose, onReset).             *)
LEMMA NextTab == Types /\ Shape /\ [Next]_vars => \A c \in Conns : TabMoves(c)
<1> SUFFICES ASSUME Types, Shape, [Next]_vars, NEW c \in Conns, Linked(c), conn'[c].sock = "open"
             PROVE  tab'[TabOf[c]].link = c /\ Doc(c) \subseteq Doc(c)'
  BY DEF TabMoves
<1> USE DEF Types
<1>0. TabOf[c] \in Tabs /\ tab[TabOf[c]].link = c /\ c # None
  BY ConstantTypes DEF Shape, Links
<1>1. CASE UNCHANGED tab
  BY <1>0, <1>1 DEF Doc
<1>2. ASSUME NEW t \in Tabs, NEW d \in Conns, Dial(t, d)
      PROVE  tab'[TabOf[c]].link = c /\ Doc(c) \subseteq Doc(c)'
  <2>1. TabOf[c] # t /\ \E r : tab' = [tab EXCEPT ![t] = r]
    BY <1>0, <1>2 DEF Dial
  <2>2. tab'[TabOf[c]] = tab[TabOf[c]]
    BY <2>1, <1>0 DEF TabTypes
  <2> QED BY <1>0, <2>2 DEF Doc
<1>3. ASSUME NEW t \in Tabs, Works(t)
      PROVE  tab'[TabOf[c]].link = c /\ Doc(c) \subseteq Doc(c)'
  <2>1. /\ \A u \in Tabs \ {t} : tab'[u] = tab[u]
        /\ tab'[t].link = tab[t].link /\ tab[t].doc \subseteq tab'[t].doc
    BY <1>3, TakenIs, SpokenIs DEF Works
  <2> QED BY <1>0, <2>1 DEF Doc
<1>4. ASSUME NEW t \in Tabs, RecvReset(t) \/ TabCloses(t)
      PROVE  tab'[TabOf[c]].link = c /\ Doc(c) \subseteq Doc(c)'
  <2>1. CASE TabOf[c] = t
    <3>1. CASE TabCloses(t)
      BY <1>0, <2>1, <3>1 DEF TabCloses, Linked
    <3>2. CASE RecvReset(t)
      <4>1. conn' = [conn EXCEPT ![c].sock = "lost"]
        BY <1>0, <2>1, <3>2 DEF RecvReset, Linked
      <4> QED BY <4>1 DEF ConnTypes, ConnRecs
    <3> QED BY <1>4, <3>1, <3>2
  <2>2. CASE TabOf[c] # t
    <3>1. tab'[TabOf[c]] = tab[TabOf[c]]
      BY <1>0, <1>4, <2>2 DEF TabCloses, RecvReset, TabTypes
    <3> QED BY <1>0, <3>1 DEF Doc
  <2> QED BY <2>1, <2>2
<1>5. ASSUME NEW d \in Conns, ConnStep(d) \/ HangUp(d) \/ Lose(d) PROVE UNCHANGED tab
  BY <1>5 DEF ConnStep, JoinRoom, Load, ClaimSeed, SendInit, HandleUpdate, HandleCommit, ReadEnds,
              RemoveSession, HangUp, Lose
<1>6. CASE ResetStep \/ Restart \/ UNCHANGED vars \/ \E w \in Writes : ResetFences(w)
  BY <1>1, <1>6 DEF ResetStep, ResetWrites, ResetClears, ResetAnnounces, ResetFences, Restart, vars
<1> QED
  BY <1>1, <1>2, <1>3, <1>4, <1>5, <1>6 DEF Next, TabStep, Works

\* What a tab says, it holds, and a commit after its replay is everything it holds.
Says(c, f) ==
    /\ conn[c].sock = "open" /\ tab[TabOf[c]].link = c
    /\ f.ops \subseteq Doc(c)'
    /\ f.type = "commit" =>
          /\ f.base = LastSeq(c) /\ f.ops = Doc(c)
          /\ hist'.early \/ (conn[c].pc = "read" /\ NoInitAfter(c, 0))

UpMoves(c) ==
    \/ up'[c] = up[c]
    \/ up'[c] = <<>> /\ ~Linked(c)'
    \/ up[c] # <<>> /\ up'[c] = Tail(up[c]) /\ (HandleUpdate(c) \/ HandleCommit(c))
    \/ \E f \in UpFrames : up'[c] = Append(up[c], f) /\ Says(c, f)

(* The server reads the frames of a tab in order; the tab sends what it    *)
(* holds (sendUpdate, flushCommit, applyReplay's resync).                  *)
LEMMA NextUp == Types /\ [Next]_vars => \A c \in Conns : UpMoves(c)
<1> SUFFICES ASSUME Types, [Next]_vars, NEW c \in Conns PROVE UpMoves(c)
  OBVIOUS
<1> USE DEF Types
<1>1. CASE UNCHANGED up
  BY <1>1 DEF UpMoves
<1>2. ASSUME NEW t \in Tabs, NEW f \in UpFrames, tab[t].link # None,
             conn[tab[t].link].sock = "open" /\ tab[t].link = c => Says(c, f),
             up' = Sent(up, tab[t].link, f)
      PROVE  UpMoves(c)
  <2>1. up'[c] = up[c] \/ (tab[t].link = c /\ conn[c].sock = "open" /\ up'[c] = Append(up[c], f))
    BY <1>2 DEF Sent, FrameTypes
  <2> QED BY <1>2, <2>1 DEF UpMoves
<1>3. ASSUME NEW t \in Tabs, NEW e \in Edits, Type(t, e) PROVE UpMoves(c)
  <2> DEFINE f == [type |-> "update", ops |-> {Ins(e, e)}]
             d == tab[t].doc \cup {Ins(e, e)}
  <2>1. f \in UpFrames
    BY DocTypes DEF UpFrames
  <2>2. tab'[t].doc = d
    <3>1. tab' = [tab EXCEPT ![t].doc = d, ![t].dirty = TRUE] /\ tab[t] \in TabRecs
      BY <1>3 DEF Type, TabTypes
    <3> HIDE DEF d
    <3> QED BY <3>1 DEF TabTypes, TabRecs
  <2>3. tab[t].link = c => TabOf[c] = t
    BY ConstantTypes DEF TabTypes
  <2>4. conn[tab[t].link].sock = "open" /\ tab[t].link = c => Says(c, f)
    BY <2>2, <2>3 DEF Says, Doc
  <2>5. up' = IF tab[t].link = None THEN up ELSE Sent(up, tab[t].link, f)
    BY <1>3 DEF Type
  <2> HIDE DEF f
  <2> QED BY <1>1, <1>2, <2>1, <2>4, <2>5
<1>4. ASSUME NEW t \in Tabs, SeedEffect(t) PROVE UpMoves(c)
  <2>1. PICK value \in {tab[t].loaded, body} : SeedsWith(t, value)
    BY <1>4 DEF SeedEffect
  <2> DEFINE ops == SetBody(tab[t].doc, tab[t].seed, value)
             d == tab[t].doc \cup ops
             f == [type |-> "update", ops |-> ops]
  <2>2. tab[t] \in TabRecs /\ tab[t].seed \in Conns /\ value \in SUBSET Texts
    BY <1>4 DEF SeedEffect, TabTypes, TabRecs, StoreTypes
  <2>3. ops \in SUBSET Ops
    BY <2>2, DocTypes DEF TabRecs
  <2>4. f \in UpFrames
    BY <2>3 DEF UpFrames
  <2>5. tab'[t].doc = d
    <3>1. tab' = [tab EXCEPT ![t].seeded = TRUE, ![t].doc = d]
      BY <2>1 DEF SeedsWith
    <3> HIDE DEF d
    <3> QED BY <2>2, <3>1 DEF TabTypes, TabRecs
  <2>6. tab[t].link = c => TabOf[c] = t
    BY ConstantTypes DEF TabTypes
  <2>7. conn[tab[t].link].sock = "open" /\ tab[t].link = c => Says(c, f)
    BY <2>5, <2>6 DEF Says, Doc
  <2>8. up' = IF tab[t].link = None \/ ops = {} THEN up ELSE Sent(up, tab[t].link, f)
    BY <2>1 DEF SeedsWith
  <2> HIDE DEF f, ops
  <2> QED BY <1>1, <1>2, <2>4, <2>7, <2>8
<1>5. ASSUME NEW t \in Tabs, Commit(t) PROVE UpMoves(c)
  <2> DEFINE f == [type |-> "commit", ops |-> tab[t].doc, base |-> tab[t].lastSeq]
  <2>1. f \in UpFrames
    BY DEF UpFrames, TabTypes, TabRecs
  <2>2. tab[t].link = c => TabOf[c] = t
    BY ConstantTypes DEF TabTypes
  <2>3. tab[t].link = c => hist'.early \/ ~AwaitsInit(c)
    BY <1>5 DEF Commit, HistTypes
  <2>4. conn[c].sock = "open" /\ ~AwaitsInit(c) => conn[c].pc = "read" /\ NoInitAfter(c, 0)
    <3>1. down[c] \in Seq(DownFrames) /\ DOMAIN down[c] = 1..Len(down[c])
      BY LenProperties DEF FrameTypes
    <3> QED BY <3>1 DEF AwaitsInit, NoInitAfter
  <2>5. conn[tab[t].link].sock = "open" /\ tab[t].link = c => Says(c, f)
    <3> SUFFICES ASSUME conn[c].sock = "open", tab[t].link = c PROVE Says(c, f)
      OBVIOUS
    <3>1. f.ops \subseteq Doc(c)' /\ f.ops = Doc(c) /\ f.base = LastSeq(c)
      BY <1>5, <2>2, SpokenIs DEF Doc, LastSeq
    <3> QED BY <2>2, <2>3, <2>4, <3>1 DEF Says
  <2>6. up' = Sent(up, tab[t].link, f) /\ tab[t].link # None
    BY <1>5 DEF Commit
  <2> HIDE DEF f
  <2> QED BY <1>2, <2>1, <2>5, <2>6
<1>6. ASSUME NEW t \in Tabs, RecvInit(t) PROVE UpMoves(c)
  <2> DEFINE missing == tab[t].doc \ Frame(t).ops
             f == [type |-> "update", ops |-> missing]
  <2>1. tab[t].link # None /\ (UNCHANGED up \/ up' = Sent(up, tab[t].link, f))
    BY <1>6 DEF RecvInit, Receives
  <2>2. missing \in SUBSET Ops
    BY DEF TabTypes, TabRecs
  <2>3. f \in UpFrames
    BY <2>2 DEF UpFrames
  <2>4. tab[t].link = c => TabOf[c] = t
    BY ConstantTypes DEF TabTypes
  <2>5. tab[t].doc \subseteq tab'[t].doc
    BY <1>6, TakenIs
  <2>6. conn[tab[t].link].sock = "open" /\ tab[t].link = c => Says(c, f)
    BY <2>4, <2>5 DEF Says, Doc
  <2> HIDE DEF f
  <2> QED BY <1>1, <1>2, <2>1, <2>3, <2>6
<1>7. ASSUME NEW d \in Conns, HandleUpdate(d) \/ HandleCommit(d) PROVE UpMoves(c)
  <2>1. up[d] # <<>> /\ up' = [up EXCEPT ![d] = Tail(@)]
    BY <1>7 DEF HandleUpdate, HandleCommit, Reads
  <2> QED BY <1>7, <2>1 DEF UpMoves, FrameTypes
<1>8. ASSUME NEW d \in Conns, RemoveSession(d) PROVE UpMoves(c)
  BY <1>8 DEF RemoveSession, UpMoves, FrameTypes, Linked, GoneConn, NewConn, ConnTypes
<1>9. CASE Restart
  BY <1>9 DEF Restart, UpMoves, Linked, GoneConn, NewConn
<1>10. ASSUME NEW d \in Conns, \/ JoinRoom(d) \/ Load(d) \/ ClaimSeed(d) \/ SendInit(d) \/ HangUp(d)
                               \/ ReadEnds(d) \/ Lose(d)
       PROVE  UNCHANGED up
  BY <1>10 DEF JoinRoom, Load, ClaimSeed, SendInit, HangUp, ReadEnds, Lose
<1>11. ASSUME NEW t \in Tabs, \/ RecvUpdate(t) \/ RecvCommit(t) \/ RecvSeed(t) \/ RecvReset(t)
                              \/ TabCloses(t) \/ \E d \in Conns : Dial(t, d)
       PROVE  UNCHANGED up
  BY <1>11 DEF RecvUpdate, RecvCommit, RecvSeed, RecvReset, TabCloses, Dial
<1>12. CASE ResetStep \/ UNCHANGED vars \/ \E w \in Writes : ResetFences(w)
  BY <1>1, <1>12 DEF ResetStep, ResetWrites, ResetClears, ResetAnnounces, ResetFences, vars
<1> QED
  BY <1>1, <1>3, <1>4, <1>5, <1>6, <1>7, <1>8, <1>9, <1>10, <1>11, <1>12 DEF Next, ConnStep, TabStep
-----------------------------------------------------------------------------
(* What a step may do to the store and the frames for a tab *)

(* What the store's operations leave in it.                                *)
LEMMA StoredIs ==
    ASSUME StoreTypes, NEW ops, NEW base
    PROVE  /\ AppendUpdate(ops).last = NextSeq /\ AppendUpdate(ops).snap = store.snap
           /\ AppendUpdate(ops).incs = store.incs \cup {[seq |-> NextSeq, ops |-> ops]}
           /\ AppendSnapshot(ops, base).last = NextSeq
           /\ AppendSnapshot(ops, base).snap = {[seq |-> NextSeq, ops |-> ops]}
           /\ AppendSnapshot(ops, base).incs \subseteq store.incs
           /\ StoreReset.last = store.last + 1 /\ StoreReset.snap = {} /\ StoreReset.incs = {}
<1> DEFINE n == NextSeq
           e == [seq |-> n, ops |-> ops]
           kept == IF Durable THEN {u \in store.incs : u.seq > base} ELSE {}
           more == store.incs \cup {e}
           m == store.last + 1
<1>1. kept \subseteq store.incs
  OBVIOUS
<1>2. /\ AppendUpdate(ops) = [store EXCEPT !.rowid = n, !.last = n, !.incs = more]
      /\ StoreReset = [store EXCEPT !.last = m, !.snap = {}, !.incs = {}]
  BY DEF AppendUpdate, Append1, StoreTypes, StoreReset
<1>3. AppendSnapshot(ops, base) = [store EXCEPT !.rowid = n, !.last = n, !.snap = {e}, !.incs = kept]
  <2>1. Append1(store, n).incs = store.incs
    BY DEF Append1, StoreTypes
  <2>2. AppendSnapshot(ops, base) = [Append1(store, n) EXCEPT !.snap = {e}, !.incs = kept]
    BY <2>1 DEF AppendSnapshot
  <2> QED BY <2>2 DEF Append1
<1> HIDE DEF n, e, kept, more, m
<1> QED BY <1>1, <1>2, <1>3 DEF StoreTypes, n, e, more, m

\* A tab takes a frame other than a reset.
Takes(t) == RecvInit(t) \/ RecvUpdate(t) \/ RecvCommit(t) \/ RecvSeed(t)

\* The tab of c takes a frame: its ops are merged, its seq is noted.
Took(c) ==
    LET f == Head(down[c])
    IN  /\ Takes(TabOf[c]) /\ tab[TabOf[c]].link = c
        /\ down[c] # <<>> /\ down'[c] = Tail(down[c])
        /\ f.type \in Content => f.ops \subseteq Doc(c)'
        /\ LastSeq(c)' = CASE f.type = "init" -> f.seq
                           [] f.type \in {"update", "commit"} -> Later(LastSeq(c), f.seq)
                           [] OTHER -> LastSeq(c)

\* An update that is handled now carries ops.
Relays(ops) == \E b \in Conns : HandleUpdate(b) /\ Writable(b) /\ ops = Head(up[b]).ops

\* A participant is sent a frame that is no replay.
Told(c, f) ==
    /\ f.type # "init" /\ conn[c].member
    /\ f.type = "update" => Relays(f.ops)
    /\ f.type \in Numbered => f.seq <= store'.last
    /\ down'[c] = Append(down[c], f)

DownMoves(c) ==
    \/ Took(c)
    \/ down'[c] = <<>> /\ ~Linked(c)'
    \/ /\ \/ down'[c] = down[c] \/ SendInit(c)
          \/ \E f \in DownFrames : Told(c, f)
       /\ Linked(c) /\ Linked(c)' => LastSeq(c)' = LastSeq(c)

(* A tab takes its frames in order; what it is sent comes from an update   *)
(* handled now, a commit, a seed, a reset or its one replay (broadcast,    *)
(* sendInit).                                                              *)
LEMMA NextDown == Types /\ Shape /\ [Next]_vars => \A c \in Conns : DownMoves(c)
<1> SUFFICES ASSUME Types, Shape, [Next]_vars, NEW c \in Conns PROVE DownMoves(c)
  OBVIOUS
<1> USE DEF Types
<1>0. TabOf[c] \in Tabs /\ c # None /\ (Linked(c) => tab[TabOf[c]].link = c)
  BY ConstantTypes DEF Shape, Links
<1>1. CASE UNCHANGED down /\ UNCHANGED tab
  BY <1>1 DEF DownMoves, LastSeq
<1>2. ASSUME UNCHANGED tab, NEW q \in SUBSET Conns, NEW f \in DownFrames, f.type # "init",
             \A d \in q : conn[d].member, f.type \in Numbered => f.seq <= store'.last,
             f.type = "update" => Relays(f.ops),
             down' = SentAll(down, q, f)
      PROVE  DownMoves(c)
  <2>1. down'[c] = down[c] \/ Told(c, f)
    BY <1>2 DEF SentAll, Told
  <2> QED BY <1>2, <2>1 DEF DownMoves, LastSeq
<1>3. ASSUME NEW t \in Tabs, NEW d \in Conns, Dial(t, d) PROVE DownMoves(c)
  <2>1. UNCHANGED down /\ (TabOf[c] = t => ~Linked(c)) /\ \E r : tab' = [tab EXCEPT ![t] = r]
    BY <1>0, <1>3 DEF Dial
  <2>2. TabOf[c] # t => tab'[TabOf[c]] = tab[TabOf[c]]
    BY <1>0, <2>1 DEF TabTypes
  <2> QED BY <2>1, <2>2 DEF DownMoves, LastSeq
<1>4. ASSUME NEW t \in Tabs, SeedEffect(t) \/ Commit(t) \/ \E e \in Edits : Type(t, e)
      PROVE  DownMoves(c)
  <2>1. UNCHANGED down /\ \A u \in Tabs \ {t} : tab'[u] = tab[u]
    BY <1>4, SpokenIs
  <2>2. tab'[t].lastSeq = tab[t].lastSeq
    BY <1>4, SpokenIs
  <2> QED BY <1>0, <2>1, <2>2 DEF DownMoves, LastSeq
<1>5. ASSUME NEW t \in Tabs, RecvInit(t) \/ RecvUpdate(t) \/ RecvCommit(t) \/ RecvSeed(t)
      PROVE  DownMoves(c)
  <2> DEFINE d == tab[t].link
  <2>1. CASE c = d
    <3>1. /\ TabOf[c] = t /\ down[c] # <<>> /\ down'[c] = Tail(down[c])
      BY <1>5, <2>1, TakenIs DEF FrameTypes
    <3>2. Took(c)
      BY <1>5, <2>1, <3>1, TakenIs DEF Took, Takes, Doc, LastSeq
    <3> QED BY <3>2 DEF DownMoves
  <2>2. CASE c # d
    <3>1. down'[c] = down[c] /\ (Linked(c) => TabOf[c] # t)
      BY <1>0, <1>5, <2>2, TakenIs DEF FrameTypes
    <3>2. TabOf[c] # t => tab'[TabOf[c]] = tab[TabOf[c]]
      BY <1>0, <1>5, TakenIs
    <3> QED BY <3>1, <3>2 DEF DownMoves, LastSeq
  <2> QED BY <2>1, <2>2
<1>6. ASSUME NEW t \in Tabs, RecvReset(t) \/ TabCloses(t) PROVE DownMoves(c)
  <2> DEFINE d == tab[t].link
  <2>1. down' = [down EXCEPT ![d] = <<>>] /\ \E r : tab' = [tab EXCEPT ![t] = r]
    BY <1>6 DEF RecvReset, TabCloses
  <2>2. CASE c = d
    <3>1. conn'[c].sock # "open"
      <4>1. CASE TabCloses(t)
        BY <2>2, <4>1 DEF TabCloses
      <4>2. CASE RecvReset(t)
        <5> DEFINE k == IF conn[c].sock = "open" THEN "lost" ELSE conn[c].sock
        <5>1. conn' = [conn EXCEPT ![c].sock = k] /\ k # "open"
          BY <2>2, <4>2 DEF RecvReset
        <5> HIDE DEF k
        <5> QED BY <5>1 DEF ConnTypes, ConnRecs
      <4> QED BY <1>6, <4>1, <4>2
    <3>2. down'[c] = <<>>
      BY <2>1, <2>2 DEF FrameTypes
    <3> QED BY <3>1, <3>2 DEF DownMoves, Linked
  <2>3. CASE c # d
    <3>1. down'[c] = down[c] /\ (Linked(c) => TabOf[c] # t)
      BY <1>0, <2>1, <2>3 DEF FrameTypes
    <3>2. TabOf[c] # t => tab'[TabOf[c]] = tab[TabOf[c]]
      BY <1>0, <2>1 DEF TabTypes
    <3> QED BY <3>1, <3>2 DEF DownMoves, LastSeq
  <2> QED BY <2>2, <2>3
<1>7. ASSUME NEW d \in Conns, SendInit(d) PROVE DownMoves(c)
  <2>1. UNCHANGED tab /\ (d # c => down'[c] = down[c])
    BY <1>7 DEF SendInit, Sent, FrameTypes
  <2> QED BY <1>7, <2>1 DEF DownMoves, LastSeq
<1>8. ASSUME NEW d \in Conns, HandleUpdate(d) PROVE DownMoves(c)
  <2> DEFINE ops == Head(up[d]).ops
  <2>1. ops \in SUBSET Ops /\ NextSeq \in Nat /\ store.last \in Nat
    BY <1>8, ReadIs, FrameFields, StoreIs DEF HandleUpdate, StoreTypes
  <2>2. /\ UNCHANGED tab
        /\ (Writable(d) /\ (StoreAndRelay(d, ops) \/ RelayUnstored(d, ops))) \/ Refused
    BY <1>8 DEF HandleUpdate
  <2>7. Writable(d) => Relays(ops)
    BY <1>8 DEF Relays
  <2> HIDE DEF ops
  <2>3. Others(d) \in SUBSET Conns /\ \A x \in Others(d) : conn[x].member
    BY DEF Others, Members
  <2>4. CASE Writable(d) /\ StoreAndRelay(d, ops)
    <3> DEFINE f == [type |-> "update", ops |-> ops, seq |-> NextSeq]
    <3>1. f \in DownFrames
      BY <2>1 DEF DownFrames
    <3>0. store' = AppendUpdate(ops)
      BY <2>4 DEF StoreAndRelay
    <3>4. AppendUpdate(ops).last = NextSeq
      BY StoredIs
    <3>2. f.seq <= store'.last
      BY <2>1, <3>0, <3>4
    <3>3. f.type # "init" /\ Relays(f.ops) /\ down' = SentAll(down, Others(d), f)
      BY <2>4, <2>7 DEF StoreAndRelay
    <3> HIDE DEF f
    <3> QED BY <1>2, <2>2, <2>3, <3>1, <3>2, <3>3
  <2>5. CASE Writable(d) /\ RelayUnstored(d, ops)
    <3> DEFINE f == [type |-> "update", ops |-> ops, seq |-> 0]
    <3>1. f \in DownFrames
      BY <2>1 DEF DownFrames
    <3>2. f.seq <= store'.last
      BY <2>1, <2>5 DEF RelayUnstored
    <3>3. f.type # "init" /\ Relays(f.ops) /\ down' = SentAll(down, Others(d), f)
      BY <2>5, <2>7 DEF RelayUnstored
    <3> HIDE DEF f
    <3> QED BY <1>2, <2>2, <2>3, <3>1, <3>2, <3>3
  <2>6. CASE Refused
    BY <1>1, <2>2, <2>6 DEF Refused
  <2> QED BY <2>2, <2>4, <2>5, <2>6
<1>9. ASSUME NEW d \in Conns, HandleCommit(d) PROVE DownMoves(c)
  <2> DEFINE m == Head(up[d])
  <2>1. UNCHANGED tab /\ (Snapshots(d, m) \/ UNCHANGED down)
    BY <1>9 DEF HandleCommit, SnapshotFails, Refused
  <2>2. CASE Snapshots(d, m)
    <3> DEFINE f == [type |-> "commit", seq |-> NextSeq]
    <3>1. f \in DownFrames /\ NextSeq \in Nat
      BY StoreIs DEF DownFrames
    <3>2. f.seq <= store'.last
      BY <2>2, <3>1, StoredIs DEF Snapshots
    <3>3. f.type \notin {"init", "update"} /\ down' = SentAll(down, Others(d), f)
      BY <2>2 DEF Snapshots
    <3>4. Others(d) \in SUBSET Conns /\ \A x \in Others(d) : conn[x].member
      BY DEF Others, Members
    <3> HIDE DEF f, m
    <3> QED BY <1>2, <2>1, <3>1, <3>2, <3>3, <3>4
  <2> QED BY <1>1, <2>1, <2>2
<1>10. ASSUME NEW d \in Conns, HangUp(d) \/ ReadEnds(d) PROVE DownMoves(c)
  <2> DEFINE f == [type |-> "seed"]
  <2>1. UNCHANGED tab /\ f \in DownFrames /\ f.type \notin Numbered
    BY <1>10 DEF HangUp, ReadEnds, DownFrames, Numbered
  <2>2. UNCHANGED down \/ \E n \in Conns : conn[n].member /\ down' = Sent(down, n, f)
    <3>1. \E k, s : Leave(d, k, s)
      BY <1>10 DEF HangUp, ReadEnds
    <3>2. \A n \in Conns : MayClaim(conn[d].sess, n) => conn[n].member
      BY DEF MayClaim, Members
    <3> QED BY <3>1, <3>2 DEF Leave
  <2>3. ASSUME NEW n \in Conns, conn[n].member, down' = Sent(down, n, f) PROVE DownMoves(c)
    <3>1. down'[c] = down[c] \/ Told(c, f)
      BY <2>1, <2>3 DEF Sent, Told, FrameTypes, Numbered
    <3> QED BY <2>1, <3>1 DEF DownMoves, LastSeq
  <2> QED BY <1>1, <2>1, <2>2, <2>3
<1>11. CASE ResetAnnounces
  <2> DEFINE f == [type |-> "reset"]
  <2>1. UNCHANGED tab /\ (UNCHANGED down \/ down' = SentAll(down, Members(hub.room), f))
    BY <1>11 DEF ResetAnnounces
  <2>2. f \in DownFrames /\ f.type \notin Numbered /\ f.type \notin {"init", "update"}
    BY DEF DownFrames, Numbered
  <2>3. Members(hub.room) \in SUBSET Conns /\ \A d \in Members(hub.room) : conn[d].member
    BY DEF Members
  <2> HIDE DEF f
  <2> QED BY <1>1, <1>2, <2>1, <2>2, <2>3
<1>12. ASSUME NEW d \in Conns, JoinRoom(d) \/ Load(d) \/ ClaimSeed(d) \/ RemoveSession(d) \/ Lose(d)
       PROVE  UNCHANGED down /\ UNCHANGED tab
  BY <1>12 DEF JoinRoom, Load, ClaimSeed, RemoveSession, Lose
<1>13. CASE ResetWrites \/ ResetClears \/ Restart \/ UNCHANGED vars \/ \E w \in Writes : ResetFences(w)
  BY <1>1, <1>13 DEF ResetWrites, ResetClears, ResetFences, Restart, vars
<1> QED
  BY <1>1, <1>3, <1>4, <1>5, <1>6, <1>7, <1>8, <1>9, <1>10, <1>11, <1>12, <1>13
     DEF Next, ConnStep, TabStep, ResetStep
-----------------------------------------------------------------------------
(* Links, and the one replay of a connection *)

(* The frames of sendInit: a replay, and at most a seed after it.          *)
LEMMA InitIs ==
    ASSUME Types, NEW c \in Conns, SendInit(c)
    PROVE  LET n == Len(down[c])
               q == down'[c]
           IN  /\ conn[c].pc \notin {"new", "got", "read"} /\ conn'[c].pc = "read"
               /\ conn'[c].sock = conn[c].sock /\ conn'[c].member = conn[c].member
               /\ UNCHANGED <<store, up, tab, hist>>
               /\ conn[c].sock # "open" => q = down[c]
               /\ conn[c].sock = "open" =>
                     /\ n + 1 \in 1..Len(q) /\ \A i \in 1..n : q[i] = down[c][i]
                     /\ q[n + 1].type = "init" /\ q[n + 1].ops = conn[c].replay.ops
                     /\ q[n + 1].seq = conn[c].replay.seq
                     /\ \A i \in 1..Len(q) : i <= n \/ i = n + 1 \/ q[i].type = "seed"
<1> USE DEF Types
<1> DEFINE n == Len(down[c])
           f == [type |-> "init", ops |-> conn[c].replay.ops, seq |-> conn[c].replay.seq]
           g == [type |-> "seed"]
           p == Append(down[c], f)
<1>1. f \in DownFrames /\ g \in DownFrames
  BY DEF DownFrames, ConnTypes, ConnRecs, Replays
<1>2. down[c] \in Seq(DownFrames) /\ p \in Seq(DownFrames)
  <2>1. down[c] \in Seq(DownFrames)
    BY DEF FrameTypes
  <2> HIDE DEF f
  <2> QED BY <1>1, <2>1, AppendProperties
<1>3. conn[c].sock = "open" => down'[c] \in {p, Append(p, g)}
  BY DEF SendInit, Sent, FrameTypes
<1>4. conn[c].sock # "open" => down'[c] = down[c]
  BY DEF SendInit, Sent
<1>5. /\ conn[c].pc \notin {"new", "got", "read"} /\ conn'[c].pc = "read"
      /\ conn'[c].sock = conn[c].sock /\ conn'[c].member = conn[c].member
      /\ UNCHANGED <<store, up, tab, hist>>
  BY DEF SendInit, ConnTypes, ConnRecs
<1>6. f.type = "init" /\ f.ops = conn[c].replay.ops /\ f.seq = conn[c].replay.seq /\ g.type = "seed"
  OBVIOUS
<1> HIDE DEF f, g, p
<1>7. /\ n \in Nat /\ Len(p) = n + 1 /\ p[n + 1] = f
      /\ \A i \in 1..n : p[i] = down[c][i]
  BY <1>1, <1>2, Longer DEF p
<1>8. /\ Len(Append(p, g)) = n + 2 /\ Append(p, g)[n + 2] = g
      /\ \A i \in 1..(n + 1) : Append(p, g)[i] = p[i]
  BY <1>1, <1>2, <1>7, Longer
<1>9. ASSUME conn[c].sock = "open"
      PROVE  /\ n + 1 \in 1..Len(down'[c]) /\ \A i \in 1..n : down'[c][i] = down[c][i]
             /\ down'[c][n + 1] = f
             /\ \A i \in 1..Len(down'[c]) : i <= n \/ i = n + 1 \/ down'[c][i] = g
  <2>1. CASE down'[c] = p
    BY <1>7, <2>1
  <2>2. CASE down'[c] = Append(p, g)
    BY <1>7, <1>8, <2>2
  <2> QED BY <1>3, <1>9, <2>1, <2>2
<1> QED BY <1>4, <1>5, <1>6, <1>9

(* A frame taken: the others move up.                                      *)
LEMMA TookIs ==
    ASSUME Types, NEW c \in Conns, Took(c)
    PROVE  /\ Len(down[c]) \in Nat /\ 1 \in 1..Len(down[c]) /\ Head(down[c]) = down[c][1]
           /\ \A i \in 1..Len(down'[c]) : i + 1 \in 1..Len(down[c]) /\ down'[c][i] = down[c][i + 1]
           /\ \A i \in 1..Len(down[c]) : i = 1 \/ (i - 1 \in 1..Len(down'[c]) /\ down'[c][i - 1] = down[c][i])
           /\ \A j \in Nat : NoInitAfter(c, j)' <=> NoInitAfter(c, j + 1)
           /\ down[c][1].type # "init" => (NoInitAfter(c, 0)' <=> NoInitAfter(c, 0))
<1>1. down[c] \in Seq(DownFrames) /\ down[c] # <<>> /\ down'[c] = Tail(down[c])
  BY DEF Took, Types, FrameTypes
<1>2. /\ Len(down[c]) \in Nat /\ Len(down[c]) >= 1 /\ Head(down[c]) = down[c][1]
      /\ Len(down'[c]) = Len(down[c]) - 1
      /\ \A i \in 1..Len(down'[c]) : down'[c][i] = down[c][i + 1]
  BY <1>1, Shorter
<1>3. \A i \in 1..Len(down'[c]) : i + 1 \in 1..Len(down[c]) /\ down'[c][i] = down[c][i + 1]
  BY <1>2
<1>4. \A i \in 1..Len(down[c]) : i = 1 \/ (i - 1 \in 1..Len(down'[c]) /\ down'[c][i - 1] = down[c][i])
  <2> SUFFICES ASSUME NEW i \in 1..Len(down[c]), i # 1
               PROVE  i - 1 \in 1..Len(down'[c]) /\ down'[c][i - 1] = down[c][i]
    OBVIOUS
  <2>1. i - 1 \in 1..Len(down'[c]) /\ (i - 1) + 1 = i
    BY <1>2
  <2> QED BY <1>3, <2>1
<1>5. ASSUME NEW j \in Nat PROVE NoInitAfter(c, j)' <=> NoInitAfter(c, j + 1)
  <2>1. ASSUME NoInitAfter(c, j + 1), NEW i \in 1..Len(down'[c]), i > j PROVE down'[c][i].type # "init"
    <3>1. i + 1 > j + 1
      BY <1>2, <2>1
    <3> QED BY <1>3, <2>1, <3>1 DEF NoInitAfter
  <2>2. ASSUME NoInitAfter(c, j)', NEW i \in 1..Len(down[c]), i > j + 1 PROVE down[c][i].type # "init"
    <3>1. i # 1 /\ i - 1 > j
      BY <1>2, <2>2
    <3> QED BY <1>4, <2>2, <3>1 DEF NoInitAfter
  <2> QED BY <2>1, <2>2 DEF NoInitAfter
<1>6. ASSUME down[c][1].type # "init" PROVE NoInitAfter(c, 0)' <=> NoInitAfter(c, 0)
  <2>1. 0 \in Nat /\ 0 + 1 = 1
    OBVIOUS
  <2>2. NoInitAfter(c, 0)' <=> NoInitAfter(c, 1)
    BY <1>5, <2>1
  <2>3. \A i \in 1..Len(down[c]) : i > 0 /\ (i > 1 \/ i = 1)
    BY <1>2
  <2> QED BY <1>6, <2>2, <2>3 DEF NoInitAfter
<1> QED BY <1>2, <1>3, <1>4, <1>5, <1>6

(* A frame added: the others stay.                                         *)
LEMMA ToldIs ==
    ASSUME Types, NEW c \in Conns, NEW f \in DownFrames, Told(c, f)
    PROVE  /\ Len(down[c]) \in Nat /\ Len(down'[c]) = Len(down[c]) + 1
           /\ \A i \in 1..Len(down[c]) : down'[c][i] = down[c][i]
           /\ down'[c][Len(down[c]) + 1] = f
           /\ \A j \in Nat : NoInitAfter(c, j)' <=> NoInitAfter(c, j)
<1>1. /\ Len(down[c]) \in Nat /\ Len(down'[c]) = Len(down[c]) + 1
      /\ \A i \in 1..Len(down[c]) : down'[c][i] = down[c][i]
      /\ down'[c][Len(down[c]) + 1] = f
  BY Longer DEF Told, Types, FrameTypes
<1>2. f.type # "init" /\ \A i \in 1..Len(down'[c]) : i \in 1..Len(down[c]) \/ i = Len(down[c]) + 1
  BY <1>1 DEF Told
<1>3. \A i \in 1..Len(down[c]) : i \in 1..Len(down'[c])
  BY <1>1
<1> QED BY <1>1, <1>2, <1>3 DEF NoInitAfter

(* A tab that links to a connection has dialled it. *)
LEMMA NextLink ==
    Types /\ [Next]_vars => \A c \in Conns :
        tab'[TabOf[c]].link = c => tab[TabOf[c]].link = c \/ conn'[c].pc # "new"
<1> SUFFICES ASSUME Types, [Next]_vars, NEW c \in Conns, tab'[TabOf[c]].link = c, tab[TabOf[c]].link # c
             PROVE  conn'[c].pc # "new"
  OBVIOUS
<1> USE DEF Types
<1>0. TabOf[c] \in Tabs /\ c # None /\ ~UNCHANGED tab
  BY ConstantTypes
<1>1. ASSUME NEW t \in Tabs, NEW d \in Conns, Dial(t, d) PROVE conn'[c].pc # "new"
  <2>1. CASE tab' = [tab EXCEPT ![t] = FreshTab(body)]
    BY <1>0, <2>1 DEF FreshTab, TabTypes
  <2>2. CASE /\ tab' = [tab EXCEPT ![t].link = d]
             /\ \E s : conn' = [conn EXCEPT ![d].pc = "got", ![d].sess = s]
    <3>1. d = c
      BY <1>0, <2>2 DEF TabTypes, TabRecs
    <3> QED BY <2>2, <3>1 DEF ConnTypes, ConnRecs
  <2> QED BY <1>1, <2>1, <2>2 DEF Dial
<1>2. ASSUME NEW t \in Tabs, Works(t) PROVE FALSE
  BY <1>0, <1>2, TakenIs, SpokenIs DEF Works
<1>3. ASSUME NEW t \in Tabs, RecvReset(t) \/ TabCloses(t) PROVE FALSE
  <2>1. CASE RecvReset(t)
    BY <1>0, <2>1 DEF RecvReset, FreshTab, TabTypes
  <2>2. CASE TabCloses(t)
    BY <1>0, <2>2 DEF TabCloses, TabTypes, TabRecs
  <2> QED BY <1>3, <2>1, <2>2
<1>5. ASSUME NEW d \in Conns, ConnStep(d) \/ HangUp(d) \/ Lose(d) PROVE UNCHANGED tab
  BY <1>5 DEF ConnStep, JoinRoom, Load, ClaimSeed, SendInit, HandleUpdate, HandleCommit, ReadEnds,
              RemoveSession, HangUp, Lose
<1>6. CASE ResetStep \/ Restart \/ UNCHANGED vars \/ \E w \in Writes : ResetFences(w)
  BY <1>0, <1>6 DEF ResetStep, ResetWrites, ResetClears, ResetAnnounces, ResetFences, Restart, vars
<1> QED
  BY <1>0, <1>1, <1>2, <1>3, <1>5, <1>6 DEF Next, TabStep, Works

(* A connection that is still linked was so, or has just been dialled.     *)
LEMMA StillLinked ==
    ASSUME Types, NEW c \in Conns, ConnMoves(c), conn'[c].sock = "open", conn'[c].pc # "gone"
    PROVE  /\ conn[c].sock = "open"
           /\ conn'[c].pc = "new" => conn[c].pc = "new"
           /\ conn'[c].pc = "got" => conn[c].pc \in {"new", "got"}
           /\ Linked(c)' => Linked(c) \/ (conn'[c].pc = "got" /\ tab'[TabOf[c]].link = c /\ conn[c].pc = "new")
           /\ conn[c].pc = "read" => conn'[c].pc = "read"
           /\ conn'[c].pc = "read" => conn[c].pc = "read" \/ SendInit(c)
           /\ conn'[c].pc \in Seated /\ conn[c].pc \notin Seated => JoinRoom(c)
           /\ Live(c)' => Live(c) \/ Load(c)
<1>1. JoinRoom(c) => conn[c].pc = "got" /\ conn'[c].pc = "joined"
  BY DEF JoinRoom, Types, ConnTypes, ConnRecs
<1>2. Load(c) => conn[c].pc = "joined" /\ conn'[c].pc = "loaded"
  BY DEF Load, Types, ConnTypes, ConnRecs
<1>3. ClaimSeed(c) => conn[c].pc = "loaded" /\ conn'[c].pc \in {"claimed", "seeds"}
  BY DEF ClaimSeed, Types, ConnTypes, ConnRecs
<1>4. SendInit(c) => conn[c].pc \in {"claimed", "seeds"} /\ conn'[c].pc = "read"
  BY DEF SendInit, Types, ConnTypes, ConnRecs
<1>5. CASE conn'[c].pc = conn[c].pc
  BY <1>5 DEF ConnMoves, Linked, Live
<1>6. CASE conn'[c].pc # conn[c].pc
  BY <1>1, <1>2, <1>3, <1>4, <1>6 DEF ConnMoves, Linked, Live, Seated, Loaded
<1> QED BY <1>5, <1>6

(* No step gives a tab a second live connection, or a connection a second  *)
(* replay (provider.connect, sendInit).                                    *)
LEMMA NextShape == Types /\ Types' /\ Shape /\ [Next]_vars => Shape'
<1> SUFFICES ASSUME Types, Types', Shape, [Next]_vars, NEW c \in Conns
             PROVE  Links(c)' /\ OwnHeld(c)' /\ OneInit(c)'
  BY DEF Shape
<1>0. ConnMoves(c) /\ TabMoves(c) /\ UpMoves(c) /\ DownMoves(c)
  BY NextConn, NextTab, NextUp, NextDown
<1>1. Links(c) /\ OwnHeld(c) /\ OneInit(c) /\ c # None
  BY ConstantTypes DEF Shape
<1>2. up[c] \in Seq(UpFrames) /\ down[c] \in Seq(DownFrames)
  BY DEF Types, FrameTypes
<1>3. conn'[c].pc = "new" => conn[c].pc = "new" /\ conn'[c].pc # "gone"
  <2>1. ASSUME JoinRoom(c) \/ Load(c) \/ ClaimSeed(c) \/ SendInit(c) PROVE conn'[c].pc # "new"
    BY <2>1 DEF JoinRoom, Load, ClaimSeed, SendInit, Types, ConnTypes, ConnRecs
  <2> QED BY <1>0, <2>1 DEF ConnMoves
<1>4. conn'[c].pc = "got" => conn[c].pc \in {"new", "got"}
  <2>1. ASSUME JoinRoom(c) \/ Load(c) \/ ClaimSeed(c) \/ SendInit(c) PROVE conn'[c].pc # "got"
    BY <2>1 DEF JoinRoom, Load, ClaimSeed, SendInit, Types, ConnTypes, ConnRecs
  <2> QED BY <1>0, <2>1 DEF ConnMoves
<1>5. ASSUME Linked(c)'
      PROVE  \/ Linked(c) /\ Doc(c) \subseteq Doc(c)'
             \/ conn[c].pc = "new" /\ conn'[c].pc = "got"
  BY <1>0, <1>5, StillLinked DEF TabMoves, Linked
<1>6. Links(c)'
  <2>1. Linked(c)' => tab'[TabOf[c]].link = c
    BY <1>0, StillLinked DEF TabMoves, Linked
  <2>2. tab'[TabOf[c]].link = c => conn'[c].pc # "new"
    BY <1>1, <1>3, NextLink DEF Links
  <2>3. ASSUME conn'[c].sock = "open", conn'[c].pc \in Seated PROVE conn'[c].member
    <3>1. conn[c].sock = "open" /\ (conn[c].pc \in Seated \/ JoinRoom(c))
      BY <1>0, <2>3, StillLinked DEF Seated, Loaded
    <3>2. JoinRoom(c) => conn'[c].member
      BY DEF JoinRoom, Types, ConnTypes, ConnRecs
    <3> QED BY <1>0, <1>1, <2>3, <3>1, <3>2 DEF Links, ConnMoves
  <2>4. ASSUME conn'[c].pc \in {"new", "got"} PROVE down'[c] = <<>>
    <3>1. down[c] = <<>> /\ conn[c].pc \in {"new", "got"} /\ ~conn[c].member
      BY <1>1, <1>3, <1>4, <2>4 DEF Links, Types, ConnTypes
    <3>2. ~SendInit(c)
      BY <3>1, InitIs
    <3> QED BY <1>0, <3>1, <3>2 DEF DownMoves, Took, Told
  <2>5. ASSUME conn'[c].pc = "new" PROVE up'[c] = <<>>
    <3>1. up[c] = <<>> /\ tab[TabOf[c]].link # c
      BY <1>1, <1>3, <2>5 DEF Links
    <3> QED BY <1>0, <3>1 DEF UpMoves, Says
  <2> QED BY <2>1, <2>2, <2>3, <2>4, <2>5 DEF Links
<1>7. OwnHeld(c)'
  <2> SUFFICES ASSUME Linked(c)', NEW i \in 1..Len(up'[c]) PROVE up'[c][i].ops \subseteq Doc(c)'
    BY DEF OwnHeld
  <2>1. ASSUME NEW j \in 1..Len(up[c]) PROVE up[c][j].ops \subseteq Doc(c)'
    <3>1. conn[c].pc # "new"
      BY <1>1, <2>1 DEF Links
    <3> QED BY <1>1, <1>5, <2>1, <3>1 DEF OwnHeld
  <2>2. CASE up'[c] \in {up[c], <<>>}
    BY <2>1, <2>2
  <2>3. CASE up[c] # <<>> /\ up'[c] = Tail(up[c])
    <3>1. i + 1 \in 1..Len(up[c]) /\ up'[c][i] = up[c][i + 1]
      BY <1>2, <2>3, Shorter
    <3> QED BY <2>1, <3>1
  <2>4. ASSUME NEW f \in UpFrames, up'[c] = Append(up[c], f), Says(c, f)
        PROVE  up'[c][i].ops \subseteq Doc(c)'
    <3>1. (i \in 1..Len(up[c]) /\ up'[c][i] = up[c][i]) \/ up'[c][i] = f
      BY <1>2, <2>4, Longer
    <3> QED BY <2>1, <2>4, <3>1 DEF Says
  <2> QED BY <1>0, <2>2, <2>3, <2>4 DEF UpMoves
<1>8. OneInit(c)'
  <2>1. CASE down'[c] = down[c]
    <3>1. Linked(c)' /\ conn'[c].pc # "read" => NoInitAfter(c, 0)
      <4>1. Linked(c)' /\ ~Linked(c) => down[c] = <<>>
        BY <1>1, <1>5 DEF Links
      <4>2. Linked(c)' /\ conn'[c].pc # "read" => conn[c].pc # "read"
        BY <1>0, StillLinked DEF Linked
      <4> QED BY <1>1, <4>1, <4>2 DEF OneInit, NoInitAfter
    <3> QED BY <1>1, <2>1, <3>1 DEF OneInit, NoInitAfter
  <2>2. CASE down'[c] = <<>>
    BY <2>2 DEF OneInit, NoInitAfter
  <2>7. Linked(c)' /\ conn'[c].pc # "read" /\ (down[c] # <<>> \/ conn[c].member) => NoInitAfter(c, 0)
    <3>1. Linked(c)' /\ (down[c] # <<>> \/ conn[c].member) => Linked(c)
      BY <1>1, <1>5 DEF Links, Types, ConnTypes
    <3>2. Linked(c)' /\ conn'[c].pc # "read" => conn[c].pc # "read"
      BY <1>0, StillLinked DEF Linked
    <3> QED BY <1>1, <3>1, <3>2 DEF OneInit
  <2>3. CASE Took(c)
    <3>1. NoInitAfter(c, 0) => NoInitAfter(c, 0)'
      BY <2>3, TookIs DEF NoInitAfter
    <3>2. down[c] # <<>>
      BY <2>3 DEF Took
    <3>3. ASSUME NEW i \in 1..Len(down'[c]), down'[c][i].type = "init" PROVE NoInitAfter(c, i)'
      <4>0. i + 1 \in 1..Len(down[c]) /\ down[c][i + 1].type = "init"
        BY <2>3, <3>3, TookIs
      <4>1. NoInitAfter(c, i + 1) /\ i \in Nat
        BY <1>1, <4>0 DEF OneInit
      <4> QED BY <2>3, <4>1, TookIs
    <3> QED BY <2>7, <3>1, <3>2, <3>3 DEF OneInit
  <2>4. ASSUME NEW f \in DownFrames, Told(c, f) PROVE OneInit(c)'
    <3>1. \A j \in Nat : NoInitAfter(c, j)' <=> NoInitAfter(c, j)
      BY <2>4, ToldIs
    <3>2. ASSUME NEW i \in 1..Len(down'[c]), down'[c][i].type = "init" PROVE NoInitAfter(c, i)
      <4>1. i \in 1..Len(down[c]) /\ down[c][i].type = "init"
        BY <2>4, <3>2, ToldIs DEF Told
      <4> QED BY <1>1, <4>1 DEF OneInit
    <3> QED BY <2>4, <2>7, <3>1, <3>2 DEF OneInit, Told
  <2>5. CASE SendInit(c) /\ conn[c].sock = "open"
    <3> DEFINE n == Len(down[c])
    <3>1. /\ conn'[c].pc = "read" /\ Linked(c) /\ conn[c].pc # "read"
          /\ \A i \in 1..n : down'[c][i] = down[c][i]
          /\ \A i \in 1..Len(down'[c]) : i <= n \/ i = n + 1 \/ down'[c][i].type = "seed"
      BY <2>5, InitIs DEF Linked, Types, ConnTypes, SendInit
    <3>2. NoInitAfter(c, 0) /\ n \in Nat
      BY <1>1, <1>2, <3>1, LenProperties DEF OneInit
    <3>3. \A i \in 1..Len(down'[c]) : down'[c][i].type = "init" => i = n + 1
      BY <3>1, <3>2 DEF NoInitAfter
    <3> QED BY <3>1, <3>3 DEF OneInit, NoInitAfter
  <2>6. SendInit(c) /\ conn[c].sock # "open" => down'[c] = down[c]
    BY InitIs
  <2> QED BY <1>0, <2>1, <2>2, <2>3, <2>4, <2>5, <2>6 DEF DownMoves
<1> QED BY <1>6, <1>7, <1>8
-----------------------------------------------------------------------------
(* The numbers in use *)

\* What a step may do to the log.
LogMoves ==
    \/ UNCHANGED store /\ hist'.accepted = hist.accepted /\ hist.gaps \subseteq hist'.gaps
    \/ \E c \in Conns : HandleUpdate(c) /\ Writable(c) /\ StoreAndRelay(c, Head(up[c]).ops)
    \/ \E c \in Conns : HandleCommit(c) /\ Snapshots(c, Head(up[c]))
    \/ ResetClears /\ store' = StoreReset /\ hist'.accepted = {} /\ rst'.pc = "cleared"
    \/ Restart

(* Only a handled update, a handled commit, a reset and a restart touch    *)
(* the log, and the record of what it holds moves with it (Store's callers).*)
LEMMA NextLog == Types /\ [Next]_vars => LogMoves
<1> SUFFICES ASSUME Types, [Next]_vars PROVE LogMoves
  OBVIOUS
<1> USE DEF Types
<1>1. CASE UNCHANGED <<store, hist>>
  BY <1>1 DEF LogMoves
<1>2. ASSUME UNCHANGED store, NEW e, NEW s, NEW u, NEW w,
             hist' = [hist EXCEPT !.early = e, !.split = s, !.unsynced = u, !.wrote = w]
      PROVE  LogMoves
  BY <1>2 DEF LogMoves, HistTypes
<1>3. ASSUME NEW c \in Conns, HandleUpdate(c) PROVE LogMoves
  <2> DEFINE ops == Head(up[c]).ops
  <2>1. (Writable(c) /\ (StoreAndRelay(c, ops) \/ RelayUnstored(c, ops))) \/ UNCHANGED <<store, hist>>
    BY <1>3 DEF HandleUpdate, Refused
  <2>2. RelayUnstored(c, ops) => /\ UNCHANGED store /\ hist'.accepted = hist.accepted
                                 /\ hist.gaps \subseteq hist'.gaps
    BY DEF RelayUnstored, HistTypes
  <2> QED BY <1>3, <2>1, <2>2 DEF LogMoves
<1>4. ASSUME NEW c \in Conns, HandleCommit(c) PROVE LogMoves
  BY <1>1, <1>4 DEF HandleCommit, SnapshotFails, Refused, LogMoves
<1>5. ASSUME NEW c \in Conns, JoinRoom(c) PROVE LogMoves
  <2> DEFINE s == hist.split \/ conn[c].sess # hub.room
  <2>1. UNCHANGED store /\ hist' = [hist EXCEPT !.split = s]
    BY <1>5 DEF JoinRoom
  <2> HIDE DEF s
  <2> QED BY <2>1 DEF LogMoves, HistTypes
<1>6. ASSUME NEW t \in Tabs, Commit(t) PROVE LogMoves
  <2> DEFINE e == hist.early \/ AwaitsInit(tab[t].link)
  <2>1. UNCHANGED store /\ hist' = [hist EXCEPT !.early = e]
    BY <1>6 DEF Commit
  <2> HIDE DEF e
  <2> QED BY <2>1 DEF LogMoves, HistTypes
<1>7. CASE \E w \in Writes : ResetFences(w)
  BY <1>7 DEF ResetFences, LogMoves, HistTypes
<1>8. CASE ResetClears
  <2>1. ASSUME store' = StoreReset, rst' = [rst EXCEPT !.pc = "cleared", !.seq = StoreReset.last],
               hist' = [hist EXCEPT !.accepted = {}, !.gaps = {}, !.unsynced = FALSE]
        PROVE  LogMoves
    <3>1. rst'.pc = "cleared" /\ hist'.accepted = {}
      BY <2>1 DEF HubTypes, HistTypes
    <3> QED BY <1>8, <2>1, <3>1 DEF LogMoves
  <2>2. CASE UNCHANGED store /\ hist' = [hist EXCEPT !.unsynced = TRUE]
    BY <2>2 DEF LogMoves, HistTypes
  <2> QED BY <1>8, <2>1, <2>2 DEF ResetClears
<1>9. CASE ResetAnnounces
  <2> DEFINE w == IF Fenced THEN rst.write ELSE None
             u == hist.unsynced \/ ~Fenced
  <2>1. UNCHANGED store /\ hist' = [hist EXCEPT !.wrote = w, !.unsynced = u]
    BY <1>9 DEF ResetAnnounces
  <2> HIDE DEF w, u
  <2> QED BY <2>1 DEF LogMoves, HistTypes
<1>10. CASE Restart
  BY <1>10 DEF LogMoves
<1>11. ASSUME NEW c \in Conns, \/ Load(c) \/ ClaimSeed(c) \/ SendInit(c) \/ HangUp(c)
                               \/ ReadEnds(c) \/ RemoveSession(c) \/ Lose(c)
       PROVE  UNCHANGED <<store, hist>>
  BY <1>11 DEF Load, ClaimSeed, SendInit, HangUp, ReadEnds, RemoveSession, Lose
<1>12. ASSUME NEW t \in Tabs, TabStep(t) \/ \E e \in Edits : Type(t, e), \A c \in Conns : ~Dial(t, c)
       PROVE  UNCHANGED <<store, hist>>
  BY <1>12 DEF TabStep, RecvInit, RecvUpdate, RecvCommit, RecvSeed, SeedEffect, RecvReset,
               TabCloses, Type
<1>13. CASE ResetWrites \/ UNCHANGED vars
  BY <1>1, <1>13 DEF ResetWrites, vars
<1>14. ASSUME NEW t \in Tabs, NEW c \in Conns, Dial(t, c) PROVE LogMoves
  BY <1>14, DialHist DEF LogMoves
<1> QED
  BY <1>1, <1>3, <1>4, <1>5, <1>6, <1>7, <1>8, <1>9, <1>10, <1>11, <1>12, <1>13, <1>14
     DEF Next, ConnStep, ResetStep

(* The record of what went wrong is never wiped.                           *)
LEMMA NextCalm ==
    Types /\ [Next]_vars =>
        (hist.early => hist'.early) /\ (hist.split => hist'.split) /\ (hist.unsent => hist'.unsent)
<1> DEFINE Stays == (hist.early => hist'.early) /\ (hist.split => hist'.split) /\ (hist.unsent => hist'.unsent)
<1> SUFFICES ASSUME Types, [Next]_vars PROVE Stays
  OBVIOUS
<1> USE DEF Types
<1>1. CASE UNCHANGED hist
  BY <1>1
<1>2. ASSUME NEW c \in Conns, HandleUpdate(c) PROVE Stays
  BY <1>2 DEF HandleUpdate, StoreAndRelay, RelayUnstored, Refused, HistTypes
<1>3. ASSUME NEW c \in Conns, HandleCommit(c) PROVE Stays
  <2>1. UNCHANGED hist \/ \E g, u : hist' = [hist EXCEPT !.gaps = g, !.unsynced = u]
    BY <1>3 DEF HandleCommit, Snapshots, SnapshotFails, Refused
  <2> QED BY <2>1 DEF HistTypes
<1>4. ASSUME NEW c \in Conns, JoinRoom(c) PROVE Stays
  BY <1>4 DEF JoinRoom, HistTypes
<1>5. ASSUME NEW t \in Tabs, Commit(t) PROVE Stays
  BY <1>5 DEF Commit, HistTypes
<1>6. CASE ResetStep \/ \E w \in Writes : ResetFences(w)
  BY <1>6 DEF ResetStep, ResetWrites, ResetClears, ResetAnnounces, ResetFences, HistTypes
<1>7. CASE Restart
  BY <1>7 DEF Restart, HistTypes
<1>8. ASSUME NEW c \in Conns, \/ Load(c) \/ ClaimSeed(c) \/ SendInit(c) \/ HangUp(c)
                              \/ ReadEnds(c) \/ RemoveSession(c) \/ Lose(c)
      PROVE  UNCHANGED hist
  BY <1>8 DEF Load, ClaimSeed, SendInit, HangUp, ReadEnds, RemoveSession, Lose
<1>9. ASSUME NEW t \in Tabs, TabStep(t) \/ \E e \in Edits : Type(t, e), \A c \in Conns : ~Dial(t, c)
      PROVE  UNCHANGED hist
  BY <1>9 DEF TabStep, RecvInit, RecvUpdate, RecvCommit, RecvSeed, SeedEffect, RecvReset,
              TabCloses, Type
<1>10. CASE UNCHANGED vars
  BY <1>1, <1>10 DEF vars
<1>11. ASSUME NEW t \in Tabs, NEW c \in Conns, Dial(t, c) PROVE Stays
  BY <1>11, DialHist
<1> HIDE DEF Stays
<1> QED
  BY <1>1, <1>2, <1>3, <1>4, <1>5, <1>6, <1>7, <1>8, <1>9, <1>10, <1>11 DEF Next, ConnStep

(* The counter only grows, but for a restart of the memory store.          *)
LEMMA NextCounter == Types /\ Fresh /\ LogMoves => CounterKept
<1> SUFFICES ASSUME Types, Fresh, LogMoves PROVE CounterKept
  OBVIOUS
<1>0. store.last \in Nat /\ NextSeq \in Nat /\ NextSeq > store.last /\ StoreTypes
  BY StoreIs DEF Types, StoreTypes, Fresh
<1>1. CASE UNCHANGED store
  BY <1>0, <1>1 DEF CounterKept
<1>2. ASSUME NEW c, StoreAndRelay(c, Head(up[c]).ops) PROVE CounterKept
  <2>1. store' = AppendUpdate(Head(up[c]).ops)
    BY <1>2 DEF StoreAndRelay
  <2>2. store'.last = NextSeq
    BY <1>0, <2>1, StoredIs
  <2> QED BY <1>0, <2>2 DEF CounterKept
<1>3. ASSUME NEW c, Snapshots(c, Head(up[c])) PROVE CounterKept
  <2>1. store' = AppendSnapshot(Head(up[c]).ops, Head(up[c]).base)
    BY <1>3 DEF Snapshots
  <2>2. store'.last = NextSeq
    BY <1>0, <2>1, StoredIs
  <2> QED BY <1>0, <2>2 DEF CounterKept
<1>4. CASE store' = StoreReset
  <2>1. store'.last = store.last + 1
    BY <1>0, <1>4, StoredIs
  <2> QED BY <1>0, <2>1 DEF CounterKept
<1>5. CASE Restart
  BY <1>5 DEF CounterKept
<1> QED BY <1>1, <1>2, <1>3, <1>4, <1>5 DEF LogMoves

(* A restart leaves nobody in the room.                                    *)
LEMMA RestartEmpties ==
    ASSUME Types, Restart, NEW c \in Conns
    PROVE  ~Live(c)' /\ ~conn'[c].member /\ up'[c] = <<>>
<1>1. conn'[c] = GoneConn \/ (conn'[c] = conn[c] /\ conn[c].pc = "new")
  BY DEF Restart
<1> QED BY <1>1 DEF Restart, GoneConn, NewConn, Live, Loaded, Types, ConnTypes

(* A connection past its replay was so, or is sent it now, with the tab    *)
(* as it was.                                                              *)
LEMMA StillRead ==
    ASSUME Types, NEW c \in Conns, ConnMoves(c), DownMoves(c), Live(c)', conn'[c].pc = "read"
    PROVE  \/ Live(c) /\ SendInit(c) /\ ~NoInitAfter(c, 0)'
           \/ Live(c) /\ conn[c].pc = "read" /\ (Took(c) \/ LastSeq(c)' = LastSeq(c))
<1>1. conn[c].sock = "open" /\ (conn[c].pc = "read" \/ SendInit(c))
  BY StillLinked DEF Live, Loaded
<1>2. CASE conn[c].pc = "read"
  <2>1. Live(c) /\ Linked(c) /\ Linked(c)' /\ ~SendInit(c)
    BY <1>1, <1>2, InitIs DEF Live, Linked, Loaded
  <2> QED BY <1>2, <2>1 DEF DownMoves
<1>3. CASE SendInit(c)
  <2>1. Live(c)
    BY <1>1, <1>3 DEF SendInit, Live, Loaded
  <2>2. ~NoInitAfter(c, 0)'
    <3> DEFINE n == Len(down[c])
    <3>1. n + 1 \in 1..Len(down'[c]) /\ down'[c][n + 1].type = "init"
      BY <1>1, <1>3, InitIs
    <3>2. n \in Nat
      BY LenProperties DEF Types, FrameTypes
    <3>3. n + 1 > 0
      BY <3>2
    <3> HIDE DEF n
    <3> QED BY <3>1, <3>3 DEF NoInitAfter
  <2> QED BY <1>3, <2>1, <2>2
<1> QED BY <1>1, <1>2, <1>3

(* Every number that a frame or a tab carries was given out by the counter *)
(* (AppendUpdate's seq, as broadcast, sendInit and flushCommit pass it on). *)
LEMMA NextCounted ==
    Types /\ Types' /\ Fresh /\ Shape /\ Counted /\ [Next]_vars => Counted'
<1> SUFFICES ASSUME Types, Types', Fresh, Shape, Counted, [Next]_vars PROVE Counted'
  OBVIOUS
<1>0. LogMoves /\ CounterKept
  BY NextLog, NextCounter
<1>1. /\ store.last \in Nat /\ store'.last \in Nat /\ NextSeq \in Nat /\ NextSeq > store.last
      /\ StoreTypes /\ StoreTypes'
  BY StoreIs DEF Types, StoreTypes, Fresh
<1>2. \A a \in hist.accepted : a.seq \in Nat
  BY DEF Types, HistTypes
<1>3. \A u \in store.snap \cup store.incs : u.seq \in Nat
  BY DEF Types, StoreTypes, Entries
<1>4. StoreCounted'
  <2>1. CASE UNCHANGED store /\ hist'.accepted = hist.accepted
    BY <2>1 DEF Counted, StoreCounted
  <2>2. ASSUME NEW c, StoreAndRelay(c, Head(up[c]).ops) PROVE StoreCounted'
    <3> DEFINE ops == Head(up[c]).ops
               n == NextSeq
    <3>1. store' = AppendUpdate(ops)
      BY <2>2 DEF StoreAndRelay
    <3>2. /\ store'.last = n /\ store'.snap = store.snap
          /\ store'.incs = store.incs \cup {[seq |-> n, ops |-> ops]}
      BY <1>1, <3>1, StoredIs
    <3>3. hist'.accepted = hist.accepted \cup {[op |-> op, seq |-> n] : op \in ops}
      BY <2>2 DEF StoreAndRelay, Types, HistTypes
    <3> HIDE DEF ops, n
    <3>4. n \in Nat /\ n > store.last
      BY <1>1 DEF n
    <3>5. ASSUME NEW a \in hist'.accepted PROVE a.seq <= n
      <4>1. a \in hist.accepted \/ a.seq = n
        BY <3>3
      <4> QED BY <1>1, <1>2, <3>4, <4>1 DEF Counted, StoreCounted
    <3>6. ASSUME NEW u \in store'.snap \cup store'.incs PROVE u.seq <= n
      <4>1. u \in store.snap \cup store.incs \/ u.seq = n
        BY <3>2
      <4> QED BY <1>1, <1>3, <3>4, <4>1 DEF Counted, StoreCounted
    <3> QED BY <3>2, <3>5, <3>6 DEF StoreCounted
  <2>3. ASSUME NEW c, Snapshots(c, Head(up[c])) PROVE StoreCounted'
    <3> DEFINE m == Head(up[c])
               n == NextSeq
    <3>1. store' = AppendSnapshot(m.ops, m.base)
      BY <2>3 DEF Snapshots
    <3>2. /\ store'.last = n /\ store'.snap = {[seq |-> n, ops |-> m.ops]}
          /\ store'.incs \subseteq store.incs
      BY <1>1, <3>1, StoredIs
    <3>3. hist'.accepted = hist.accepted
      <4>1. \E g, u : hist' = [hist EXCEPT !.gaps = g, !.unsynced = u]
        BY <2>3 DEF Snapshots
      <4> QED BY <4>1 DEF Types, HistTypes
    <3> HIDE DEF m, n
    <3>4. n \in Nat /\ n > store.last
      BY <1>1 DEF n
    <3>5. ASSUME NEW a \in hist'.accepted PROVE a.seq <= n
      BY <1>1, <1>2, <3>3, <3>4 DEF Counted, StoreCounted
    <3>6. ASSUME NEW u \in store'.snap \cup store'.incs PROVE u.seq <= n
      <4>1. u \in store.snap \cup store.incs \/ u.seq = n
        BY <3>2
      <4> QED BY <1>1, <1>3, <3>4, <4>1 DEF Counted, StoreCounted
    <3> QED BY <3>2, <3>5, <3>6 DEF StoreCounted
  <2>4. CASE store' = StoreReset /\ hist'.accepted = {}
    BY <1>1, <2>4, StoredIs DEF StoreCounted
  <2>5. CASE Restart
    <3>1. CASE Durable
      BY <2>1, <2>5, <3>1 DEF Restart, Types, HistTypes
    <3>2. CASE ~Durable
      <4>1. store' = EmptyStore /\ hist'.accepted = {}
        BY <2>5, <3>2 DEF Restart, Types, HistTypes
      <4> QED BY <4>1 DEF StoreCounted, EmptyStore
    <3> QED BY <3>1, <3>2
  <2> QED BY <1>0, <2>1, <2>2, <2>3, <2>4, <2>5 DEF LogMoves
<1>5. ASSUME NEW c \in Conns, Restart PROVE FramesCounted(c)'
  BY <1>5, RestartEmpties DEF FramesCounted
<1>6. ASSUME NEW c \in Conns, ~Restart PROVE FramesCounted(c)'
  <2>0. store'.last >= store.last
    BY <1>0, <1>6 DEF CounterKept
  <2>1. ConnMoves(c) /\ UpMoves(c) /\ DownMoves(c) /\ Links(c) /\ FramesCounted(c)
    BY NextConn, NextUp, NextDown DEF Shape, Counted
  <2>2. up[c] \in Seq(UpFrames) /\ down[c] \in Seq(DownFrames)
    BY DEF Types, FrameTypes
  <2>3. \A n \in Nat : n <= store.last => n <= store'.last
    BY <1>1, <2>0
  <2>4. /\ \A i \in 1..Len(up[c]) : up[c][i] \in UpFrames
        /\ \A i \in 1..Len(down[c]) : down[c][i] \in DownFrames
    BY <2>2, ElementOfSeq
  <2>5. ASSUME ~hist'.early, NEW i \in 1..Len(up'[c]), up'[c][i].type = "commit"
        PROVE  up'[c][i].base <= store'.last
    <3>0. ~hist.early
      BY <2>5, NextCalm
    <3>1. ASSUME NEW j \in 1..Len(up[c]), up[c][j].type = "commit" PROVE up[c][j].base <= store'.last
      BY <2>1, <2>3, <2>4, <3>0, <3>1, FrameFields DEF FramesCounted
    <3>2. CASE up'[c] \in {up[c], <<>>}
      BY <2>5, <3>1, <3>2
    <3>3. CASE up[c] # <<>> /\ up'[c] = Tail(up[c])
      <4>1. i + 1 \in 1..Len(up[c]) /\ up'[c][i] = up[c][i + 1]
        BY <2>2, <3>3, Shorter
      <4> QED BY <2>5, <3>1, <4>1
    <3>4. ASSUME NEW f \in UpFrames, up'[c] = Append(up[c], f), Says(c, f)
          PROVE  up'[c][i].base <= store'.last
      <4>1. (i \in 1..Len(up[c]) /\ up'[c][i] = up[c][i]) \/ up'[c][i] = f
        BY <2>2, <3>4, Longer
      <4>2. ASSUME f.type = "commit" PROVE f.base <= store'.last
        <5>1. f.base = LastSeq(c) /\ Live(c) /\ conn[c].pc = "read" /\ NoInitAfter(c, 0)
          BY <2>5, <3>4, <4>2 DEF Says, Live, Loaded
        <5>2. f.base \in Nat /\ f.base <= store.last
          BY <2>1, <3>4, <4>2, <5>1, FrameFields DEF FramesCounted
        <5> QED BY <2>3, <5>2
      <4> QED BY <2>5, <3>1, <4>1, <4>2
    <3> QED BY <2>1, <3>2, <3>3, <3>4 DEF UpMoves
  <2>6. ASSUME conn'[c].member, NEW i \in 1..Len(down'[c]), down'[c][i].type \in Numbered
        PROVE  down'[c][i].seq <= store'.last
    <3>1. ASSUME NEW j \in 1..Len(down[c]), down[c][j].type \in Numbered
          PROVE  down[c][j].seq <= store'.last /\ down[c][j].seq \in Nat
      <4>1. conn[c].member
        <5>1. JoinRoom(c) => conn[c].pc = "got"
          BY DEF JoinRoom
        <5> QED BY <2>1, <2>6, <3>1, <5>1 DEF ConnMoves, Links
      <4>2. down[c][j].seq \in Nat
        BY <2>4, <3>1, FrameFields DEF Numbered
      <4> QED BY <2>1, <2>3, <3>1, <4>1, <4>2 DEF FramesCounted
    <3>2. CASE down'[c] \in {down[c], <<>>}
      BY <2>6, <3>1, <3>2
    <3>3. CASE Took(c)
      <4>1. i + 1 \in 1..Len(down[c]) /\ down'[c][i] = down[c][i + 1]
        BY <3>3, TookIs
      <4> QED BY <2>6, <3>1, <4>1
    <3>4. ASSUME NEW f \in DownFrames, Told(c, f) PROVE down'[c][i].seq <= store'.last
      <4>1. (i \in 1..Len(down[c]) /\ down'[c][i] = down[c][i]) \/ down'[c][i] = f
        BY <3>4, ToldIs
      <4> QED BY <2>6, <3>1, <3>4, <4>1 DEF Told
    <3>5. CASE SendInit(c) /\ conn[c].sock = "open"
      <4> DEFINE n == Len(down[c])
      <4>1. \/ i \in 1..n /\ down'[c][i] = down[c][i]
            \/ i = n + 1 /\ down'[c][i].seq = conn[c].replay.seq
            \/ down'[c][i].type = "seed"
        <5>1. n \in Nat
          BY <2>2, LenProperties
        <5>2. /\ \A k \in 1..n : down'[c][k] = down[c][k]
              /\ down'[c][n + 1].seq = conn[c].replay.seq
              /\ i <= n \/ i = n + 1 \/ down'[c][i].type = "seed"
          BY <3>5, InitIs
        <5> QED BY <5>1, <5>2
      <4>2. Live(c) /\ conn[c].replay.seq \in Nat
        BY <3>5 DEF SendInit, Live, Loaded, Types, ConnTypes, ConnRecs, Replays
      <4>3. conn[c].replay.seq <= store'.last
        BY <2>1, <2>3, <4>2 DEF FramesCounted
      <4> QED BY <2>6, <3>1, <4>1, <4>3 DEF Numbered
    <3>6. SendInit(c) /\ conn[c].sock # "open" => down'[c] = down[c]
      BY InitIs
    <3> QED BY <2>1, <3>2, <3>3, <3>4, <3>5, <3>6 DEF DownMoves
  <2>7. ASSUME Live(c)' PROVE conn'[c].replay.seq <= store'.last
    <3>1. Live(c) \/ Load(c)
      BY <2>1, <2>7, StillLinked DEF Live, Loaded
    <3>2. CASE Load(c)
      <4> DEFINE r == LoadReplay
      <4>1. r.seq = store.last /\ UNCHANGED store
        BY <3>2 DEF LoadReplay, Load
      <4>2. conn' = [conn EXCEPT ![c].pc = "loaded", ![c].replay = r]
        BY <3>2 DEF Load
      <4> HIDE DEF r
      <4>3. conn'[c].replay = r
        BY <4>2 DEF Types, ConnTypes, ConnRecs
      <4> QED BY <1>1, <4>1, <4>3
    <3>3. CASE Live(c) /\ ~Load(c)
      <4>1. conn'[c].replay.seq = conn[c].replay.seq /\ conn[c].replay.seq \in Nat
        BY <2>1, <2>7, <3>3 DEF ConnMoves, Live, Types, ConnTypes, ConnRecs, Replays
      <4> QED BY <2>1, <2>3, <3>3, <4>1 DEF FramesCounted
    <3> QED BY <3>1, <3>2, <3>3
  <2>8. ASSUME Live(c)', conn'[c].pc = "read", NoInitAfter(c, 0)' PROVE LastSeq(c)' <= store'.last
    <3>1. Live(c) /\ conn[c].pc = "read" /\ (Took(c) \/ LastSeq(c)' = LastSeq(c))
      BY <2>1, <2>8, StillRead
    <3>2. LastSeq(c) \in Nat /\ conn[c].member
      BY <2>1, <3>1, ConstantTypes DEF LastSeq, Types, TabTypes, TabRecs, Links, Live, Seated
    <3>3. NoInitAfter(c, 0) => LastSeq(c) <= store'.last
      BY <2>1, <2>3, <3>1, <3>2 DEF FramesCounted
    <3>4. CASE Took(c)
      <4> DEFINE f == down[c][1]
      <4>1. 1 \in 1..Len(down[c]) /\ Head(down[c]) = f /\ f \in DownFrames
        BY <2>4, <3>4, TookIs
      <4>2. f.type \in Numbered => f.seq \in Nat /\ f.seq <= store'.last
        BY <2>1, <2>3, <3>2, <4>1, FrameFields DEF FramesCounted, Numbered
      <4>3. f.type # "init" => NoInitAfter(c, 0)
        BY <2>8, <3>4, TookIs
      <4>4. LastSeq(c)' = CASE f.type = "init" -> f.seq
                            [] f.type \in {"update", "commit"} -> Later(LastSeq(c), f.seq)
                            [] OTHER -> LastSeq(c)
        BY <3>4, <4>1 DEF Took
      <4> HIDE DEF f
      <4> QED BY <3>3, <4>2, <4>3, <4>4 DEF Later, Numbered
    <3>5. CASE LastSeq(c)' = LastSeq(c) /\ ~Took(c)
      <4>1. ~SendInit(c) /\ Linked(c)'
        BY <2>8, <3>1, InitIs DEF Live, Loaded, Linked
      <4>2. down'[c] = down[c] \/ \E f \in DownFrames : Told(c, f)
        BY <2>1, <3>5, <4>1 DEF DownMoves
      <4>3. NoInitAfter(c, 0)
        BY <2>8, <4>2, ToldIs DEF NoInitAfter
      <4> QED BY <3>3, <3>5, <4>3
    <3> QED BY <3>1, <3>4, <3>5
  <2> QED BY <2>5, <2>6, <2>7, <2>8 DEF FramesCounted
<1> QED BY <1>4, <1>5, <1>6 DEF Counted
-----------------------------------------------------------------------------
(* Stored edits *)

\* An edit is stored by this step: c sent it.
StoresNow(c, op) ==
    HandleUpdate(c) /\ Writable(c) /\ StoreAndRelay(c, Head(up[c]).ops) /\ op \in Head(up[c]).ops

(* The edits on record after a step: none, or the same and those it stored, *)
(* which are numbered above all that the room has seen.                     *)
LEMMA AcceptedIs ==
    ASSUME Types, Fresh, LogMoves
    PROVE  \/ hist'.accepted = {}
           \/ /\ hist.gaps \subseteq hist'.gaps
              /\ \A a \in hist'.accepted :
                    \/ a \in hist.accepted
                    \/ a.seq > store.last /\ \E c \in Conns : StoresNow(c, a.op)
<1> USE DEF Types
<1>1. CASE UNCHANGED store /\ hist'.accepted = hist.accepted /\ hist.gaps \subseteq hist'.gaps
  BY <1>1
<1>2. ASSUME NEW c \in Conns, HandleUpdate(c), Writable(c), StoreAndRelay(c, Head(up[c]).ops)
      PROVE  /\ hist.gaps \subseteq hist'.gaps
             /\ \A a \in hist'.accepted :
                   a \in hist.accepted \/ (a.seq > store.last /\ StoresNow(c, a.op))
  <2> DEFINE ops == Head(up[c]).ops
             n == NextSeq
  <2>1. /\ hist'.accepted = hist.accepted \cup {[op |-> op, seq |-> n] : op \in ops}
        /\ hist'.gaps = hist.gaps
    BY <1>2 DEF StoreAndRelay, HistTypes
  <2>2. n > store.last
    BY DEF Fresh
  <2> HIDE DEF n
  <2>3. ASSUME NEW a \in hist'.accepted
        PROVE  a \in hist.accepted \/ (a.seq > store.last /\ a.op \in ops)
    BY <2>1, <2>2
  <2> QED BY <1>2, <2>1, <2>3 DEF StoresNow
<1>3. ASSUME NEW c \in Conns, Snapshots(c, Head(up[c]))
      PROVE  hist'.accepted = hist.accepted /\ hist.gaps \subseteq hist'.gaps
  <2>1. \E g, u : hist' = [hist EXCEPT !.gaps = hist.gaps \cup g, !.unsynced = u]
    BY <1>3 DEF Snapshots
  <2> QED BY <2>1 DEF HistTypes
<1>4. CASE Restart
  <2>1. CASE Durable
    BY <1>4, <2>1 DEF Restart, HistTypes
  <2>2. CASE ~Durable
    BY <1>4, <2>2 DEF Restart, HistTypes
  <2> QED BY <2>1, <2>2
<1> QED BY <1>1, <1>2, <1>3, <1>4 DEF LogMoves

(* An update joins what the log replays, and a snapshot takes its place. *)
LEMMA ReplayIs ==
    ASSUME StoreTypes, StoreCounted, Fresh, NEW ops, NEW base
    PROVE  /\ store' = AppendUpdate(ops) => LoadReplay'.ops = LoadReplay.ops \cup ops
           /\ store' = AppendSnapshot(ops, base) => LoadReplay'.ops = ops
<1> DEFINE n == NextSeq
           e == [seq |-> n, ops |-> ops]
<1>1. \A s \in store.snap : s.seq <= store.last /\ s.seq \in Nat
  BY DEF StoreCounted, StoreTypes, Entries
<1>2. n > store.last /\ n \in Nat /\ store.last \in Nat
  BY DEF Fresh, NextSeq, StoreTypes
<1>3. /\ LoadReplay.ops = UNION {u.ops : u \in store.snap \cup
                                  {x \in store.incs : \A s \in store.snap : x.seq > s.seq}}
      /\ LoadReplay'.ops = UNION {u.ops : u \in store'.snap \cup
                                  {x \in store'.incs : \A s \in store'.snap : x.seq > s.seq}}
  BY DEF LoadReplay
<1> HIDE DEF n
<1>4. ASSUME store' = AppendUpdate(ops) PROVE LoadReplay'.ops = LoadReplay.ops \cup ops
  <2>1. store'.snap = store.snap /\ store'.incs = store.incs \cup {e}
    BY <1>4, StoredIs DEF n
  <2>2. e \in store'.incs /\ \A s \in store'.snap : e.seq > s.seq
    BY <1>1, <1>2, <2>1
  <2>3. e.ops = ops
    OBVIOUS
  <2> HIDE DEF e
  <2> QED BY <1>3, <2>1, <2>2, <2>3
<1>5. ASSUME store' = AppendSnapshot(ops, base) PROVE LoadReplay'.ops = ops
  <2>1. store'.snap = {e} /\ store'.incs \subseteq store.incs
    BY <1>5, StoredIs DEF n
  <2>2. e.ops = ops /\ e.seq = n
    OBVIOUS
  <2> HIDE DEF e
  <2>3. \A x \in store'.incs : x.seq \in Nat /\ ~(x.seq > n)
    BY <1>2, <2>1 DEF StoreCounted, StoreTypes, Entries
  <2>4. {x \in store'.incs : \A s \in store'.snap : x.seq > s.seq} = {}
    BY <2>1, <2>2, <2>3
  <2> QED BY <1>3, <2>1, <2>2, <2>4
<1> QED BY <1>4, <1>5

(* No step loses a stored edit: those that a snapshot drops it holds, or    *)
(* they are put on record.                                                  *)
LEMMA NextKeeps ==
    ASSUME Types, Types', Fresh, StoreCounted, LogMoves, Calm,
           ReplayKeepsEdits, \A c \in Conns : CommitsAreWhole(c)
    PROVE  ReplayKeepsEdits'
<1> USE DEF Types
<1>0. \A a \in hist.accepted : a.op \in LoadReplay.ops \cup hist.gaps
  BY DEF ReplayKeepsEdits, Calm
<1>1. SUFFICES ASSUME NEW a \in hist'.accepted PROVE a.op \in LoadReplay'.ops \cup hist'.gaps
  BY DEF ReplayKeepsEdits
<1>2. CASE UNCHANGED store /\ hist'.accepted = hist.accepted /\ hist.gaps \subseteq hist'.gaps
  <2>1. LoadReplay' = LoadReplay
    BY <1>2 DEF LoadReplay
  <2> QED BY <1>0, <1>2, <2>1
<1>3. ASSUME NEW c \in Conns, StoreAndRelay(c, Head(up[c]).ops) PROVE a.op \in LoadReplay'.ops \cup hist'.gaps
  <2> DEFINE ops == Head(up[c]).ops
  <2>1. store' = AppendUpdate(ops)
    BY <1>3 DEF StoreAndRelay
  <2>2. hist'.accepted = hist.accepted \cup {[op |-> op, seq |-> NextSeq] : op \in ops} /\ hist'.gaps = hist.gaps
    BY <1>3 DEF StoreAndRelay, HistTypes
  <2>3. LoadReplay.ops \cup ops \subseteq LoadReplay'.ops
    BY <2>1, ReplayIs
  <2> HIDE DEF ops
  <2>4. a \in hist.accepted \/ a.op \in ops
    BY <2>2
  <2> QED BY <1>0, <2>2, <2>3, <2>4
<1>4. ASSUME NEW c \in Conns, HandleCommit(c), Snapshots(c, Head(up[c]))
      PROVE  a.op \in LoadReplay'.ops \cup hist'.gaps
  <2> DEFINE m == Head(up[c])
             hidden == {x.op : x \in {b \in hist.accepted : b.seq > m.base /\ b.op \notin m.ops}}
  <2>1. store' = AppendSnapshot(m.ops, m.base)
    BY <1>4 DEF Snapshots
  <2>2. m.ops \subseteq LoadReplay'.ops
    BY <2>1, ReplayIs
  <2>3. /\ m \in UpFrames /\ m.type = "commit" /\ Len(up[c]) \in Nat /\ Len(up[c]) >= 1 /\ m = up[c][1]
    <3>1. up[c] \in Seq(UpFrames) /\ up[c] # <<>>
      BY <1>4 DEF HandleCommit, Reads, FrameTypes
    <3> QED BY <1>4, <3>1, ReadIs, Shorter DEF HandleCommit
  <2>4. \A b \in hist.accepted : b.seq <= m.base => b.op \in m.ops \cup hist.gaps
    BY <2>3 DEF CommitsAreWhole
  <2>5. hist'.accepted = hist.accepted /\ hist'.gaps = hist.gaps \cup hidden
    <3>1. \E u : hist' = [hist EXCEPT !.gaps = hist.gaps \cup hidden, !.unsynced = u]
      BY <1>4 DEF Snapshots
    <3> HIDE DEF hidden
    <3> QED BY <3>1 DEF HistTypes
  <2>6. m.base \in Nat /\ a.seq \in Nat
    BY <2>3, <2>5, FrameFields DEF HistTypes
  <2> HIDE DEF m
  <2>7. a.op \in m.ops \cup hist.gaps \/ (a \in hist.accepted /\ a.seq > m.base /\ a.op \notin m.ops)
    BY <2>4, <2>5, <2>6
  <2> QED BY <2>2, <2>5, <2>7
<1>5. CASE Restart
  <2>1. CASE Durable
    <3>1. UNCHANGED store /\ hist'.accepted = hist.accepted /\ hist'.gaps = hist.gaps
      BY <1>5, <2>1 DEF Restart, HistTypes
    <3> QED BY <1>2, <3>1
  <2>2. CASE ~Durable
    BY <1>5, <2>2 DEF Restart, HistTypes
  <2> QED BY <2>1, <2>2
<1> QED BY <1>2, <1>3, <1>4, <1>5 DEF LogMoves

(* A commit sent after its author's replay has all that its base stands     *)
(* for, and what is stored later is numbered above it.                      *)
LEMMA NextCommits ==
    ASSUME Types, Types', Fresh, LogMoves, Calm, Calm', NEW c \in Conns, UpMoves(c),
           FramesCounted(c), CommitsAreWhole(c), Live(c) => TabInOrder(c)
    PROVE  CommitsAreWhole(c)'
<1> SUFFICES ASSUME hist'.accepted # {}, NEW i \in 1..Len(up'[c]), up'[c][i].type = "commit",
                    NEW a \in hist'.accepted, a.seq <= up'[c][i].base
             PROVE  a.op \in up'[c][i].ops \cup hist'.gaps
  BY DEF CommitsAreWhole
<1>1. hist.gaps \subseteq hist'.gaps /\ (a \in hist.accepted \/ a.seq > store.last)
  BY AcceptedIs
<1>2. a.seq \in Nat /\ store.last \in Nat
  BY DEF Types, HistTypes, StoreTypes
<1>3. up[c] \in Seq(UpFrames)
  BY DEF Types, FrameTypes
<1>4. ASSUME NEW j \in 1..Len(up[c]), up[c][j] = up'[c][i]
      PROVE  a.op \in up'[c][i].ops \cup hist'.gaps
  <2>1. up[c][j].base <= store.last /\ up[c][j].base \in Nat
    <3>1. up[c][j] \in UpFrames
      BY <1>3, ElementOfSeq
    <3> QED BY <1>4, <3>1, FrameFields DEF FramesCounted, Calm
  <2>2. a \in hist.accepted
    BY <1>1, <1>2, <1>4, <2>1
  <2> QED BY <1>1, <1>4, <2>2 DEF CommitsAreWhole
<1>5. CASE up'[c] \in {up[c], <<>>}
  BY <1>4, <1>5
<1>6. CASE up[c] # <<>> /\ up'[c] = Tail(up[c])
  <2>1. i + 1 \in 1..Len(up[c]) /\ up'[c][i] = up[c][i + 1]
    BY <1>3, <1>6, Shorter
  <2> QED BY <1>4, <2>1
<1>7. ASSUME NEW f \in UpFrames, up'[c] = Append(up[c], f), Says(c, f)
      PROVE  a.op \in up'[c][i].ops \cup hist'.gaps
  <2>1. (i \in 1..Len(up[c]) /\ up'[c][i] = up[c][i]) \/ up'[c][i] = f
    BY <1>3, <1>7, Longer
  <2>2. ASSUME up'[c][i] = f PROVE a.op \in f.ops \cup hist'.gaps
    <3>1. /\ f.type = "commit" /\ f.base = LastSeq(c) /\ f.ops = Doc(c)
          /\ Live(c) /\ conn[c].pc = "read" /\ NoInitAfter(c, 0)
      BY <1>7, <2>2 DEF Says, Live, Loaded, Calm
    <3>2. f.base \in Nat /\ f.base <= store.last
      BY <1>7, <3>1, FrameFields DEF FramesCounted
    <3>3. a \in hist.accepted /\ a.seq <= LastSeq(c)
      BY <1>1, <1>2, <2>2, <3>1, <3>2
    <3> QED BY <1>1, <3>1, <3>3 DEF TabInOrder
  <2> QED BY <1>4, <2>1, <2>2
<1> QED BY <1>5, <1>6, <1>7 DEF UpMoves
-----------------------------------------------------------------------------
(* What a connection knows *)

(* A participant hears of an edit that is stored: it sent it, or it is told. *)
LEMMA Heard ==
    ASSUME Types, Shape, OneRoom, Calm, NEW c \in Conns, Live(c), DownMoves(c),
           NEW b \in Conns, NEW op, StoresNow(b, op), Doc(c) \subseteq Doc(c)'
    PROVE  \/ op \in Doc(c)'
           \/ \E f \in DownFrames : Told(c, f) /\ f.type = "update" /\ op \in f.ops
<1> USE DEF Types
<1>1. Links(c) /\ OwnHeld(b) /\ Linked(c) /\ c # None
  BY ConstantTypes DEF Shape, Live, Linked, Loaded
<1>2. HandleUpdate(b) /\ StoreAndRelay(b, Head(up[b]).ops) /\ conn[b].member /\ op \in Head(up[b]).ops
  BY DEF StoresNow, Writable
<1>3. up[b] \in Seq(UpFrames) /\ up[b] # <<>>
  BY <1>2 DEF HandleUpdate, Reads, FrameTypes
<1>4. 1 \in 1..Len(up[b]) /\ Head(up[b]) = up[b][1] /\ Head(up[b]) \in UpFrames
  BY <1>2, <1>3, Shorter, ReadIs DEF HandleUpdate
<1>5. CASE b = c
  BY <1>1, <1>2, <1>4, <1>5 DEF OwnHeld
<1>6. CASE b # c
  <2> DEFINE f == [type |-> "update", ops |-> Head(up[b]).ops, seq |-> NextSeq]
  <2>1. f \in DownFrames /\ NextSeq \in Nat
    BY <1>4, StoreIs, FrameFields DEF DownFrames
  <2>2. f.type = "update" /\ op \in f.ops
    BY <1>2
  <2>3. conn[c].member /\ conn[c].sock = "open"
    BY <1>1 DEF Links, Live, Seated
  <2>4. c \in Others(b)
    BY <1>2, <1>6, <2>3 DEF Others, Members, OneRoom, Calm
  <2>5. down'[c] = Append(down[c], f)
    <3>1. down' = SentAll(down, Others(b), f)
      BY <1>2 DEF StoreAndRelay
    <3> HIDE DEF f
    <3> QED BY <2>3, <2>4, <3>1 DEF SentAll
  <2>6. f.seq <= store'.last
    <3>1. store' = AppendUpdate(Head(up[b]).ops)
      BY <1>2 DEF StoreAndRelay
    <3>2. store'.last = NextSeq
      BY <3>1, StoredIs
    <3> QED BY <2>1, <3>2
  <2>8. Relays(f.ops)
    BY DEF StoresNow, Relays
  <2> HIDE DEF f
  <2>7. Told(c, f)
    BY <2>2, <2>3, <2>5, <2>6, <2>8 DEF Told
  <2> QED BY <2>1, <2>2, <2>7
<1> QED BY <1>5, <1>6

(* What is at a tab or on its way stays there, with its place in line.     *)
LEMMA HasStays ==
    ASSUME Types, NEW c \in Conns, Doc(c) \subseteq Doc(c)', hist.gaps \subseteq hist'.gaps, NEW op
    PROVE  /\ \A j \in Nat : down'[c] = down[c] /\ Has(c, op, j) => Has(c, op, j)'
           /\ \A f \in DownFrames : Told(c, f) =>
                 \A j \in Nat, k \in Nat : j <= k /\ Has(c, op, j) => Has(c, op, k)'
           /\ Took(c) => \A j \in Nat : Has(c, op, j + 1) => Has(c, op, j)'
<1>1. CASE op \in Doc(c) \cup hist.gaps
  BY <1>1 DEF Has
<1>2. ASSUME NEW i \in 1..Len(down[c]), down[c][i].type \in Content, op \in down[c][i].ops
      PROVE  /\ \A j \in Nat : down'[c] = down[c] /\ i <= j => Has(c, op, j)'
             /\ \A f \in DownFrames : Told(c, f) =>
                   \A j \in Nat, k \in Nat : j <= k /\ i <= j => Has(c, op, k)'
             /\ Took(c) => \A j \in Nat : i <= j + 1 => Has(c, op, j)'
  <2>0. Len(down[c]) \in Nat
    BY LenProperties DEF Types, FrameTypes
  <2>1. \A j \in Nat : down'[c] = down[c] /\ i <= j => Has(c, op, j)'
    BY <1>2 DEF Has
  <2>2. ASSUME NEW f \in DownFrames, Told(c, f), NEW j \in Nat, NEW k \in Nat, j <= k, i <= j
        PROVE  Has(c, op, k)'
    <3>1. i \in 1..Len(down'[c]) /\ down'[c][i] = down[c][i] /\ i <= k
      BY <2>0, <2>2, ToldIs
    <3> QED BY <1>2, <3>1 DEF Has
  <2>3. ASSUME Took(c), NEW j \in Nat, i <= j + 1 PROVE Has(c, op, j)'
    <3>1. CASE i = 1
      <4>1. Head(down[c]) = down[c][i]
        BY <2>3, <3>1, TookIs
      <4> QED BY <1>2, <2>3, <4>1 DEF Took, Has
    <3>2. CASE i # 1
      <4>1. i - 1 \in 1..Len(down'[c]) /\ down'[c][i - 1] = down[c][i]
        BY <2>3, <3>2, TookIs
      <4>2. i - 1 <= j
        BY <2>0, <2>3
      <4> QED BY <1>2, <4>1, <4>2 DEF Has
    <3> QED BY <3>1, <3>2
  <2> QED BY <2>1, <2>2, <2>3
<1> QED BY <1>1, <1>2 DEF Has

(* A joiner's replay has every stored edit.                                *)
LEMMA LoadKnows ==
    ASSUME Types, NEW c \in Conns, Load(c), ReplayKeepsEdits, Calm
    PROVE  Knows(c)'
<1> DEFINE r == LoadReplay
<1>1. UNCHANGED <<hist, tab, down>> /\ conn' = [conn EXCEPT ![c].pc = "loaded", ![c].replay = r]
  BY DEF Load
<1>2. \A a \in hist'.accepted : a.op \in r.ops \cup hist'.gaps
  BY <1>1 DEF ReplayKeepsEdits, Calm
<1> HIDE DEF r
<1>3. conn'[c].pc = "loaded" /\ conn'[c].replay = r
  BY <1>1 DEF Types, ConnTypes, ConnRecs
<1> QED BY <1>2, <1>3 DEF Knows, AllComing, ReplayIsWhole, FramesInOrder, TabInOrder, Has

(* The frame of the replay brings what the replay has.                     *)
LEMMA InitKnows ==
    ASSUME Types, Types', NEW c \in Conns, SendInit(c), Live(c), Knows(c)
    PROVE  Knows(c)'
<1> DEFINE n == Len(down[c])
           q == down'[c]
           r == conn[c].replay
<1>1. /\ conn[c].pc # "read" /\ conn'[c].pc = "read" /\ UNCHANGED <<tab, hist>>
      /\ n + 1 \in 1..Len(q) /\ \A i \in 1..n : q[i] = down[c][i]
      /\ q[n + 1].type = "init" /\ q[n + 1].ops = r.ops /\ q[n + 1].seq = r.seq
      /\ \A i \in 1..Len(q) : i <= n \/ i = n + 1 \/ q[i].type = "seed"
  BY InitIs DEF Live
<1>2. n \in Nat /\ Len(q) \in Nat
  BY LenProperties DEF Types, FrameTypes
<1>3. ASSUME NEW op, NEW j \in Nat, n + 1 <= j, Has(c, op, n) \/ op \in r.ops PROVE Has(c, op, j)'
  <2>1. CASE op \in Doc(c) \cup hist.gaps
    BY <1>1, <2>1 DEF Has, Doc
  <2>2. CASE op \in r.ops
    BY <1>1, <1>3, <2>2 DEF Has, Content
  <2>3. ASSUME NEW i \in 1..n, down[c][i].type \in Content, op \in down[c][i].ops PROVE Has(c, op, j)'
    <3>1. i \in 1..Len(q) /\ i <= j /\ q[i] = down[c][i]
      BY <1>1, <1>2, <1>3
    <3> QED BY <2>3, <3>1 DEF Has
  <2> QED BY <1>3, <2>1, <2>2, <2>3 DEF Has
<1>4. AllComing(c)'
  <2>1. Len(q) >= n + 1
    BY <1>1, <1>2
  <2>2. \A a \in hist'.accepted : Has(c, a.op, n) \/ a.op \in r.ops
    BY <1>1 DEF Knows, AllComing
  <2> QED BY <1>2, <1>3, <2>1, <2>2 DEF AllComing
<1>5. ReplayIsWhole(c)' /\ TabInOrder(c)'
  <2>1. ~NoInitAfter(c, 0)'
    <3>1. n + 1 > 0
      BY <1>2
    <3> QED BY <1>1, <3>1 DEF NoInitAfter
  <2> QED BY <1>1, <2>1 DEF ReplayIsWhole, TabInOrder
<1>6. FramesInOrder(c)'
  <2> SUFFICES ASSUME NEW j \in 1..Len(q), q[j].type \in Numbered, NoInitAfter(c, j)',
                      NEW a \in hist'.accepted, a.seq <= q[j].seq
               PROVE  Has(c, a.op, j)'
    BY DEF FramesInOrder
  <2>1. j = n + 1
    <3>1. ~(n + 1 > j)
      BY <1>1 DEF NoInitAfter
    <3>2. j # n + 1 => q[j].type = "seed"
      BY <1>1, <1>2, <3>1
    <3> QED BY <3>2 DEF Numbered
  <2>2. a.op \in r.ops \cup hist.gaps
    BY <1>1, <2>1 DEF Knows, ReplayIsWhole
  <2>3. a.op \in r.ops \/ Has(c, a.op, n)
    BY <2>2 DEF Has
  <2> QED BY <1>2, <1>3, <2>1, <2>3
<1> QED BY <1>4, <1>5, <1>6 DEF Knows

(* Whatever else happens, a participant knows of every stored edit, and of  *)
(* each in its turn.                                                        *)
LEMMA StayKnows ==
    ASSUME Types, Types', Fresh, OneRoom, Shape, Shape', Counted, LogMoves, Calm,
           NEW c \in Conns, ConnMoves(c), TabMoves(c), DownMoves(c),
           Live(c), Live(c)', ~Load(c), ~SendInit(c), Knows(c)
    PROVE  Knows(c)'
<1> USE DEF Types
<1>1. CASE hist'.accepted = {}
  BY <1>1 DEF Knows, AllComing, ReplayIsWhole, FramesInOrder, TabInOrder
<1>2. SUFFICES ASSUME hist'.accepted # {} PROVE Knows(c)'
  BY <1>1
<1>3. /\ Linked(c) /\ Linked(c)' /\ conn[c].member /\ FramesCounted(c) /\ Links(c)
      /\ conn'[c].replay = conn[c].replay /\ conn'[c].sock = "open"
      /\ conn'[c].pc = "read" <=> conn[c].pc = "read"
  <2>1. Linked(c) /\ Linked(c)' /\ Links(c) /\ FramesCounted(c) /\ conn'[c].sock = "open"
    BY DEF Live, Linked, Loaded, Shape, Counted
  <2>2. conn[c].member
    BY <2>1 DEF Links, Live, Seated
  <2>3. conn'[c].replay = conn[c].replay
    BY <2>1 DEF ConnMoves
  <2>4. conn'[c].pc = "read" <=> conn[c].pc = "read"
    BY <2>1, StillLinked DEF Linked
  <2> QED BY <2>1, <2>2, <2>3, <2>4
<1>4. Doc(c) \subseteq Doc(c)' /\ hist.gaps \subseteq hist'.gaps
  BY <1>2, <1>3, AcceptedIs DEF TabMoves
<1>5. ASSUME NEW a \in hist'.accepted
      PROVE  a \in hist.accepted \/
             (a.seq > store.last /\ (\/ a.op \in Doc(c)'
                                     \/ \E f \in DownFrames : Told(c, f) /\ f.type = "update" /\ a.op \in f.ops))
  BY <1>2, <1>4, AcceptedIs, Heard
<1>6. \/ Took(c)
      \/ LastSeq(c)' = LastSeq(c) /\ (down'[c] = down[c] \/ \E f \in DownFrames : Told(c, f))
  BY <1>3 DEF DownMoves
<1>7. /\ store.last \in Nat /\ Len(down[c]) \in Nat /\ Len(down'[c]) \in Nat
      /\ LastSeq(c) \in Nat /\ \A a \in hist'.accepted : a.seq \in Nat
      /\ \A i \in 1..Len(down[c]) : down[c][i] \in DownFrames
  <2>1. down[c] \in Seq(DownFrames) /\ down'[c] \in Seq(DownFrames)
    BY DEF FrameTypes
  <2>2. LastSeq(c) \in Nat
    BY ConstantTypes DEF LastSeq, TabTypes, TabRecs
  <2> QED BY <2>1, <2>2, ElementOfSeq, LenProperties DEF StoreTypes, HistTypes
<1>8. \A i \in 1..Len(down[c]) : down[c][i].type \in Numbered =>
         down[c][i].seq \in Nat /\ down[c][i].seq <= store.last
  BY <1>3, <1>7, FrameFields DEF FramesCounted, Numbered
\* An edit numbered up to what the room has seen was stored before.
<1>9. ASSUME NEW a \in hist'.accepted, NEW m \in Nat, m <= store.last, a.seq <= m
      PROVE  a \in hist.accepted
  BY <1>5, <1>7, <1>9
<1>10. AllComing(c)'
  <2> SUFFICES ASSUME NEW a \in hist'.accepted
               PROVE  Has(c, a.op, Len(down[c]))' \/ (conn'[c].pc # "read" /\ a.op \in conn'[c].replay.ops)
    BY DEF AllComing
  <2>1. CASE a \in hist.accepted
    <3>1. CASE conn[c].pc # "read" /\ a.op \in conn[c].replay.ops
      BY <1>3, <3>1
    <3>2. CASE Has(c, a.op, Len(down[c]))
      <4>1. CASE down'[c] = down[c]
        BY <1>4, <1>7, <3>2, <4>1, HasStays
      <4>2. ASSUME NEW f \in DownFrames, Told(c, f) PROVE Has(c, a.op, Len(down[c]))'
        <5>1. Len(down[c]) <= Len(down'[c])
          BY <1>7, <4>2, ToldIs
        <5> QED BY <1>4, <1>7, <3>2, <4>2, <5>1, HasStays
      <4>3. CASE Took(c)
        <5>1. Len(down[c]) = Len(down'[c]) + 1
          BY <4>3, <1>7, Shorter DEF Took, FrameTypes
        <5> QED BY <1>4, <1>7, <3>2, <4>3, <5>1, HasStays
      <4> QED BY <1>6, <4>1, <4>2, <4>3
    <3> QED BY <2>1, <3>1, <3>2 DEF Knows, AllComing
  <2>2. CASE a.op \in Doc(c)'
    BY <2>2 DEF Has
  <2>3. ASSUME NEW f \in DownFrames, Told(c, f), f.type = "update", a.op \in f.ops
        PROVE  Has(c, a.op, Len(down[c]))'
    <3>1. Len(down'[c]) \in 1..Len(down'[c]) /\ down'[c][Len(down'[c])] = f
      BY <1>7, <2>3, ToldIs
    <3> QED BY <1>7, <2>3, <3>1 DEF Has, Content
  <2> QED BY <1>5, <2>1, <2>2, <2>3
<1>11. ReplayIsWhole(c)'
  <2> SUFFICES ASSUME conn[c].pc # "read", NEW a \in hist'.accepted, a.seq <= conn[c].replay.seq
               PROVE  a.op \in conn[c].replay.ops \cup hist'.gaps
    BY <1>3 DEF ReplayIsWhole
  <2>1. conn[c].replay.seq <= store.last /\ conn[c].replay.seq \in Nat
    BY <1>3 DEF FramesCounted, ConnTypes, ConnRecs, Replays
  <2>2. a \in hist.accepted
    BY <1>9, <2>1
  <2> QED BY <1>4, <2>2 DEF Knows, ReplayIsWhole
\* What comes before a frame that the tab had yet to take, or after all others.
<1>12. FramesInOrder(c)'
  <2> SUFFICES ASSUME conn[c].pc = "read", NEW j \in 1..Len(down'[c]), down'[c][j].type \in Numbered,
                      NoInitAfter(c, j)', NEW a \in hist'.accepted, a.seq <= down'[c][j].seq
               PROVE  Has(c, a.op, j)'
    BY <1>3 DEF FramesInOrder
  <2>1. ASSUME NEW i \in 1..Len(down[c]), down[c][i] = down'[c][j], NoInitAfter(c, i)
        PROVE  Has(c, a.op, i)
    <3>1. a \in hist.accepted
      BY <1>8, <1>9, <2>1
    <3> QED BY <2>1, <3>1 DEF Knows, FramesInOrder
  <2>2. CASE down'[c] = down[c]
    <3>1. NoInitAfter(c, j) /\ j \in Nat
      BY <2>2 DEF NoInitAfter
    <3> QED BY <1>4, <2>1, <2>2, <3>1, HasStays
  <2>3. ASSUME NEW f \in DownFrames, Told(c, f) PROVE Has(c, a.op, j)'
    <3>1. CASE j \in 1..Len(down[c])
      <4>1. NoInitAfter(c, j) /\ down'[c][j] = down[c][j] /\ j \in Nat
        BY <2>3, <3>1, ToldIs
      <4> QED BY <1>4, <2>1, <2>3, <3>1, <4>1, HasStays
    <3>2. CASE j \notin 1..Len(down[c])
      <4>1. j = Len(down'[c])
        BY <1>7, <2>3, <3>2, ToldIs
      <4> QED BY <1>3, <1>10, <4>1 DEF AllComing
    <3> QED BY <3>1, <3>2
  <2>4. CASE Took(c)
    <3>1. j + 1 \in 1..Len(down[c]) /\ down'[c][j] = down[c][j + 1]
      BY <2>4, TookIs
    <3>3. j \in Nat
      BY <1>7
    <3>2. NoInitAfter(c, j + 1)
      BY <2>4, <3>3, TookIs
    <3> QED BY <1>4, <2>1, <2>4, <3>1, <3>2, <3>3, HasStays
  <2> QED BY <1>6, <2>2, <2>3, <2>4
<1>13. TabInOrder(c)'
  <2> SUFFICES ASSUME conn[c].pc = "read", NoInitAfter(c, 0)', NEW a \in hist'.accepted, a.seq <= LastSeq(c)'
               PROVE  a.op \in Doc(c)' \cup hist'.gaps
    BY <1>3 DEF TabInOrder
  <2>1. ASSUME NoInitAfter(c, 0), a.seq <= LastSeq(c) PROVE a.op \in Doc(c)' \cup hist'.gaps
    <3>1. a \in hist.accepted
      BY <1>3, <1>7, <1>9, <2>1 DEF FramesCounted
    <3> QED BY <1>4, <2>1, <3>1 DEF Knows, TabInOrder
  <2>2. CASE LastSeq(c)' = LastSeq(c) /\ (down'[c] = down[c] \/ \E f \in DownFrames : Told(c, f))
    <3>1. NoInitAfter(c, 0)
      BY <2>2, ToldIs DEF NoInitAfter
    <3> QED BY <2>1, <2>2, <3>1
  <2>3. CASE Took(c)
    <3> DEFINE f == down[c][1]
    <3>1. /\ 1 \in 1..Len(down[c]) /\ Head(down[c]) = f /\ f \in DownFrames
          /\ f.type # "init" => NoInitAfter(c, 0)
      BY <1>7, <2>3, TookIs
    <3>2. NoInitAfter(c, 1)
      <4>1. 0 \in Nat /\ 0 + 1 = 1
        OBVIOUS
      <4> QED BY <2>3, <4>1, TookIs
    <3>3. ASSUME f.type \in Numbered, a.seq <= f.seq PROVE a.op \in Doc(c)' \cup hist'.gaps
      <4>1. a \in hist.accepted
        BY <1>8, <1>9, <3>1, <3>3
      <4>2. Has(c, a.op, 1)
        BY <3>1, <3>2, <3>3, <4>1 DEF Knows, FramesInOrder
      <4>3. \A i \in 1..Len(down[c]) : i <= 1 => i = 1
        BY <1>7
      <4> QED BY <1>4, <2>3, <3>1, <4>2, <4>3 DEF Has, Took
    <3>4. LastSeq(c)' = CASE f.type = "init" -> f.seq
                          [] f.type \in {"update", "commit"} -> Later(LastSeq(c), f.seq)
                          [] OTHER -> LastSeq(c)
      BY <2>3, <3>1 DEF Took
    <3> HIDE DEF f
    <3>5. \/ f.type \in Numbered /\ LastSeq(c)' = f.seq
          \/ f.type # "init" /\ LastSeq(c)' = LastSeq(c)
      BY <3>4 DEF Later, Numbered
    <3> QED BY <2>1, <3>1, <3>3, <3>5
  <2> QED BY <1>6, <2>2, <2>3
<1> QED BY <1>10, <1>11, <1>12, <1>13 DEF Knows

(* Every step keeps the invariant: what a participant knows of is all that *)
(* its numbers stand for, so its snapshot hides nothing unrecorded         *)
(* (sendInit, handleUpdate, handleCommit, applyReplay).                    *)
LEMMA NextReplay ==
    Types /\ Types' /\ Fresh /\ OneRoom /\ ReplayInv /\ [Next]_vars => ReplayInv'
<1> SUFFICES ASSUME Types, Types', Fresh, OneRoom, ReplayInv, [Next]_vars PROVE ReplayInv'
  OBVIOUS
<1>1. Shape /\ Counted /\ Shape' /\ Counted'
  BY NextShape, NextCounted DEF ReplayInv
<1>2. LogMoves
  BY NextLog
<1>3. SUFFICES ASSUME Calm'
               PROVE  /\ ReplayKeepsEdits'
                      /\ \A c \in Conns : CommitsAreWhole(c)' /\ (Live(c)' => Knows(c)')
  BY <1>1 DEF ReplayInv, Whole
<1>4. Calm
  BY <1>3, NextCalm DEF Calm
<1>5. ReplayKeepsEdits /\ \A c \in Conns : CommitsAreWhole(c) /\ (Live(c) => Knows(c))
  BY <1>4 DEF ReplayInv, Whole
<1>6. ReplayKeepsEdits'
  BY <1>1, <1>2, <1>4, <1>5, NextKeeps DEF Counted
<1>7. ASSUME NEW c \in Conns PROVE CommitsAreWhole(c)'
  <2>1. UpMoves(c) /\ FramesCounted(c) /\ CommitsAreWhole(c) /\ (Live(c) => TabInOrder(c))
    BY <1>1, <1>5, NextUp DEF Counted, Knows
  <2> QED BY <1>2, <1>3, <1>4, <2>1, NextCommits
<1>8. ASSUME NEW c \in Conns, Live(c)' PROVE Knows(c)'
  <2>1. ConnMoves(c) /\ TabMoves(c) /\ DownMoves(c)
    BY <1>1, NextConn, NextTab, NextDown
  <2>2. Live(c) \/ Load(c)
    BY <1>8, <2>1, StillLinked DEF Live, Loaded
  <2>3. CASE Load(c)
    BY <1>4, <1>5, <2>3, LoadKnows
  <2>4. CASE Live(c) /\ SendInit(c)
    BY <1>5, <2>4, InitKnows
  <2>5. CASE Live(c) /\ ~Load(c) /\ ~SendInit(c)
    BY <1>1, <1>2, <1>4, <1>5, <1>8, <2>1, <2>5, StayKnows
  <2> QED BY <2>2, <2>3, <2>4, <2>5
<1> QED BY <1>6, <1>7, <1>8

(* Before anybody dials, nothing is stored.                                *)
LEMMA InitReplay == Init => ReplayInv
<1> SUFFICES ASSUME Init PROVE ReplayInv
  OBVIOUS
<1>1. /\ \A c \in Conns : conn[c] = NewConn /\ up[c] = <<>> /\ down[c] = <<>> /\ TabOf[c] \in Tabs
      /\ \A t \in Tabs : tab[t].link = None
      /\ hist.accepted = {} /\ store.snap = {} /\ store.incs = {}
  BY ConstantTypes DEF Init, FreshTab, HistInit, EmptyStore
<1>2. NewConn.pc = "new" /\ ~NewConn.member
  BY DEF NewConn
<1>3. ASSUME NEW c \in Conns
      PROVE  /\ Links(c) /\ OwnHeld(c) /\ OneInit(c) /\ FramesCounted(c)
             /\ CommitsAreWhole(c) /\ ~Live(c)
  BY <1>1, <1>2, ConstantTypes
     DEF Links, Linked, Live, Seated, Loaded, OwnHeld, OneInit, NoInitAfter, FramesCounted, CommitsAreWhole
<1>4. StoreCounted /\ ReplayKeepsEdits
  BY <1>1 DEF StoreCounted, ReplayKeepsEdits
<1> QED BY <1>3, <1>4 DEF ReplayInv, Shape, Counted, Whole

(* In every run in which the room's counter numbers each update above those *)
(* before it, a stored edit is in every later replay, unless a snapshot     *)
(* hid it from an author who had not received it, two sessions had          *)
(* participants at once, or somebody committed before their replay          *)
(* (LoadReplay, AppendUpdate's trimming, sendInit, broadcast, applyReplay). *)
THEOREM EditsKept == Spec /\ []Fresh => []ReplayKeepsEdits
<1>1. Init => ReplayInv
  BY InitReplay
<1>2. Types /\ Types' /\ Fresh /\ BodyInv /\ ReplayInv /\ [Next]_vars => ReplayInv'
  BY NextReplay DEF BodyInv
<1>3. ReplayInv => ReplayKeepsEdits
  BY DEF ReplayInv, Whole, ReplayKeepsEdits, Calm
<1> QED BY <1>1, <1>2, <1>3, TypesHold, SyncHolds, PTL DEF Spec

(* The memory store, and a log that is never reset, number each update      *)
(* above those before it.                                                   *)
LEMMA NumbersAreFresh == ASSUME ~Durable \/ Writes = {} PROVE Spec => []Fresh
<1> DEFINE OneCounter == Durable => store.rowid = store.last
<1>1. Init => OneCounter
  BY DEF Init, EmptyStore
<1>2. Types /\ Types' /\ OneCounter /\ [Next]_vars => OneCounter'
  <2> SUFFICES ASSUME Types, OneCounter, [Next]_vars, Durable PROVE store'.rowid = store'.last
    OBVIOUS
  <2>1. CASE UNCHANGED store
    BY <2>1
  <2>2. \A ops, base : /\ AppendUpdate(ops).rowid = AppendUpdate(ops).last
                       /\ AppendSnapshot(ops, base).rowid = AppendSnapshot(ops, base).last
    BY DEF AppendUpdate, AppendSnapshot, Append1, Types, StoreTypes
  <2>3. ~ResetClears
    BY DEF ResetClears, Types, HubTypes
  <2>4. CASE Restart
    BY <2>4 DEF Restart
  <2>5. ASSUME NEW ops, NEW base, store' \in {AppendUpdate(ops), AppendSnapshot(ops, base)}
        PROVE  store'.rowid = store'.last
    BY <2>2, <2>5
  <2>6. ASSUME NEW c, StoreAndRelay(c, Head(up[c]).ops) \/ Snapshots(c, Head(up[c]))
        PROVE  store'.rowid = store'.last
    BY <2>5, <2>6 DEF StoreAndRelay, Snapshots
  <2>7. LogMoves
    BY NextLog
  <2> QED BY <2>1, <2>3, <2>4, <2>6, <2>7 DEF LogMoves
<1>3. Types /\ OneCounter => Fresh
  BY DEF Fresh, NextSeq, Types, StoreTypes
<1> HIDE DEF OneCounter
<1> QED BY <1>1, <1>2, <1>3, TypesHold, PTL DEF Spec

(* So over the memory store, and over the SQL log until the first reset, no *)
(* stored edit is lost but for those reasons (MemoryStore.AppendUpdate,     *)
(* CollabRepo.AppendUpdate).                                                *)
THEOREM MemoryEditsKept == ASSUME ~Durable \/ Writes = {} PROVE Spec => []ReplayKeepsEdits
  BY EditsKept, NumbersAreFresh, PTL

-----------------------------------------------------------------------------
(* Open editors and the store: what keeps them together                    *)

\* No text left a tab unrecorded on its way to the server.
Quiet == Calm /\ ~hist.unsent

\* No reset is between clearing the log and turning its participants stale.
Settled == rst.pc # "cleared"

\* What a replay brings now, and what it may lack.
Room == LoadReplay.ops \cup hist.gaps

\* op is in one of the first j frames from c that the server has not read.
Pending(c, op, j) ==
    \E i \in 1..Len(up[c]) : i <= j /\ up[c][i].type = "update" /\ op \in up[c][i].ops

\* The replay will send nothing of what the tab holds: the tab has nothing
\* of its own yet, or the replay has come.
Synced(c) ==
    \/ ~tab[TabOf[c]].inited /\ ~tab[TabOf[c]].dirty
    \/ conn[c].pc = "read" /\ NoInitAfter(c, 0)

\* An editor's open seat that no reset has passed over.
Sits(c) == conn[c].sock = "open" /\ conn[c].pc \in Seated /\ TabOf[c] \in Editors /\ ~conn[c].stale

\* Nothing is committed on a connection that is not in the room.
NoFirstCommit(c) ==
    conn[c].pc \in {"new", "got"} => \A i \in 1..Len(up[c]) : up[c][i].type # "commit"

\* What a tab holds when it comes to a new connection it has to send.
GotSent(c) ==
    conn[c].sock = "open" /\ conn[c].pc = "got" /\ Synced(c) =>
       \A op \in Doc(c) : Pending(c, op, Len(up[c]))

\* What an open editor holds, the room has or will be sent.
DocSent(c) ==
    Settled /\ Sits(c) /\ Synced(c) =>
       \A op \in Doc(c) : op \in Room \/ Pending(c, op, Len(up[c]))

\* And what it commits.
CommitSent(c) ==
    Settled /\ Writable(c) => \A i \in 1..Len(up[c]) : up[c][i].type = "commit" =>
       \A op \in up[c][i].ops : op \in Room \/ Pending(c, op, i)

\* What an open editor is sent comes from the room.
FramesKnown(c) ==
    Settled /\ Sits(c) =>
       /\ \A i \in 1..Len(down[c]) : down[c][i].type \in Content => down[c][i].ops \subseteq Room
       /\ conn[c].pc \in Loaded \ {"read"} => conn[c].replay.ops \subseteq Room

\* A participant has op from its replay, or will take it with that.
HasReplay(c, op) ==
    \/ conn[c].pc # "read" /\ op \in conn[c].replay.ops
    \/ conn[c].pc = "read" /\ op \in Doc(c)
    \/ conn[c].pc = "read" /\ \E i \in 1..Len(down[c]) : down[c][i].type = "init" /\ op \in down[c][i].ops

\* op was in the room before everybody in it now, so they hold and commit it.
Old(op) ==
    \A c \in Conns :
       /\ Live(c) /\ ~conn[c].stale => HasReplay(c, op)
       /\ Writable(c) => \A i \in 1..Len(up[c]) : up[c][i].type = "commit" => op \in up[c][i].ops

\* What a replay brings was stored as an edit of this room, or everybody has it.
ReplayKnown ==
    Settled => \A op \in LoadReplay.ops :
       op \in hist.gaps \/ (\E a \in hist.accepted : a.op = op) \/ Old(op)

Caught(c) == NoFirstCommit(c) /\ GotSent(c) /\ DocSent(c) /\ CommitSent(c) /\ FramesKnown(c)

CatchInv == Quiet => ReplayKnown /\ \A c \in Conns : Caught(c)

(* A restart and the end of a reset leave nobody in the room who may write. *)
LEMMA NobodyLeft ==
    ASSUME Types, Shape, OneRoom, Calm, NEW c \in Conns, Restart \/ ResetAnnounces
    PROVE  ~Sits(c)' /\ ~Writable(c)' /\ (Live(c)' => conn'[c].stale)
<1> USE DEF Types
<1>1. CASE Restart
  <2>1. conn'[c] = GoneConn \/ (conn'[c] = conn[c] /\ conn[c].pc = "new")
    BY <1>1 DEF Restart
  <2> QED BY <2>1 DEF GoneConn, NewConn, Sits, Writable, Live, Loaded, Seated, ConnTypes
<1>2. CASE ResetAnnounces
  <2>1. /\ conn'[c].pc = conn[c].pc /\ conn'[c].sock = conn[c].sock
        /\ conn'[c].member = conn[c].member
        /\ c \in Members(hub.room) /\ hub.room # None => conn'[c].stale
    BY <1>2 DEF ResetAnnounces, ConnTypes, ConnRecs
  <2>2. conn[c].member => conn'[c].stale
    <3>1. conn[c].member => conn[c].sess = hub.room /\ conn[c].sess # None
      BY DEF OneRoom, Calm, ConnTypes
    <3> QED BY <2>1, <3>1 DEF Members
  <2>3. conn[c].sock = "open" /\ conn[c].pc \in Seated => conn[c].member
    BY DEF Shape, Links
  <2> QED BY <2>1, <2>2, <2>3 DEF Sits, Writable, Live, Seated
<1> QED BY <1>1, <1>2

(* An update that is handled, stored or not, is in the room from then on.  *)
LEMMA RelayedIsKnown ==
    ASSUME Types, StoreCounted, Fresh, NEW ops, Relays(ops)
    PROVE  ops \subseteq Room'
<1> USE DEF Types
<1>1. PICK b \in Conns : HandleUpdate(b) /\ Writable(b) /\ ops = Head(up[b]).ops
  BY DEF Relays
<1>2. CASE StoreAndRelay(b, ops)
  <2>1. store' = AppendUpdate(ops)
    BY <1>2 DEF StoreAndRelay
  <2> QED BY <2>1, ReplayIs DEF Room
<1>3. CASE RelayUnstored(b, ops)
  <2>1. hist'.gaps = hist.gaps \cup ops
    BY <1>3 DEF RelayUnstored, HistTypes
  <2> QED BY <2>1 DEF Room
<1> QED BY <1>1, <1>2, <1>3 DEF HandleUpdate

(* Between resets the room loses nothing, and gains only stored edits.     *)
LEMMA RoomGrows ==
    ASSUME Types, Types', Fresh, StoreCounted, LogMoves, Settled, Settled', ~Restart,
           ReplayKeepsEdits', Calm', ReplayKnown, \A c \in Conns : CommitSent(c)
    PROVE  /\ Room \subseteq Room'
           /\ hist.gaps \subseteq hist'.gaps /\ hist.accepted \subseteq hist'.accepted
           /\ \A op \in LoadReplay'.ops :
                 op \in LoadReplay.ops \cup hist'.gaps \/ \E a \in hist'.accepted : a.op = op
<1> USE DEF Types
<1>1. CASE UNCHANGED store /\ hist'.accepted = hist.accepted /\ hist.gaps \subseteq hist'.gaps
  <2>1. LoadReplay' = LoadReplay
    BY <1>1 DEF LoadReplay
  <2> QED BY <1>1, <2>1 DEF Room
<1>2. ASSUME NEW c \in Conns, StoreAndRelay(c, Head(up[c]).ops)
      PROVE  /\ LoadReplay'.ops = LoadReplay.ops \cup Head(up[c]).ops
             /\ hist'.gaps = hist.gaps /\ hist.accepted \subseteq hist'.accepted
             /\ \A op \in Head(up[c]).ops : \E a \in hist'.accepted : a.op = op
  <2> DEFINE ops == Head(up[c]).ops
             n == NextSeq
  <2>1. store' = AppendUpdate(ops)
    BY <1>2 DEF StoreAndRelay
  <2>2. hist'.accepted = hist.accepted \cup {[op |-> op, seq |-> n] : op \in ops} /\ hist'.gaps = hist.gaps
    BY <1>2 DEF StoreAndRelay, HistTypes
  <2>3. LoadReplay'.ops = LoadReplay.ops \cup ops
    BY <2>1, ReplayIs
  <2> HIDE DEF ops, n
  <2>4. ASSUME NEW op \in ops PROVE \E a \in hist'.accepted : a.op = op
    <3>1. [op |-> op, seq |-> n] \in hist'.accepted
      BY <2>2
    <3> QED BY <3>1
  <2> QED BY <2>2, <2>3, <2>4 DEF ops
<1>3. ASSUME NEW c \in Conns, HandleCommit(c), Snapshots(c, Head(up[c]))
      PROVE  /\ Room \subseteq Room'
             /\ hist.gaps \subseteq hist'.gaps /\ hist.accepted \subseteq hist'.accepted
             /\ \A op \in LoadReplay'.ops : op \in LoadReplay.ops \cup hist'.gaps
  <2> DEFINE m == Head(up[c])
  <2>1. store' = AppendSnapshot(m.ops, m.base)
    BY <1>3 DEF Snapshots
  <2>2. LoadReplay'.ops = m.ops
    BY <2>1, ReplayIs
  <2>3. hist'.accepted = hist.accepted /\ hist.gaps \subseteq hist'.gaps
    <3>1. \E g, u : hist' = [hist EXCEPT !.gaps = hist.gaps \cup g, !.unsynced = u]
      BY <1>3 DEF Snapshots
    <3> QED BY <3>1 DEF HistTypes
  <2>4. /\ m.type = "commit" /\ 1 \in 1..Len(up[c]) /\ m = up[c][1]
    <3>1. up[c] \in Seq(UpFrames) /\ up[c] # <<>>
      BY <1>3 DEF HandleCommit, Reads, FrameTypes
    <3> QED BY <1>3, <3>1, ReadIs, Shorter DEF HandleCommit
  <2>5. Writable(c)
    <3>1. store' # store
      <4>1. store'.last = NextSeq /\ NextSeq # store.last
        BY <2>1, StoredIs DEF Fresh, NextSeq, StoreTypes
      <4> QED BY <4>1
    <3> QED BY <1>3, <3>1 DEF HandleCommit, SnapshotFails, Refused
  <2>6. ASSUME NEW op \in m.ops PROVE op \in Room
    <3>1. op \in Room \/ Pending(c, op, 1)
      BY <2>4, <2>5 DEF CommitSent
    <3>2. \A i \in 1..Len(up[c]) : i <= 1 => i = 1
      <4>1. Len(up[c]) \in Nat
        BY LenProperties DEF FrameTypes
      <4> QED BY <4>1
    <3> QED BY <2>4, <3>1, <3>2 DEF Pending
  <2>7. ASSUME NEW op \in LoadReplay.ops PROVE op \in LoadReplay'.ops \cup hist'.gaps
    <3>1. CASE \E a \in hist.accepted : a.op = op
      BY <2>3, <3>1 DEF ReplayKeepsEdits, Calm
    <3>2. CASE Old(op)
      BY <2>2, <2>4, <2>5, <3>2 DEF Old
    <3> QED BY <2>3, <2>7, <3>1, <3>2 DEF ReplayKnown
  <2> HIDE DEF m
  <2> QED BY <2>2, <2>3, <2>6, <2>7 DEF Room
<1> QED BY <1>1, <1>2, <1>3 DEF LogMoves, Settled, Room

(* Who has a replayed edit keeps it, and who joins is sent it.             *)
LEMMA OldStays ==
    ASSUME Types, Types', Shape, [Next]_vars, ~hist'.early, \A c \in Conns : NoFirstCommit(c),
           NEW op, Old(op), op \in LoadReplay.ops
    PROVE  Old(op)'
<1> USE DEF Types
<1> SUFFICES ASSUME NEW c \in Conns
             PROVE  /\ Live(c)' /\ ~conn'[c].stale => HasReplay(c, op)'
                    /\ Writable(c)' => \A i \in 1..Len(up'[c]) : up'[c][i].type = "commit" => op \in up'[c][i].ops
  BY DEF Old
<1>1. ConnMoves(c) /\ TabMoves(c) /\ UpMoves(c) /\ DownMoves(c) /\ Links(c)
  BY NextConn, NextTab, NextUp, NextDown DEF Shape
<1>2. up[c] \in Seq(UpFrames) /\ down[c] \in Seq(DownFrames)
  BY DEF FrameTypes
<1>3. ASSUME Live(c)', ~conn'[c].stale PROVE HasReplay(c, op)'
  <2>1. /\ ~conn[c].stale /\ (Live(c) \/ Load(c)) /\ conn'[c].sock = "open"
        /\ Linked(c)'
    BY <1>1, <1>3, StillLinked DEF ConnMoves, Live, Loaded, Linked
  <2>2. CASE Load(c)
    <3> DEFINE r == LoadReplay
    <3>1. conn' = [conn EXCEPT ![c].pc = "loaded", ![c].replay = r]
      BY <2>2 DEF Load
    <3>2. op \in r.ops
      OBVIOUS
    <3> HIDE DEF r
    <3>3. conn'[c].pc = "loaded" /\ conn'[c].replay = r
      BY <3>1 DEF ConnTypes, ConnRecs
    <3> QED BY <3>2, <3>3 DEF HasReplay
  <2>3. CASE Live(c) /\ SendInit(c)
    <3> DEFINE n == Len(down[c])
    <3>1. /\ conn[c].pc # "read" /\ conn'[c].pc = "read"
          /\ n + 1 \in 1..Len(down'[c])
          /\ down'[c][n + 1].type = "init" /\ down'[c][n + 1].ops = conn[c].replay.ops
      BY <2>3, InitIs DEF Live
    <3>2. op \in conn[c].replay.ops
      BY <2>1, <2>3, <3>1 DEF Old, HasReplay
    <3> HIDE DEF n
    <3> QED BY <3>1, <3>2 DEF HasReplay
  <2>4. CASE Live(c) /\ ~Load(c) /\ ~SendInit(c)
    <3>1. /\ HasReplay(c, op) /\ conn'[c].replay = conn[c].replay
          /\ conn'[c].pc = "read" <=> conn[c].pc = "read"
          /\ Doc(c) \subseteq Doc(c)'
      <4>1. conn'[c].pc = "read" <=> conn[c].pc = "read"
        BY <1>1, <2>1, <2>4, StillLinked DEF Linked
      <4>2. Linked(c)
        BY <2>4 DEF Live, Linked, Loaded
      <4> QED BY <1>1, <2>1, <2>4, <4>1, <4>2 DEF ConnMoves, TabMoves, Old
    <3>2. CASE conn[c].pc # "read" \/ op \in Doc(c)
      BY <3>1, <3>2 DEF HasReplay
    <3>3. ASSUME conn[c].pc = "read", NEW i \in 1..Len(down[c]), down[c][i].type = "init", op \in down[c][i].ops
          PROVE  HasReplay(c, op)'
      <4>1. CASE down'[c] = down[c]
        BY <3>1, <3>3, <4>1 DEF HasReplay
      <4>2. ASSUME NEW f \in DownFrames, Told(c, f) PROVE HasReplay(c, op)'
        <5>1. i \in 1..Len(down'[c]) /\ down'[c][i] = down[c][i]
          BY <4>2, ToldIs
        <5> QED BY <3>1, <3>3, <5>1 DEF HasReplay
      <4>3. CASE Took(c)
        <5>1. CASE i = 1
          <6>1. Head(down[c]) = down[c][i]
            BY <4>3, <5>1, TookIs
          <6> QED BY <3>1, <3>3, <4>3, <6>1 DEF Took, Content, HasReplay
        <5>2. CASE i # 1
          <6>1. i - 1 \in 1..Len(down'[c]) /\ down'[c][i - 1] = down[c][i]
            BY <4>3, <5>2, TookIs
          <6> QED BY <3>1, <3>3, <6>1 DEF HasReplay
        <5> QED BY <5>1, <5>2
      <4> QED BY <1>1, <2>1, <2>4, <4>1, <4>2, <4>3 DEF DownMoves
    <3> QED BY <3>1, <3>2, <3>3 DEF HasReplay
  <2> QED BY <2>1, <2>2, <2>3, <2>4
<1>4. ASSUME Writable(c)', NEW i \in 1..Len(up'[c]), up'[c][i].type = "commit" PROVE op \in up'[c][i].ops
  <2>1. ~JoinRoom(c)
    <3>1. JoinRoom(c) => conn[c].pc = "got" /\ up'[c] = up[c]
      BY DEF JoinRoom
    <3> QED BY <1>4, <3>1 DEF NoFirstCommit
  <2>2. Writable(c)
    BY <1>1, <1>4, <2>1 DEF Writable, ConnMoves
  <2>3. ASSUME NEW j \in 1..Len(up[c]), up[c][j].type = "commit" PROVE op \in up[c][j].ops
    BY <2>2, <2>3 DEF Old
  <2>4. CASE up'[c] = up[c] \/ up'[c] = <<>>
    BY <1>4, <2>3, <2>4
  <2>5. CASE up[c] # <<>> /\ up'[c] = Tail(up[c])
    <3>1. i + 1 \in 1..Len(up[c]) /\ up'[c][i] = up[c][i + 1]
      BY <1>2, <2>5, Shorter
    <3> QED BY <1>4, <2>3, <3>1
  <2>6. ASSUME NEW f \in UpFrames, up'[c] = Append(up[c], f), Says(c, f) PROVE op \in up'[c][i].ops
    <3>1. (i \in 1..Len(up[c]) /\ up'[c][i] = up[c][i]) \/ up'[c][i] = f
      BY <1>2, <2>6, Longer
    <3>2. ASSUME f.type = "commit" PROVE op \in f.ops
      <4>1. conn[c].sock = "open" /\ f.ops = Doc(c) /\ conn[c].pc = "read" /\ NoInitAfter(c, 0)
        BY <2>6, <3>2 DEF Says
      <4>2. HasReplay(c, op)
        BY <2>2, <4>1 DEF Old, Writable, Live, Loaded
      <4>3. \A k \in 1..Len(down[c]) : down[c][k].type # "init"
        <5>1. Len(down[c]) \in Nat
          BY <1>2, LenProperties
        <5> QED BY <4>1, <5>1 DEF NoInitAfter
      <4> QED BY <4>1, <4>2, <4>3 DEF HasReplay
    <3> QED BY <1>4, <2>3, <3>1, <3>2
  <2> QED BY <1>1, <2>4, <2>5, <2>6 DEF UpMoves
<1> QED BY <1>3, <1>4

(* What waits to be read stays ahead of what is sent after it, or is read.  *)
LEMMA PendingStays ==
    ASSUME Types, StoreCounted, Fresh, NEW c \in Conns, UpMoves(c),
           Writable(c) \/ conn[c].pc # "read", NEW op
    PROVE  /\ Linked(c)' /\ Pending(c, op, Len(up[c])) => op \in Room' \/ Pending(c, op, Len(up[c]))'
           /\ Linked(c)' /\ Pending(c, op, Len(up[c])) /\ conn[c].pc # "read" => Pending(c, op, Len(up[c]))'
           /\ \A i \in 1..Len(up'[c]) :
                 \/ \E j \in 1..Len(up[c]) :
                       up'[c][i] = up[c][j] /\ (Pending(c, op, j) => op \in Room' \/ Pending(c, op, i)')
                 \/ Says(c, up'[c][i]) /\ (Pending(c, op, Len(up[c])) => Pending(c, op, i)')
<1> USE DEF Types
<1>1. up[c] \in Seq(UpFrames) /\ Len(up[c]) \in Nat
  BY LenProperties DEF FrameTypes
<1>2. CASE up'[c] = up[c]
  <2>1. \A j \in Nat : Pending(c, op, j) => Pending(c, op, j)'
    BY <1>2 DEF Pending
  <2> QED BY <1>1, <1>2, <2>1
<1>3. CASE up'[c] = <<>> /\ ~Linked(c)'
  BY <1>3
<1>4. CASE up[c] # <<>> /\ up'[c] = Tail(up[c]) /\ (HandleUpdate(c) \/ HandleCommit(c))
  <2>1. /\ Len(up[c]) >= 1 /\ Len(up'[c]) = Len(up[c]) - 1 /\ Head(up[c]) = up[c][1]
        /\ \A i \in 1..Len(up'[c]) : up'[c][i] = up[c][i + 1]
    BY <1>1, <1>4, Shorter
  <2>2. Writable(c) /\ conn[c].pc = "read"
    BY <1>4 DEF HandleUpdate, HandleCommit, Reads
  <2>3. up[c][1].type = "update" => up[c][1].ops \subseteq Room'
    <3>1. HandleCommit(c) => Head(up[c]).type = "commit"
      BY DEF HandleCommit, Reads
    <3>2. HandleUpdate(c) => Relays(Head(up[c]).ops)
      BY <2>2 DEF Relays
    <3> QED BY <1>4, <2>1, <3>1, <3>2, RelayedIsKnown
  <2>4. ASSUME NEW j \in Nat, Pending(c, op, j + 1), op \notin Room' PROVE Pending(c, op, j)'
    <3>1. PICK k \in 1..Len(up[c]) : k <= j + 1 /\ up[c][k].type = "update" /\ op \in up[c][k].ops
      BY <2>4 DEF Pending
    <3>2. k # 1
      BY <2>3, <2>4, <3>1
    <3>3. k - 1 \in 1..Len(up'[c]) /\ k - 1 <= j /\ (k - 1) + 1 = k
      BY <1>1, <2>1, <3>1, <3>2
    <3>4. up'[c][k - 1] = up[c][k]
      BY <2>1, <3>3
    <3> QED BY <3>1, <3>3, <3>4 DEF Pending
  <2>5. Pending(c, op, Len(up[c])) => op \in Room' \/ Pending(c, op, Len(up[c]))'
    <3>1. Len(up'[c]) \in Nat /\ Len(up'[c]) + 1 = Len(up[c])
      BY <1>1, <2>1
    <3>2. Pending(c, op, Len(up'[c]) + 1) => op \in Room' \/ Pending(c, op, Len(up[c]))'
      BY <2>4, <3>1
    <3> QED BY <3>1, <3>2
  <2>6. ASSUME NEW i \in 1..Len(up'[c])
        PROVE  /\ i + 1 \in 1..Len(up[c]) /\ up'[c][i] = up[c][i + 1]
               /\ Pending(c, op, i + 1) => op \in Room' \/ Pending(c, op, i)'
    <3>1. i + 1 \in 1..Len(up[c]) /\ i \in Nat
      BY <1>1, <2>1
    <3> QED BY <2>1, <2>4, <3>1
  <2> QED BY <2>2, <2>5, <2>6
<1>5. ASSUME NEW f \in UpFrames, up'[c] = Append(up[c], f), Says(c, f)
      PROVE  /\ Pending(c, op, Len(up[c])) => Pending(c, op, Len(up[c]))'
             /\ \A i \in 1..Len(up'[c]) :
                   \/ i \in 1..Len(up[c]) /\ up'[c][i] = up[c][i] /\ (Pending(c, op, i) => Pending(c, op, i)')
                   \/ up'[c][i] = f /\ (Pending(c, op, Len(up[c])) => Pending(c, op, i)')
  <2>1. /\ Len(up'[c]) = Len(up[c]) + 1 /\ up'[c][Len(up[c]) + 1] = f
        /\ \A i \in 1..Len(up[c]) : up'[c][i] = up[c][i]
    BY <1>1, <1>5, Longer
  <2>2. ASSUME NEW j \in Nat, NEW i \in Nat, j <= i, Pending(c, op, j) PROVE Pending(c, op, i)'
    <3>1. PICK k \in 1..Len(up[c]) : k <= j /\ up[c][k].type = "update" /\ op \in up[c][k].ops
      BY <2>2 DEF Pending
    <3>2. k \in 1..Len(up'[c]) /\ k <= i /\ up'[c][k] = up[c][k]
      BY <1>1, <2>1, <2>2, <3>1
    <3> QED BY <3>1, <3>2 DEF Pending
  <2>3. \A i \in 1..Len(up'[c]) : i \in Nat /\ (i \in 1..Len(up[c]) \/ (i = Len(up[c]) + 1 /\ Len(up[c]) <= i))
    BY <1>1, <2>1
  <2> QED BY <1>1, <2>1, <2>2, <2>3
<1> QED BY <1>2, <1>3, <1>4, <1>5 DEF UpMoves

(* How a document grows: by a frame that was on its way, or by text that is *)
(* sent, unless the tab awaits its replay and will send it then.           *)
LEMMA DocMoves ==
    ASSUME Types, Types', Shape, [Next]_vars, ~hist'.early,
           NEW c \in Conns, Linked(c), Linked(c)', Synced(c)', NEW op \in Doc(c)'
    PROVE  \/ op \in Doc(c) /\ Synced(c)
           \/ down[c] # <<>> /\ Head(down[c]).type \in Content /\ op \in Head(down[c]).ops
           \/ \E f \in UpFrames : up'[c] = Append(up[c], f) /\ f.type = "update" /\ op \in f.ops
<1> USE DEF Types
<1> DEFINE t == TabOf[c]
           Grown == \/ op \in Doc(c) /\ Synced(c)
                    \/ down[c] # <<>> /\ Head(down[c]).type \in Content /\ op \in Head(down[c]).ops
                    \/ \E f \in UpFrames : up'[c] = Append(up[c], f) /\ f.type = "update" /\ op \in f.ops
<1> SUFFICES Grown
  OBVIOUS
<1>0. /\ t \in Tabs /\ tab[t] \in TabRecs /\ tab[t].link = c /\ c # None
      /\ conn[c].sock = "open" /\ conn'[c].sock = "open" /\ conn'[c].pc # "gone"
  BY ConstantTypes DEF Linked, Shape, Links, TabTypes
<1>1. ConnMoves(c) /\ DownMoves(c) /\ OneInit(c) /\ tab'[t].link = c
  BY <1>0, NextConn, NextDown, NextTab DEF Shape, TabMoves
<1>2. ASSUME NEW f \in UpFrames, f.type = "update", op \in f.ops, up' = Sent(up, tab[t].link, f) PROVE Grown
  <2>1. up'[c] = Append(up[c], f)
    BY <1>0, <1>2 DEF Sent, FrameTypes
  <2> QED BY <1>2, <2>1
<1>3. CASE RecvInit(t)
  <2> DEFINE m == Head(down[c])
             D == tab[t].doc
             missing == D \ m.ops
             d == D \cup m.ops
             resync == (tab[t].inited \/ tab[t].dirty) /\ missing # {}
             f == [type |-> "update", ops |-> missing]
  <2>1. /\ down[c] # <<>> /\ m.type = "init"
        /\ tab' = [tab EXCEPT ![t].inited = TRUE, ![t].lastSeq = m.seq, ![t].doc = d,
                              ![t].dirty = @ \/ resync]
        /\ resync => up' = Sent(up, tab[t].link, f)
    BY <1>0, <1>3 DEF RecvInit, Receives, Frame
  <2>2. f \in UpFrames /\ f.type = "update" /\ f.ops = missing
    <3>1. missing \in SUBSET Ops
      BY <1>0 DEF TabRecs
    <3> QED BY <3>1 DEF UpFrames
  <2> HIDE DEF m, f, resync, d
  <2>3. tab'[t].doc = d
    BY <1>0, <2>1 DEF TabTypes, TabRecs
  <2>4. op \in D \/ op \in m.ops
    BY <2>3 DEF Doc, d
  <2>5. CASE op \in m.ops
    BY <2>1, <2>5 DEF m, Content
  <2>6. CASE op \in D /\ op \notin m.ops
    <3>1. CASE resync
      BY <1>2, <2>1, <2>2, <2>6, <3>1
    <3>2. CASE ~resync
      BY <2>6, <3>2 DEF resync, Synced, Doc
    <3> QED BY <3>1, <3>2
  <2> QED BY <2>4, <2>5, <2>6
<1>4. SUFFICES ASSUME ~RecvInit(t) PROVE Grown
  BY <1>3
<1>5. ASSUME conn'[c].pc = "read", NoInitAfter(c, 0)' PROVE conn[c].pc = "read" /\ NoInitAfter(c, 0)
  <2>1. conn[c].pc = "read" /\ ~SendInit(c)
    <3>1. Live(c)'
      BY <1>0, <1>5 DEF Live, Loaded
    <3>2. conn[c].pc = "read"
      BY <1>1, <1>5, <3>1, StillRead
    <3> QED BY <3>2, InitIs
  <2>2. CASE Took(c)
    <3>1. Head(down[c]).type # "init"
      BY <1>0, <1>4, <2>2 DEF Took, Takes, RecvUpdate, RecvCommit, RecvSeed, Receives
    <3>2. Head(down[c]) = down[c][1]
      BY <2>2, TookIs
    <3> QED BY <1>5, <2>1, <2>2, <3>1, <3>2, TookIs
  <2>3. ASSUME NEW f \in DownFrames, Told(c, f) PROVE NoInitAfter(c, 0)
    BY <1>5, <2>3, ToldIs
  <2>4. down'[c] = down[c] => NoInitAfter(c, 0)
    BY <1>5 DEF NoInitAfter
  <2> QED BY <1>1, <2>1, <2>2, <2>3, <2>4 DEF DownMoves
<1>6. tab'[t].inited = tab[t].inited /\ (tab[t].dirty => tab'[t].dirty) => Synced(c)
  BY <1>5 DEF Synced
<1>7. CASE tab'[t] = tab[t]
  BY <1>6, <1>7 DEF Doc
<1>8. CASE Commit(t)
  <2>1. tab'[t].doc = tab[t].doc
    BY <1>0, <1>8 DEF Commit, TabTypes, TabRecs
  <2>2. ~AwaitsInit(c)
    BY <1>0, <1>8 DEF Commit, HistTypes
  <2>3. Len(down[c]) \in Nat /\ DOMAIN down[c] = 1..Len(down[c])
    <3>1. down[c] \in Seq(DownFrames)
      BY DEF FrameTypes
    <3> QED BY <3>1, LenProperties
  <2>4. Synced(c)
    BY <1>0, <2>2, <2>3 DEF AwaitsInit, Synced, NoInitAfter
  <2> QED BY <2>1, <2>4 DEF Doc
<1>9. ASSUME NEW e \in Edits, Type(t, e) PROVE Grown
  <2> DEFINE f == [type |-> "update", ops |-> {Ins(e, e)}]
             d == tab[t].doc \cup {Ins(e, e)}
  <2>1. f \in UpFrames /\ f.type = "update"
    BY DocTypes DEF UpFrames
  <2>2. tab' = [tab EXCEPT ![t].doc = d, ![t].dirty = TRUE] /\ up' = Sent(up, tab[t].link, f)
    BY <1>0, <1>9 DEF Type
  <2>3. f.ops = {Ins(e, e)}
    OBVIOUS
  <2> HIDE DEF d, f
  <2>4. tab'[t].doc = d /\ tab'[t].inited = tab[t].inited /\ tab'[t].dirty
    BY <1>0, <2>2 DEF TabTypes, TabRecs
  <2>5. op \in tab[t].doc \/ op \in f.ops
    BY <2>3, <2>4 DEF Doc, d
  <2> QED BY <1>2, <1>6, <2>1, <2>2, <2>4, <2>5 DEF Doc
<1>10. CASE SeedEffect(t)
  <2>1. PICK value \in {tab[t].loaded, body} : SeedsWith(t, value)
    BY <1>10 DEF SeedEffect
  <2> DEFINE ops == SetBody(tab[t].doc, tab[t].seed, value)
             d == tab[t].doc \cup ops
             f == [type |-> "update", ops |-> ops]
  <2>2. f \in UpFrames /\ f.type = "update" /\ f.ops = ops
    <3>1. tab[t].seed \in Conns /\ value \in SUBSET Texts /\ tab[t].doc \in SUBSET Ops
      BY <1>0, <1>10 DEF SeedEffect, TabRecs, StoreTypes
    <3>2. ops \in SUBSET Ops
      BY <3>1, DocTypes
    <3> QED BY <3>2 DEF UpFrames
  <2>3. tab' = [tab EXCEPT ![t].seeded = TRUE, ![t].doc = d]
        /\ (ops # {} => up' = Sent(up, tab[t].link, f))
    BY <1>0, <2>1 DEF SeedsWith
  <2> HIDE DEF d, ops, f
  <2>4. tab'[t].doc = d /\ tab'[t].inited = tab[t].inited /\ tab'[t].dirty = tab[t].dirty
    BY <1>0, <2>3 DEF TabTypes, TabRecs
  <2>5. op \in tab[t].doc \/ op \in ops
    BY <2>4 DEF Doc, d
  <2> QED BY <1>2, <1>6, <2>2, <2>3, <2>4, <2>5 DEF Doc
<1>11. CASE RecvUpdate(t)
  <2> DEFINE m == Head(down[c])
             n == Later(tab[t].lastSeq, m.seq)
             d == tab[t].doc \cup m.ops
  <2>1. down[c] # <<>> /\ m.type = "update" /\ tab' = [tab EXCEPT ![t].doc = d, ![t].lastSeq = n]
    BY <1>0, <1>11 DEF RecvUpdate, Receives, Frame
  <2> HIDE DEF d, m, n
  <2>2. tab'[t].doc = d /\ tab'[t].inited = tab[t].inited /\ tab'[t].dirty = tab[t].dirty
    BY <1>0, <2>1 DEF TabTypes, TabRecs
  <2>3. op \in tab[t].doc \/ op \in m.ops
    BY <2>2 DEF Doc, d
  <2> QED BY <1>6, <2>1, <2>2, <2>3 DEF Doc, m, Content
<1>12. CASE RecvCommit(t) \/ RecvSeed(t)
  <2>1. \E n : tab' = [tab EXCEPT ![t].lastSeq = n] \/ tab' = [tab EXCEPT ![t].seed = n]
    BY <1>12 DEF RecvCommit, RecvSeed
  <2>2. tab'[t].doc = tab[t].doc /\ tab'[t].inited = tab[t].inited /\ tab'[t].dirty = tab[t].dirty
    BY <1>0, <2>1 DEF TabTypes, TabRecs
  <2> QED BY <1>6, <2>2 DEF Doc
<1>13. ASSUME NEW u \in Tabs, u # t, Works(u) PROVE tab'[t] = tab[t]
  BY <1>0, <1>13, TakenIs, SpokenIs DEF Works
<1>14. ASSUME NEW u \in Tabs, NEW d \in Conns, Dial(u, d) PROVE tab'[t] = tab[t]
  <2>1. t # u /\ \E r : tab' = [tab EXCEPT ![u] = r]
    BY <1>0, <1>14 DEF Dial
  <2> QED BY <1>0, <2>1 DEF TabTypes
<1>15. ASSUME NEW u \in Tabs, RecvReset(u) \/ TabCloses(u) PROVE tab'[t] = tab[t]
  <2>1. u # t
    <3>1. CASE RecvReset(u)
      BY <1>0, <1>1, <3>1 DEF RecvReset, FreshTab, TabTypes
    <3>2. CASE TabCloses(u)
      BY <1>0, <3>2 DEF TabCloses
    <3> QED BY <1>15, <3>1, <3>2
  <2> QED BY <1>0, <1>15, <2>1 DEF RecvReset, TabCloses, TabTypes
<1>16. ASSUME NEW d \in Conns, ConnStep(d) \/ HangUp(d) \/ Lose(d) PROVE UNCHANGED tab
  BY <1>16 DEF ConnStep, JoinRoom, Load, ClaimSeed, SendInit, HandleUpdate, HandleCommit, ReadEnds,
               RemoveSession, HangUp, Lose
<1>17. CASE ResetStep \/ Restart \/ UNCHANGED vars \/ \E w \in Writes : ResetFences(w)
  <2>1. UNCHANGED tab
    BY <1>17 DEF ResetStep, ResetWrites, ResetClears, ResetAnnounces, ResetFences, Restart, vars
  <2> QED BY <1>7, <2>1
<1>18. ASSUME NEW u \in Tabs, Works(u) PROVE Grown
  <2>1. CASE u # t
    BY <1>7, <1>13, <1>18, <2>1
  <2>2. CASE u = t
    BY <1>4, <1>8, <1>9, <1>10, <1>11, <1>12, <1>18, <2>2 DEF Works
  <2> QED BY <2>1, <2>2
<1> HIDE DEF Grown, t
<1> QED
  BY <1>7, <1>14, <1>15, <1>16, <1>17, <1>18 DEF Next, TabStep, Works

(* What is sent is waiting to be read.                                     *)
LEMMA SentIsPending ==
    ASSUME Types, NEW c \in Conns, NEW f \in UpFrames, up'[c] = Append(up[c], f),
           f.type = "update", NEW op \in f.ops
    PROVE  Pending(c, op, Len(up[c]))'
<1>1. /\ Len(up[c]) \in Nat /\ Len(up'[c]) = Len(up[c]) + 1
      /\ up'[c][Len(up[c]) + 1] = f
  BY Longer DEF Types, FrameTypes
<1>2. Len(up[c]) + 1 \in 1..Len(up'[c]) /\ Len(up[c]) + 1 <= Len(up'[c])
  BY <1>1
<1> QED BY <1>1, <1>2 DEF Pending

(* Only a restart and the last step of a reset end its half-done state.    *)
LEMMA SettledAgain == Types /\ [Next]_vars /\ ~Settled /\ Settled' => Restart \/ ResetAnnounces
<1> SUFFICES ASSUME Types, [Next]_vars, rst.pc = "cleared", rst'.pc # "cleared" PROVE Restart \/ ResetAnnounces
  BY DEF Settled
<1>1. ASSUME NEW c \in Conns, ConnStep(c) \/ HangUp(c) \/ Lose(c) PROVE UNCHANGED rst
  BY <1>1 DEF ConnStep, JoinRoom, Load, ClaimSeed, SendInit, HandleUpdate, HandleCommit, ReadEnds,
              RemoveSession, HangUp, Lose
<1>2. ASSUME NEW t \in Tabs, TabStep(t) \/ Commit(t) \/ \E e \in Edits : Type(t, e) PROVE UNCHANGED rst
  BY <1>2 DEF TabStep, Dial, RecvInit, RecvUpdate, RecvCommit, RecvSeed, SeedEffect, RecvReset,
              TabCloses, Commit, Type
<1>3. ~ResetWrites /\ ~ResetClears /\ \A w \in Writes : ~ResetFences(w)
  BY DEF ResetWrites, ResetClears, ResetFences
<1> QED BY <1>1, <1>2, <1>3 DEF Next, ResetStep, vars

(* A tab that comes to a new connection with text holds it as unsynced.    *)
LEMMA DialledIsUnsynced ==
    ASSUME Types, NEW c \in Conns, Dial(TabOf[c], c), ~hist'.unsent, conn'[c].pc = "got", Synced(c)'
    PROVE  Doc(c)' = {}
<1> USE DEF Types
<1> DEFINE t == TabOf[c]
<1>1. t \in Tabs /\ tab[t] \in TabRecs
  BY ConstantTypes DEF TabTypes
<1>2. tab' = [tab EXCEPT ![t].link = c]
  <2>1. conn' # [conn EXCEPT ![c] = GoneConn]
    BY DEF GoneConn, NewConn, ConnTypes
  <2> QED BY <2>1 DEF Dial
<1>3. /\ tab'[t].inited = tab[t].inited /\ tab'[t].dirty = tab[t].dirty
      /\ tab'[t].doc = tab[t].doc
  BY <1>1, <1>2 DEF TabTypes, TabRecs
<1>4. tab[t].inited \/ tab[t].dirty \/ tab[t].doc = {}
  BY <1>1, DialHist
<1> QED BY <1>3, <1>4 DEF Synced, Doc

(* Every step keeps it: what an editor holds came from the room or was sent *)
(* to it, so its snapshot adds nothing to the log that its peers were not  *)
(* sent (handleCommit, applyReplay, onReset).                              *)
LEMMA NextCatch ==
    Types /\ Types' /\ Fresh /\ OneRoom /\ ReplayInv /\ ReplayInv' /\ CatchInv /\ [Next]_vars => CatchInv'
<1> SUFFICES ASSUME Types, Types', Fresh, OneRoom, ReplayInv, ReplayInv', CatchInv, [Next]_vars, Quiet'
             PROVE  ReplayKnown' /\ \A c \in Conns : Caught(c)'
  BY DEF CatchInv
<1>1. /\ Calm /\ Calm' /\ ~hist'.early /\ ~hist'.unsent
      /\ Shape /\ StoreCounted /\ ReplayKeepsEdits' /\ LogMoves
      /\ ReplayKnown /\ \A c \in Conns : Caught(c)
  <2>1. Calm' /\ ~hist'.unsent /\ Calm /\ Quiet
    BY NextCalm DEF Quiet, Calm
  <2> QED BY <2>1, NextLog DEF Calm, CatchInv, ReplayInv, Counted, Whole
<1>2. ASSUME NEW c \in Conns
      PROVE  /\ ConnMoves(c) /\ TabMoves(c) /\ UpMoves(c) /\ DownMoves(c) /\ Links(c)
             /\ NoFirstCommit(c) /\ GotSent(c) /\ DocSent(c) /\ CommitSent(c) /\ FramesKnown(c)
  BY <1>1, NextConn, NextTab, NextUp, NextDown DEF Shape, Caught
<1>3. ASSUME NEW c \in Conns
      PROVE  /\ up[c] \in Seq(UpFrames) /\ down[c] \in Seq(DownFrames)
             /\ Len(up[c]) \in Nat /\ Len(down[c]) \in Nat
  <2>1. up[c] \in Seq(UpFrames) /\ down[c] \in Seq(DownFrames)
    BY DEF Types, FrameTypes
  <2> QED BY <2>1, LenProperties
<1>4. ASSUME Settled', NEW c \in Conns, Sits(c)' \/ Writable(c)'
      PROVE  /\ Settled /\ ~Restart /\ ~ResetAnnounces
             /\ JoinRoom(c) \/ (Sits(c)' => Sits(c) /\ Writable(c) /\ Linked(c) /\ Linked(c)')
             /\ JoinRoom(c) \/ (Writable(c)' => Writable(c))
  <2>1. Settled /\ ~Restart /\ ~ResetAnnounces
    BY <1>1, <1>4, NobodyLeft, SettledAgain
  <2>2. ASSUME ~JoinRoom(c), Sits(c)' PROVE Sits(c) /\ Linked(c) /\ Linked(c)'
    <3>1. /\ conn[c].sock = "open" /\ conn[c].pc \in Seated /\ ~conn[c].stale
      BY <1>2, <2>2, StillLinked DEF Sits, Seated, Loaded, ConnMoves
    <3> QED BY <2>2, <3>1 DEF Sits, Linked, Seated, Loaded
  <2>3. Sits(c) => Writable(c)
    BY <1>2 DEF Sits, Links, Writable
  <2>4. ~JoinRoom(c) /\ Writable(c)' => Writable(c)
    BY <1>2 DEF Writable, ConnMoves
  <2> QED BY <2>1, <2>2, <2>3, <2>4
<1>5. ASSUME Settled, Settled', ~Restart
      PROVE  /\ Room \subseteq Room'
             /\ hist.gaps \subseteq hist'.gaps /\ hist.accepted \subseteq hist'.accepted
             /\ \A op \in LoadReplay'.ops :
                   op \in LoadReplay.ops \cup hist'.gaps \/ \E a \in hist'.accepted : a.op = op
  BY <1>1, <1>2, <1>5, RoomGrows
<1>6. ASSUME NEW c \in Conns, JoinRoom(c)
      PROVE  /\ UNCHANGED <<up, down, tab, store>> /\ conn[c].pc = "got" /\ conn'[c].pc = "joined"
             /\ conn'[c].sock = conn[c].sock
  BY <1>6 DEF JoinRoom, Types, ConnTypes, ConnRecs
<1>7. ASSUME NEW c \in Conns PROVE NoFirstCommit(c)'
  <2> SUFFICES ASSUME conn'[c].pc \in {"new", "got"}, NEW i \in 1..Len(up'[c]) PROVE up'[c][i].type # "commit"
    BY DEF NoFirstCommit
  <2>1. conn[c].pc \in {"new", "got"}
    <3>1. ASSUME JoinRoom(c) \/ Load(c) \/ ClaimSeed(c) \/ SendInit(c) PROVE conn'[c].pc \notin {"new", "got"}
      BY <3>1 DEF JoinRoom, Load, ClaimSeed, SendInit, Types, ConnTypes, ConnRecs
    <3> QED BY <1>2, <3>1 DEF ConnMoves
  <2>2. \A j \in 1..Len(up[c]) : up[c][j].type # "commit"
    BY <1>2, <2>1 DEF NoFirstCommit
  <2>3. ~HandleUpdate(c) /\ ~HandleCommit(c)
    BY <2>1 DEF HandleUpdate, HandleCommit, Reads
  <2>4. ASSUME NEW f \in UpFrames, up'[c] = Append(up[c], f), Says(c, f) PROVE up'[c][i].type # "commit"
    <3>1. (i \in 1..Len(up[c]) /\ up'[c][i] = up[c][i]) \/ up'[c][i] = f
      BY <1>3, <2>4, Longer
    <3>2. f.type # "commit"
      BY <1>1, <2>1, <2>4 DEF Says
    <3> QED BY <2>2, <3>1, <3>2
  <2>5. CASE up'[c] = up[c] \/ up'[c] = <<>>
    BY <2>2, <2>5
  <2> QED BY <1>2, <2>3, <2>4, <2>5 DEF UpMoves
<1>8. ASSUME NEW c \in Conns PROVE GotSent(c)'
  <2> SUFFICES ASSUME conn'[c].sock = "open", conn'[c].pc = "got", Synced(c)', NEW op \in Doc(c)'
               PROVE  Pending(c, op, Len(up[c]))'
    BY DEF GotSent
  <2>1. Linked(c)' /\ (Linked(c) \/ conn[c].pc = "new") /\ conn[c].pc \in {"new", "got"} /\ conn[c].sock = "open"
    BY <1>2, StillLinked DEF Linked
  <2>2. CASE conn[c].pc = "new"
    <3>1. Dial(TabOf[c], c)
      <4>1. ~JoinRoom(c) /\ ~Load(c) /\ ~ClaimSeed(c) /\ ~SendInit(c)
        BY <2>2 DEF JoinRoom, Load, ClaimSeed, SendInit
      <4> QED BY <1>2, <2>2, <4>1 DEF ConnMoves
    <3> QED BY <1>1, <3>1, DialledIsUnsynced
  <2>3. CASE conn[c].pc = "got"
    <3>1. Linked(c) /\ down[c] = <<>>
      BY <1>2, <2>1, <2>3 DEF Links
    <3>2. (op \in Doc(c) /\ Synced(c))
          \/ \E f \in UpFrames : up'[c] = Append(up[c], f) /\ f.type = "update" /\ op \in f.ops
      BY <1>1, <2>1, <3>1, DocMoves
    <3>3. op \in Doc(c) /\ Synced(c) => Pending(c, op, Len(up[c]))
      BY <1>2, <2>1, <2>3 DEF GotSent
    <3> QED BY <1>1, <1>2, <2>1, <2>3, <3>2, <3>3, PendingStays, SentIsPending
  <2> QED BY <2>1, <2>2, <2>3
<1>9. ASSUME NEW c \in Conns PROVE DocSent(c)'
  <2> SUFFICES ASSUME Settled', Sits(c)', Synced(c)', NEW op \in Doc(c)'
               PROVE  op \in Room' \/ Pending(c, op, Len(up[c]))'
    BY DEF DocSent
  <2>1. CASE JoinRoom(c)
    <3>1. op \in Doc(c) /\ Synced(c) /\ conn[c].sock = "open"
      BY <1>6, <2>1 DEF Synced, Doc, Sits
    <3>2. Pending(c, op, Len(up[c]))
      BY <1>2, <1>6, <2>1, <3>1 DEF GotSent
    <3> QED BY <1>6, <2>1, <3>2 DEF Pending
  <2>2. CASE ~JoinRoom(c)
    <3>1. Settled /\ ~Restart /\ Sits(c) /\ Writable(c) /\ Linked(c) /\ Linked(c)'
      BY <1>4, <2>2
    <3>2. CASE op \in Doc(c) /\ Synced(c)
      <4>1. op \in Room \/ Pending(c, op, Len(up[c]))
        BY <1>2, <3>1, <3>2 DEF DocSent
      <4> QED BY <1>1, <1>2, <1>5, <3>1, <4>1, PendingStays
    <3>3. CASE down[c] # <<>> /\ Head(down[c]).type \in Content /\ op \in Head(down[c]).ops
      <4>1. 1 \in 1..Len(down[c]) /\ Head(down[c]) = down[c][1]
        BY <1>3, <3>3, Shorter
      <4>2. op \in Room
        BY <1>2, <3>1, <3>3, <4>1 DEF FramesKnown
      <4> QED BY <1>5, <3>1, <4>2
    <3>4. ASSUME NEW f \in UpFrames, up'[c] = Append(up[c], f), f.type = "update", op \in f.ops
          PROVE  Pending(c, op, Len(up[c]))'
      BY <3>4, SentIsPending
    <3> QED BY <1>1, <3>1, <3>2, <3>3, <3>4, DocMoves
  <2> QED BY <2>1, <2>2
<1>10. ASSUME NEW c \in Conns PROVE CommitSent(c)'
  <2> SUFFICES ASSUME Settled', Writable(c)', NEW i \in 1..Len(up'[c]), up'[c][i].type = "commit",
                      NEW op \in up'[c][i].ops
               PROVE  op \in Room' \/ Pending(c, op, i)'
    BY DEF CommitSent
  <2>1. ~JoinRoom(c)
    BY <1>2, <1>6 DEF NoFirstCommit
  <2>2. Settled /\ ~Restart /\ Writable(c)
    BY <1>4, <2>1
  <2>3. Room \subseteq Room'
    BY <1>5, <2>2
  <2>4. ASSUME NEW j \in 1..Len(up[c]), up'[c][i] = up[c][j],
               Pending(c, op, j) => op \in Room' \/ Pending(c, op, i)'
        PROVE  op \in Room' \/ Pending(c, op, i)'
    <3>1. op \in Room \/ Pending(c, op, j)
      BY <1>2, <2>2, <2>4 DEF CommitSent
    <3> QED BY <2>3, <2>4, <3>1
  <2>5. ASSUME Says(c, up'[c][i]), Pending(c, op, Len(up[c])) => Pending(c, op, i)'
        PROVE  op \in Room' \/ Pending(c, op, i)'
    <3>1. /\ conn[c].sock = "open" /\ conn[c].pc = "read" /\ NoInitAfter(c, 0)
          /\ op \in Doc(c)
      BY <1>1, <2>5 DEF Says
    <3>2. Sits(c) /\ Synced(c)
      BY <2>2, <3>1 DEF Sits, Synced, Writable, Seated, Loaded
    <3>3. op \in Room \/ Pending(c, op, Len(up[c]))
      BY <1>2, <2>2, <3>1, <3>2 DEF DocSent
    <3> QED BY <2>3, <2>5, <3>3
  <2>6. \/ \E j \in 1..Len(up[c]) :
              up'[c][i] = up[c][j] /\ (Pending(c, op, j) => op \in Room' \/ Pending(c, op, i)')
        \/ Says(c, up'[c][i]) /\ (Pending(c, op, Len(up[c])) => Pending(c, op, i)')
    BY <1>1, <1>2, <2>2, PendingStays
  <2> QED BY <2>4, <2>5, <2>6
<1>11. ASSUME NEW c \in Conns PROVE FramesKnown(c)'
  <2> SUFFICES ASSUME Settled', Sits(c)'
               PROVE  /\ \A i \in 1..Len(down'[c]) : down'[c][i].type \in Content => down'[c][i].ops \subseteq Room'
                      /\ conn'[c].pc \in Loaded \ {"read"} => conn'[c].replay.ops \subseteq Room'
    BY DEF FramesKnown
  <2>1. CASE JoinRoom(c)
    <3>1. down'[c] = <<>>
      BY <1>2, <1>6, <2>1 DEF Links
    <3> QED BY <1>6, <2>1, <3>1 DEF Loaded
  <2>2. CASE ~JoinRoom(c)
    <3>1. Settled /\ ~Restart /\ Sits(c) /\ Linked(c)'
      BY <1>4, <2>2
    <3>2. Room \subseteq Room'
      BY <1>5, <3>1
    <3>3. /\ \A i \in 1..Len(down[c]) : down[c][i].type \in Content => down[c][i].ops \subseteq Room'
          /\ conn[c].pc \in Loaded \ {"read"} => conn[c].replay.ops \subseteq Room'
      BY <1>2, <3>1, <3>2 DEF FramesKnown
    <3>4. ASSUME NEW i \in 1..Len(down'[c]), down'[c][i].type \in Content PROVE down'[c][i].ops \subseteq Room'
      <4>1. CASE down'[c] = down[c] \/ down'[c] = <<>>
        BY <3>3, <3>4, <4>1
      <4>2. CASE Took(c)
        <5>1. i + 1 \in 1..Len(down[c]) /\ down'[c][i] = down[c][i + 1]
          BY <4>2, TookIs
        <5> QED BY <3>3, <3>4, <5>1
      <4>3. ASSUME NEW f \in DownFrames, Told(c, f) PROVE down'[c][i].ops \subseteq Room'
        <5>1. (i \in 1..Len(down[c]) /\ down'[c][i] = down[c][i]) \/ down'[c][i] = f
          BY <4>3, ToldIs
        <5>2. f.type \in Content => f.ops \subseteq Room'
          BY <1>1, <4>3, RelayedIsKnown DEF Told, Content
        <5> QED BY <3>3, <3>4, <5>1, <5>2
      <4>4. CASE SendInit(c) /\ conn[c].sock = "open"
        <5>1. \/ i \in 1..Len(down[c]) /\ down'[c][i] = down[c][i]
              \/ down'[c][i].ops = conn[c].replay.ops
              \/ down'[c][i].type = "seed"
          BY <1>3, <4>4, InitIs
        <5>2. conn[c].pc \in Loaded \ {"read"}
          BY <4>4 DEF SendInit, Loaded
        <5> QED BY <3>3, <3>4, <5>1, <5>2 DEF Content
      <4>5. SendInit(c) /\ conn[c].sock # "open" => down'[c] = down[c]
        BY InitIs
      <4> QED BY <1>2, <4>1, <4>2, <4>3, <4>4, <4>5 DEF DownMoves
    <3>5. ASSUME conn'[c].pc \in Loaded \ {"read"} PROVE conn'[c].replay.ops \subseteq Room'
      <4>1. CASE Load(c)
        <5> DEFINE r == LoadReplay
        <5>1. conn' = [conn EXCEPT ![c].pc = "loaded", ![c].replay = r]
          BY <4>1 DEF Load
        <5>2. r.ops \subseteq Room
          BY DEF Room
        <5> HIDE DEF r
        <5>3. conn'[c].replay = r
          BY <5>1 DEF Types, ConnTypes, ConnRecs
        <5> QED BY <3>2, <5>2, <5>3
      <4>2. CASE ~Load(c)
        <5>1. conn[c].pc \in Loaded \ {"read"} /\ ~SendInit(c)
          <6>1. ~SendInit(c)
            BY <3>5, InitIs
          <6>2. Live(c)
            BY <1>2, <3>1, <3>5, <4>2, StillLinked DEF Sits, Live, Loaded
          <6>3. conn[c].pc # "read"
            BY <1>2, <3>5, <6>2, StillLinked DEF Live, Loaded, Sits
          <6> QED BY <6>1, <6>2, <6>3 DEF Live
        <5>2. conn'[c].replay = conn[c].replay
          BY <1>2, <4>2, <5>1 DEF ConnMoves, Sits
        <5> QED BY <3>3, <5>1, <5>2
      <4> QED BY <4>1, <4>2
    <3> QED BY <3>4, <3>5
  <2> QED BY <2>1, <2>2
<1>12. ReplayKnown'
  <2> SUFFICES ASSUME Settled', NEW op \in LoadReplay'.ops
               PROVE  op \in hist'.gaps \/ (\E a \in hist'.accepted : a.op = op) \/ Old(op)'
    BY DEF ReplayKnown
  <2>1. CASE Restart \/ ResetAnnounces
    BY <1>1, <2>1, NobodyLeft DEF Old
  <2>2. CASE ~Restart /\ ~ResetAnnounces
    <3>1. Settled
      BY <2>2, SettledAgain
    <3>2. CASE op \in LoadReplay.ops
      <4>1. op \in hist.gaps \/ (\E a \in hist.accepted : a.op = op) \/ Old(op)
        BY <1>1, <3>1, <3>2 DEF ReplayKnown
      <4>2. Old(op) => Old(op)'
        BY <1>1, <1>2, <3>2, OldStays
      <4> QED BY <1>5, <2>2, <3>1, <4>1, <4>2
    <3> QED BY <1>5, <2>2, <3>1, <3>2
  <2> QED BY <2>1, <2>2
<1> QED BY <1>7, <1>8, <1>9, <1>10, <1>11, <1>12 DEF Caught

(* In a room that was never opened there is nothing to catch up with.      *)
LEMMA InitCatch == Init => CatchInv
<1> SUFFICES ASSUME Init PROVE CatchInv
  OBVIOUS
<1>1. /\ \A c \in Conns : conn[c] = NewConn /\ up[c] = <<>>
      /\ store.snap = {} /\ store.incs = {}
  BY ConstantTypes DEF Init, EmptyStore
<1>2. NewConn.pc = "new" /\ ~NewConn.member
  BY DEF NewConn
<1>3. ASSUME NEW c \in Conns PROVE Caught(c)
  BY <1>1, <1>2 DEF Caught, NoFirstCommit, GotSent, DocSent, CommitSent, FramesKnown, Sits, Writable,
                    Seated, Loaded
<1>4. LoadReplay.ops = {}
  BY <1>1 DEF LoadReplay
<1> QED BY <1>3, <1>4 DEF CatchInv, ReplayKnown

(* An open editor with nothing on its way holds what a replay brings.      *)
LEMMA CatchIs == Types /\ ReplayInv /\ CatchInv => OpenEditorsCatchUp
<1> SUFFICES ASSUME Types, ReplayInv, CatchInv, NEW t \in Tabs, tab[t].link # None,
                    down[tab[t].link] = <<>>, rst.pc = "idle", ~hist.split, ~hist.early, ~hist.unsent,
                    conn[tab[t].link].pc = "read", ~conn[tab[t].link].stale, conn[tab[t].link].sock = "open",
                    NEW op \in LoadReplay.ops
             PROVE  op \in tab[t].doc \cup hist.gaps
  BY DEF OpenEditorsCatchUp
<1> DEFINE c == tab[t].link
<1>1. c \in Conns /\ TabOf[c] = t /\ Len(down[c]) = 0
  BY DEF Types, TabTypes, TabRecs
<1>2. /\ Settled /\ Live(c) /\ Knows(c) /\ ReplayKnown
  <2>1. Calm /\ Quiet /\ Settled /\ Live(c)
    BY DEF Calm, Quiet, Settled, Live, Loaded
  <2> QED BY <1>1, <2>1 DEF ReplayInv, Whole, CatchInv
<1>3. \A i \in 1..Len(down[c]) : FALSE
  BY <1>1
<1>4. CASE \E a \in hist.accepted : a.op = op
  <2>1. Has(c, op, Len(down[c]))
    BY <1>2, <1>4 DEF Knows, AllComing
  <2> QED BY <1>1, <1>3, <2>1 DEF Has, Doc
<1>5. CASE Old(op)
  <2>1. HasReplay(c, op)
    BY <1>1, <1>2, <1>5 DEF Old
  <2> QED BY <1>1, <1>3, <2>1 DEF HasReplay, Doc
<1> QED BY <1>2, <1>4, <1>5 DEF ReplayKnown

(* In the same runs every open editor past its replay, with no frame on its *)
(* way, holds whatever the store would replay, but for what a snapshot has  *)
(* hidden: joining before loading leaves no gap between the replay and the  *)
(* relayed updates, and nothing comes to the store by a commit that was not *)
(* sent to everybody (ServeHTTP, sendInit, broadcast, handleCommit,         *)
(* applyReplay), as long as no tab takes unsent text to a new connection.   *)
THEOREM EditorsCatchUp == Spec /\ []Fresh => []OpenEditorsCatchUp
<1>1. Init => ReplayInv /\ CatchInv
  BY InitReplay, InitCatch
<1>2. Types /\ Types' /\ Fresh /\ BodyInv /\ ReplayInv /\ CatchInv /\ [Next]_vars => ReplayInv' /\ CatchInv'
  BY NextReplay, NextCatch DEF BodyInv
<1>3. Types /\ ReplayInv /\ CatchInv => OpenEditorsCatchUp
  BY CatchIs
<1> QED BY <1>1, <1>2, <1>3, TypesHold, SyncHolds, PTL DEF Spec

(* So over the memory store, and over the SQL log until the first reset, an *)
(* open editor lacks nothing that a newcomer would be sent                  *)
(* (MemoryStore.AppendUpdate, CollabRepo.AppendUpdate).                     *)
THEOREM MemoryEditorsCatchUp == ASSUME ~Durable \/ Writes = {} PROVE Spec => []OpenEditorsCatchUp
  BY EditorsCatchUp, NumbersAreFresh, PTL
=============================================================================
