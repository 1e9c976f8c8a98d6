---------------------------- MODULE CollabRoom ----------------------------
(***************************************************************************)
(* The live room of one document (internal/collab): browser tabs type into *)
(* a CRDT, the server relays and stores their updates, keeps the newest    *)
(* snapshot, replays the stored state to joiners, picks one editor to load *)
(* the body into an empty room, and resets the room on a server-side       *)
(* write.                                                                  *)
(*                                                                         *)
(* A CRDT document is the set of the operations it holds, and merging is   *)
(* union.  An insertion names its author and its text; a deletion names    *)
(* the insertion it hides.                                                 *)
(***************************************************************************)
EXTENDS Naturals, Sequences, FiniteSets

CONSTANTS
    Tabs,           \* browser tabs that show the document
    Editors,        \* the tabs that join with mode=edit; the others only view
    Conns,          \* connections, numbered; each is used once
    TabOf,          \* the tab that dials a connection
    Edits,          \* texts that people type, each once
    TypedAt,        \* the tab in which a text is typed
    Writes,         \* bodies that server-side writes set, each once
    FirstBody,      \* the texts of the body before the room is first opened
    Durable,        \* TRUE: CollabRepo (SQL).  FALSE: MemoryStore
    MaxSessions,    \* bound on the sessions a hub creates
    MaxDrops,       \* bound on lost sockets and dropped peers
    MaxStoreErrs,   \* bound on failed store and body writes
    MaxRestarts,    \* bound on restarts of the server
    None

ASSUME CollabRoomAssumption ==
    /\ Editors \subseteq Tabs
    /\ Conns \subseteq Nat \ {0}
    /\ TabOf \in [Conns -> Tabs]
    /\ TypedAt \in [Edits -> Editors]
    /\ Durable \in BOOLEAN
    /\ {MaxSessions, MaxDrops, MaxStoreErrs, MaxRestarts} \subseteq Nat
    /\ None \notin Conns \cup Writes \cup Nat

VARIABLES
    store,      \* [rowid, last, snap, incs]: the update log of the document
    body,       \* the canonical body, as the set of its texts
    hub,        \* [room, made, resets]: Hub.sessions, sessions made so far, Hub.resets
    sess,       \* session -> [hasState, seeder, resetSeq, lastBody]
    conn,       \* connection -> its server side: [pc, sess, member, stale, sock, replay]
    up,         \* connection -> frames from the tab that the server has not read
    down,       \* connection -> frames for the tab (send buffer and wire)
    tab,        \* tab -> its provider: [link, inited, lastSeq, dirty, doc, seed, seeded, loaded]
    rst,        \* [pc, sess, seq, write]: a Hub.Reset under way
    typed,      \* texts typed or written so far
    faults,     \* [drops, errs, restarts]
    hist        \* history, guards nothing: see HistInit

vars == <<store, body, hub, sess, conn, up, down, tab, rst, typed, faults, hist>>

Sessions == 1..MaxSessions

-----------------------------------------------------------------------------
(* Documents *)

Ins(author, text) == [kind |-> "ins", by |-> author, text |-> text]

Hidden(op) == [op EXCEPT !.kind = "del"]

Shown(doc) == {op \in doc : op.kind = "ins" /\ Hidden(op) \notin doc}

Text(doc) == {op.text : op \in Shown(doc)}

(* What setContent(value) does to a bound document: the editor binding     *)
(* keeps the nodes that are equal, deletes the others and inserts the rest.*)
SetBody(doc, author, value) ==
    {Hidden(op) : op \in {o \in Shown(doc) : o.text \notin value}}
        \cup {Ins(author, x) : x \in value \ Text(doc)}

-----------------------------------------------------------------------------
(* The store *)

NextSeq == 1 + (IF Durable THEN store.rowid ELSE store.last)

(* AppendUpdate: the SQL log numbers rows with one global counter and sets *)
(* last_seq to the number it got, the memory store counts per room.        *)
Append1(st, seq) == [st EXCEPT !.rowid = seq, !.last = seq]
\* Mutant: an update replaces the ones before it.
AppendUpdateReplaces(ops) ==
    [Append1(store, NextSeq) EXCEPT !.incs = {[seq |-> NextSeq, ops |-> ops]}]


AppendUpdate(ops) ==
    [Append1(store, NextSeq) EXCEPT !.incs = @ \cup {[seq |-> NextSeq, ops |-> ops]}]

(* AppendUpdate of a snapshot, and TrimUpdates.  The memory store drops    *)
(* every increment; the SQL log trims those the author had seen.           *)
AppendSnapshot(ops, base) ==
    [Append1(store, NextSeq) EXCEPT
        !.snap = {[seq |-> NextSeq, ops |-> ops]},
        !.incs = IF Durable THEN {u \in @ : u.seq > base} ELSE {}]

LoadReplay ==
    LET after == {u \in store.incs : \A s \in store.snap : u.seq > s.seq}
    IN  [ops |-> UNION {u.ops : u \in store.snap \cup after},
         any |-> store.snap # {} \/ after # {},
         seq |-> store.last]

(* Reset deletes the log and bumps last_seq; the SQL row counter stays.    *)
StoreReset == [store EXCEPT !.last = @ + 1, !.snap = {}, !.incs = {}]

EmptyStore == [rowid |-> 0, last |-> 0, snap |-> {}, incs |-> {}]

-----------------------------------------------------------------------------
(* Initial state: a document with a body whose room was never opened.      *)

NoReplay == [ops |-> {}, any |-> FALSE, seq |-> 0]

FreshSession(resets) ==
    [hasState |-> FALSE, seeder |-> None, resetSeq |-> resets, lastBody |-> {}]

NewConn == [pc |-> "new", sess |-> None, member |-> FALSE, stale |-> FALSE,
            sock |-> "open", replay |-> NoReplay]

GoneConn == [NewConn EXCEPT !.pc = "gone", !.sock = "hung"]

FreshTab(loaded) ==
    [link |-> None, inited |-> FALSE, lastSeq |-> 0, dirty |-> FALSE,
     doc |-> {}, seed |-> None, seeded |-> FALSE, loaded |-> loaded]

(* accepted: stored operations with their seq, since the last reset;       *)
(* gaps: operations that a later replay may lack: hidden by a snapshot     *)
(* whose author had not seen them, or relayed without being stored;        *)
(* early: a tab committed before its replay, so what it typed before it    *)
(* was connected is in a snapshot and was not sent as an update;           *)
(* unsent: a tab dialled again with text in it, but neither a replay nor   *)
(* an edit of its own, so applyReplay will not send what the server lacks; *)
(* split: two sessions of the document had participants;                   *)
(* unsynced: a failed step, or a reset that had no session to fence, left  *)
(* body and log apart;                                                     *)
(* wrote: the body of the last fenced reset that ran to its end.           *)
HistInit == [accepted |-> {}, gaps |-> {}, early |-> FALSE, unsent |-> FALSE,
             split |-> FALSE, unsynced |-> FALSE, wrote |-> None]

Init ==
    /\ store = EmptyStore
    /\ body = FirstBody
    /\ hub = [room |-> None, made |-> 0, resets |-> 0]
    /\ sess = [s \in Sessions |-> FreshSession(0)]
    /\ conn = [c \in Conns |-> NewConn]
    /\ up = [c \in Conns |-> <<>>]
    /\ down = [c \in Conns |-> <<>>]
    /\ tab = [t \in Tabs |-> FreshTab(FirstBody)]
    /\ rst = [pc |-> "idle", sess |-> None, seq |-> 0, write |-> None]
    /\ typed = {}
    /\ faults = [drops |-> 0, errs |-> 0, restarts |-> 0]
    /\ hist = HistInit

-----------------------------------------------------------------------------
(* Sockets.  A frame written to a socket that is no longer open is gone.   *)

Sent(q, c, frame) == IF conn[c].sock = "open" THEN [q EXCEPT ![c] = Append(@, frame)] ELSE q

SentAll(q, cs, frame) ==
    [c \in Conns |-> IF c \in cs /\ conn[c].sock = "open" THEN Append(q[c], frame) ELSE q[c]]

Members(s) == {c \in Conns : conn[c].member /\ conn[c].sess = s}

\* Mutant: Reset does not take writeMu.
WriteMuIgnored(s) == TRUE

(* writeMu of a session is held by a reset from its fence to its end.      *)
WriteMuFree(s) == rst.pc = "idle" \/ rst.sess # s

Fail == faults.errs < MaxStoreErrs /\ faults' = [faults EXCEPT !.errs = @ + 1]

-----------------------------------------------------------------------------
(* Joining *)

(* connect, handleOpen and ServeHTTP up to Hub.session.  A rejoin names the *)
(* last seq it saw; the server answers one that missed a reset with a reset *)
(* frame and closes, and the tab starts over.  Hub.session makes a session  *)
(* when there is none.  missedReset and Hub.session take Hub.mu one after   *)
(* the other: a reset that comes between them has the effect of one that    *)
(* comes before JoinRoom.                                                   *)
Dial(t, c) ==
    /\ tab[t].link = None
    /\ TabOf[c] = t /\ conn[c].pc = "new"
    /\ \A d \in Conns : TabOf[d] = t /\ d < c => conn[d].pc # "new"
    /\ IF tab[t].inited /\ tab[t].lastSeq < hub.resets
       THEN /\ tab' = [tab EXCEPT ![t] = FreshTab(body)]
            /\ conn' = [conn EXCEPT ![c] = GoneConn]
            /\ UNCHANGED <<hub, sess>>
       ELSE LET make == hub.room = None
                s == IF make THEN hub.made + 1 ELSE hub.room
            IN  /\ s \in Sessions
                /\ tab' = [tab EXCEPT ![t].link = c]
                /\ conn' = [conn EXCEPT ![c].pc = "got", ![c].sess = s]
                /\ hub' = [hub EXCEPT !.room = s, !.made = IF make THEN s ELSE @]
                /\ sess' = IF make THEN [sess EXCEPT ![s] = FreshSession(hub.resets)] ELSE sess
    /\ hist' = [hist EXCEPT !.unsent = @ \/ (tab[t].doc # {} /\ ~tab[t].inited /\ ~tab[t].dirty)]
    /\ UNCHANGED <<store, body, up, down, rst, typed, faults>>

(* session.join: by now the session may have been removed from the hub.    *)
JoinRoom(c) ==
    /\ conn[c].pc = "got"
    /\ conn' = [conn EXCEPT ![c].pc = "joined", ![c].member = TRUE]
    /\ hist' = [hist EXCEPT !.split = @ \/ conn[c].sess # hub.room]
    /\ UNCHANGED <<store, body, hub, sess, up, down, tab, rst, typed, faults>>

(* sendInit's LoadReplay, outside the session's lock.                      *)
Load(c) ==
    /\ conn[c].pc = "joined"
    /\ conn' = [conn EXCEPT ![c].pc = "loaded", ![c].replay = LoadReplay]
    /\ UNCHANGED <<store, body, hub, sess, up, down, tab, rst, typed, faults, hist>>

(* claimSeed *)
MayClaim(s, c) ==
    /\ ~sess[s].hasState
    /\ TabOf[c] \in Editors
    /\ c \in Members(s) /\ ~conn[c].stale

(* sendInit under the session's lock: note the state, claim the seed.      *)
ClaimSeed(c) ==
    LET s == conn[c].sess
        any == conn[c].replay.any
        seed == MayClaim(s, c) /\ ~any /\ sess[s].seeder = None
    IN  /\ conn[c].pc = "loaded"
        /\ sess' = [sess EXCEPT ![s].hasState = @ \/ any,
                                ![s].seeder = IF seed THEN c ELSE @]
        /\ conn' = [conn EXCEPT ![c].pc = IF seed THEN "seeds" ELSE "claimed"]
        /\ UNCHANGED <<store, body, hub, up, down, tab, rst, typed, faults, hist>>

(* sendInit's frames, outside the lock: peers' frames may overtake them.   *)
SendInit(c) ==
    LET r == conn[c].replay
        init == Sent(down, c, [type |-> "init", ops |-> r.ops, seq |-> r.seq])
    IN  /\ conn[c].pc \in {"seeds", "claimed"}
        /\ down' = IF conn[c].pc = "seeds" /\ conn[c].sock = "open"
                   THEN [init EXCEPT ![c] = Append(@, [type |-> "seed"])] ELSE init
        /\ conn' = [conn EXCEPT ![c].pc = "read", ![c].replay.ops = {}]
        /\ UNCHANGED <<store, body, hub, sess, up, tab, rst, typed, faults, hist>>

-----------------------------------------------------------------------------
(* Reading a tab's frames: one at a time, each whole under writeMu.        *)

(* writable: editors that are members and joined after the last reset.     *)
Writable(c) == TabOf[c] \in Editors /\ conn[c].member /\ ~conn[c].stale

Reads(c, type) ==
    /\ conn[c].pc = "read" /\ conn[c].sock # "hung"
    /\ up[c] # <<>> /\ Head(up[c]).type = type
    /\ WriteMuFree(conn[c].sess)
    /\ up' = [up EXCEPT ![c] = Tail(@)]

Refused == UNCHANGED <<store, body, sess, down, faults, hist>>
\* Mutant: relays only to peers whose replay was sent.
OthersPastInit(c) == {d \in Members(conn[c].sess) \ {c} : conn[d].pc = "read"}


Others(c) == Members(conn[c].sess) \ {c}

(* handleUpdate: store and relay; an update that cannot be stored is only  *)
(* relayed, with seq 0.                                                    *)
StoreAndRelay(c, ops) ==
    /\ store' = AppendUpdate(ops)
    /\ down' = SentAll(down, Others(c), [type |-> "update", ops |-> ops, seq |-> NextSeq])
    /\ hist' = [hist EXCEPT !.accepted = @ \cup {[op |-> op, seq |-> NextSeq] : op \in ops}]
    /\ UNCHANGED faults

RelayUnstored(c, ops) ==
    /\ Fail
    /\ down' = SentAll(down, Others(c), [type |-> "update", ops |-> ops, seq |-> 0])
    /\ hist' = [hist EXCEPT !.gaps = @ \cup ops]
    /\ UNCHANGED store

HandleUpdate(c) ==
    LET ops == Head(up[c]).ops
    IN  /\ Reads(c, "update")
        /\ IF Writable(c)
           THEN /\ StoreAndRelay(c, ops) \/ RelayUnstored(c, ops)
                /\ sess' = [sess EXCEPT ![conn[c].sess].hasState = TRUE]
                /\ UNCHANGED body
           ELSE Refused
        /\ UNCHANGED <<hub, conn, tab, rst, typed>>

(* handleCommit: a snapshot is appended, seen increments are trimmed, the  *)
(* body is written unless it is the one written last, peers learn the seq. *)
Snapshots(c, m) ==
    LET s == conn[c].sess
        text == Text(m.ops)
        new == text \notin {{}, sess[s].lastBody}  \* an empty body is skipped
    IN  /\ store' = AppendSnapshot(m.ops, m.base)
        /\ sess' = [sess EXCEPT ![s].hasState = TRUE, ![s].lastBody = IF new THEN text ELSE @]
        /\ down' = SentAll(down, Others(c), [type |-> "commit", seq |-> NextSeq])
        /\ \/ /\ body' = IF new THEN text ELSE body
              /\ hist' = [hist EXCEPT
                    !.gaps = @ \cup {a.op : a \in {b \in hist.accepted :
                                                    b.seq > m.base /\ b.op \notin m.ops}},
                    !.unsynced = IF new THEN FALSE ELSE @]
              /\ UNCHANGED faults
           \/ /\ new /\ Fail      \* CommitCollab fails: logged, never retried
              /\ hist' = [hist EXCEPT
                    !.gaps = @ \cup {a.op : a \in {b \in hist.accepted :
                                                    b.seq > m.base /\ b.op \notin m.ops}},
                    !.unsynced = TRUE]
              /\ UNCHANGED body

\* Mutant: the body is written although its snapshot was not stored.
SnapshotFailsOn(m) == Fail /\ body' = Text(m.ops) /\ UNCHANGED <<store, sess, down, hist>>

SnapshotFails(m) == Fail /\ UNCHANGED <<store, body, sess, down, hist>>

HandleCommit(c) ==
    LET m == Head(up[c])
    IN  /\ Reads(c, "commit")
        /\ IF Writable(c) /\ m.base >= sess[conn[c].sess].resetSeq
           THEN Snapshots(c, m) \/ SnapshotFails(m)
           ELSE Refused
        /\ UNCHANGED <<hub, conn, tab, rst, typed>>

-----------------------------------------------------------------------------
(* Leaving *)

\* Mutant: a peer that leaves stays in the session's clients.
LeaveKeepsClient(c, pc, sock) ==
    /\ conn' = [conn EXCEPT ![c].pc = pc, ![c].sock = sock]
    /\ UNCHANGED <<sess, down>>

\* Mutant: the seed of a peer that leaves is not handed on.
LeaveKeepsSeed(c, pc, sock) ==
    /\ conn' = [conn EXCEPT ![c].member = FALSE, ![c].pc = pc, ![c].sock = sock]
    /\ UNCHANGED <<sess, down>>

(* session.leave: the seed of an empty room passes to any eligible peer.   *)
Leave(c, pc, sock) ==
    LET s == conn[c].sess
        heirs == {d \in Conns \ {c} : MayClaim(s, d)}
    IN  /\ conn' = [conn EXCEPT ![c].member = FALSE, ![c].pc = pc, ![c].sock = sock]
        /\ IF conn[c].member /\ sess[s].seeder = c
           THEN \E n \in IF heirs = {} THEN {None} ELSE heirs :
                    /\ sess' = [sess EXCEPT ![s].seeder = n]
                    /\ down' = IF n = None THEN down ELSE Sent(down, n, [type |-> "seed"])
           ELSE UNCHANGED <<sess, down>>

(* A peer whose buffer is full is dropped by a broadcast (any frame, the    *)
(* presence frames left out here included), or its pump fails to write.     *)
HangUp(c) ==
    /\ conn[c].member /\ conn[c].sock = "open"
    /\ faults.drops < MaxDrops
    /\ faults' = [faults EXCEPT !.drops = @ + 1]
    /\ Leave(c, conn[c].pc, "hung")
    /\ UNCHANGED <<store, body, hub, up, tab, rst, typed, hist>>

(* The read loop ends, or sendInit failed to load the replay.              *)
ReadEnds(c) ==
    /\ \/ conn[c].pc = "read" /\ conn[c].sock # "open" /\ UNCHANGED faults
       \/ conn[c].pc = "joined" /\ Fail
    /\ Leave(c, "left", IF conn[c].sock = "open" THEN "hung" ELSE conn[c].sock)
    /\ UNCHANGED <<store, body, hub, up, tab, rst, typed, hist>>

(* endSittingIfUnattended (which takes writeMu) and removeSession, which    *)
(* looks at the session the hub holds now.                                  *)
RemoveSession(c) ==
    /\ conn[c].pc = "left"
    /\ WriteMuFree(conn[c].sess)
    /\ conn' = [conn EXCEPT ![c] = GoneConn]
    /\ up' = [up EXCEPT ![c] = <<>>]
    /\ hub' = [hub EXCEPT !.room = IF @ # None /\ Members(@) = {} THEN None ELSE @]
    /\ UNCHANGED <<store, body, sess, down, tab, rst, typed, faults, hist>>

-----------------------------------------------------------------------------
(* Tabs *)

(* A keystroke: relayed at once when connected, else left to the resync.   *)
Type(t, e) ==
    LET op == Ins(e, e)
        c == tab[t].link
    IN  /\ TypedAt[e] = t /\ e \notin typed
        /\ typed' = typed \cup {e}
        /\ tab' = [tab EXCEPT ![t].doc = @ \cup {op}, ![t].dirty = TRUE]
        /\ up' = IF c = None THEN up ELSE Sent(up, c, [type |-> "update", ops |-> {op}])
        /\ UNCHANGED <<store, body, hub, sess, conn, down, rst, faults, hist>>

(* The server will read what c sends now, and its replay has yet to come.  *)
AwaitsInit(c) ==
    /\ conn[c].sock = "open"
    /\ \/ conn[c].pc # "read"
       \/ \E i \in DOMAIN down[c] : down[c][i].type = "init"

(* The commit timer, or Save.                                              *)
Commit(t) ==
    /\ tab[t].link # None /\ tab[t].dirty
    /\ up' = Sent(up, tab[t].link,
                  [type |-> "commit", ops |-> tab[t].doc, base |-> tab[t].lastSeq])
    /\ tab' = [tab EXCEPT ![t].dirty = FALSE]
    /\ hist' = [hist EXCEPT !.early = @ \/ AwaitsInit(tab[t].link)]
    /\ UNCHANGED <<store, body, hub, sess, conn, down, rst, typed, faults>>

Receives(t, type) ==
    /\ tab[t].link # None
    /\ down[tab[t].link] # <<>> /\ Head(down[tab[t].link]).type = type

Taken(t) == [down EXCEPT ![tab[t].link] = Tail(@)]

Frame(t) == Head(down[tab[t].link])

(* applyReplay: a rejoin, or a tab with unsaved edits, sends what the      *)
(* server lacks.                                                           *)
RecvInit(t) ==
    LET m == Frame(t)
        missing == tab[t].doc \ m.ops
        resync == (tab[t].inited \/ tab[t].dirty) /\ missing # {}
    IN  /\ Receives(t, "init")
        /\ down' = Taken(t)
        /\ tab' = [tab EXCEPT ![t].inited = TRUE, ![t].lastSeq = m.seq,
                              ![t].doc = @ \cup m.ops, ![t].dirty = @ \/ resync]
        /\ up' = IF resync THEN Sent(up, tab[t].link, [type |-> "update", ops |-> missing]) ELSE up
        /\ UNCHANGED <<store, body, hub, sess, conn, rst, typed, faults, hist>>

Later(a, b) == IF a > b THEN a ELSE b
\* Mutant: notes the seq of an update without applying it.
RecvUpdateUnapplied(t) ==
    /\ Receives(t, "update")
    /\ down' = Taken(t)
    /\ tab' = [tab EXCEPT ![t].lastSeq = Later(@, Frame(t).seq)]
    /\ UNCHANGED <<store, body, hub, sess, conn, up, rst, typed, faults, hist>>


RecvUpdate(t) ==
    /\ Receives(t, "update")
    /\ down' = Taken(t)
    /\ tab' = [tab EXCEPT ![t].doc = @ \cup Frame(t).ops,
                          ![t].lastSeq = Later(@, Frame(t).seq)]
    /\ UNCHANGED <<store, body, hub, sess, conn, up, rst, typed, faults, hist>>

RecvCommit(t) ==
    /\ Receives(t, "commit")
    /\ down' = Taken(t)
    /\ tab' = [tab EXCEPT ![t].lastSeq = Later(@, Frame(t).seq)]
    /\ UNCHANGED <<store, body, hub, sess, conn, up, rst, typed, faults, hist>>

(* onSeed, and the editor's seeding effect: the body the tab has fetched is *)
(* loaded once per provider, when it is not empty.                          *)
SeedsWith(t, value) ==
    LET ops == SetBody(tab[t].doc, tab[t].seed, value)
        c == tab[t].link
    IN  /\ tab' = [tab EXCEPT ![t].seeded = TRUE, ![t].doc = @ \cup ops]
        /\ up' = IF c = None \/ ops = {} THEN up
                 ELSE Sent(up, c, [type |-> "update", ops |-> ops])

RecvSeed(t) ==
    /\ Receives(t, "seed")
    /\ down' = Taken(t)
    /\ tab' = [tab EXCEPT ![t].seed = tab[t].link]
    /\ UNCHANGED <<store, body, hub, sess, conn, up, rst, typed, faults, hist>>

(* The fetched body is the one from when the tab opened, or a newer one     *)
(* that doc.updated brought; the effect runs whenever that changes.         *)
SeedEffect(t) ==
    /\ tab[t].seed # None /\ ~tab[t].seeded
    /\ \E value \in {tab[t].loaded, body} \ {{}} : SeedsWith(t, value)
    /\ UNCHANGED <<store, body, hub, sess, conn, down, rst, typed, faults, hist>>

(* onReset: fetch the body, drop the provider and start over.  Its last     *)
(* flushCommit goes to a participant that is stale, so it never counts.     *)
RecvReset(t) ==
    LET c == tab[t].link
    IN  /\ Receives(t, "reset")
        /\ tab' = [tab EXCEPT ![t] = FreshTab(body)]
        /\ down' = [down EXCEPT ![c] = <<>>]
        /\ conn' = [conn EXCEPT ![c].sock = IF @ = "open" THEN "lost" ELSE @]
        /\ UNCHANGED <<store, body, hub, sess, up, rst, typed, faults, hist>>

(* The network loses a connection: what either end wrote before may still   *)
(* arrive, nothing written later does.                                      *)
Lose(c) ==
    /\ conn[c].pc \notin {"new", "gone"} /\ conn[c].sock = "open"
    /\ faults.drops < MaxDrops
    /\ faults' = [faults EXCEPT !.drops = @ + 1]
    /\ conn' = [conn EXCEPT ![c].sock = "lost"]
    /\ UNCHANGED <<store, body, hub, sess, up, down, tab, rst, typed, hist>>

(* onclose: the tab notices and will dial again.                           *)
TabCloses(t) ==
    LET c == tab[t].link
    IN  /\ c # None /\ conn[c].sock # "open"
        /\ tab' = [tab EXCEPT ![t].link = None]
        /\ down' = [down EXCEPT ![c] = <<>>]
        /\ UNCHANGED <<store, body, hub, sess, conn, up, rst, typed, faults, hist>>

-----------------------------------------------------------------------------
(* Hub.Reset: a server-side write, one step per lock, write or store call.  *)

ResetFences(w) ==
    /\ rst.pc = "idle" /\ w \in Writes \ typed
    /\ typed' = typed \cup {w}
    /\ rst' = [pc |-> "fenced", sess |-> hub.room, seq |-> 0, write |-> w]
    /\ hist' = [hist EXCEPT !.wrote = None]
    /\ UNCHANGED <<store, body, hub, sess, conn, up, down, tab, faults>>

(* The reset under way fenced the session that the hub still holds.        *)
Fenced == rst.sess = hub.room /\ rst.sess # None

ResetEnds == rst' = [rst EXCEPT !.pc = "idle"]

ResetWrites ==
    /\ rst.pc = "fenced"
    /\ \/ /\ body' = {rst.write}
          /\ rst' = [rst EXCEPT !.pc = "written"]
          /\ UNCHANGED faults
       \/ Fail /\ ResetEnds /\ UNCHANGED body
    /\ UNCHANGED <<store, hub, sess, conn, up, down, tab, typed, hist>>
\* Mutant: Store.Reset forgets the room's counter with its state.
ResetClearsCounter ==
    /\ rst.pc = "written"
    /\ store' = EmptyStore
    /\ rst' = [rst EXCEPT !.pc = "cleared", !.seq = StoreReset.last]
    /\ hist' = [hist EXCEPT !.accepted = {}, !.gaps = {}, !.unsynced = FALSE]
    /\ UNCHANGED <<body, hub, sess, conn, up, down, tab, typed, faults>>


ResetClears ==
    /\ rst.pc = "written"
    /\ \/ /\ store' = StoreReset
          /\ rst' = [rst EXCEPT !.pc = "cleared", !.seq = StoreReset.last]
          /\ hist' = [hist EXCEPT !.accepted = {}, !.gaps = {},
                                  !.unsynced = FALSE]
          /\ UNCHANGED faults
       \/ /\ Fail /\ ResetEnds
          /\ hist' = [hist EXCEPT !.unsynced = TRUE]
          /\ UNCHANGED store
    /\ UNCHANGED <<body, hub, sess, conn, up, down, tab, typed>>

(* resets is set and session.reset turns the participants of the session    *)
(* that the hub holds now stale.                                            *)
ResetAnnounces ==
    LET s == hub.room
    IN  /\ rst.pc = "cleared"
        /\ hub' = [hub EXCEPT !.resets = rst.seq]
        /\ IF s = None
           THEN UNCHANGED <<sess, conn, down>>
           ELSE /\ sess' = [sess EXCEPT ![s] = FreshSession(rst.seq)]
                /\ conn' = [c \in Conns |-> IF c \in Members(s)
                                            THEN [conn[c] EXCEPT !.stale = TRUE] ELSE conn[c]]
                /\ down' = SentAll(down, Members(s), [type |-> "reset"])
        /\ ResetEnds
        /\ hist' = [hist EXCEPT !.wrote = IF Fenced THEN rst.write ELSE None,
                                !.unsynced = @ \/ ~Fenced]
        /\ UNCHANGED <<store, body, up, tab, typed, faults>>

(* The process stops at any point.  Hub.resets is lost and so is a memory   *)
(* store; tabs keep what they hold.                                         *)
Restart ==
    /\ faults.restarts < MaxRestarts
    /\ faults' = [faults EXCEPT !.restarts = @ + 1]
    /\ store' = IF Durable THEN store ELSE EmptyStore
    /\ hub' = [hub EXCEPT !.room = None, !.resets = 0]
    /\ conn' = [c \in Conns |-> IF conn[c].pc = "new" THEN conn[c] ELSE GoneConn]
    /\ up' = [c \in Conns |-> <<>>]
    /\ ResetEnds
    /\ hist' = [hist EXCEPT
                  !.accepted = IF Durable THEN @ ELSE {},
                  !.gaps = IF Durable THEN @ ELSE {},
                  !.wrote = None,
                  !.unsynced = @ \/ rst.pc = "written" \/ (rst.pc = "cleared" /\ ~Fenced)]
    /\ UNCHANGED <<body, sess, down, tab, typed>>

-----------------------------------------------------------------------------
ConnStep(c) ==
    \/ JoinRoom(c) \/ Load(c) \/ ClaimSeed(c) \/ SendInit(c)
    \/ HandleUpdate(c) \/ HandleCommit(c)
    \/ ReadEnds(c) \/ RemoveSession(c)

TabStep(t) ==
    \/ \E c \in Conns : Dial(t, c)
    \/ RecvInit(t) \/ RecvUpdate(t) \/ RecvCommit(t) \/ RecvSeed(t) \/ SeedEffect(t) \/ RecvReset(t)
    \/ TabCloses(t)

ResetStep == ResetWrites \/ ResetClears \/ ResetAnnounces

Next ==
    \/ \E c \in Conns : ConnStep(c) \/ HangUp(c) \/ Lose(c)
    \/ \E t \in Tabs : TabStep(t) \/ Commit(t) \/ \E e \in Edits : Type(t, e)
    \/ \E w \in Writes : ResetFences(w)
    \/ ResetStep
    \/ Restart

Spec == Init /\ [][Next]_vars
-----------------------------------------------------------------------------
(* Properties *)

Ops == [kind : {"ins", "del"}, by : Edits \cup Conns, text : Edits \cup Writes \cup FirstBody]

(* Types of the hub's, the store's, the connections' and the tabs' state.  *)
TypeOK ==
    /\ {store.rowid, store.last} \subseteq Nat
    /\ \A u \in store.snap \cup store.incs : u.seq \in Nat /\ u.ops \subseteq Ops
    /\ Cardinality(store.snap) <= 1
    /\ hub.room \in Sessions \cup {None} /\ hub.made \in 0..MaxSessions /\ hub.resets \in Nat
    /\ \A s \in Sessions :
          /\ sess[s].hasState \in BOOLEAN /\ sess[s].resetSeq \in Nat
          /\ sess[s].seeder \in Conns \cup {None}
    /\ \A c \in Conns :
          /\ conn[c].pc \in {"new", "got", "joined", "loaded", "claimed", "seeds", "read", "left", "gone"}
          /\ conn[c].sess \in Sessions \cup {None}
          /\ conn[c].sock \in {"open", "lost", "hung"}
          /\ conn[c].member => conn[c].pc \notin {"new", "got", "left", "gone"} /\ conn[c].sess \in Sessions
    /\ \A t \in Tabs :
          /\ tab[t].link \in {c \in Conns : TabOf[c] = t} \cup {None}
          /\ tab[t].lastSeq \in Nat /\ tab[t].doc \subseteq Ops
    /\ rst.pc \in {"idle", "fenced", "written", "cleared"}

(* A stored edit is in every later replay: the only way to lose it is a    *)
(* snapshot whose author had not received it (Store.TrimUpdates, the       *)
(* memory store's AppendUpdate), as long as the room has one session and   *)
(* nobody commits before its replay.                                       *)
ReplayKeepsEdits ==
    (~hist.split /\ ~hist.early) => {a.op : a \in hist.accepted} \subseteq LoadReplay.ops \cup hist.gaps

(* A participant past its replay and with no frame to come holds whatever  *)
(* the store would replay: joining before loading leaves no gap between    *)
(* the replay and the relayed updates (ServeHTTP, sendInit, broadcast).    *)
(* Exceptions: a commit sent before its author's replay, an edit that an   *)
(* older snapshot hid from the replay and a later one brings back, and     *)
(* text that a tab got before its first replay and took to a second        *)
(* connection, which is in its snapshots and was never relayed.            *)
OpenEditorsCatchUp ==
    \A t \in Tabs :
        LET c == tab[t].link
        IN  (/\ c # None /\ down[c] = <<>> /\ rst.pc = "idle"
             /\ ~hist.split /\ ~hist.early /\ ~hist.unsent
             /\ conn[c].pc = "read" /\ conn[c].member /\ ~conn[c].stale /\ conn[c].sock = "open")
            => LoadReplay.ops \subseteq tab[t].doc \cup hist.gaps

(* An empty room with an editor in it has a seeder that is still there     *)
(* (claimSeed, handOffSeed, session.reset).                                *)
RoomSeeded ==
    \A s \in Sessions :
        (\E c \in Conns : MayClaim(s, c) /\ conn[c].pc = "read")
            => sess[s].seeder \in Members(s)

(* Between resets the canonical body is the newest snapshot's text, unless *)
(* that text is empty (handleCommit skips it) or writing the body or       *)
(* clearing the store failed (handleCommit's dedupe, Hub.Reset's fence).   *)
BodyIsSnapshot ==
    (rst.pc = "idle" /\ ~hist.split /\ ~hist.unsynced)
        => \A snap \in store.snap : Text(snap.ops) \in {{}, body}

(* After a fenced reset the body is the server's write until a participant *)
(* that joined later commits: no commit of an open editor slips between    *)
(* the write and the reset (session.writeMu).                              *)
ServerWriteWins ==
    (hist.wrote # None /\ ~hist.split /\ store.snap = {}) => body = {hist.wrote}

(* A participant that is not stale was given a seq at or past its room's   *)
(* last reset, so handleCommit does not take its commits for older ones    *)
(* (Store.Reset, session.resetSeq).                                        *)
JoinedPastReset ==
    \A c \in Conns :
        (conn[c].member /\ ~conn[c].stale /\ conn[c].pc \in {"loaded", "claimed", "seeds", "read"})
            => conn[c].replay.seq >= sess[conn[c].sess].resetSeq
=============================================================================
