------------------------ MODULE AutomationDelivery ------------------------
(***************************************************************************)
(* Delivery of the event log to one automation over its dial-in            *)
(* connections: internal/automations/dialin.go (the server's handler),     *)
(* usecase.go (SetEnabled, SyncFromCode), workspace_state.go (archive and  *)
(* restore), the cursor and event-log repositories, and sdk/src/client.ts  *)
(* (the worker).  Automations share nothing but the log, so one of them is *)
(* modelled, with all the connections that ever carry it.                  *)
(*                                                                         *)
(* An event is its position (created_at, id) in the log's order.  Ids and  *)
(* timestamps are minted before the transaction commits, so positions can  *)
(* commit out of order.  Payloads, secrets, configuration, run logs, names *)
(* and tokens are left out: no step of delivery depends on them.           *)
(***************************************************************************)
EXTENDS Integers, Sequences, FiniteSets, FiniteSetsExt

CONSTANTS
    NEvents,      \* positions 1..NEvents of the log
    Foreign,      \* events of other workspaces or for members only (inScope)
    Codes,        \* versions of the automation's code
    Subs,         \* Subs[v]: the events on the topics version v announces
    Conns,        \* connection attempts, dialled in order
    BatchSize,    \* DialinConfig.BatchSize
    MaxLate,      \* bound: events committed behind a later position
    MaxCrashes,   \* bound: handlers that throw (run_crashed)
    MaxFaults,    \* bound: lost connections, restarts of the server and failed
                  \*        database calls of the dial-in handler, together
    MaxToggles    \* bound: SetEnabled calls, archives and restores, together

ASSUME AutomationAssumption ==
    /\ {NEvents, MaxLate, MaxCrashes, MaxFaults, MaxToggles} \subseteq Nat
    /\ BatchSize \in Nat \ {0}
    /\ Foreign \subseteq 1..NEvents
    /\ Subs \in [Codes -> SUBSET (1..NEvents)]
    /\ Conns \subseteq Nat \ {0}
    /\ Codes \subseteq Nat \ {0}

Events == 1..NEvents
NoConn == 0
NoRow == -1
NoCode == 0

VARIABLES
    log,       \* committed outbox rows
    rec,       \* the automation's row: [enabled, code]
    archived,  \* its workspace's archived flag, joined in by Repo.Get
    cursor,    \* automation_cursors row, or NoRow
    reg,       \* DialinHandler.conns[id], or NoConn
    conn,      \* handleConn of each connection: [st, code, saw, at]
    ws,        \* the connection's WebSocket is open on the server's side
    loop,      \* deliverLoop of each connection: [st, code, cur, batch, done]
    woken,     \* the Wake channel its deliverLoop holds is closed
    active,    \* automationConn.active: the event of the run in flight, or 0
    work,      \* the worker at the other end: [ev, out]
    admin,     \* a SetEnabled call: [st, to, code, at]
    wsq,       \* workspace.archived (TRUE) and restored (FALSE) to handle
    restore,   \* HandleWorkspaceRestored: [st, at]
    hist       \* history and counters, read by the properties and the bounds

vars == <<log, rec, archived, cursor, reg, conn, ws, loop, woken, active,
          work, admin, wsq, restore, hist>>

-----------------------------------------------------------------------------
(* State *)

NoConnState == [st |-> "none", code |-> NoCode,
                saw |-> [enabled |-> FALSE, runs |-> FALSE], at |-> 0]
NoLoop == [st |-> "off", code |-> NoCode, cur |-> 0,
           batch |-> {}, done |-> FALSE]
Idle == [ev |-> 0, out |-> "idle"]
NoSwitch == [st |-> "idle", to |-> FALSE, at |-> 0,
             code |-> NoCode]

(* A seeded default: switched on, its code not announced yet, no cursor.   *)
Init ==
    /\ log = {} /\ archived = FALSE /\ cursor = NoRow /\ reg = NoConn
    /\ rec = [enabled |-> TRUE, code |-> NoCode]
    /\ conn = [c \in Conns |-> NoConnState]
    /\ ws = [c \in Conns |-> FALSE]
    /\ loop = [c \in Conns |-> NoLoop]
    /\ woken = [c \in Conns |-> FALSE]
    /\ active = [c \in Conns |-> 0]
    /\ work = [c \in Conns |-> Idle]
    /\ admin = NoSwitch
    /\ wsq = <<>> /\ restore = [st |-> "idle", at |-> 0]
    /\ hist = [late |-> {}, skipped |-> {}, off |-> {}, ran |-> {},
               threw |-> {}, cut |-> {}, strayed |-> {},
               acked |-> [c \in Conns |-> {}],
               asked |-> TRUE, stale |-> FALSE, sentOff |-> FALSE,
               sentSkipped |-> FALSE, crashes |-> 0, faults |-> 0,
               errs |-> 0, toggles |-> 0]

Runs == rec.enabled /\ ~archived

Subscriptions(code) == IF code = NoCode THEN {} ELSE Subs[code]

(* A write transaction that commits closes the channel every loop waits on *)
(* (Serializer.WithTx, wake.Broadcast).                                    *)
Notify == woken' = [c \in Conns |-> loop[c].st # "off"]

(* Mutant: the upsert without its WHERE clause.                            *)
AdvanceBlindly(pos) == cursor' = pos

(* Only ever advances: SetAutomationCursor's WHERE clause.                 *)
Advance(pos) == cursor' = IF pos > cursor THEN pos ELSE cursor

(* An absent row reads as zero (AutomationCursorsRepo.Get).                *)
CursorRead == IF cursor = NoRow THEN 0 ELSE cursor

Latest == IF log = {} THEN 0 ELSE Max(log)

(* Mutant: ORDER BY ... DESC.                                              *)
AfterNewestFirst(code, cur) ==
    LET rows == {e \in log \cap Subscriptions(code) : e > cur}
    IN  {e \in rows : Cardinality({f \in rows : f > e}) < BatchSize}

(* The oldest rows on the topics strictly after the cursor, up to the      *)
(* batch size (ListOutboxAfterCursor).  A batch is served in log order, so *)
(* it is a set of positions whose least one comes next.                    *)
After(code, cur) ==
    LET rows == {e \in log \cap Subscriptions(code) : e > cur}
    IN  {e \in rows : Cardinality({f \in rows : f < e}) < BatchSize}

(* ws.CloseNow: what the worker had not got across is lost.                *)
Close(S) ==
    /\ ws' = [c \in Conns |-> ws[c] /\ c \notin S]
    /\ work' = [c \in Conns |-> IF c \in S THEN Idle ELSE work[c]]

Disconnect == Close({reg})

Fault == hist.faults < MaxFaults

Failed == Fault /\ hist' = [hist EXCEPT !.errs = @ + 1, !.faults = @ + 1]

-----------------------------------------------------------------------------
(* The log *)

Commit(e) ==
    /\ e \notin log
    /\ log' = log \cup {e}
    /\ LET late == e < Latest
       IN  /\ late => Cardinality(hist.late) < MaxLate
           /\ hist' = [hist EXCEPT !.late = IF late THEN @ \cup {e} ELSE @]
    /\ Notify
    /\ UNCHANGED <<rec, archived, cursor, reg, conn, ws, loop, active, work,
                   admin, wsq, restore>>

-----------------------------------------------------------------------------
(* handleConn: one goroutine per connection *)

(* The upgrade, and the registration that closes an older connection.      *)
Register(c, v) ==
    /\ conn[c].st = "none"
    /\ \A d \in Conns : d < c => conn[d].st # "none"
    /\ conn' = [conn EXCEPT ![c] = [@ EXCEPT !.st = "announce", !.code = v]]
    /\ ws' = [d \in Conns |-> d = c \/ (ws[d] /\ d # reg)]
    /\ work' = [d \in Conns |-> IF d = reg THEN Idle ELSE work[d]]
    /\ reg' = c
    /\ UNCHANGED <<log, rec, archived, cursor, loop, woken, active, admin,
                   wsq, restore, hist>>

(* Mutant: removeConn forgotten.                                           *)
LeaveRegistered(c) ==
    /\ conn' = [conn EXCEPT ![c] = [NoConnState EXCEPT !.st = "gone"]]
    /\ UNCHANGED reg

(* removeConn and cancel, the deferred calls of handleConn.                *)
Leave(c) ==
    /\ conn' = [conn EXCEPT ![c] = [NoConnState EXCEPT !.st = "gone"]]
    /\ reg' = IF reg = c THEN NoConn ELSE reg

(* The announce frame arrives and SyncFromCode reads the record.           *)
SyncReads(c) ==
    /\ conn[c].st = "announce" /\ ws[c]
    /\ conn' = [conn EXCEPT ![c].st =
                    IF conn[c].code = rec.code THEN "cursor" ELSE "sync",
                    ![c].saw = [enabled |-> rec.enabled, runs |-> Runs]]
    /\ UNCHANGED <<log, rec, archived, cursor, reg, ws, loop, woken, active,
                   work, admin, wsq, restore, hist>>

(* The connection closes before it announces.                              *)
AnnounceFails(c) ==
    /\ conn[c].st = "announce" /\ ~ws[c]
    /\ Leave(c)
    /\ UNCHANGED <<log, rec, archived, cursor, ws, loop, woken, active, work,
                   admin, wsq, restore, hist>>

(* SyncFromCode writes the whole record back: the announced code beside    *)
(* the switch as it was read.                                              *)
SyncWrites(c) ==
    /\ conn[c].st = "sync"
    /\ rec' = [enabled |-> conn[c].saw.enabled, code |-> conn[c].code]
    /\ hist' = [hist EXCEPT !.stale = @ \/ rec'.enabled # rec.enabled]
    /\ conn' = [conn EXCEPT ![c].st = "cursor"]
    /\ Notify
    /\ UNCHANGED <<log, archived, cursor, reg, ws, loop, active, work, admin,
                   wsq, restore>>

(* repo.Update fails: the announce is refused.                             *)
SyncFails(c) ==
    /\ conn[c].st = "sync"
    /\ Failed
    /\ Leave(c)
    /\ Close({c})
    /\ UNCHANGED <<log, rec, archived, cursor, loop, woken, active, admin, wsq,
                   restore>>

(* ensureCursor: a row is there, or its read fails and handleConn goes on. *)
EnsureCursor(c) ==
    /\ conn[c].st = "cursor"
    /\ \/ /\ conn' = [conn EXCEPT ![c].st =
                         IF cursor = NoRow THEN "latest" ELSE "hello"]
          /\ UNCHANGED hist
       \/ /\ Failed
          /\ conn' = [conn EXCEPT ![c].st = "hello"]
    /\ UNCHANGED <<log, rec, archived, cursor, reg, ws, loop, woken, active,
                   work, admin, wsq, restore>>

(* SkipBacklog of a first connection: read the newest position ...         *)
SkipReads(c) ==
    /\ conn[c].st = "latest"
    /\ conn' = [conn EXCEPT ![c].st = "skip", ![c].at = Latest]
    /\ UNCHANGED <<log, rec, archived, cursor, reg, ws, loop, woken, active,
                   work, admin, wsq, restore, hist>>

(* ... and set the cursor to it.                                           *)
SkipSets(c) ==
    /\ conn[c].st = "skip"
    /\ Advance(conn[c].at)
    /\ hist' = [hist EXCEPT !.skipped = @ \cup 1..conn[c].at]
    /\ conn' = [conn EXCEPT ![c].st = "hello", ![c].at = 0]
    /\ Notify
    /\ UNCHANGED <<log, rec, archived, reg, ws, loop, active, work, admin,
                   wsq, restore>>

(* The hello frame goes out; deliverLoop starts only if the automation ran *)
(* when SyncFromCode read it.                                              *)
Hello(c) ==
    /\ conn[c].st = "hello" /\ ws[c]
    /\ conn' = [conn EXCEPT ![c] = [NoConnState EXCEPT !.st = "reading"]]
    /\ loop' = [loop EXCEPT ![c].st = IF conn[c].saw.runs THEN "top" ELSE "off"]
    /\ UNCHANGED <<log, rec, archived, cursor, reg, ws, woken, active, work,
                   admin, wsq, restore, hist>>

HelloFails(c) ==
    /\ conn[c].st = "hello" /\ ~ws[c]
    /\ Leave(c)
    /\ UNCHANGED <<log, rec, archived, cursor, ws, loop, woken, active, work,
                   admin, wsq, restore, hist>>

-----------------------------------------------------------------------------
(* readLoop, in handleConn's goroutine *)

CloseDone(c) == loop' = [loop EXCEPT ![c].done = TRUE]

(* Mutant: close(done) before the cursor is set.                           *)
ReadFinishedReleases(c) ==
    /\ conn[c].st = "reading" /\ ws[c] /\ work[c].out = "finished"
    /\ conn' = [conn EXCEPT ![c].st = "recording", ![c].at = active[c]]
    /\ active' = [active EXCEPT ![c] = 0]
    /\ work' = [work EXCEPT ![c] = Idle]
    /\ hist' = [hist EXCEPT !.ran = @ \cup {active[c]}]
    /\ CloseDone(c)
    /\ Notify
    /\ UNCHANGED <<log, rec, archived, cursor, reg, ws, admin, wsq, restore>>

(* run_finished, success or failure: the run is detached and its report    *)
(* persisted (recordRun up to Runs.Create).                                *)
ReadFinished(c) ==
    /\ conn[c].st = "reading" /\ ws[c] /\ work[c].out = "finished"
    /\ conn' = [conn EXCEPT ![c].st = "recording", ![c].at = active[c]]
    /\ active' = [active EXCEPT ![c] = 0]
    /\ work' = [work EXCEPT ![c] = Idle]
    /\ hist' = [hist EXCEPT !.ran = @ \cup {active[c]}]
    /\ Notify
    /\ UNCHANGED <<log, rec, archived, cursor, reg, ws, loop, admin, wsq,
                   restore>>

(* recordRun's second half: the cursor, then close(done).                  *)
AdvanceCursor(c) ==
    /\ conn[c].st = "recording"
    /\ \/ /\ Advance(conn[c].at)
          /\ hist' = [hist EXCEPT !.acked[c] = @ \cup {conn[c].at}]
          /\ Notify
       \/ /\ Failed
          /\ UNCHANGED <<cursor, woken>>
    /\ conn' = [conn EXCEPT ![c].st = "reading", ![c].at = 0]
    /\ CloseDone(c)
    /\ UNCHANGED <<log, rec, archived, reg, ws, active, work, admin, wsq,
                   restore>>

(* run_crashed: the report is persisted and the cursor stays.              *)
ReadCrashed(c) ==
    /\ conn[c].st = "reading" /\ ws[c] /\ work[c].out = "crashed"
    /\ hist' = [hist EXCEPT !.threw = @ \cup {active[c]}]
    /\ active' = [active EXCEPT ![c] = 0]
    /\ work' = [work EXCEPT ![c] = Idle]
    /\ CloseDone(c)
    /\ Notify
    /\ UNCHANGED <<log, rec, archived, cursor, reg, conn, ws, admin, wsq,
                   restore>>

(* Mutant: the run cut off is recorded as a failure, which moves the       *)
(* cursor.                                                                 *)
ReadEndsAsFailure(c) ==
    /\ conn[c].st = "reading" /\ ~ws[c]
    /\ conn' = [conn EXCEPT ![c].st = "ended"]
    /\ IF active[c] = 0
       THEN UNCHANGED <<active, loop, woken, hist, cursor>>
       ELSE /\ active' = [active EXCEPT ![c] = 0]
            /\ hist' = [hist EXCEPT !.cut = @ \cup {active[c]}]
            /\ Advance(active[c])
            /\ CloseDone(c)
            /\ Notify
    /\ UNCHANGED <<log, rec, archived, reg, ws, work, admin, wsq, restore>>

(* The connection is gone: a run in flight is recorded as a crash.         *)
ReadEnds(c) ==
    /\ conn[c].st = "reading" /\ ~ws[c]
    /\ conn' = [conn EXCEPT ![c].st = "ended"]
    /\ IF active[c] = 0
       THEN UNCHANGED <<active, loop, woken, hist>>
       ELSE /\ active' = [active EXCEPT ![c] = 0]
            /\ hist' = [hist EXCEPT !.cut = @ \cup {active[c]}]
            /\ CloseDone(c)
            /\ Notify
    /\ UNCHANGED <<log, rec, archived, cursor, reg, ws, work, admin, wsq,
                   restore>>

HandlerReturns(c) ==
    /\ conn[c].st = "ended"
    /\ Leave(c)
    /\ UNCHANGED <<log, rec, archived, cursor, ws, loop, woken, active, work,
                   admin, wsq, restore, hist>>

-----------------------------------------------------------------------------
(* deliverLoop, beside it *)

CtxDone(c) == conn[c].st = "gone"

Goes(c, st) == loop' = [loop EXCEPT ![c].st = st]

Stops(c) == loop' = [loop EXCEPT ![c] = NoLoop]

(* Wake() and deliverPending's reads of the record and the cursor.         *)
Poll(c) ==
    /\ loop[c].st = "top" /\ ~CtxDone(c)
    /\ woken' = [woken EXCEPT ![c] = FALSE]
    /\ \/ /\ Runs /\ Subscriptions(rec.code) # {}
          /\ loop' = [loop EXCEPT ![c] = [@ EXCEPT !.st = "read",
                         !.code = rec.code, !.cur = CursorRead]]
          /\ UNCHANGED hist
       \/ /\ ~(Runs /\ Subscriptions(rec.code) # {})
          /\ Goes(c, "wait")
          /\ UNCHANGED hist
       \/ Failed /\ Goes(c, "wait")
    /\ UNCHANGED <<log, rec, archived, cursor, reg, conn, ws, active, work,
                   admin, wsq, restore>>

(* deliverPending's read of the log.                                       *)
ReadBatch(c) ==
    /\ loop[c].st = "read" /\ ~CtxDone(c)
    /\ loop' = [loop EXCEPT ![c].st = "batch",
                            ![c].batch = After(loop[c].code, loop[c].cur),
                            ![c].code = NoCode, ![c].cur = 0]
    /\ UNCHANGED <<log, rec, archived, cursor, reg, conn, ws, woken, active,
                   work, admin, wsq, restore, hist>>

(* Mutant: the channel is taken as the loop starts to wait.                *)
BatchEndsThenWake(c) ==
    /\ loop[c].st = "batch" /\ ~CtxDone(c)
    /\ loop[c].batch = {} \/ ~Runs
    /\ loop' = [loop EXCEPT ![c] = [NoLoop EXCEPT !.st = "wait"]]
    /\ woken' = [woken EXCEPT ![c] = FALSE]
    /\ UNCHANGED <<log, rec, archived, cursor, reg, conn, ws, active, work,
                   admin, wsq, restore, hist>>

(* deliverBatch: the batch is through, or the automation no longer runs.   *)
BatchEnds(c) ==
    /\ loop[c].st = "batch" /\ ~CtxDone(c)
    /\ loop[c].batch = {} \/ ~Runs
    /\ loop' = [loop EXCEPT ![c] = [NoLoop EXCEPT !.st = "wait"]]
    /\ UNCHANGED <<log, rec, archived, cursor, reg, conn, ws, woken, active,
                   work, admin, wsq, restore, hist>>

ComesNext(c, e) == \A f \in loop[c].batch : e <= f

(* deliverBatch: an event out of scope only moves the cursor.              *)
PassForeign(c) ==
    /\ loop[c].st = "batch" /\ ~CtxDone(c) /\ Runs
    /\ \E e \in loop[c].batch \cap Foreign :
          /\ ComesNext(c, e)
          /\ \/ /\ Advance(e)
                /\ loop' = [loop EXCEPT ![c].batch = @ \ {e}]
                /\ hist' = [hist EXCEPT !.strayed =
                       IF ws[c] THEN @ ELSE @ \cup hist.cut]
                /\ Notify
             \/ /\ Failed
                /\ loop' = [loop EXCEPT ![c] = [NoLoop EXCEPT !.st = "wait"]]
                /\ UNCHANGED <<cursor, woken>>
    /\ UNCHANGED <<log, rec, archived, reg, conn, ws, active, work, admin,
                   wsq, restore>>

(* deliverOne up to setActive.                                             *)
BeginRun(c) ==
    /\ loop[c].st = "batch" /\ ~CtxDone(c) /\ Runs
    /\ \E e \in loop[c].batch \ Foreign :
          /\ ComesNext(c, e)
          /\ active' = [active EXCEPT ![c] = e]
          /\ loop' = [loop EXCEPT ![c].st = "sending",
                ![c].batch = @ \ {e}, ![c].cur = e, ![c].done = FALSE]
    /\ UNCHANGED <<log, rec, archived, cursor, reg, conn, ws, woken, work,
                   admin, wsq, restore, hist>>

(* The event frame goes out.                                               *)
Send(c) ==
    /\ loop[c].st = "sending" /\ ws[c]
    /\ work' = [work EXCEPT ![c] = [ev |-> loop[c].cur, out |-> "running"]]
    /\ hist' = [hist EXCEPT
           !.sentOff = @ \/ (~hist.asked /\ admin.st = "idle" /\ ~hist.stale),
           !.sentSkipped = @ \/ (loop[c].cur \in hist.off /\ ~hist.stale)]
    /\ Goes(c, "await")
    /\ UNCHANGED <<log, rec, archived, cursor, reg, conn, ws, woken, active,
                   admin, wsq, restore>>

(* The write fails: the run is dropped unrecorded and the loop ends.       *)
SendFails(c) ==
    /\ loop[c].st = "sending" /\ ~ws[c]
    /\ active' = [active EXCEPT ![c] = 0]
    /\ Stops(c)
    /\ UNCHANGED <<log, rec, archived, cursor, reg, conn, ws, woken, work,
                   admin, wsq, restore, hist>>

RunResolved(c) ==
    /\ loop[c].st = "await" /\ loop[c].done
    /\ loop' = [loop EXCEPT ![c].st = "batch", ![c].done = FALSE, ![c].cur = 0]
    /\ UNCHANGED <<log, rec, archived, cursor, reg, conn, ws, woken, active,
                   work, admin, wsq, restore, hist>>

(* The wait ends with a commit or a fallback tick.                         *)
WakesUp(c) ==
    /\ loop[c].st = "wait" /\ ~CtxDone(c)
    /\ Goes(c, "top")
    /\ UNCHANGED <<log, rec, archived, cursor, reg, conn, ws, woken, active,
                   work, admin, wsq, restore, hist>>

(* The context is cancelled: every wait and every call of the loop fails.  *)
LoopStops(c) ==
    /\ loop[c].st \notin {"off", "sending"} /\ CtxDone(c)
    /\ Stops(c)
    /\ woken' = [woken EXCEPT ![c] = FALSE]
    /\ UNCHANGED <<log, rec, archived, cursor, reg, conn, ws, active, work,
                   admin, wsq, restore, hist>>

-----------------------------------------------------------------------------
(* The worker: runHandler of the SDK, and the network *)

WorkerFinishes(c) ==
    /\ work[c].out = "running"
    /\ work' = [work EXCEPT ![c].out = "finished"]
    /\ UNCHANGED <<log, rec, archived, cursor, reg, conn, ws, loop, woken,
                   active, admin, wsq, restore, hist>>

(* The handler throws, or no handler is registered for the topic.          *)
WorkerThrows(c) ==
    /\ work[c].out = "running" /\ hist.crashes < MaxCrashes
    /\ work' = [work EXCEPT ![c].out = "crashed"]
    /\ hist' = [hist EXCEPT !.crashes = @ + 1]
    /\ UNCHANGED <<log, rec, archived, cursor, reg, conn, ws, loop, woken,
                   active, admin, wsq, restore>>

Drop(c) ==
    /\ ws[c] /\ Fault
    /\ Close({c})
    /\ hist' = [hist EXCEPT !.faults = @ + 1]
    /\ UNCHANGED <<log, rec, archived, cursor, reg, conn, loop, woken, active,
                   admin, wsq, restore>>

-----------------------------------------------------------------------------
(* SetEnabled, one call at a time *)

(* getChecked; a call that changes nothing returns at once.                *)
SwitchBegins ==
    /\ admin.st = "idle" /\ hist.toggles < MaxToggles
    /\ admin' = [admin EXCEPT !.st = IF rec.enabled THEN "update" ELSE "latest",
                              !.to = ~rec.enabled, !.code = rec.code]
    /\ hist' = [hist EXCEPT !.toggles = @ + 1]
    /\ UNCHANGED <<log, rec, archived, cursor, reg, conn, ws, loop, woken,
                   active, work, wsq, restore>>

SwitchReadsLatest ==
    /\ admin.st = "latest"
    /\ admin' = [admin EXCEPT !.st = "skip", !.at = Latest]
    /\ UNCHANGED <<log, rec, archived, cursor, reg, conn, ws, loop, woken,
                   active, work, wsq, restore, hist>>

SwitchSkips ==
    /\ admin.st = "skip"
    /\ Advance(admin.at)
    /\ hist' = [hist EXCEPT !.skipped = @ \cup 1..admin.at,
                            !.off = @ \cup 1..admin.at]
    /\ admin' = [admin EXCEPT !.st = "update"]
    /\ Notify
    /\ UNCHANGED <<log, rec, archived, reg, conn, ws, loop, active, work, wsq,
                   restore>>

(* repo.Update writes the whole record: the switch beside the code as read.*)
SwitchUpdates ==
    /\ admin.st = "update"
    /\ rec' = [enabled |-> admin.to, code |-> admin.code]
    /\ hist' = [hist EXCEPT !.asked = admin.to]
    /\ admin' = [admin EXCEPT !.st = "drop"]
    /\ Notify
    /\ UNCHANGED <<log, archived, cursor, reg, conn, ws, loop, active, work,
                   wsq, restore>>

(* A read or a write of the call fails: it returns the error.              *)
SwitchFails ==
    /\ admin.st \in {"latest", "skip", "update"}
    /\ admin' = NoSwitch
    /\ UNCHANGED <<log, rec, archived, cursor, reg, conn, ws, loop, woken,
                   active, work, wsq, restore, hist>>

(* Mutant: the live connection is left alone.                              *)
SwitchKeepsConn ==
    /\ admin.st = "drop"
    /\ admin' = NoSwitch
    /\ UNCHANGED <<log, rec, archived, cursor, reg, conn, ws, loop, woken,
                   active, work, wsq, restore, hist>>

SwitchDisconnects ==
    /\ admin.st = "drop"
    /\ Disconnect
    /\ admin' = NoSwitch
    /\ UNCHANGED <<log, rec, archived, cursor, reg, conn, loop, woken, active,
                   wsq, restore, hist>>

-----------------------------------------------------------------------------
(* The workspace is archived and restored; the bus hands the events on *)

(* External: the workspaces service commits the flag with its event.       *)
ArchiveOrRestore ==
    /\ hist.toggles < MaxToggles
    /\ archived' = ~archived
    /\ wsq' = Append(wsq, archived')
    /\ hist' = [hist EXCEPT !.toggles = @ + 1]
    /\ Notify
    /\ UNCHANGED <<log, rec, cursor, reg, conn, ws, loop, active, work, admin,
                   restore>>

HandleWorkspaceArchived ==
    /\ wsq # <<>> /\ Head(wsq)
    /\ Disconnect
    /\ wsq' = Tail(wsq)
    /\ UNCHANGED <<log, rec, archived, cursor, reg, conn, loop, woken, active,
                   admin, restore, hist>>

RestoreReadsLatest ==
    /\ wsq # <<>> /\ ~Head(wsq) /\ restore.st = "idle"
    /\ restore' = [st |-> "skip", at |-> Latest]
    /\ UNCHANGED <<log, rec, archived, cursor, reg, conn, ws, loop, woken,
                   active, work, admin, wsq, hist>>

RestoreSkips ==
    /\ restore.st = "skip"
    /\ Advance(restore.at)
    /\ hist' = [hist EXCEPT !.skipped = @ \cup 1..restore.at]
    /\ restore' = [restore EXCEPT !.st = "drop"]
    /\ Notify
    /\ UNCHANGED <<log, rec, archived, reg, conn, ws, loop, active, work,
                   admin, wsq>>

RestoreDisconnects ==
    /\ restore.st = "drop"
    /\ Disconnect
    /\ restore' = [st |-> "idle", at |-> 0]
    /\ wsq' = Tail(wsq)
    /\ UNCHANGED <<log, rec, archived, cursor, reg, conn, loop, woken, active,
                   admin, hist>>

-----------------------------------------------------------------------------
(* The server process dies and starts again: the database stays.  A        *)
(* workspace event not handled yet is sent again or lost with the bus's    *)
(* channels (see EventBus).                                                *)
Restart ==
    /\ Fault
    /\ hist' = [hist EXCEPT !.faults = @ + 1]
    /\ conn' = [c \in Conns |-> IF conn[c].st = "none" THEN conn[c]
                                ELSE [NoConnState EXCEPT !.st = "gone"]]
    /\ ws' = [c \in Conns |-> FALSE]
    /\ work' = [c \in Conns |-> Idle]
    /\ loop' = [c \in Conns |-> NoLoop]
    /\ woken' = [c \in Conns |-> FALSE]
    /\ active' = [c \in Conns |-> 0]
    /\ reg' = NoConn
    /\ admin' = NoSwitch
    /\ restore' = [st |-> "idle", at |-> 0]
    /\ wsq' \in {wsq, <<>>}
    /\ UNCHANGED <<log, rec, archived, cursor>>

-----------------------------------------------------------------------------

HandleConn(c) ==
    \/ \E v \in Codes : Register(c, v)
    \/ SyncReads(c) \/ AnnounceFails(c) \/ SyncWrites(c) \/ SyncFails(c)
    \/ EnsureCursor(c) \/ SkipReads(c) \/ SkipSets(c)
    \/ Hello(c) \/ HelloFails(c)
    \/ ReadFinished(c) \/ AdvanceCursor(c) \/ ReadCrashed(c)
    \/ ReadEnds(c) \/ HandlerReturns(c)

DeliverLoop(c) ==
    \/ Poll(c) \/ ReadBatch(c) \/ BatchEnds(c) \/ PassForeign(c)
    \/ BeginRun(c) \/ Send(c) \/ SendFails(c) \/ RunResolved(c)
    \/ WakesUp(c) \/ LoopStops(c)

Worker(c) == WorkerFinishes(c) \/ WorkerThrows(c) \/ Drop(c)

SetEnabled ==
    \/ SwitchBegins \/ SwitchReadsLatest \/ SwitchSkips \/ SwitchUpdates
    \/ SwitchFails \/ SwitchDisconnects

Workspace ==
    \/ ArchiveOrRestore \/ HandleWorkspaceArchived
    \/ RestoreReadsLatest \/ RestoreSkips \/ RestoreDisconnects

Next ==
    \/ \E e \in Events : Commit(e)
    \/ \E c \in Conns : HandleConn(c) \/ DeliverLoop(c) \/ Worker(c)
    \/ SetEnabled \/ Workspace \/ Restart

Spec == Init /\ [][Next]_vars

-----------------------------------------------------------------------------
(* Properties *)

(* Every field holds a value of its type; a connection that is registered  *)
(* has been dialled; a deliverLoop that runs belongs to a connection past  *)
(* its hello (dialin.go).                                                  *)
TypeOK ==
    /\ log \subseteq Events
    /\ rec \in [enabled : BOOLEAN, code : Codes \cup {NoCode}]
    /\ archived \in BOOLEAN
    /\ cursor \in NoRow..NEvents
    /\ reg \in Conns \cup {NoConn}
    /\ reg # NoConn => conn[reg].st \notin {"none", "gone"}
    /\ conn \in [Conns -> [st : {"none", "announce", "sync", "cursor", "latest",
                                "skip", "hello", "reading", "recording",
                                "ended", "gone"},
                          code : Codes \cup {NoCode},
                          saw : [enabled : BOOLEAN, runs : BOOLEAN],
                          at : 0..NEvents]]
    /\ ws \in [Conns -> BOOLEAN] /\ woken \in [Conns -> BOOLEAN]
    /\ \A c \in Conns :
          /\ loop[c].st \in {"off", "top", "read", "batch", "sending", "await",
                             "wait"}
          /\ loop[c].st # "off" =>
                conn[c].st \in {"reading", "recording", "ended", "gone"}
          /\ loop[c].batch \subseteq Events /\ loop[c].cur \in 0..NEvents
          /\ work[c].ev \in 0..NEvents
    /\ active \in [Conns -> 0..NEvents]
    /\ admin.st \in {"idle", "latest", "skip", "update", "drop"}
    /\ admin.at \in 0..NEvents
    /\ restore.st \in {"idle", "skip", "drop"} /\ restore.at \in 0..NEvents

(* An event of the automation's own workspace, on a topic every version of *)
(* its code subscribes to.                                                 *)
Wanted(e) == e \notin Foreign /\ \A v \in Codes : e \in Subs[v]

(* "A reconnect resumes exactly where it left off" (ADR 0046): the cursor  *)
(* leaves a wanted event behind only when the event ran to a finish or was *)
(* passed by one of the four steps that may: SkipBacklog, a commit behind  *)
(* a later position, a throw overtaken by the next event of the batch, and *)
(* a run cut off whose dead connection still passes a foreign event.  So   *)
(* no lost connection, replaced connection, restart, database error,       *)
(* switch or short batch loses an event (dialin.go deliverBatch, recordRun,*)
(* readLoop).                                                              *)
PassedIsAccounted ==
    \A e \in log : (e <= cursor /\ Wanted(e)) =>
        e \in hist.ran \cup hist.skipped \cup hist.late \cup hist.threw
                \cup hist.strayed

(* A finished run whose cursor was persisted is not started again on the   *)
(* same connection: close(done) comes after the cursor, and the next batch *)
(* is read after close(done) (recordRun, deliverLoop).                     *)
NotRunAgain ==
    \A c \in Conns : active[c] \notin hist.acked[c]

(* deliverLoop waits over a deliverable event only if the channel it holds *)
(* is already closed, unless a database call failed: it takes the channel  *)
(* before it reads, and every write of its own run reports closes it, so a *)
(* full batch or a crash is followed up without the fallback tick.         *)
NoLostWakeup ==
    \A c \in Conns :
        (loop[c].st = "wait" /\ ws[c] /\ ~woken[c] /\ Runs /\ hist.errs = 0)
            => After(rec.code, CursorRead) = {}

(* "A disabled automation is delivered nothing" (ADR 0046): once           *)
(* SetEnabled(false) has returned no event frame goes out until it is      *)
(* switched on, as long as no announce has written the switch back.        *)
OffDeliversNothing == ~hist.sentOff

(* "What happened while it was off is skipped rather than replayed" (ADR   *)
(* 0046): an event SetEnabled(true) skipped is never sent, whatever report *)
(* of an older connection lands after the skip, as long as no announce has *)
(* written the switch back.                                                *)
SkippedStaysSkipped == ~hist.sentSkipped
=============================================================================
