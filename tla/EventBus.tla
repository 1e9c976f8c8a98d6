------------------------------ MODULE EventBus ------------------------------
(***************************************************************************)
(* The event spine of the server: a domain write commits its row and an    *)
(* outbox row in one transaction (storage/outbox_repo.go), the relay       *)
(* (eventbus/outbox/relay.go) publishes outbox rows oldest first onto the  *)
(* in-process bus (eventbus/inprocess/bus.go), every subscription drains   *)
(* its own bounded channel through the chain                               *)
(*     DeadLetter(Retry(Dedupe(Recover(handler))))                         *)
(* and an operator may replay a dead letter (eventbus/deadletter).         *)
(*                                                                         *)
(* Durable state (SQLite): rowid, published, processed, deadLetters.       *)
(* Volatile state (lost with the process): everything else, except the     *)
(* history variables runs and dropped and the fault counters.              *)
(***************************************************************************)
EXTENDS Integers, Sequences, FiniteSets

CONSTANTS
    Events,        \* outbox row ids (UUIDv7), each on one topic
    Consumers,     \* subscriptions: one goroutine and one channel each
    SubsOf,        \* SubsOf[e]: the subscriptions of e's topic, in order of subscription
    NoEvent,       \* "no event in hand"
    Replayers,     \* concurrent dead_letter_replay calls
    ChanCap,       \* defaultChannelBuffer
    BatchSize,     \* RelayConfig.BatchSize
    MaxAttempts,   \* Options.RetryMaxAttempts
    MaxCrashes,    \* bound: process crashes
    MaxShutdowns,  \* bound: graceful shutdowns (SIGTERM, then Bus.Close)
    MaxStoreErrs,  \* bound: SQLite calls that fail
    MaxReplays,    \* bound: replays an operator starts
    HandlersTimeOut \* whether handlers return context errors of their own

ASSUME EventBusAssumption ==
    /\ IsFiniteSet(Events)
    /\ NoEvent \notin Events
    /\ SubsOf \in [Events -> Seq(Consumers)]
    \* a subscription belongs to one topic
    /\ \A d, e \in Events :
          \/ SubsOf[d] = SubsOf[e]
          \/ \A i \in 1..Len(SubsOf[d]), j \in 1..Len(SubsOf[e]) : SubsOf[d][i] # SubsOf[e][j]
    /\ ChanCap \in Nat \ {0}
    /\ BatchSize \in Nat \ {0}
    /\ MaxAttempts \in Nat \ {0}
    /\ MaxCrashes \in Nat /\ MaxShutdowns \in Nat
    /\ MaxStoreErrs \in Nat /\ MaxReplays \in Nat
    /\ HandlersTimeOut \in BOOLEAN

VARIABLES
    \* SQLite
    rowid,        \* rowid[e]: 0 before e's outbox row is committed, then its insertion order
    lastRow,      \* the largest rowid handed out
    published,    \* outbox rows with published = 1
    processed,    \* processed_events: pairs <<c, e>>, the scoped key "consumer:event"
    deadLetters,  \* dead_letters: event ids (the primary key is the event id alone)
    \* Serializer and wake.Broadcast
    notifyDue,    \* a commit has happened and its Notify has not: the writer mutex is held
    woken,        \* the channel the relay took from Next has been closed
    \* the relay goroutine
    relay,        \* control state, see RelayStates
    left,         \* rows of the current batch still to be handled
    cur,          \* the row being published
    at,           \* index in SubsOf[cur] of the subscription to deliver to next
    \* the bus
    stopping,     \* the server's root context is cancelled (SIGTERM)
    closed,       \* Bus.closed, and every subscriber's stop channel closed
    cancelled,    \* Bus.ctx is cancelled: the drain timed out
    ch,           \* ch[c]: the subscription's buffered channel
    wpc, wev, wtry,    \* the subscription goroutine: control state, event in hand, attempt
    rpc, rev, rat,     \* a replay call: control state, event, index in SubsOf[rev]
    \* bounds and history
    crashes, shutdowns, storeErrs, replays,
    runs,         \* runs[c][e]: how often c's handler completed successfully on e
    dropped       \* pairs <<c, e>> whose last delivery was abandoned without a record

dbVars      == <<rowid, lastRow, published, processed, deadLetters>>
wakeVars    == <<notifyDue, woken>>
relayVars   == <<relay, left, cur, at>>
busVars     == <<stopping, closed, cancelled>>
workerVars  == <<wpc, wev, wtry>>
replayVars  == <<rpc, rev, rat>>
faultVars   == <<crashes, shutdowns, storeErrs, replays>>
vars == <<dbVars, wakeVars, relayVars, busVars, ch, workerVars, replayVars,
          faultVars, runs, dropped>>

RelayStates  == {"take", "read", "publish", "deliver", "mark", "wait", "retry", "stopped"}
WorkerStates == {"idle", "check", "run", "ran", "backoff", "dead", "exited"}
ReplayStates == {"idle", "publish", "deliver", "delete"}

-----------------------------------------------------------------------------
Committed == {e \in Events : rowid[e] > 0}
Pending == Committed \ published

\* Mutant: ORDER BY created_at DESC.
OldestDescending == CHOOSE e \in Pending : \A f \in Pending : rowid[e] >= rowid[f]

\* ListUnpublishedOutbox: WHERE published = 0 ORDER BY created_at.  Writers are
\* serialised, so created_at follows insertion, and the index breaks ties by rowid.
Oldest == CHOOSE e \in Pending : \A f \in Pending : rowid[e] <= rowid[f]

Holds(s, x) == \E i \in 1..Len(s) : s[i] = x

Subscribes(c, e) == Holds(SubsOf[e], c)

Queued(c, e) == Holds(ch[c], e)

\* c's goroutine holds e: it is somewhere inside the chain's call.
InHand(c, e) == wpc[c] # "idle" /\ wev[c] = e

\* Nobody reads the channel of a subscription whose goroutine has returned.
InFlight(c, e) == wpc[c] # "exited" /\ (Queued(c, e) \/ InHand(c, e))

\* Every pair still inside the process, abandoned when the process goes away.
AllInFlight == {p \in Consumers \X Events : InFlight(p[1], p[2])}

StoreErr == storeErrs < MaxStoreErrs /\ storeErrs' = storeErrs + 1

-----------------------------------------------------------------------------
(* A domain write: Serializer.WithTx around insertOutboxRow.  The writer mutex  *)
(* is held from the commit to the end of Notify, so commits wait for notifyDue. *)
Enqueue(e) ==
    /\ rowid[e] = 0 /\ ~notifyDue
    /\ rowid' = [rowid EXCEPT ![e] = lastRow + 1]
    /\ lastRow' = lastRow + 1
    /\ notifyDue' = TRUE
    /\ UNCHANGED <<published, processed, deadLetters, woken, relayVars, busVars, ch,
                   workerVars, replayVars, faultVars, runs, dropped>>

Notify ==
    /\ notifyDue
    /\ notifyDue' = FALSE
    /\ woken' = TRUE
    /\ UNCHANGED <<dbVars, relayVars, busVars, ch, workerVars, replayVars, faultVars, runs, dropped>>

\* A commit by a caller whose rows the relay does not read (processed_events,
\* dead_letters), and the relay's own commit: the commit and its Notify in one step.
CommitAndNotify == ~notifyDue /\ woken' = TRUE /\ UNCHANGED notifyDue

-----------------------------------------------------------------------------
(* Relay.Run and Relay.flush *)

RelayUnchanged == UNCHANGED <<rowid, lastRow, processed, deadLetters, notifyDue, busVars,
                              workerVars, replayVars, crashes, shutdowns, replays, runs>>

\* flush returns: its locals are gone.  "retry" is the wait after a failed flush.
EndFlush(state) ==
    /\ relay' = state
    /\ left' = 0 /\ cur' = NoEvent /\ at' = 1

\* committed := r.wake(): a fresh, open channel.
RelayTake ==
    /\ relay = "take"
    /\ relay' = "read"
    /\ woken' = FALSE
    /\ UNCHANGED <<published, left, cur, at, ch, storeErrs, dropped>>
    /\ RelayUnchanged

\* The batch is a prefix of the pending rows.  Only the relay marks rows and new
\* rows sort last, so "the next row of the batch" is always the oldest pending one
\* and the batch is represented by its length.
RelayRead ==
    /\ relay = "read" /\ ~stopping
    /\ left' = (IF Cardinality(Pending) < BatchSize THEN Cardinality(Pending) ELSE BatchSize)
    /\ relay' = IF left' = 0 THEN "wait" ELSE "publish"
    /\ UNCHANGED <<published, woken, cur, at, ch, storeErrs, dropped>>
    /\ RelayUnchanged

\* Unpublished fails: the database does, or the context is cancelled.
RelayReadFails ==
    /\ relay = "read"
    /\ \/ stopping /\ UNCHANGED storeErrs
       \/ StoreErr
    /\ EndFlush("retry")
    /\ UNCHANGED <<published, woken, ch, dropped>>
    /\ RelayUnchanged

\* Bus.publish up to the fan-out: ErrClosed ends the flush, else the subscribers
\* are snapshotted (nobody subscribes after start-up).
RelayPublish ==
    /\ relay = "publish"
    /\ \/ closed /\ EndFlush("retry")
       \/ /\ ~closed
          /\ left' = left
          /\ cur' = Oldest
          /\ at' = 1
          /\ relay' = IF Len(SubsOf[cur']) = 0 THEN "mark" ELSE "deliver"
    /\ UNCHANGED <<published, woken, ch, storeErrs, dropped>>
    /\ RelayUnchanged

\* Mutant: a non-blocking send that loses the event when the channel is full.
SendOrLose(c, e) ==
    /\ ch' = IF Len(ch[c]) < ChanCap THEN [ch EXCEPT ![c] = Append(@, e)] ELSE ch
    /\ dropped' = IF wpc[c] = "exited" THEN dropped \cup {<<c, e>>} ELSE dropped \ {<<c, e>>}

\* The select in Bus.deliver: a send into c's channel blocks while it is full.
Send(c, e) ==
    /\ Len(ch[c]) < ChanCap
    /\ ch' = [ch EXCEPT ![c] = Append(@, e)]
    /\ dropped' = IF wpc[c] = "exited" THEN dropped \cup {<<c, e>>} ELSE dropped \ {<<c, e>>}

\* The same select taking the stop case: deliver returns nil without delivering.
Skip(c, e) ==
    /\ closed
    /\ dropped' = dropped \cup {<<c, e>>}
    /\ UNCHANGED ch

RelayDeliver ==
    /\ relay = "deliver"
    /\ LET c == SubsOf[cur][at] IN Send(c, cur) \/ Skip(c, cur)
    /\ at' = at + 1
    /\ relay' = IF at = Len(SubsOf[cur]) THEN "mark" ELSE "deliver"
    /\ UNCHANGED <<published, woken, left, cur, storeErrs>>
    /\ RelayUnchanged

\* The select taking the ctx.Done case: the flush ends, the row stays unpublished.
RelayDeliverFails ==
    /\ relay = "deliver" /\ stopping
    /\ EndFlush("retry")
    /\ UNCHANGED <<published, woken, ch, storeErrs, dropped>>
    /\ RelayUnchanged

\* Mutant: the row is marked once the fan-out has started.
RelayMarkEarly ==
    /\ relay \in {"deliver", "mark"} /\ ~stopping
    /\ CommitAndNotify
    /\ published' = published \cup {cur}
    /\ \/ left = 1 /\ EndFlush("wait")
       \/ /\ left > 1
          /\ relay' = "publish" /\ left' = left - 1
          /\ UNCHANGED <<cur, at>>
    /\ UNCHANGED <<ch, storeErrs, dropped>>
    /\ RelayUnchanged

\* Mutant: the wake-up channel is taken after the flush instead of before it.
RelayMarkThenTake ==
    /\ relay = "mark" /\ ~stopping /\ ~notifyDue
    /\ published' = published \cup {cur}
    /\ \/ left = 1 /\ EndFlush("wait") /\ woken' = FALSE
       \/ /\ left > 1
          /\ relay' = "publish" /\ left' = left - 1 /\ woken' = TRUE
          /\ UNCHANGED <<cur, at>>
    /\ UNCHANGED <<ch, storeErrs, dropped>>
    /\ RelayUnchanged

\* MarkPublished, once the whole fan-out is done; then the next row of the batch.
RelayMark ==
    /\ relay = "mark" /\ ~stopping
    /\ CommitAndNotify
    /\ published' = published \cup {cur}
    /\ \/ left = 1 /\ EndFlush("wait")
       \/ /\ left > 1
          /\ relay' = "publish" /\ left' = left - 1
          /\ UNCHANGED <<cur, at>>
    /\ UNCHANGED <<ch, storeErrs, dropped>>
    /\ RelayUnchanged

\* MarkPublished fails (BeginTx refuses a cancelled context): the flush ends.
RelayMarkFails ==
    /\ relay = "mark"
    /\ \/ stopping /\ UNCHANGED storeErrs
       \/ StoreErr
    /\ EndFlush("retry")
    /\ UNCHANGED <<published, woken, ch, dropped>>
    /\ RelayUnchanged

\* The select at the end of Run: committed is closed, or the fallback ticker fires.
RelayWake ==
    /\ relay \in {"wait", "retry"} /\ woken
    /\ relay' = "take"
    /\ UNCHANGED <<published, woken, left, cur, at, ch, storeErrs, dropped>>
    /\ RelayUnchanged

RelayTick ==
    /\ relay \in {"wait", "retry"}
    /\ relay' = "take"
    /\ UNCHANGED <<published, woken, left, cur, at, ch, storeErrs, dropped>>
    /\ RelayUnchanged

RelayStop ==
    /\ relay \in {"wait", "retry"} /\ stopping
    /\ relay' = "stopped"
    /\ UNCHANGED <<published, woken, left, cur, at, ch, storeErrs, dropped>>
    /\ RelayUnchanged

Relay ==
    \/ RelayTake \/ RelayRead \/ RelayReadFails \/ RelayPublish \/ RelayDeliver
    \/ RelayDeliverFails \/ RelayMark \/ RelayMarkFails \/ RelayWake \/ RelayTick \/ RelayStop

-----------------------------------------------------------------------------
(* subscriber.run and the middleware chain.  The select of run picks at random *)
(* among the ready cases, so a stopped subscription may still take an event.   *)

WorkerUnchanged == UNCHANGED <<rowid, lastRow, published, relayVars, busVars, replayVars,
                               crashes, shutdowns, replays>>

SubTake(c) ==
    /\ wpc[c] = "idle" /\ ch[c] # <<>>
    /\ wpc' = [wpc EXCEPT ![c] = "check"]
    /\ wev' = [wev EXCEPT ![c] = Head(ch[c])]
    /\ wtry' = [wtry EXCEPT ![c] = 1]
    /\ ch' = [ch EXCEPT ![c] = Tail(@)]
    /\ UNCHANGED <<processed, deadLetters, wakeVars, storeErrs, runs, dropped>>
    /\ WorkerUnchanged

\* run returns on stop or on the bus context: whatever is buffered stays unread.
SubExit(c) ==
    /\ wpc[c] = "idle" /\ closed
    /\ wpc' = [wpc EXCEPT ![c] = "exited"]
    /\ dropped' = dropped \cup {p \in {c} \X Events : Queued(c, p[2])}
    /\ UNCHANGED <<processed, deadLetters, wakeVars, ch, wev, wtry, storeErrs, runs>>
    /\ WorkerUnchanged

\* handle returns: the goroutine's locals are gone.
Return(c) ==
    /\ wpc' = [wpc EXCEPT ![c] = "idle"]
    /\ wev' = [wev EXCEPT ![c] = NoEvent]
    /\ wtry' = [wtry EXCEPT ![c] = 0]

\* Mutant: one attempt too many.
AttemptFailsLate(c) ==
    wpc' = [wpc EXCEPT ![c] = IF wtry[c] > MaxAttempts THEN "dead" ELSE "backoff"]

\* A retryable error leaves the attempt: NewRetry sleeps, or gives up after the last.
AttemptFails(c) ==
    wpc' = [wpc EXCEPT ![c] = IF wtry[c] = MaxAttempts THEN "dead" ELSE "backoff"]

\* Dedupe: the event is already processed by this consumer.
SkipSeen(c) ==
    /\ wpc[c] = "check" /\ ~cancelled
    /\ <<c, wev[c]>> \in processed
    /\ Return(c)
    /\ UNCHANGED <<processed, deadLetters, wakeVars, ch, storeErrs, runs, dropped>>
    /\ WorkerUnchanged

\* Mutant: the handler is called whether or not the event was seen.
CallHandlerAlways(c) ==
    /\ wpc[c] = "check" /\ ~cancelled
    /\ wpc' = [wpc EXCEPT ![c] = "run"]
    /\ UNCHANGED <<processed, deadLetters, wakeVars, ch, wev, wtry, storeErrs, runs, dropped>>
    /\ WorkerUnchanged

\* Dedupe: it is not, and the handler is called.
CallHandler(c) ==
    /\ wpc[c] = "check" /\ ~cancelled
    /\ <<c, wev[c]>> \notin processed
    /\ wpc' = [wpc EXCEPT ![c] = "run"]
    /\ UNCHANGED <<processed, deadLetters, wakeVars, ch, wev, wtry, storeErrs, runs, dropped>>
    /\ WorkerUnchanged

\* Dedupe: Seen fails (database, or the cancelled bus context).
SeenFails(c) ==
    /\ wpc[c] = "check"
    /\ \/ cancelled /\ UNCHANGED storeErrs
       \/ StoreErr
    /\ AttemptFails(c)
    /\ UNCHANGED <<processed, deadLetters, wakeVars, ch, wev, wtry, runs, dropped>>
    /\ WorkerUnchanged

\* The handler succeeds; dedupe has yet to record it.
HandlerSucceeds(c) ==
    /\ wpc[c] = "run"
    /\ wpc' = [wpc EXCEPT ![c] = "ran"]
    /\ runs' = [runs EXCEPT ![c][wev[c]] = @ + 1]
    /\ UNCHANGED <<processed, deadLetters, wakeVars, ch, wev, wtry, storeErrs, dropped>>
    /\ WorkerUnchanged

\* The handler returns a retryable error or panics (Recover makes it retryable).
HandlerFails(c) ==
    /\ wpc[c] = "run"
    /\ AttemptFails(c)
    /\ UNCHANGED <<processed, deadLetters, wakeVars, ch, wev, wtry, storeErrs, runs, dropped>>
    /\ WorkerUnchanged

\* Mutant: a fatal error acks the event.
HandlerFatalAcks(c) ==
    /\ wpc[c] = "run"
    /\ Return(c)
    /\ UNCHANGED <<processed, deadLetters, wakeVars, ch, storeErrs, runs, dropped>>
    /\ WorkerUnchanged

\* The handler returns ErrFatal: no retry.
HandlerFatal(c) ==
    /\ wpc[c] = "run"
    /\ wpc' = [wpc EXCEPT ![c] = "dead"]
    /\ UNCHANGED <<processed, deadLetters, wakeVars, ch, wev, wtry, storeErrs, runs, dropped>>
    /\ WorkerUnchanged

\* Mutant: the error check after Record is inverted.
RecordInverted(c) ==
    /\ wpc[c] = "ran" /\ ~cancelled
    /\ CommitAndNotify
    /\ AttemptFails(c)
    /\ UNCHANGED <<processed, deadLetters, ch, wev, wtry, storeErrs, runs, dropped>>
    /\ WorkerUnchanged

\* MarkProcessed commits and the chain returns nil.
Record(c) ==
    /\ wpc[c] = "ran" /\ ~cancelled
    /\ CommitAndNotify
    /\ processed' = processed \cup {<<c, wev[c]>>}
    /\ Return(c)
    /\ UNCHANGED <<deadLetters, ch, storeErrs, runs, dropped>>
    /\ WorkerUnchanged

\* Record fails after the handler succeeded: the whole attempt counts as failed.
RecordFails(c) ==
    /\ wpc[c] = "ran"
    /\ \/ cancelled /\ UNCHANGED storeErrs
       \/ StoreErr
    /\ AttemptFails(c)
    /\ UNCHANGED <<processed, deadLetters, wakeVars, ch, wev, wtry, runs, dropped>>
    /\ WorkerUnchanged

\* Mutant: the loop does not count its attempts.
RetryUncounted(c) ==
    /\ wpc[c] = "backoff"
    /\ wpc' = [wpc EXCEPT ![c] = "check"]
    /\ UNCHANGED <<processed, deadLetters, wakeVars, ch, wev, wtry, storeErrs, runs, dropped>>
    /\ WorkerUnchanged

\* The back-off timer fires.
Retry(c) ==
    /\ wpc[c] = "backoff"
    /\ wpc' = [wpc EXCEPT ![c] = "check"]
    /\ wtry' = [wtry EXCEPT ![c] = @ + 1]
    /\ UNCHANGED <<processed, deadLetters, wakeVars, ch, wev, storeErrs, runs, dropped>>
    /\ WorkerUnchanged

\* The chain returns an error to subscriber.handle, which only logs it.
GiveUp(c) ==
    /\ Return(c)
    /\ dropped' = dropped \cup {<<c, wev[c]>>}

\* The bus context ends the back-off: the dead-letter layer passes the error on.
Nack(c) ==
    /\ wpc[c] = "backoff" /\ cancelled
    /\ GiveUp(c)
    /\ UNCHANGED <<processed, deadLetters, wakeVars, ch, storeErrs, runs>>
    /\ WorkerUnchanged

\* A context error of the handler's own (an HTTP client's deadline) that ends the
\* retries, exhausted or fatal, looks like a cancellation and gets no dead letter.
HandlerTimesOut(c) ==
    /\ wpc[c] = "run" /\ HandlersTimeOut
    /\ GiveUp(c)
    /\ UNCHANGED <<processed, deadLetters, wakeVars, ch, storeErrs, runs>>
    /\ WorkerUnchanged

\* Mutant: an INSERT OR IGNORE that reports success without a row.
PutForgets(c) ==
    /\ wpc[c] = "dead" /\ ~cancelled
    /\ wev[c] \notin deadLetters
    /\ CommitAndNotify
    /\ Return(c)
    /\ UNCHANGED <<processed, deadLetters, ch, storeErrs, runs, dropped>>
    /\ WorkerUnchanged

\* PutDeadLetter: a plain INSERT, keyed by the event id.
Put(c) ==
    /\ wpc[c] = "dead" /\ ~cancelled
    /\ wev[c] \notin deadLetters
    /\ CommitAndNotify
    /\ deadLetters' = deadLetters \cup {wev[c]}
    /\ Return(c)
    /\ UNCHANGED <<processed, ch, storeErrs, runs, dropped>>
    /\ WorkerUnchanged

\* Put fails: the id is taken, the context is cancelled, or the database fails.
PutFails(c) ==
    /\ wpc[c] = "dead"
    /\ \/ wev[c] \in deadLetters /\ UNCHANGED storeErrs
       \/ cancelled /\ UNCHANGED storeErrs
       \/ StoreErr
    /\ GiveUp(c)
    /\ UNCHANGED <<processed, deadLetters, wakeVars, ch, runs>>
    /\ WorkerUnchanged

Worker(c) ==
    \/ SubTake(c) \/ SubExit(c) \/ SkipSeen(c) \/ CallHandler(c) \/ SeenFails(c)
    \/ HandlerSucceeds(c) \/ HandlerFails(c) \/ HandlerFatal(c) \/ Record(c) \/ RecordFails(c) \/ Retry(c)
    \/ Nack(c) \/ HandlerTimesOut(c) \/ Put(c) \/ PutFails(c)

-----------------------------------------------------------------------------
(* deadletter.Replay, called by the dead_letter_replay tool. *)

ReplayUnchanged == UNCHANGED <<rowid, lastRow, published, processed, relayVars, busVars,
                               workerVars, crashes, shutdowns, runs>>

\* Replay returns.
ReplayReturn(r) ==
    /\ rpc' = [rpc EXCEPT ![r] = "idle"]
    /\ rev' = [rev EXCEPT ![r] = NoEvent]
    /\ rat' = [rat EXCEPT ![r] = 1]

ReplayGet(r, e) ==
    /\ rpc[r] = "idle" /\ e \in deadLetters /\ replays < MaxReplays
    /\ replays' = replays + 1
    /\ rpc' = [rpc EXCEPT ![r] = "publish"]
    /\ rev' = [rev EXCEPT ![r] = e]
    /\ rat' = [rat EXCEPT ![r] = 1]
    /\ UNCHANGED <<deadLetters, wakeVars, ch, storeErrs, dropped>>
    /\ ReplayUnchanged

ReplayPublish(r) ==
    /\ rpc[r] = "publish"
    /\ \/ closed /\ ReplayReturn(r)
       \/ /\ ~closed
          /\ rpc' = [rpc EXCEPT ![r] = IF Len(SubsOf[rev[r]]) = 0 THEN "delete" ELSE "deliver"]
          /\ UNCHANGED <<rev, rat>>
    /\ UNCHANGED <<deadLetters, wakeVars, ch, storeErrs, replays, dropped>>
    /\ ReplayUnchanged

ReplayDeliver(r) ==
    /\ rpc[r] = "deliver"
    /\ LET c == SubsOf[rev[r]][rat[r]] IN Send(c, rev[r]) \/ Skip(c, rev[r])
    /\ rat' = [rat EXCEPT ![r] = @ + 1]
    /\ rpc' = [rpc EXCEPT ![r] = IF rat[r] = Len(SubsOf[rev[r]]) THEN "delete" ELSE "deliver"]
    /\ UNCHANGED <<deadLetters, wakeVars, rev, storeErrs, replays>>
    /\ ReplayUnchanged

\* Delete: the consumers that already gave the event up again, or were never
\* reached, lose the only record of it.
ReplayDelete(r) ==
    /\ rpc[r] = "delete"
    /\ rev[r] \in deadLetters
    /\ CommitAndNotify
    /\ deadLetters' = deadLetters \ {rev[r]}
    /\ dropped' = dropped \cup {p \in Consumers \X {rev[r]} :
                                   /\ Subscribes(p[1], p[2])
                                   /\ p \notin processed
                                   /\ ~InFlight(p[1], p[2])}
    /\ ReplayReturn(r)
    /\ UNCHANGED <<ch, storeErrs, replays>>
    /\ ReplayUnchanged

\* The call returns an error: the caller went away while deliver blocked, the row
\* was deleted by another replay, or the database failed.
ReplayFails(r) ==
    /\ \/ rpc[r] = "deliver" /\ UNCHANGED storeErrs
       \/ rpc[r] = "delete" /\ rev[r] \notin deadLetters /\ UNCHANGED storeErrs
       \/ rpc[r] = "delete" /\ StoreErr
    /\ ReplayReturn(r)
    /\ UNCHANGED <<deadLetters, wakeVars, ch, replays, dropped>>
    /\ ReplayUnchanged

Replay(r) ==
    \/ \E e \in Events : ReplayGet(r, e)
    \/ ReplayPublish(r) \/ ReplayDeliver(r) \/ ReplayDelete(r) \/ ReplayFails(r)

-----------------------------------------------------------------------------
(* The process: SIGTERM, Bus.Close, the drain timeout, exit, crash. *)

Signal ==
    /\ ~stopping /\ shutdowns < MaxShutdowns
    /\ stopping' = TRUE
    /\ shutdowns' = shutdowns + 1
    /\ UNCHANGED <<dbVars, wakeVars, relayVars, closed, cancelled, ch, workerVars, replayVars,
                   crashes, storeErrs, replays, runs, dropped>>

\* The deferred bus.Close: deferred calls run once the root context has ended.
Close ==
    /\ stopping /\ ~closed
    /\ closed' = TRUE
    /\ UNCHANGED <<dbVars, wakeVars, relayVars, stopping, cancelled, ch, workerVars, replayVars,
                   faultVars, runs, dropped>>

\* time.After(b.drain) before the handlers are done: b.cancel().
DrainTimeout ==
    /\ closed /\ ~cancelled
    /\ \E c \in Consumers : wpc[c] # "exited"
    /\ cancelled' = TRUE
    /\ UNCHANGED <<dbVars, wakeVars, relayVars, stopping, closed, ch, workerVars, replayVars,
                   faultVars, runs, dropped>>

\* The next boot: the volatile state starts over, the database is as it was.
Boot ==
    /\ notifyDue' = FALSE /\ woken' = FALSE
    /\ relay' = "take" /\ left' = 0 /\ cur' = NoEvent /\ at' = 1
    /\ stopping' = FALSE /\ closed' = FALSE /\ cancelled' = FALSE
    /\ ch' = [c \in Consumers |-> <<>>]
    /\ wpc' = [c \in Consumers |-> "idle"]
    /\ wev' = [c \in Consumers |-> NoEvent]
    /\ wtry' = [c \in Consumers |-> 0]
    /\ rpc' = [r \in Replayers |-> "idle"]
    /\ rev' = [r \in Replayers |-> NoEvent]
    /\ rat' = [r \in Replayers |-> 1]
    /\ dropped' = dropped \cup AllInFlight
    /\ UNCHANGED <<dbVars, storeErrs, replays, runs>>

\* Close returned (drained, or timed out twice) and the process exits.
Exit ==
    /\ closed
    /\ cancelled \/ \A c \in Consumers : wpc[c] = "exited"
    /\ Boot
    /\ UNCHANGED <<crashes, shutdowns>>

Crash ==
    /\ crashes < MaxCrashes
    /\ crashes' = crashes + 1
    /\ Boot
    /\ UNCHANGED shutdowns

-----------------------------------------------------------------------------
Init ==
    /\ rowid = [e \in Events |-> 0] /\ lastRow = 0
    /\ published = {} /\ processed = {} /\ deadLetters = {}
    /\ notifyDue = FALSE /\ woken = FALSE
    /\ relay = "take" /\ left = 0 /\ cur = NoEvent /\ at = 1
    /\ stopping = FALSE /\ closed = FALSE /\ cancelled = FALSE
    /\ ch = [c \in Consumers |-> <<>>]
    /\ wpc = [c \in Consumers |-> "idle"]
    /\ wev = [c \in Consumers |-> NoEvent]
    /\ wtry = [c \in Consumers |-> 0]
    /\ rpc = [r \in Replayers |-> "idle"]
    /\ rev = [r \in Replayers |-> NoEvent]
    /\ rat = [r \in Replayers |-> 1]
    /\ crashes = 0 /\ shutdowns = 0 /\ storeErrs = 0 /\ replays = 0
    /\ runs = [c \in Consumers |-> [e \in Events |-> 0]]
    /\ dropped = {}

Next ==
    \/ \E e \in Events : Enqueue(e)
    \/ Notify
    \/ Relay
    \/ \E c \in Consumers : Worker(c)
    \/ \E r \in Replayers : Replay(r)
    \/ Signal \/ Close \/ DrainTimeout \/ Exit \/ Crash

Spec == Init /\ [][Next]_vars

-----------------------------------------------------------------------------
(* Properties *)

StoreOK ==
    /\ rowid \in [Events -> Nat] /\ lastRow \in Nat
    /\ published \subseteq Committed
    /\ processed \subseteq Consumers \X Events
    /\ deadLetters \subseteq Events
    /\ notifyDue \in BOOLEAN /\ woken \in BOOLEAN

RelayOK ==
    /\ relay \in RelayStates /\ left \in Nat /\ at \in Nat \ {0}
    /\ cur \in Events \cup {NoEvent}
    /\ relay \in {"publish", "deliver", "mark"} => left \in 1..Cardinality(Pending)
    /\ relay \in {"deliver", "mark"} => cur \in Pending
    /\ relay = "deliver" => at \in 1..Len(SubsOf[cur])
    /\ relay = "mark" => at = Len(SubsOf[cur]) + 1

BusOK ==
    /\ stopping \in BOOLEAN /\ closed \in BOOLEAN /\ cancelled \in BOOLEAN
    /\ closed => stopping
    /\ cancelled => closed
    /\ ch \in [Consumers -> Seq(Events)]

WorkerOK ==
    /\ wpc \in [Consumers -> WorkerStates]
    /\ wev \in [Consumers -> Events \cup {NoEvent}]
    /\ wtry \in [Consumers -> 0..MaxAttempts]
    /\ \A c \in Consumers :
          /\ wpc[c] \notin {"idle", "exited"} => wev[c] \in Events /\ wtry[c] > 0
          /\ wpc[c] = "backoff" => wtry[c] < MaxAttempts

ReplayOK ==
    /\ rpc \in [Replayers -> ReplayStates]
    /\ rev \in [Replayers -> Events \cup {NoEvent}]
    /\ rat \in [Replayers -> Nat \ {0}]
    /\ \A r \in Replayers :
          /\ rpc[r] # "idle" => rev[r] \in Events
          /\ rpc[r] = "publish" => rat[r] = 1
          /\ rpc[r] = "deliver" => rat[r] \in 1..Len(SubsOf[rev[r]])

HistoryOK ==
    /\ crashes \in Nat /\ shutdowns \in Nat /\ storeErrs \in Nat /\ replays \in Nat
    /\ runs \in [Consumers -> [Events -> Nat]]
    /\ dropped \subseteq Consumers \X Events

(* The types of the variables, and what each control state says of its locals:    *)
(* the row the relay has in hand is a pending one and its batch never outlives    *)
(* the pending rows, an attempt never exceeds MaxAttempts, a fan-out never runs   *)
(* past the subscriptions of its topic.                                           *)
TypeOK == StoreOK /\ RelayOK /\ BusOK /\ WorkerOK /\ ReplayOK /\ HistoryOK

\* A record of the pair survives: its consumer processed it, it is still inside
\* the process, or a dead letter an operator can replay stands for it.
Kept(c, e) == <<c, e>> \in processed \/ InFlight(c, e) \/ e \in deadLetters

(* Relay.flush marks a row only after every subscription of its topic was given   *)
(* the event, and the chain ends every delivery in processed_events or            *)
(* dead_letters.  So a published row is kept for each of its subscriptions,       *)
(* unless one of the lossy steps (a crash, a closed bus, a nack, a context error  *)
(* of the handler, a failed Put, a replay's Delete) abandoned that very delivery. *)
NothingVanishes ==
    \A e \in published : \A c \in Consumers :
        Subscribes(c, e) => Kept(c, e) \/ <<c, e>> \in dropped

(* relay.go, flush: "marks entries published only after the publish succeeds,     *)
(* preserving at-least-once delivery".  A published row is kept for each of its   *)
(* subscriptions.  False: a crash or a shutdown loses what was only buffered in a *)
(* channel.                                                                       *)
AtLeastOnce ==
    \A e \in published : \A c \in Consumers : Subscribes(c, e) => Kept(c, e)

\* Nothing has gone wrong yet outside the handlers, and no operator replayed.
Calm ==
    /\ crashes = 0 /\ shutdowns = 0 /\ storeErrs = 0 /\ replays = 0
    /\ ~HandlersTimeOut

(* What is left of the promise of flush: until the first crash, shutdown,         *)
(* database error, replay or context error of a handler's own, a published row is *)
(* kept for each of its subscriptions, however the handlers fail.                 *)
AtLeastOnceWhenCalm == Calm => AtLeastOnce

(* Dedupe records only after the handler returned, so a handler can run again     *)
(* although it succeeded; but each extra success needs a crash, a shutdown or a   *)
(* failed Record of its own, however often relay and replay deliver the event.    *)
RunsBounded ==
    \A c \in Consumers, e \in Events :
        runs[c][e] <= 1 + crashes + shutdowns + storeErrs

(* The relay takes its wake-up channel before it reads the outbox, so it never    *)
(* sleeps over a committed row after a clean flush: its channel is closed, or the *)
(* commit that wrote the row is about to close it.  The fallback tick is only     *)
(* needed after a failed flush.                                                   *)
NoLostWakeup ==
    relay = "wait" /\ Pending # {} => woken \/ notifyDue

(* One relay, oldest row first, one channel per subscription: without replays a   *)
(* consumer never handles a row while an earlier row of its own is still to come. *)
CommitOrderKept ==
    replays = 0 =>
        \A c \in Consumers, d \in Committed, e \in Committed :
            /\ rowid[d] < rowid[e] /\ Subscribes(c, d)
            /\ runs[c][e] > 0
            => d \in published /\ (runs[c][d] = 0 => ~InFlight(c, d))

-----------------------------------------------------------------------------
(* Fairness: the goroutines the program starts keep running, the relay's ticker,  *)
(* the back-off timer and the drain timer fire, and a shutdown that was signalled *)
(* runs to its end.  Domain writes, faults and operators' replays are not assumed.*)
Fairness ==
    /\ WF_vars(Notify)
    /\ WF_vars(RelayTake \/ RelayRead \/ RelayReadFails \/ RelayPublish \/ RelayDeliver
               \/ RelayDeliverFails \/ RelayMark \/ RelayMarkFails \/ RelayWake \/ RelayStop)
    /\ WF_vars(RelayTick)
    /\ \A c \in Consumers : WF_vars(Worker(c))
    /\ WF_vars(Close) /\ WF_vars(DrainTimeout) /\ WF_vars(Exit)

FairSpec == Spec /\ Fairness

\* The pair's story is over, for good or with the loss on record.
Settled(c, e) ==
    \/ <<c, e>> \in processed
    \/ e \in deadLetters
    \/ e \in published /\ <<c, e>> \in dropped

(* Every committed outbox row is eventually handled by each subscription of its   *)
(* topic: no full channel, retry, failed flush, shutdown or crash leaves a row or *)
(* a delivery stuck for ever.                                                     *)
EventuallySettled ==
    \A e \in Events, c \in Consumers :
        (e \in Committed /\ Subscribes(c, e)) ~> Settled(c, e)

-----------------------------------------------------------------------------
Ledger == INSTANCE DeliveryLedger WITH
    Owed      <- {p \in Consumers \X Events : Subscribes(p[1], p[2])},
    committed <- Committed,
    outbox    <- Pending,
    carried   <- AllInFlight,
    done      <- processed,
    letters   <- deadLetters,
    lost      <- dropped

(* Outbox, relay, channels, middlewares, replays and restarts together implement  *)
(* the ledger: a delivery never leaves the process but as processed, as a dead    *)
(* letter or as an abandonment on the record, nothing is ever un-processed or     *)
(* un-published, and a row is marked only when all it owes is accounted for.      *)
ImplementsLedger == Ledger!Spec
=============================================================================
