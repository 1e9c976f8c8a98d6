--------------------------- MODULE RunnerDispatch ---------------------------
(***************************************************************************)
(* How a deploy reaches a runner and how its end is recorded.              *)
(*                                                                         *)
(* The deploy service (internal/deploy/usecase.go) writes a deploy and its *)
(* deploy.requested row; the runner hub (internal/runner/handler.go) hands *)
(* the job to an idle connected runner or keeps it in memory; the runner   *)
(* (internal/runner/client.go, executor.go) runs it and answers on the     *)
(* same WebSocket; deploy.status_changed, published without an outbox row, *)
(* brings the verdict back to the deploy service.                          *)
(*                                                                         *)
(* Threads of the hub: the consumer of deploy.requested, the consumer of   *)
(* deploy.cancel_requested, and one goroutine per connection.  A step is   *)
(* one lock section (h.mu, jobMu), one socket call or one bus call.        *)
(***************************************************************************)
EXTENDS Integers, Sequences, FiniteSets

CONSTANTS
    Jobs,         \* deploys
    Builds,       \* the jobs of kind build; the others deploy an image
    Denied,       \* builds whose clone token may be refused
    StackOf,      \* StackOf[j]: the stack j deploys
    Runners,
    Conns,        \* connections, each used once
    RunnerOf,     \* RunnerOf[c]: the runner that dials c
    Fits,         \* Fits[j]: the runners on j's machine that take deploys
    None,         \* no job, no connection
    MaxCancels,   \* bound: cancels a person asks for
    MaxDrops,     \* bound: connections lost to the network or the watchdog
    MaxFrameErrs, \* bound: lookups for an assign frame that fail and may succeed later
    MaxCrashes    \* bound: server crashes

ConsumerThreads == {"request", "cancel"}
Threads == ConsumerThreads \cup Conns

ASSUME DispatchAssumption ==
    /\ IsFiniteSet(Jobs) /\ IsFiniteSet(Conns)
    /\ Denied \subseteq Builds /\ Builds \subseteq Jobs
    /\ RunnerOf \in [Conns -> Runners]
    /\ Fits \in [Jobs -> SUBSET Runners]
    /\ None \notin Jobs /\ None \notin Conns
    /\ Conns \cap ConsumerThreads = {}
    /\ MaxCancels \in Nat /\ MaxDrops \in Nat /\ MaxFrameErrs \in Nat /\ MaxCrashes \in Nat

VARIABLES
    \* SQLite
    status,    \* deploys.status; "none" before the row exists
    checked,   \* starts that passed HasActive and have not created their row
    \* on the bus
    requests,  \* deploy.requested
    cancels,   \* deploy.cancel_requested
    verdicts,  \* deploy.status_changed: [job, status]
    \* the hub
    conns,     \* h.conns: the current connection of each runner
    pending,   \* h.pending
    owned,     \* owned[c]: the job of connection c (runnerConn.job)
    ended,     \* connections whose context is cancelled
    pc,        \* control state of each thread
    hand,      \* hand[t]: the job t is dispatching
    event,     \* event[t]: the job of the event a consumer is handling
    on,        \* on[t]: the connection a consumer dispatches to
    result,    \* result[c]: the deploy_result c's goroutine has still to publish
    \* sockets and runners
    socket,    \* "unused", "open", "dead" (the server has not noticed), "closed"
    down,      \* down[c]: frames on their way to the runner: [type, job]
    up,        \* up[c]: deploy_result frames on their way to the server: [job, status]
    dialled,   \* dialled[r]: the connection runner r uses
    running,   \* <<c, j>>: an executor of j started on c, its context not cancelled
    aborting,  \* <<c, j>>: the same, its context cancelled
    \* bounds and history
    asked, drops, frameErrs, crashes,
    starts,    \* starts[j]: how often a runner started j
    displaced, \* jobs whose connection was given another job while it had them
    forgotten  \* jobs whose last trace a step dropped without a verdict

deployVars == <<status, checked>>
busVars    == <<requests, cancels, verdicts>>
hubVars    == <<conns, pending, owned, ended>>
threadVars == <<pc, hand, event, on, result>>
linkVars   == <<socket, down, up>>
runnerVars == <<dialled, running, aborting>>
bounds     == <<asked, drops, frameErrs, crashes>>
history    == <<starts, displaced, forgotten>>
vars == <<deployVars, busVars, hubVars, threadVars, linkVars, runnerVars, bounds, history>>

Ended    == {"healthy", "failed"}
Verdict  == [job : Jobs, status : Ended]
Frame    == [type : {"assign", "cancel"}, job : Jobs]
NoResult == [job |-> None, status |-> "none"]

Holds(s, x) == \E i \in 1..Len(s) : s[i] = x

\* The elements of s that are in S, in their order.
Kept(s, S) ==
    LET at == {i \in 1..Len(s) : s[i] \in S}
        nth(n) == CHOOSE i \in at : Cardinality({k \in at : k <= i}) = n
    IN  [n \in 1..Cardinality(at) |-> s[nth(n)]]

\* The connection thread t works on.
Conn(t) == IF t \in Conns THEN t ELSE on[t]

FitsConn(j, c) == RunnerOf[c] \in Fits[j]

Registered(c) == conns[RunnerOf[c]] = c

-----------------------------------------------------------------------------
(* The deploy service *)

\* Service.start up to HasActive: no pending or running deploy of the stack.
StartChecks(j) ==
    /\ status[j] = "none" /\ j \notin checked
    /\ \A k \in Jobs : StackOf[k] = StackOf[j] => status[k] # "pending"
    /\ checked' = checked \cup {j}
    /\ UNCHANGED <<status, busVars, hubVars, threadVars, linkVars, runnerVars, bounds, history>>

\* Service.start, repo.Create: the row and its deploy.requested in one transaction.
StartCreates(j) ==
    /\ j \in checked
    /\ checked' = checked \ {j}
    /\ status' = [status EXCEPT ![j] = "pending"]
    /\ requests' = Append(requests, j)
    /\ UNCHANGED <<cancels, verdicts, hubVars, threadVars, linkVars, runnerVars, bounds, history>>

\* Service.Cancel
AskCancel(j) ==
    /\ status[j] = "pending"
    /\ asked < MaxCancels /\ asked' = asked + 1
    /\ cancels' = Append(cancels, j)
    /\ UNCHANGED <<deployVars, requests, verdicts, hubVars, threadVars, linkVars, runnerVars,
                   drops, frameErrs, crashes, history>>

\* CanTransition
CanTransition(from, to) == from = "pending" /\ to \in Ended

\* Service.HandleStatusChanged: a repeated verdict is a no-op, a different one an
\* error that is retried and dead-lettered; neither changes the deploy.
StatusChanged ==
    /\ verdicts # <<>>
    /\ verdicts' = Tail(verdicts)
    /\ LET v == Head(verdicts) IN
          status' = IF CanTransition(status[v.job], v.status)
                    THEN [status EXCEPT ![v.job] = v.status] ELSE status
    /\ UNCHANGED <<checked, requests, cancels, hubVars, threadVars, linkVars, runnerVars,
                   bounds, history>>

-----------------------------------------------------------------------------
(* Dispatch, shared by the three kinds of thread *)

DispatchUnchanged == UNCHANGED <<deployVars, requests, cancels, verdicts, conns, ended, event, on, result,
                                 dialled, running, aborting, asked, drops, crashes,
                                 starts>>

\* Where a thread goes when dispatchOne has not kept the job: handleRequest appends
\* it, dispatchPending puts it back in front.
Unowned(t) == IF t = "request" THEN "queue" ELSE "requeue"

\* dispatchPending returns: to Cancel's end, to the publish after a deploy_result,
\* or to the read loop.
Return(t) == IF t \in Conns THEN (IF result[t] = NoResult THEN "read" ELSE "publish") ELSE "ack"

\* After a job went out or was denied: handleRequest is done, dispatchPending loops.
Dispatched(t) == IF t = "request" THEN "ack" ELSE "loop"

\* setJob: whatever the connection had is overwritten.
SetJob(c, j) ==
    /\ owned' = [owned EXCEPT ![c] = j]
    /\ displaced' = displaced \cup ({owned[c]} \ {None, j})

\* clearJob
ClearJob(c, j) == owned' = IF owned[c] = j THEN [owned EXCEPT ![c] = None] ELSE owned

\* dispatchOne: buildFrame succeeds and setJob follows.
DispatchOwns(t) ==
    /\ pc[t] = "frame"
    /\ SetJob(Conn(t), hand[t])
    /\ pc' = [pc EXCEPT ![t] = "send"]
    /\ UNCHANGED <<pending, hand, socket, down, up, frameErrs, forgotten>>
    /\ DispatchUnchanged

\* buildFrame fails for now: an env or token lookup, or the connection's context.
DispatchFrameFails(t) ==
    /\ pc[t] = "frame"
    /\ \/ t \in ended /\ UNCHANGED frameErrs
       \/ frameErrs < MaxFrameErrs /\ frameErrs' = frameErrs + 1
    /\ pc' = [pc EXCEPT ![t] = Unowned(t)]
    /\ UNCHANGED <<pending, owned, hand, socket, down, up, displaced, forgotten>>
    /\ DispatchUnchanged

\* buildFrame fails for good: failDeniedBuild publishes deploy.build_completed, which
\* no consumer turns into a status.
DispatchDenied(t) ==
    /\ pc[t] = "frame" /\ hand[t] \in Denied
    /\ pc' = [pc EXCEPT ![t] = Dispatched(t)]
    /\ hand' = [hand EXCEPT ![t] = None]
    /\ forgotten' = forgotten \cup {hand[t]}
    /\ UNCHANGED <<pending, owned, socket, down, up, frameErrs, displaced>>
    /\ DispatchUnchanged

\* sendFrame succeeds; on a socket the peer has left, the frame goes nowhere.
DispatchSends(t) ==
    /\ pc[t] = "send" /\ socket[Conn(t)] \in {"open", "dead"}
    /\ down' = IF socket[Conn(t)] = "open"
               THEN [down EXCEPT ![Conn(t)] = Append(@, [type |-> "assign", job |-> hand[t]])] ELSE down
    /\ pc' = [pc EXCEPT ![t] = Dispatched(t)]
    /\ hand' = [hand EXCEPT ![t] = None]
    /\ UNCHANGED <<pending, owned, socket, up, frameErrs, displaced, forgotten>>
    /\ DispatchUnchanged

\* Mutant: a failed send is taken for a sent one.
DispatchSendFailsSilently(t) ==
    /\ pc[t] = "send" /\ socket[Conn(t)] \in {"dead", "closed"}
    /\ ClearJob(Conn(t), hand[t])
    /\ pc' = [pc EXCEPT ![t] = Dispatched(t)]
    /\ hand' = [hand EXCEPT ![t] = None]
    /\ UNCHANGED <<pending, socket, down, up, frameErrs, displaced, forgotten>>
    /\ DispatchUnchanged

\* sendFrame fails: clearJob, and the job goes back to the queue.
DispatchSendFails(t) ==
    /\ pc[t] = "send" /\ socket[Conn(t)] \in {"dead", "closed"}
    /\ ClearJob(Conn(t), hand[t])
    /\ pc' = [pc EXCEPT ![t] = Unowned(t)]
    /\ UNCHANGED <<pending, hand, socket, down, up, frameErrs, displaced, forgotten>>
    /\ DispatchUnchanged

\* Handler.queue
Queue ==
    /\ pc["request"] = "queue"
    /\ pending' = Append(pending, hand["request"])
    /\ pc' = [pc EXCEPT !["request"] = "ack"]
    /\ hand' = [hand EXCEPT !["request"] = None]
    /\ UNCHANGED <<owned, socket, down, up, frameErrs, displaced, forgotten>>
    /\ DispatchUnchanged

\* dispatchPending puts the job back in front and returns.
Requeue(t) ==
    /\ pc[t] = "requeue"
    /\ pending' = <<hand[t]>> \o pending
    /\ pc' = [pc EXCEPT ![t] = Return(t)]
    /\ hand' = [hand EXCEPT ![t] = None]
    /\ UNCHANGED <<owned, socket, down, up, frameErrs, displaced, forgotten>>
    /\ DispatchUnchanged

\* dispatchPending, top of the loop: jobSnapshot.
PendingChecks(t) ==
    /\ pc[t] = "loop"
    /\ pc' = [pc EXCEPT ![t] = IF owned[Conn(t)] = None THEN "pop" ELSE Return(t)]
    /\ UNCHANGED <<pending, owned, hand, socket, down, up, frameErrs, displaced, forgotten>>
    /\ DispatchUnchanged

\* popFitting: the indexes of the queued jobs that fit c.
Fitting(c) == {i \in 1..Len(pending) : FitsConn(pending[i], c)}

\* Mutant: the popped job stays in the queue.
PopFittingKeeps(t) ==
    /\ pc[t] = "pop" /\ Fitting(Conn(t)) # {}
    /\ LET i == CHOOSE i \in Fitting(Conn(t)) : \A k \in Fitting(Conn(t)) : i <= k IN
          /\ hand' = [hand EXCEPT ![t] = pending[i]]
          /\ pending' = pending
    /\ pc' = [pc EXCEPT ![t] = "frame"]
    /\ UNCHANGED <<owned, socket, down, up, frameErrs, displaced, forgotten>>
    /\ DispatchUnchanged

\* popFitting removes the first of them.
PopFitting(t) ==
    /\ pc[t] = "pop" /\ Fitting(Conn(t)) # {}
    /\ LET i == CHOOSE i \in Fitting(Conn(t)) : \A k \in Fitting(Conn(t)) : i <= k IN
          /\ hand' = [hand EXCEPT ![t] = pending[i]]
          /\ pending' = SubSeq(pending, 1, i - 1) \o SubSeq(pending, i + 1, Len(pending))
    /\ pc' = [pc EXCEPT ![t] = "frame"]
    /\ UNCHANGED <<owned, socket, down, up, frameErrs, displaced, forgotten>>
    /\ DispatchUnchanged

\* Mutant: popFitting's second result is ignored.
PopNothingIgnored(t) ==
    /\ pc[t] = "pop" /\ Fitting(Conn(t)) = {}
    /\ pc' = [pc EXCEPT ![t] = "frame"]
    /\ UNCHANGED <<pending, owned, hand, socket, down, up, frameErrs, displaced, forgotten>>
    /\ DispatchUnchanged

\* popFitting finds nothing and dispatchPending returns.
PopNothing(t) ==
    /\ pc[t] = "pop" /\ Fitting(Conn(t)) = {}
    /\ pc' = [pc EXCEPT ![t] = Return(t)]
    /\ UNCHANGED <<pending, owned, hand, socket, down, up, frameErrs, displaced, forgotten>>
    /\ DispatchUnchanged

Dispatch(t) ==
    \/ DispatchOwns(t) \/ DispatchFrameFails(t) \/ DispatchDenied(t)
    \/ DispatchSends(t) \/ DispatchSendFails(t)
    \/ Requeue(t) \/ PendingChecks(t) \/ PopFitting(t) \/ PopNothing(t)

-----------------------------------------------------------------------------
(* The consumer of deploy.requested *)

\* idleConnected, upgrades left out: the connections a request may be given to.
IdleConnected(j) == {c \in Conns : Registered(c) /\ owned[c] = None /\ FitsConn(j, c)}

ConsumerUnchanged == UNCHANGED <<deployVars, conns, owned, ended, result, linkVars, runnerVars, bounds>>

\* handleRequest up to idleConnected.
HandleRequest ==
    /\ pc["request"] = "idle" /\ requests # <<>>
    /\ LET j == Head(requests) IN
          /\ requests' = Tail(requests)
          /\ event' = [event EXCEPT !["request"] = j]
          /\ hand' = [hand EXCEPT !["request"] = j]
          /\ \/ /\ IdleConnected(j) = {}
                /\ pc' = [pc EXCEPT !["request"] = "queue"]
                /\ UNCHANGED on
             \/ \E c \in IdleConnected(j) :
                /\ pc' = [pc EXCEPT !["request"] = "frame"]
                /\ on' = [on EXCEPT !["request"] = c]
    /\ UNCHANGED <<cancels, verdicts, pending, history>>
    /\ ConsumerUnchanged

\* The middlewares record the event as handled.
Ack(t) ==
    /\ pc[t] = "ack"
    /\ pc' = [pc EXCEPT ![t] = "idle"]
    /\ event' = [event EXCEPT ![t] = None]
    /\ on' = [on EXCEPT ![t] = None]
    /\ UNCHANGED <<busVars, pending, hand, history>>
    /\ ConsumerUnchanged

-----------------------------------------------------------------------------
(* The consumer of deploy.cancel_requested: Handler.Cancel *)

Owners(j) == {c \in Conns : Registered(c) /\ owned[c] = j}

\* The section under h.mu: a queued job is taken out, else its connection found,
\* else the cancel is a no-op.
HandleCancel ==
    /\ pc["cancel"] = "idle" /\ cancels # <<>>
    /\ LET j == Head(cancels) IN
          /\ cancels' = Tail(cancels)
          /\ event' = [event EXCEPT !["cancel"] = j]
          /\ pending' = Kept(pending, Jobs \ {j})
          /\ \/ /\ Holds(pending, j)
                /\ pc' = [pc EXCEPT !["cancel"] = "verdict"]
                /\ UNCHANGED on
             \/ /\ ~Holds(pending, j)
                /\ \E c \in Owners(j) :
                      /\ pc' = [pc EXCEPT !["cancel"] = "clear"]
                      /\ on' = [on EXCEPT !["cancel"] = c]
             \/ /\ ~Holds(pending, j) /\ Owners(j) = {}
                /\ pc' = [pc EXCEPT !["cancel"] = "ack"]
                /\ UNCHANGED on
    /\ UNCHANGED <<requests, verdicts, hand, history>>
    /\ ConsumerUnchanged

CancelClears ==
    /\ pc["cancel"] = "clear"
    /\ ClearJob(on["cancel"], event["cancel"])
    /\ pc' = [pc EXCEPT !["cancel"] = "stop"]
    /\ UNCHANGED <<deployVars, busVars, conns, pending, ended, hand, event, on, result,
                   linkVars, runnerVars, bounds, starts, displaced, forgotten>>

\* The cancel frame; a failed send is only logged.
CancelSends ==
    /\ pc["cancel"] = "stop"
    /\ LET c == on["cancel"] IN
          down' = IF socket[c] = "open"
                  THEN [down EXCEPT ![c] = Append(@, [type |-> "cancel", job |-> event["cancel"]])] ELSE down
    /\ pc' = [pc EXCEPT !["cancel"] = "verdict"]
    /\ UNCHANGED <<deployVars, busVars, hubVars, hand, event, on, result, socket, up, runnerVars, bounds, history>>

\* The verdict "cancelled"; a freed connection then takes queued work.
CancelPublishes ==
    /\ pc["cancel"] = "verdict"
    /\ verdicts' = Append(verdicts, [job |-> event["cancel"], status |-> "failed"])
    /\ pc' = [pc EXCEPT !["cancel"] = IF on["cancel"] = None THEN "ack" ELSE "loop"]
    /\ UNCHANGED <<requests, cancels, pending, hand, event, on, history>>
    /\ ConsumerUnchanged

-----------------------------------------------------------------------------
(* A connection's goroutine: handleConn, readLoop and its deferred teardown *)

ConnUnchanged == UNCHANGED <<deployVars, requests, cancels, pending, hand, event, on, running, aborting,
                             asked, frameErrs, crashes, starts, displaced>>

\* The runner dials and handleConn registers the connection, ending the one it
\* replaces; dispatchPending follows.
HandleConn(c) ==
    /\ socket[c] = "unused" /\ dialled[RunnerOf[c]] = None
    /\ dialled' = [dialled EXCEPT ![RunnerOf[c]] = c]
    /\ conns' = [conns EXCEPT ![RunnerOf[c]] = c]
    /\ LET old == conns[RunnerOf[c]] IN
          /\ ended' = IF old = None THEN ended ELSE ended \cup {old}
          /\ socket' = [d \in Conns |-> IF d = c THEN "open" ELSE IF d = old THEN "closed" ELSE socket[d]]
    /\ pc' = [pc EXCEPT ![c] = "loop"]
    /\ UNCHANGED <<verdicts, owned, result, down, up, drops, forgotten>>
    /\ ConnUnchanged

\* dispatchFrame on deploy_result: clearJob, then dispatchPending, then the publish.
DeployResult(c) ==
    /\ pc[c] = "read" /\ socket[c] \in {"open", "dead"} /\ up[c] # <<>>
    /\ up' = [up EXCEPT ![c] = Tail(@)]
    /\ result' = [result EXCEPT ![c] = Head(up[c])]
    /\ ClearJob(c, Head(up[c]).job)
    /\ pc' = [pc EXCEPT ![c] = "loop"]
    /\ UNCHANGED <<verdicts, conns, ended, socket, down, dialled, drops, forgotten>>
    /\ ConnUnchanged

\* bus.Publish on the connection's context.
PublishResult(c) ==
    /\ pc[c] = "publish"
    /\ verdicts' = Append(verdicts, result[c])
    /\ result' = [result EXCEPT ![c] = NoResult]
    /\ pc' = [pc EXCEPT ![c] = "read"]
    /\ UNCHANGED <<conns, owned, ended, socket, down, up, dialled, drops, forgotten>>
    /\ ConnUnchanged

\* The same with the context cancelled: the bus may refuse, and nothing publishes again.
PublishResultFails(c) ==
    /\ pc[c] = "publish" /\ c \in ended
    /\ forgotten' = forgotten \cup {result[c].job}
    /\ result' = [result EXCEPT ![c] = NoResult]
    /\ pc' = [pc EXCEPT ![c] = "read"]
    /\ UNCHANGED <<verdicts, conns, owned, ended, socket, down, up, dialled, drops>>
    /\ ConnUnchanged

\* The read fails: the deferred teardown cancels the context.
ReadEnds(c) ==
    /\ pc[c] = "read" /\ socket[c] \in {"dead", "closed"}
    /\ ended' = ended \cup {c}
    /\ socket' = [socket EXCEPT ![c] = "closed"]
    /\ up' = [up EXCEPT ![c] = <<>>]
    /\ pc' = [pc EXCEPT ![c] = "remove"]
    /\ UNCHANGED <<verdicts, conns, owned, result, down, dialled, drops, forgotten>>
    /\ ConnUnchanged

\* Mutant: a replaced connection removes its successor.
RemoveConnAny(c) ==
    /\ pc[c] = "remove"
    /\ conns' = [conns EXCEPT ![RunnerOf[c]] = None]
    /\ pc' = [pc EXCEPT ![c] = "fail"]
    /\ UNCHANGED <<verdicts, owned, ended, result, linkVars, dialled, drops, forgotten>>
    /\ ConnUnchanged

\* removeConn: only while c is still the runner's current connection.
RemoveConn(c) ==
    /\ pc[c] = "remove"
    /\ conns' = IF Registered(c) THEN [conns EXCEPT ![RunnerOf[c]] = None] ELSE conns
    /\ pc' = [pc EXCEPT ![c] = "fail"]
    /\ UNCHANGED <<verdicts, owned, ended, result, linkVars, dialled, drops, forgotten>>
    /\ ConnUnchanged

\* Mutant: the teardown does not fail the connection's job.
FailOwnedNever(c) ==
    /\ pc[c] = "fail"
    /\ UNCHANGED verdicts
    /\ pc' = [pc EXCEPT ![c] = "gone"]
    /\ UNCHANGED <<conns, owned, ended, result, linkVars, dialled, drops, forgotten>>
    /\ ConnUnchanged

\* "runner disconnected": the job the connection holds is failed.
FailOwned(c) ==
    /\ pc[c] = "fail"
    /\ verdicts' = IF owned[c] = None THEN verdicts
                   ELSE Append(verdicts, [job |-> owned[c], status |-> "failed"])
    /\ pc' = [pc EXCEPT ![c] = "gone"]
    /\ UNCHANGED <<conns, owned, ended, result, linkVars, dialled, drops, forgotten>>
    /\ ConnUnchanged

\* The network loses the connection, or the watchdog closes it.
Drop(c, how) ==
    /\ socket[c] = "open"
    /\ drops < MaxDrops /\ drops' = drops + 1
    /\ socket' = [socket EXCEPT ![c] = how]
    /\ UNCHANGED <<verdicts, conns, owned, ended, pc, result, down, up, dialled, forgotten>>
    /\ ConnUnchanged

-----------------------------------------------------------------------------
(* The runner: Client and ShellExecutor *)

RunnerUnchanged == UNCHANGED <<deployVars, busVars, hubVars, threadVars, socket, bounds, displaced, forgotten>>

On(c, execs) == {x \in execs : x[1] = c}

\* Client.startJob: whatever runs on the connection is stopped.
StartJob(c) ==
    /\ dialled[RunnerOf[c]] = c /\ down[c] # <<>> /\ Head(down[c]).type = "assign"
    /\ LET j == Head(down[c]).job IN
          /\ aborting' = aborting \cup On(c, running)
          /\ running' = (running \ On(c, running)) \cup {<<c, j>>}
          /\ starts' = [starts EXCEPT ![j] = @ + 1]
    /\ down' = [down EXCEPT ![c] = Tail(@)]
    /\ UNCHANGED <<up, dialled>>
    /\ RunnerUnchanged

\* Client.cancelJob(id): only the job that runs.
CancelJob(c) ==
    /\ dialled[RunnerOf[c]] = c /\ down[c] # <<>> /\ Head(down[c]).type = "cancel"
    /\ LET x == <<c, Head(down[c]).job>> IN
          /\ running' = running \ {x}
          /\ aborting' = IF x \in running THEN aborting \cup {x} ELSE aborting
    /\ down' = [down EXCEPT ![c] = Tail(@)]
    /\ UNCHANGED <<up, dialled, starts>>
    /\ RunnerUnchanged

\* The executor's deploy_result; sendFrame swallows a failed write.
Answer(c, j, s) ==
    up' = IF socket[c] = "open" THEN [up EXCEPT ![c] = Append(@, [job |-> j, status |-> s])] ELSE up

\* Build or Deploy ends on its own, and jobFinished clears the client's job.
ExecutorEnds(c, j) ==
    /\ <<c, j>> \in running
    /\ \E s \in Ended : Answer(c, j, s)
    /\ running' = running \ {<<c, j>>}
    /\ UNCHANGED <<down, dialled, aborting, starts>>
    /\ RunnerUnchanged

\* A stopped executor: a build says nothing more unless it was past its last check,
\* an image deploy reports the command the stop made fail.
ExecutorStops(c, j) ==
    /\ <<c, j>> \in aborting
    /\ \/ Answer(c, j, "healthy")
       \/ j \notin Builds /\ Answer(c, j, "failed")
       \/ j \in Builds /\ UNCHANGED up
    /\ aborting' = aborting \ {<<c, j>>}
    /\ UNCHANGED <<down, dialled, running, starts>>
    /\ RunnerUnchanged

\* runOnce returns: cancelJob(""), and the connection's context stops every executor.
ConnectionLost(c) ==
    /\ dialled[RunnerOf[c]] = c /\ socket[c] # "open"
    /\ dialled' = [dialled EXCEPT ![RunnerOf[c]] = None]
    /\ running' = running \ On(c, running)
    /\ aborting' = aborting \cup On(c, running)
    /\ down' = [down EXCEPT ![c] = <<>>]
    /\ UNCHANGED <<up, starts>>
    /\ RunnerUnchanged

-----------------------------------------------------------------------------
(* The server dies and boots again.  Of the events being handled or buffered, those *)
(* whose outbox row was not yet marked come again; verdicts have no row.            *)
Crash ==
    /\ crashes < MaxCrashes /\ crashes' = crashes + 1
    /\ \E keep \in SUBSET Jobs :
          LET again(e, s) == Kept((IF e = None THEN <<>> ELSE <<e>>) \o s, keep) IN
          /\ requests' = again(event["request"], requests)
          /\ cancels' = again(event["cancel"], cancels)
    /\ verdicts' = <<>>
    /\ checked' = {}
    /\ conns' = [r \in Runners |-> None]
    /\ pending' = <<>>
    /\ owned' = [c \in Conns |-> None]
    /\ ended' = {c \in Conns : socket[c] # "unused"}
    /\ pc' = [t \in Threads |-> IF t \in ConsumerThreads THEN "idle"
                                ELSE IF socket[t] = "unused" THEN "new" ELSE "gone"]
    /\ hand' = [t \in Threads |-> None]
    /\ event' = [t \in ConsumerThreads |-> None]
    /\ on' = [t \in ConsumerThreads |-> None]
    /\ result' = [c \in Conns |-> NoResult]
    /\ socket' = [c \in Conns |-> IF socket[c] = "unused" THEN "unused" ELSE "closed"]
    /\ up' = [c \in Conns |-> <<>>]
    /\ forgotten' = forgotten \cup {j \in Jobs : status[j] = "pending" /\ ~Holds(requests', j)}
    /\ UNCHANGED <<status, down, runnerVars, asked, drops, frameErrs, starts, displaced>>

-----------------------------------------------------------------------------
Init ==
    /\ status = [j \in Jobs |-> "none"]
    /\ checked = {}
    /\ requests = <<>> /\ cancels = <<>> /\ verdicts = <<>>
    /\ conns = [r \in Runners |-> None]
    /\ pending = <<>>
    /\ owned = [c \in Conns |-> None]
    /\ ended = {}
    /\ pc = [t \in Threads |-> IF t \in ConsumerThreads THEN "idle" ELSE "new"]
    /\ hand = [t \in Threads |-> None]
    /\ event = [t \in ConsumerThreads |-> None]
    /\ on = [t \in ConsumerThreads |-> None]
    /\ result = [c \in Conns |-> NoResult]
    /\ socket = [c \in Conns |-> "unused"]
    /\ down = [c \in Conns |-> <<>>]
    /\ up = [c \in Conns |-> <<>>]
    /\ dialled = [r \in Runners |-> None]
    /\ running = {} /\ aborting = {}
    /\ asked = 0 /\ drops = 0 /\ frameErrs = 0 /\ crashes = 0
    /\ starts = [j \in Jobs |-> 0]
    /\ displaced = {} /\ forgotten = {}

Deploys == StatusChanged \/ \E j \in Jobs : StartChecks(j) \/ StartCreates(j) \/ AskCancel(j)

RequestConsumer == HandleRequest \/ Queue \/ Ack("request") \/ Dispatch("request")

CancelConsumer ==
    \/ HandleCancel \/ CancelClears \/ CancelSends \/ CancelPublishes
    \/ Ack("cancel") \/ Dispatch("cancel")

Connection(c) ==
    \/ HandleConn(c)
    \/ DeployResult(c) \/ PublishResult(c) \/ PublishResultFails(c)
    \/ ReadEnds(c) \/ RemoveConn(c) \/ FailOwned(c)
    \/ Dispatch(c)

Runner(c) ==
    \/ StartJob(c) \/ CancelJob(c) \/ ConnectionLost(c)
    \/ \E j \in Jobs : ExecutorEnds(c, j) \/ ExecutorStops(c, j)

Faults == Crash \/ \E c \in Conns, how \in {"dead", "closed"} : Drop(c, how)

Next ==
    \/ Deploys
    \/ RequestConsumer
    \/ CancelConsumer
    \/ \E c \in Conns : Connection(c) \/ Runner(c)
    \/ Faults

Spec == Init /\ [][Next]_vars

(* Goroutines run when they can, the runner keeps dialling, its executors end, and the *)
(* status consumer is served; people and faults need not act.                          *)
FairSpec ==
    /\ Spec
    /\ WF_vars(RequestConsumer) /\ WF_vars(CancelConsumer) /\ WF_vars(StatusChanged)
    /\ \A j \in Jobs : WF_vars(StartCreates(j))
    /\ \A c \in Conns : WF_vars(Connection(c)) /\ WF_vars(Runner(c))

-----------------------------------------------------------------------------
(* Properties *)

ThreadStates == {"idle", "queue", "frame", "send", "requeue", "loop", "pop", "ack",
                 "clear", "stop", "verdict",
                 "new", "read", "publish", "remove", "fail", "gone"}

\* The hub's tables, its threads and the runners only ever hold what the code can put there; in
\* particular a thread between buildFrame and sendFrame always has a job and a connection.
TypeOK ==
    /\ status \in [Jobs -> {"none", "pending"} \cup Ended]
    /\ checked \subseteq Jobs
    /\ requests \in Seq(Jobs) /\ cancels \in Seq(Jobs) /\ verdicts \in Seq(Verdict)
    /\ conns \in [Runners -> Conns \cup {None}]
    /\ pending \in Seq(Jobs)
    /\ owned \in [Conns -> Jobs \cup {None}]
    /\ ended \subseteq Conns
    /\ pc \in [Threads -> ThreadStates]
    /\ hand \in [Threads -> Jobs \cup {None}]
    /\ event \in [ConsumerThreads -> Jobs \cup {None}]
    /\ on \in [ConsumerThreads -> Conns \cup {None}]
    /\ result \in [Conns -> Verdict \cup {NoResult}]
    /\ socket \in [Conns -> {"unused", "open", "dead", "closed"}]
    /\ down \in [Conns -> Seq(Frame)]
    /\ up \in [Conns -> Seq(Verdict)]
    /\ dialled \in [Runners -> Conns \cup {None}]
    /\ running \subseteq Conns \X Jobs /\ aborting \subseteq Conns \X Jobs
    /\ asked \in 0..MaxCancels /\ drops \in 0..MaxDrops
    /\ frameErrs \in 0..MaxFrameErrs /\ crashes \in 0..MaxCrashes
    /\ starts \in [Jobs -> Nat]
    /\ displaced \subseteq Jobs /\ forgotten \subseteq Jobs
    /\ \A t \in Threads : pc[t] \in {"frame", "send", "queue", "requeue"} =>
          hand[t] # None /\ (pc[t] # "queue" => Conn(t) # None)

\* The hub hands a job to a runner at most once, whatever races between the consumers, the
\* connections' goroutines, lost connections and cancels: only a server crash, after which the
\* request may be delivered again, can make a runner start it a second time (dispatchOne requeues
\* only what no runner received).
StartedOnce == \A j \in Jobs : starts[j] <= 1 + crashes

\* Somebody still carries j towards a verdict.
Tracked(j) ==
    \/ Holds(requests, j) \/ Holds(pending, j)
    \/ \E t \in Threads : hand[t] = j
    \/ event["cancel"] = j /\ pc["cancel"] \in {"stop", "verdict"}
    \/ \E c \in Conns : owned[c] = j /\ pc[c] # "gone"
    \/ \E c \in Conns : result[c].job = j
    \/ \E i \in 1..Len(verdicts) : verdicts[i].job = j

\* A deploy that has not ended is on its way to an end: its request, the queue, a dispatching thread,
\* the connection that will fail it when it drops, or a verdict on the bus carries it, unless a named
\* lossy step dropped it: a denied build, a result refused by a cancelled context, a crash, or a
\* second assignment to its connection.
NoDeployVanishes ==
    \A j \in Jobs : status[j] = "pending" => Tracked(j) \/ j \in forgotten \cup displaced

\* A runner that is connected is in the hub's table, so that dispatch, cancel and teardown reach it: tearing a
\* replaced connection down must not take its successor with it (removeConn).
ConnectedIsRegistered ==
    \A c \in Conns : pc[c] = "read" /\ c \notin ended => Registered(c)

\* A job a runner has started ends, healthy or failed, although runners drop and people cancel: by its
\* result, by the teardown of its connection, or by the cancel, unless its result is refused on a cancelled
\* context (PublishResultFails) or the server dies (nothing at boot looks for the deploys it was running).
StartedJobEnds ==
    \A j \in Jobs : (\E x \in running : x[2] = j)
                       ~> (status[j] \in Ended \/ j \in forgotten \/ crashes > 0)
=============================================================================
