------------------------------ MODULE PlayQueue ------------------------------
(***************************************************************************)
(* The run queue of auto plays (internal/plays/queue*.go) and the launch   *)
(* it shares with a pressed run (run_launch.go).                           *)
(*                                                                         *)
(* A match queues an item on a person.  One dispatcher goroutine passes    *)
(* over the due items: it holds an item whose target has an active run or  *)
(* has spent its daily cap, decides one whose rule is gone, and claims any *)
(* other by writing a fresh trail id onto the row before it launches.  It  *)
(* never polls: between passes it sleeps until a kick or its one timer.    *)
(* A launch takes its starter's turn, places the run on the starter's      *)
(* computer, refuses a target with an active run, creates the trail, gives *)
(* the turn back, posts to the thread and starts the harness turn.  Each   *)
(* of these is a step here, so presses, cancels, endings, outages and a    *)
(* crash fall between them.                                                *)
(*                                                                         *)
(* Left out: questions and continued runs (a run is starting or running    *)
(* until it ends), reasons and announcements, the choice among several     *)
(* computers (a person has one, possibly shared), archived workspaces.     *)
(***************************************************************************)
EXTENDS Naturals, FiniteSets, TLC

CONSTANTS
  Items,        \* matches of auto plays, and automations' runPlay calls
  Presses,      \* runs people start themselves
  People, Targets, Computers, Plays,
  ItemPerson,   \* [Items -> People], whom a match's run lands on
  ItemTarget,   \* [Items -> Targets]
  Pressers,     \* the <<person, target>> pairs a press may come from
  PlayOf,       \* [Items \cup Presses -> Plays]
  ComputerOf,   \* [People -> Computers], the computer a person's runs land on
  Prio,         \* [Items -> Nat], the auto play's priority
  Room,         \* a computer's runs at once
  DailyCap,     \* a target's automatic runs a day
  MaxFaults     \* crashes, outages, changed rules and database errors, together

Owners == Items \cup Presses
NoOne  == "nobody"

ASSUME ConstantsAssumption ==
  /\ Items \cap Presses = {} /\ Items \cap Targets = {} /\ NoOne \notin Owners
  /\ IsFiniteSet(Items) /\ IsFiniteSet(Presses)
  /\ ItemPerson \in [Items -> People]
  /\ ItemTarget \in [Items -> Targets]
  /\ Pressers \subseteq People \X Targets /\ Pressers # {}
  /\ PlayOf \in [Owners -> Plays]
  /\ ComputerOf \in [People -> Computers]
  /\ Prio \in [Items -> Nat]
  /\ Room \in Nat \ {0}
  /\ DailyCap \in Nat \ {0}
  /\ MaxFaults \in Nat

VARIABLES
  status,   \* item -> none (no row), queued, dispatching, started, skipped, didnt_run, cancelled
  later,    \* queued items whose not_before is still to come
  counted,  \* items decided within the target's rolling day, since its resume
  newer,    \* waiting item -> the owners of its play and target dated no earlier than its queued_at
  trail,    \* owner -> its trail's saved state: none, starting, running, ended
  turn,     \* owner -> the harness turn's observer: none, opening, open
  runs,     \* owner -> how many harness turns were ever started for it
  launch,   \* owner -> where its launch stands
  pressed,  \* press -> who presses, and on what
  locks,    \* person -> the owner holding the person's turn to start
  disp,     \* the dispatcher: what its pass has left, its clock, its timer
  closed,   \* history: owners whose trail Stop closed with its launch still under way
  missed,   \* history: items whose last look, or whose run's last move, met a database error
  kick,     \* the kick channel, of capacity one
  freed,    \* a play.run_finished, or a limits update, is on its way to HandleSlotsFreed
  rule,     \* item -> what its auto play and its person's rights now say: on, off, denied
  offline,  \* computers that do not answer
  up,       \* the server runs
  faults    \* how many faults are left

qvars == <<status, later, counted, newer>>
tvars == <<trail, turn, runs, closed>>
lvars == <<launch, pressed, locks>>
evars == <<freed, rule, offline, up, faults>>
vars  == <<qvars, tvars, lvars, disp, missed, kick, evars>>

\* The event and rule variables an action rarely touches.
World == <<rule, offline, up>>

Statuses == {"none", "queued", "dispatching", "started", "skipped", "didnt_run", "cancelled"}
Steps    == {"idle", "acquire", "place", "clear", "create", "post",
             "started", "full", "held", "busy", "failed", "over"}

PersonOf(o) == IF o \in Items THEN ItemPerson[o] ELSE pressed[o][1]
TargetOf(o) == IF o \in Items THEN ItemTarget[o] ELSE pressed[o][2]

Active(o)    == trail[o] \in {"starting", "running"}
BusyTarget(t) == \E o \in Owners : TargetOf(o) = t /\ Active(o)
Running(c)   == Cardinality({o \in Owners : ComputerOf[PersonOf(o)] = c /\ Active(o)})
AutoRunsToday(t) == Cardinality({i \in counted : TargetOf(i) = t /\ status[i] = "started"})

Dispatcher(pc) == up /\ disp.pc = pc
Asleep == [pc |-> "wait", people |-> {}, todo |-> {}, asof |-> {}, ahead |-> {}, timer |-> {}]
\* i still waits, and o's run on t would be of its play on its target.
Matches(o, t, i) ==
  /\ status[i] \in {"queued", "dispatching"}
  /\ PlayOf[o] = PlayOf[i] /\ t = TargetOf(i)

\* o's trail carries a started_at no earlier than the queued_at of the items in
\* S: a press reads the clock as it begins, the dispatcher as its pass does.
Dated(o, S) ==
  newer' = [i \in Items |->
    IF i \in S /\ Matches(o, TargetOf(o), i) THEN newer[i] \cup {o} ELSE newer[i]]

Fault == faults > 0 /\ faults' = faults - 1

Init ==
  /\ status = [i \in Items |-> "none"]
  /\ later = {} /\ counted = {}
  /\ newer = [i \in Items |-> {}]
  /\ trail = [o \in Owners |-> "none"]
  /\ turn = [o \in Owners |-> "none"]
  /\ runs = [o \in Owners |-> 0]
  /\ closed = {}
  /\ launch = [o \in Owners |-> "idle"]
  /\ pressed \in [Presses -> {CHOOSE x \in Pressers : TRUE}]
  /\ locks = [p \in People |-> NoOne]
  /\ disp = [Asleep EXCEPT !.pc = "recover"]
  /\ missed = {} /\ kick = FALSE /\ freed = FALSE
  /\ rule = [i \in Items |-> "on"]
  /\ offline = {} /\ up = TRUE
  /\ faults = MaxFaults

-----------------------------------------------------------------------------
(* Matches, cancels, resumes and the rules. *)

\* matchOne and enqueueAutomationRun: a row is written once, queued and due,
\* or decided at once when its person may not run it, which leaves a failed
\* trail (whyNobody, failedTrail).
Enqueue(i) ==
  /\ up /\ status[i] = "none"
  /\ \/ /\ rule[i] # "denied"
        /\ status' = [status EXCEPT ![i] = "queued"]
        /\ kick' = TRUE
        /\ UNCHANGED <<trail, newer, freed>>
     \/ /\ rule[i] = "denied"
        /\ status' = [status EXCEPT ![i] = "didnt_run"]
        /\ trail' = [trail EXCEPT ![i] = "ended"]
        /\ Dated(i, Items)
        /\ freed' = TRUE
        /\ UNCHANGED kick
  /\ UNCHANGED <<later, counted, turn, runs, closed, lvars, disp, missed, World, faults>>

\* CancelQueued.
CancelQueued(i) ==
  /\ up /\ status[i] = "queued"
  /\ status' = [status EXCEPT ![i] = "cancelled"]
  /\ later' = later \ {i}
  /\ kick' = TRUE
  /\ UNCHANGED <<counted, newer, tvars, lvars, disp, missed, evars>>

\* ResumeAutoPlays: only where the cap is spent; the count starts again.
ResumeAutoPlays(t) ==
  /\ up /\ AutoRunsToday(t) >= DailyCap
  /\ counted' = {i \in counted : TargetOf(i) # t}
  /\ kick' = TRUE
  /\ UNCHANGED <<status, later, newer, tvars, lvars, disp, missed, evars>>

\* The auto play is switched off, or the person loses the play.
RuleChanges(i) ==
  /\ up /\ rule[i] = "on"
  /\ Fault
  /\ rule' \in {[rule EXCEPT ![i] = "off"], [rule EXCEPT ![i] = "denied"]}
  /\ UNCHANGED <<qvars, tvars, lvars, disp, missed, kick, freed, offline, up>>

\* HandleAutoPlayOff, whenever the event comes, skips what the rule still has
\* queued; a claimed item goes on.
HandleAutoPlayOff(i) ==
  /\ up /\ rule[i] = "off" /\ status[i] = "queued"
  /\ status' = [status EXCEPT ![i] = "skipped"]
  /\ later' = later \ {i}
  /\ kick' = TRUE
  /\ UNCHANGED <<counted, newer, tvars, lvars, disp, missed, evars>>

\* HandleSlotsFreed: a play.run_finished reaches the queue.
HandleSlotsFreed ==
  /\ up /\ freed
  /\ freed' = FALSE /\ kick' = TRUE
  /\ UNCHANGED <<qvars, tvars, lvars, disp, missed, World, faults>>

\* HandleComputerChanged, on any pairing event of the person: WakePerson makes
\* their queued items due.
HandleComputerChanged(p) ==
  /\ up /\ \E i \in later : PersonOf(i) = p
  /\ later' = {i \in later : PersonOf(i) # p}
  /\ kick' = TRUE
  /\ UNCHANGED <<status, counted, newer, tvars, lvars, disp, missed, evars>>

\* An item's not_before comes.
MinutePasses(i) ==
  /\ i \in later
  /\ later' = later \ {i}
  /\ UNCHANGED <<status, counted, newer, tvars, lvars, disp, missed, kick, evars>>

\* A counted run leaves its target's rolling day.
DayPasses(i) ==
  /\ i \in counted /\ status[i] = "started"
  /\ counted' = counted \ {i}
  /\ UNCHANGED <<status, later, newer, tvars, lvars, disp, missed, kick, evars>>

GoesOffline(c) ==
  /\ c \notin offline /\ Fault
  /\ offline' = offline \cup {c}
  /\ UNCHANGED <<qvars, tvars, lvars, disp, missed, kick, freed, rule, up>>

ComesBack(c) ==
  /\ c \in offline
  /\ offline' = offline \ {c}
  /\ UNCHANGED <<qvars, tvars, lvars, disp, missed, kick, freed, rule, up, faults>>

-----------------------------------------------------------------------------
(* The dispatcher. *)

Due == {i \in Items : status[i] = "queued" /\ i \notin later}

\* A pass begins: QueuedPeople.  It reads the clock once: an item queued by
\* then is in asof, one whose not_before comes after it is ahead, however
\* long the pass lasts.
BeginPass ==
  disp' = [Asleep EXCEPT !.pc = "person", !.people = {PersonOf(i) : i \in Due'},
                         !.asof = {i \in Items : status[i] # "none"}, !.ahead = later]

\* Mutant: every claimed item is queued again, its trail unread.
RecoverDispatchingBlindly ==
  /\ Dispatcher("recover")
  /\ status' = [i \in Items |-> IF status[i] = "dispatching" THEN "queued" ELSE status[i]]
  /\ counted' = {i \in counted : status'[i] # "queued"}
  /\ missed' = {i \in missed : runs[i] > 0}
  /\ UNCHANGED <<later, newer, tvars, lvars, kick, evars>>
  /\ BeginPass

\* RunQueue at boot.  RecoverDispatching: an item caught between claim and
\* outcome started if its trail was created, and is queued again if not.
RecoverDispatching ==
  /\ Dispatcher("recover")
  /\ status' = [i \in Items |->
       IF status[i] # "dispatching" THEN status[i]
       ELSE IF trail[i] # "none" THEN "started" ELSE "queued"]
  /\ counted' = {i \in counted : status'[i] # "queued"}
  /\ missed' = {i \in missed : runs[i] > 0}
  /\ UNCHANGED <<later, newer, tvars, lvars, kick, evars>>
  /\ BeginPass

\* dispatchPerson: ListDue.
DispatchPerson(p) ==
  /\ Dispatcher("person") /\ disp.todo = {} /\ p \in disp.people
  /\ disp' = [disp EXCEPT !.people = @ \ {p}, !.todo = {i \in Due \ disp.ahead : PersonOf(i) = p}]
  /\ UNCHANGED <<qvars, tvars, lvars, missed, kick, evars>>

\* The next item, highest priority first; the order of equals is left open.
NextItem(i) ==
  /\ Dispatcher("person") /\ i \in disp.todo
  /\ \A j \in disp.todo : Prio[j] <= Prio[i]

ItemDone(i) == [disp EXCEPT !.pc = "person", !.todo = @ \ {i}]

\* recheck: a trail of the same play that started since the item was queued.
AlreadyRan(i) ==
  \E o \in newer[i] : trail[o] # "none"

\* dispatchItem, up to the claim: the target's trails, its day, the recheck.
\* hold keeps the row as it is, decide moves it only if it is still queued.
Hold(i) ==
  /\ NextItem(i)
  /\ \/ BusyTarget(TargetOf(i)) /\ disp' = ItemDone(i)
     \/ /\ ~BusyTarget(TargetOf(i)) /\ AutoRunsToday(TargetOf(i)) >= DailyCap
        /\ disp' = [ItemDone(i) EXCEPT !.timer = @ \cup {TargetOf(i)}]
  /\ missed' = missed \ {i}
  /\ UNCHANGED <<qvars, tvars, lvars, kick, evars>>

\* Mutant: one run past the cap.
MayGoAtCap(i) == ~BusyTarget(TargetOf(i)) /\ AutoRunsToday(TargetOf(i)) <= DailyCap

MayGo(i) == ~BusyTarget(TargetOf(i)) /\ AutoRunsToday(TargetOf(i)) < DailyCap

Decide(i) ==
  /\ NextItem(i) /\ MayGo(i)
  /\ disp' = ItemDone(i)
  /\ missed' = missed \ {i}
  /\ \/ /\ rule[i] = "off" \/ (rule[i] = "on" /\ AlreadyRan(i))
        /\ status' = [status EXCEPT ![i] = IF @ = "queued" THEN "skipped" ELSE @]
        /\ UNCHANGED <<trail, newer, freed>>
     \/ /\ rule[i] = "denied"
        /\ status' = [status EXCEPT ![i] = IF @ = "queued" THEN "didnt_run" ELSE @]
        /\ trail' = [trail EXCEPT ![i] = "ended"]
        /\ Dated(i, Items)
        /\ freed' = TRUE
  /\ later' = later \ {i}
  /\ UNCHANGED <<counted, turn, runs, closed, lvars, kick, World, faults>>

\* startQueued's first write, which fails on an item that moved on: a fresh
\* trail id goes onto the row with the status.
Claim(i) ==
  /\ NextItem(i) /\ MayGo(i) /\ rule[i] = "on" /\ ~AlreadyRan(i)
  /\ missed' = missed \ {i}
  /\ \/ /\ status[i] = "queued"
        /\ status' = [status EXCEPT ![i] = "dispatching"]
        /\ counted' = counted \cup {i}
        /\ launch' = [launch EXCEPT ![i] = "acquire"]
        /\ disp' = [disp EXCEPT !.pc = "launch"]
     \/ /\ status[i] # "queued"
        /\ disp' = ItemDone(i)
        /\ UNCHANGED <<status, counted, launch>>
  /\ UNCHANGED <<later, newer, tvars, pressed, locks, kick, evars>>

\* A database error on the way to the claim is logged and the item left.
LookFails(i) ==
  /\ NextItem(i) /\ Fault
  /\ missed' = missed \cup {i}
  /\ disp' = ItemDone(i)
  /\ UNCHANGED <<qvars, tvars, lvars, kick, freed, World>>

\* What startQueued does with launch's answer.  A full computer and a busy
\* target are waited for, any other harness refusal is tried in a minute.
Outcome(i) ==
  CASE launch[i] = "started" -> "started"
    [] launch[i] = "failed"  -> "didnt_run"
    [] OTHER                 -> "queued"

Answered == {"started", "full", "held", "busy", "failed"}

DecideLaunch(i) ==
  /\ Dispatcher("launch") /\ launch[i] \in Answered
  /\ status' = [status EXCEPT ![i] = Outcome(i)]
  /\ later' = IF launch[i] = "held" THEN later \cup {i} ELSE later
  /\ counted' = IF Outcome(i) # "started" THEN counted \ {i} ELSE counted
  /\ launch' = [launch EXCEPT ![i] = "idle"]
  /\ disp' = [ItemDone(i) EXCEPT !.ahead = @ \cup (later' \ later)]
  /\ UNCHANGED <<newer, tvars, pressed, locks, missed, kick, evars>>

\* The move fails: the item stays dispatching until the next boot.
DecideLaunchFails(i) ==
  /\ Dispatcher("launch") /\ launch[i] \in Answered
  /\ Fault
  /\ launch' = [launch EXCEPT ![i] = "idle"]
  /\ missed' = missed \cup {i}
  /\ disp' = ItemDone(i)
  /\ UNCHANGED <<qvars, tvars, pressed, locks, kick, freed, World>>

\* Mutant: the next held item is read against the clock as the pass ends.
PassEndsByNewClock ==
  /\ Dispatcher("person") /\ disp.todo = {} /\ disp.people = {}
  /\ disp' = [Asleep EXCEPT !.timer = disp.timer \cup later]
  /\ UNCHANGED <<qvars, tvars, lvars, missed, kick, evars>>

\* The end of dispatch: NextNotBefore arms the timer beside the paused
\* targets' frees.  Nothing held back means sleeping until a kick.
PassEnds ==
  /\ Dispatcher("person") /\ disp.todo = {} /\ disp.people = {}
  /\ disp' = [Asleep EXCEPT !.timer = disp.timer \cup {i \in later \cup disp.ahead : status[i] = "queued"}]
  /\ UNCHANGED <<qvars, tvars, lvars, missed, kick, evars>>

TimerIsDue ==
  \E x \in disp.timer :
    IF x \in Items THEN x \notin later ELSE AutoRunsToday(x) < DailyCap

\* waitForKick.
WaitForKick ==
  /\ Dispatcher("wait")
  /\ \/ kick /\ kick' = FALSE
     \/ TimerIsDue /\ UNCHANGED kick
  /\ UNCHANGED <<qvars, tvars, lvars, missed, evars>>
  /\ BeginPass

-----------------------------------------------------------------------------
(* Launching, the dispatcher's and a press's. *)

\* A person presses a play; its trail's clock is read before it waits its turn.
Press(o, by) ==
  /\ up /\ launch[o] = "idle"
  /\ launch' = [launch EXCEPT ![o] = "acquire"]
  /\ pressed' = [pressed EXCEPT ![o] = by]
  /\ newer' = [i \in Items |-> IF Matches(o, by[2], i) THEN newer[i] \cup {o} ELSE newer[i]]
  /\ UNCHANGED <<status, later, counted, tvars, locks, disp, missed, kick, evars>>

Launching(o, step) == up /\ launch[o] = step
Step(o, step) ==
  /\ launch' = [launch EXCEPT ![o] = IF o \in Presses /\ step \in Answered THEN "over" ELSE step]
  /\ UNCHANGED pressed
Release(o) == locks' = [locks EXCEPT ![PersonOf(o)] = IF @ = o THEN NoOne ELSE @]

\* createFailed, and finish: a trail that has ended, and its play.run_finished.
SaveEnded(o) == trail' = [trail EXCEPT ![o] = "ended"] /\ freed' = TRUE

\* Mutant: a start does not wait for the person's earlier one.
AcquireAtOnce(o) ==
  /\ Launching(o, "acquire")
  /\ locks' = [locks EXCEPT ![PersonOf(o)] = o]
  /\ Step(o, "place")
  /\ UNCHANGED <<qvars, tvars, disp, missed, kick, evars>>

\* starterLocks.acquire: one start of a person at a time.  The dispatcher
\* gives up after dispatchTimeout, and the item didn't run.
Acquire(o) ==
  /\ Launching(o, "acquire")
  /\ \/ /\ locks[PersonOf(o)] = NoOne
        /\ locks' = [locks EXCEPT ![PersonOf(o)] = o]
        /\ Step(o, "place")
     \/ /\ locks[PersonOf(o)] # NoOne /\ o \in Items
        /\ Step(o, "failed")
        /\ UNCHANGED locks
  /\ UNCHANGED <<qvars, tvars, disp, missed, kick, evars>>

\* resolveHarness: a queued run needs room, a pressed one only prefers it.
\* A pressed run's refusal is kept as a failed trail.
Place(o) ==
  /\ Launching(o, "place")
  /\ LET c == ComputerOf[PersonOf(o)]
         refusal == CASE c \in offline                       -> "held"
                      [] o \in Items /\ Running(c) >= Room -> "full"
                      [] OTHER                                -> "none"
     IN  \/ refusal = "none" /\ Step(o, "clear") /\ UNCHANGED <<trail, freed, locks>>
         \/ /\ refusal # "none"
            /\ Step(o, refusal) /\ Release(o)
            /\ IF o \in Presses THEN SaveEnded(o) ELSE UNCHANGED <<trail, freed>>
  /\ UNCHANGED <<qvars, turn, runs, closed, disp, missed, kick, World, faults>>

\* refuseIfActive.
RefuseIfActive(o) ==
  /\ Launching(o, "clear")
  /\ \/ ~BusyTarget(TargetOf(o)) /\ Step(o, "create") /\ UNCHANGED locks
     \/ BusyTarget(TargetOf(o)) /\ Step(o, "busy") /\ Release(o)
  /\ UNCHANGED <<qvars, tvars, disp, missed, kick, evars>>

\* Mutant: the turn is not given back.
CreateTrailKeepsTurn(o) ==
  /\ Launching(o, "create")
  /\ trail' = [trail EXCEPT ![o] = "starting"]
  /\ Dated(o, IF o \in Items THEN disp.asof ELSE {})
  /\ Step(o, "post")
  /\ UNCHANGED <<status, later, counted, turn, runs, closed, locks, disp, missed, kick, evars>>

\* CreateTrail; the starter's turn goes back.
CreateTrail(o) ==
  /\ Launching(o, "create")
  /\ trail' = [trail EXCEPT ![o] = "starting"]
  /\ Dated(o, IF o \in Items THEN disp.asof ELSE {})
  /\ Step(o, "post") /\ Release(o)
  /\ UNCHANGED <<status, later, counted, turn, runs, closed, disp, missed, kick, evars>>

\* Reading the memories, the links or the thread fails instead: only a queued
\* run keeps the refusal as a failed trail (launchMode.keeps).
LaunchRefused(o) ==
  /\ Launching(o, "create") /\ Fault
  /\ IF o \in Items THEN SaveEnded(o) /\ Dated(o, disp.asof) ELSE UNCHANGED <<trail, freed, newer>>
  /\ Step(o, "failed") /\ Release(o)
  /\ UNCHANGED <<status, later, counted, turn, runs, closed, disp, missed, kick, World>>

\* The started message is posted, the doc prepared and the turn started.
StartTurn(o) ==
  /\ Launching(o, "post")
  /\ turn' = [turn EXCEPT ![o] = "opening"]
  /\ runs' = [runs EXCEPT ![o] = @ + 1]
  /\ Step(o, "started")
  /\ UNCHANGED <<qvars, trail, closed, locks, disp, missed, kick, evars>>

\* The post or prepareDoc fails: the trail is finished, saved or not.
PostFails(o) ==
  /\ Launching(o, "post") /\ Fault
  /\ SaveEnded(o) \/ UNCHANGED <<trail, freed>>
  /\ Step(o, "failed")
  /\ UNCHANGED <<qvars, turn, runs, closed, locks, disp, missed, kick, World>>

-----------------------------------------------------------------------------
(* Runs under way, and the process. *)

\* OnStarted saves the observer's own trail, whatever the row says by now.
OnStarted(o) ==
  /\ up /\ turn[o] = "opening"
  /\ turn' = [turn EXCEPT ![o] = "open"]
  /\ trail' = [trail EXCEPT ![o] = "running"]
  /\ UNCHANGED <<qvars, runs, closed, lvars, disp, missed, kick, evars>>

\* OnFinished, onSilence and a stop of a live run: the first ends the trail.
OnFinished(o) ==
  /\ up /\ turn[o] # "none"
  /\ turn' = [turn EXCEPT ![o] = "none"]
  /\ SaveEnded(o)
  /\ UNCHANGED <<qvars, runs, closed, lvars, disp, missed, kick, World, faults>>

\* finish's save fails: nothing ends the trail but a stop or a restart.
FinishFails(o) ==
  /\ up /\ turn[o] # "none" /\ Fault
  /\ turn' = [turn EXCEPT ![o] = "none"]
  /\ UNCHANGED <<qvars, trail, runs, closed, lvars, disp, missed, kick, freed, World>>

\* Stop with no turn of the run on this server closes the record.
Stop(o) ==
  /\ up /\ Active(o) /\ turn[o] = "none"
  /\ SaveEnded(o)
  /\ closed' = IF launch[o] = "post" THEN closed \cup {o} ELSE closed
  /\ UNCHANGED <<qvars, turn, runs, lvars, disp, missed, kick, World, faults>>

\* The process dies; a press under way dies with it.
Crash ==
  /\ up /\ Fault
  /\ up' = FALSE
  /\ turn' = [o \in Owners |-> "none"]
  /\ launch' = [o \in Owners |-> IF o \in Presses /\ launch[o] # "idle" THEN "over" ELSE "idle"]
  /\ locks' = [p \in People |-> NoOne]
  /\ kick' = FALSE
  /\ disp' = [Asleep EXCEPT !.pc = "recover"]
  /\ UNCHANGED <<qvars, trail, runs, closed, pressed, missed, freed, rule, offline>>

\* ResumeRunsAfterRestart: a run the harness accepted is followed again, one
\* it never accepted is finished.
ResumeRunsAfterRestart ==
  /\ ~up /\ up' = TRUE
  /\ turn' = [o \in Owners |-> IF trail[o] = "running" THEN "open" ELSE "none"]
  /\ trail' = [o \in Owners |-> IF trail[o] = "starting" THEN "ended" ELSE trail[o]]
  /\ freed' = (freed \/ \E o \in Owners : trail[o] = "starting")
  /\ UNCHANGED <<qvars, runs, closed, lvars, disp, missed, kick, rule, offline, faults>>

-----------------------------------------------------------------------------
Dispatch ==
  \/ RecoverDispatching \/ PassEnds \/ WaitForKick
  \/ \E p \in People : DispatchPerson(p)
  \/ \E i \in Items :
       \/ Hold(i) \/ Decide(i) \/ Claim(i) \/ LookFails(i)
       \/ DecideLaunch(i) \/ DecideLaunchFails(i)

Launch(o) ==
  \/ Acquire(o) \/ Place(o) \/ RefuseIfActive(o) \/ CreateTrail(o) \/ LaunchRefused(o)
  \/ StartTurn(o) \/ PostFails(o)

Next ==
  \/ Dispatch
  \/ \E o \in Owners :
       \/ Launch(o) \/ OnStarted(o) \/ OnFinished(o) \/ FinishFails(o) \/ Stop(o)
  \/ \E o \in Presses, by \in Pressers : Press(o, by)
  \/ \E i \in Items :
       \/ Enqueue(i) \/ CancelQueued(i) \/ RuleChanges(i) \/ HandleAutoPlayOff(i)
       \/ MinutePasses(i) \/ DayPasses(i)
  \/ \E t \in Targets : ResumeAutoPlays(t)
  \/ \E p \in People : HandleComputerChanged(p)
  \/ \E c \in Computers : GoesOffline(c) \/ ComesBack(c)
  \/ HandleSlotsFreed \/ Crash \/ ResumeRunsAfterRestart

Spec == Init /\ [][Next]_vars

-----------------------------------------------------------------------------
(* Properties. *)

\* The variables' types; a launch holds its starter's turn exactly between
\* taking it and creating the trail.
TypeOK ==
  /\ status \in [Items -> Statuses]
  /\ later \subseteq {i \in Items : status[i] = "queued"}
  /\ counted \subseteq {i \in Items : status[i] \in {"dispatching", "started"}}
  /\ newer \in [Items -> SUBSET Owners]
  /\ trail \in [Owners -> {"none", "starting", "running", "ended"}]
  /\ turn \in [Owners -> {"none", "opening", "open"}]
  /\ runs \in [Owners -> Nat]
  /\ launch \in [Owners -> Steps]
  /\ pressed \in [Presses -> Pressers]
  /\ \A p \in People, o \in Owners :
       locks[p] = o <=> PersonOf(o) = p /\ launch[o] \in {"place", "clear", "create"}
  /\ disp.pc \in {"recover", "person", "launch", "wait"}
  /\ kick \in BOOLEAN /\ freed \in BOOLEAN /\ up \in BOOLEAN
  /\ rule \in [Items -> {"on", "off", "denied"}]

\* startQueued's comment: "a crash mid-start leaves no second run behind".  A
\* match starts at most one harness turn, whatever is held, requeued,
\* recovered or lost between the claim and the outcome.
OneRunPerItem == \A i \in Items : runs[i] <= 1

\* The daily cap: of the runs started on a target within its day, no more
\* than the cap were automatic, even when a crash falls between a start and
\* its record.  A run whose started move met a database error is left out: the
\* dispatcher does not see it until the next boot, and may start another.
CapKept ==
  \A t \in Targets :
    Cardinality({i \in counted \ missed : TargetOf(i) = t /\ runs[i] > 0}) <= DailyCap

\* starterLocks: "each counts the room the one before took".  A queued run
\* lands on a computer only while its starter's runs there leave room, though
\* the room was counted three steps earlier and presses of the same person
\* start beside the dispatcher.  Another starter's press on a shared computer
\* is not held off, nor is a run that Stop closed before its turn began: the
\* turn begins all the same, and OnStarted takes back the room.
RoomCounted ==
  [][\A i \in Items : trail[i] = "none" /\ trail'[i] = "starting" =>
       Cardinality({o \in Owners : PersonOf(o) = PersonOf(i) /\ Active(o)} \ closed) < Room]_vars

\* RunQueue never polls, so it must not sleep through work.  With nothing on
\* its way to wake it, every due item waits for an active run of its target or
\* its full computer to end, or for a paused target the timer watches; every
\* other queued item is one the timer watches.  An item whose last look met a
\* database error is left to the next kick.
NoStrandedItem ==
  Dispatcher("wait") /\ ~kick /\ ~freed /\ ~TimerIsDue =>
    \A i \in Items \ missed : status[i] = "queued" =>
      IF i \in later THEN i \in disp.timer
      ELSE \/ BusyTarget(TargetOf(i))
           \/ Running(ComputerOf[PersonOf(i)]) >= Room
           \/ AutoRunsToday(TargetOf(i)) >= DailyCap /\ TargetOf(i) \in disp.timer

\* play_run's description: "one run at a time per target".
OneRunPerTarget ==
  \A o, q \in Owners : turn[o] # "none" /\ turn[q] # "none" /\ TargetOf(o) = TargetOf(q) => o = q
=============================================================================
