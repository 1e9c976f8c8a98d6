------------------------- MODULE RunnerDispatchProofs -------------------------
(***************************************************************************)
(* Proofs about RunnerDispatch, for every set of deploys, runners and      *)
(* connections and every number of cancels, drops, failed lookups and      *)
(* crashes.                                                                *)
(***************************************************************************)
EXTENDS RunnerDispatch, FiniteSetTheorems, SequenceTheorems, TLAPS

-----------------------------------------------------------------------------
(* The inductive invariant, in parts. *)

\* A start that only passed its check has no row.
StoreOK ==
    /\ status \in [Jobs -> {"none", "pending"} \cup Ended]
    /\ checked \subseteq {j \in Jobs : status[j] = "none"}

BusOK == requests \in Seq(Jobs) /\ cancels \in Seq(Jobs) /\ verdicts \in Seq(Verdict)

HubOK ==
    /\ conns \in [Runners -> Conns \cup {None}]
    /\ pending \in Seq(Jobs)
    /\ owned \in [Conns -> Jobs \cup {None}]
    /\ ended \subseteq Conns

\* Where a thread stands says what it has: a job between taking and giving it
\* away, a connection to dispatch to, an event to cancel, a result to publish.
RequestSteps == {"idle", "queue", "frame", "send", "ack"}
CancelSteps  == {"idle", "clear", "stop", "verdict", "loop", "pop", "frame", "send", "requeue", "ack"}
ConnSteps    == {"new", "loop", "pop", "frame", "send", "requeue", "read", "publish",
                 "remove", "fail", "gone"}
Dispatching  == {"frame", "send", "queue", "requeue"}

PcOK ==
    /\ pc \in [Threads -> ThreadStates]
    /\ pc["request"] \in RequestSteps /\ pc["cancel"] \in CancelSteps
    /\ \A c \in Conns : pc[c] \in ConnSteps

HandOK ==
    /\ hand \in [Threads -> Jobs \cup {None}]
    /\ \A t \in Threads : hand[t] # None <=> pc[t] \in Dispatching

EventOK ==
    /\ event \in [ConsumerThreads -> Jobs \cup {None}]
    /\ on \in [ConsumerThreads -> Conns \cup {None}]
    /\ pc["request"] \in {"frame", "send"} => on["request"] # None
    /\ pc["cancel"] \in {"clear", "stop", "loop", "pop", "frame", "send", "requeue"} => on["cancel"] # None
    /\ pc["cancel"] \in {"clear", "stop", "verdict"} => event["cancel"] # None

ResultOK ==
    /\ result \in [Conns -> Verdict \cup {NoResult}]
    /\ \A c \in Conns : pc[c] = "publish" => result[c] # NoResult
    /\ \A c \in Conns : pc[c] = "read" => result[c] = NoResult

LinkOK ==
    /\ socket \in [Conns -> {"unused", "open", "dead", "closed"}]
    /\ down \in [Conns -> Seq(Frame)]
    /\ up \in [Conns -> Seq(Verdict)]

\* A connection not yet dialled has no socket and carries nothing; one being
\* torn down is closed.
SocketOK ==
    /\ \A c \in Conns : socket[c] = "unused" <=> pc[c] = "new"
    /\ \A c \in Conns : pc[c] \in {"remove", "fail", "gone"} => socket[c] = "closed"
    /\ \A c \in Conns : socket[c] = "unused" => down[c] = <<>>
    /\ \A r \in Runners : conns[r] # None => socket[conns[r]] # "unused"

RunnerOK ==
    /\ dialled \in [Runners -> Conns \cup {None}]
    /\ running \subseteq Conns \X Jobs /\ aborting \subseteq Conns \X Jobs

CountOK ==
    /\ asked \in 0..MaxCancels /\ drops \in 0..MaxDrops
    /\ frameErrs \in 0..MaxFrameErrs /\ crashes \in 0..MaxCrashes
    /\ starts \in [Jobs -> Nat]
    /\ displaced \subseteq Jobs /\ forgotten \subseteq Jobs

Types ==
    /\ StoreOK /\ BusOK /\ HubOK /\ PcOK /\ HandOK /\ EventOK /\ ResultOK
    /\ LinkOK /\ SocketOK /\ RunnerOK /\ CountOK

-----------------------------------------------------------------------------
\* A connection that works, from registering to the end of its reads, is the
\* runner's current one unless its context is cancelled.
Working == {"loop", "pop", "frame", "send", "requeue", "read", "publish"}
TableInv == \A c \in Conns : pc[c] \in Working /\ c \notin ended => Registered(c)

-----------------------------------------------------------------------------
\* A verdict on j is on the bus.
Judged(j) == \E i \in 1..Len(verdicts) : verdicts[i].job = j

\* Tracked, without the hands of the threads about to send: theirs is the
\* connection that owns the job.
TrackedElse(j) ==
    \/ Holds(requests, j) \/ Holds(pending, j)
    \/ \E t \in Threads : hand[t] = j /\ pc[t] # "send"
    \/ event["cancel"] = j /\ pc["cancel"] \in {"stop", "verdict"}
    \/ \E c \in Conns : owned[c] = j /\ pc[c] # "gone"
    \/ \E c \in Conns : result[c].job = j
    \/ Judged(j)

\* A send that will fail, so that the job goes back to the queue.
WillRequeue(j) == \E t \in Threads : hand[t] = j /\ pc[t] = "send" /\ socket[Conn(t)] = "closed"

Accounted(j) == TrackedElse(j) \/ WillRequeue(j) \/ j \in forgotten \cup displaced

TrackInv == \A j \in Jobs : status[j] = "pending" => Accounted(j)

-----------------------------------------------------------------------------
AssignOf(j) == [type |-> "assign", job |-> j]

\* The hub has j to hand out.
AtHub(j) == Holds(requests, j) \/ Holds(pending, j) \/ \E t \in Threads : hand[t] = j

Distinct(s) == \A i, k \in 1..Len(s) : s[i] = s[k] => i = k

\* x is in s at most once.
Once(s, x) == \A i, k \in 1..Len(s) : s[i] = x /\ s[k] = x => i = k

\* A job waits in one place of the hub, and comes there once in a server's life.
OnePlace ==
    /\ Distinct(requests) /\ Distinct(pending)
    /\ \A j \in Jobs : Holds(requests, j) =>
          ~Holds(pending, j) /\ event["request"] # j /\ \A t \in Threads : hand[t] # j
    /\ \A j \in Jobs : Holds(pending, j) => \A t \in Threads : hand[t] # j
    /\ \A t, u \in Threads : hand[t] # None /\ hand[t] = hand[u] => t = u
    /\ \A j \in Jobs : status[j] = "none" => ~AtHub(j) /\ event["request"] # j

\* A connection carries a job's assign frame at most once, and not while the
\* hub still has the job, unless the server died in between.
OneFrame ==
    /\ \A c \in Conns, j \in Jobs : Once(down[c], AssignOf(j))
    /\ \A c \in Conns, j \in Jobs :
          socket[c] = "open" /\ AtHub(j) => ~Holds(down[c], AssignOf(j))

\* The connections that carry j to a runner.
Carriers(j) == {c \in Conns : Holds(down[c], AssignOf(j))}

\* The starts of a job, those under way and the one the hub may still bring about.
CountInv ==
    \A j \in Jobs :
        /\ starts[j] + Cardinality(Carriers(j)) + (IF AtHub(j) THEN 1 ELSE 0) <= 1 + crashes
        /\ status[j] = "none" => starts[j] = 0 /\ Carriers(j) = {}

\* A step that brings nothing closer to a second start: no job comes to the hub,
\* no connection carries more than before.
Quiet ==
    /\ UNCHANGED <<starts, crashes>>
    /\ \A j \in Jobs : (AtHub(j)' => AtHub(j)) /\ (status'[j] = "none" => status[j] = "none")
    /\ \A c \in Conns : socket'[c] = "open" => socket[c] = "open" \/ down'[c] = <<>>
    /\ \A c \in Conns, j \in Jobs :
          /\ Holds(down'[c], AssignOf(j)) => Holds(down[c], AssignOf(j))
          /\ Once(down[c], AssignOf(j)) => Once(down'[c], AssignOf(j))

OnceInv == OnePlace /\ OneFrame /\ CountInv


-----------------------------------------------------------------------------
(* What the model's sequence operators keep *)

(* Every index of a finite set of naturals is the n-th for exactly one n, the     *)
(* number of its members up to it, and every n up to the size of the set has one. *)
LEMMA NthIndex ==
    ASSUME NEW len \in Nat, NEW at \in SUBSET (1..len)
    PROVE  LET rank(i) == Cardinality({k \in at : k <= i}) IN
           /\ Cardinality(at) \in Nat
           /\ \A i \in at : rank(i) \in 1..Cardinality(at)
           /\ \A i, k \in at : rank(i) = rank(k) => i = k
           /\ \A n \in 1..Cardinality(at) : \E i \in at : rank(i) = n
<1> DEFINE upto(i) == {k \in at : k <= i}
           rank(i) == Cardinality(upto(i))
<1>1. IsFiniteSet(at) /\ Cardinality(at) \in Nat
  <2>1. IsFiniteSet(1..len)
    BY FS_Interval
  <2> QED BY <2>1, FS_Subset, FS_CardinalityType
<1>2. ASSUME NEW i \in at
      PROVE  /\ upto(i) \in SUBSET at /\ IsFiniteSet(upto(i))
             /\ rank(i) \in 1..Cardinality(at)
  <2>1. upto(i) \in SUBSET at /\ i \in upto(i)
    OBVIOUS
  <2>2. IsFiniteSet(upto(i)) /\ rank(i) \in Nat /\ rank(i) <= Cardinality(at)
    BY <1>1, <2>1, FS_Subset, FS_CardinalityType
  <2>3. rank(i) # 0
    BY <2>1, <2>2, FS_EmptySet
  <2> QED BY <1>1, <2>1, <2>2, <2>3
<1>3. ASSUME NEW i \in at, NEW k \in at, i < k PROVE rank(i) # rank(k)
  <2>1. upto(i) \in SUBSET upto(k) /\ upto(i) # upto(k)
    <3>1. at \subseteq Nat /\ i \in at /\ k \in at
      OBVIOUS
    <3>2. k \in upto(k) /\ k \notin upto(i)
      BY <1>3, <3>1
    <3>3. \A m \in at : m <= i => m <= k
      BY <1>3, <3>1
    <3> QED BY <3>2, <3>3
  <2>2. IsFiniteSet(upto(k))
    BY <1>2
  <2> QED BY <2>1, <2>2, FS_Subset
<1>4. \A i, k \in at : rank(i) = rank(k) => i = k
  BY <1>3
<1>5. ASSUME NEW n \in 1..Cardinality(at) PROVE \E i \in at : rank(i) = n
  <2> DEFINE f == [i \in at |-> rank(i)]
             N == 1..Cardinality(at)
  <2>1. IsFiniteSet(N) /\ Cardinality(N) = Cardinality(at)
    BY <1>1, FS_Interval
  <2>2. f \in [at -> N]
    BY <1>2
  <2>3. f \in Injection(at, N)
    BY <2>2, <1>4 DEF Injection, IsInjective
  <2>4. f \in Surjection(at, N)
    BY <2>1, <2>3, FS_Injection
  <2> QED BY <2>4 DEF Surjection
<1> QED BY <1>1, <1>2, <1>4, <1>5

(* Kept(s, S) is a sequence of the members of s that are in S, no more often than *)
(* they are in s.                                                                 *)
LEMMA KeptIs ==
    ASSUME NEW T, NEW s \in Seq(T), NEW S
    PROVE  /\ Kept(s, S) \in Seq(T)
           /\ \A x : Holds(Kept(s, S), x) <=> Holds(s, x) /\ x \in S
           /\ Distinct(s) => Distinct(Kept(s, S))
<1> DEFINE at == {i \in 1..Len(s) : s[i] \in S}
           rank(i) == Cardinality({k \in at : k <= i})
           nth(n) == CHOOSE i \in at : rank(i) = n
           size == Cardinality(at)
<1>1. /\ Len(s) \in Nat /\ at \in SUBSET (1..Len(s))
      /\ \A i \in 1..Len(s) : s[i] \in T
  BY LenProperties, ElementOfSeq
<1>2. /\ size \in Nat
      /\ \A i \in at : rank(i) \in 1..size
      /\ \A i, k \in at : rank(i) = rank(k) => i = k
      /\ \A n \in 1..size : \E i \in at : rank(i) = n
  <2> HIDE DEF at
  <2> QED BY <1>1, NthIndex
<1>3. Kept(s, S) = [n \in 1..size |-> s[nth(n)]]
  BY DEF Kept
<1>4. \A n \in 1..size : nth(n) \in at /\ rank(nth(n)) = n
  BY <1>2
<1>5. \A i \in at : nth(rank(i)) = i
  BY <1>2, <1>4
<1> HIDE DEF size, nth, rank
<1>6. Kept(s, S) \in Seq(T) /\ Len(Kept(s, S)) = size
  BY <1>1, <1>2, <1>3, <1>4
<1>7. ASSUME NEW x PROVE Holds(Kept(s, S), x) <=> Holds(s, x) /\ x \in S
  <2>1. ASSUME NEW n \in 1..size, s[nth(n)] = x PROVE Holds(s, x) /\ x \in S
    BY <1>4, <2>1 DEF Holds
  <2>2. ASSUME NEW i \in 1..Len(s), s[i] = x, x \in S
        PROVE  rank(i) \in 1..size /\ s[nth(rank(i))] = x
    BY <1>2, <1>5, <2>2
  <2> QED BY <1>3, <1>6, <2>1, <2>2 DEF Holds
<1>8. ASSUME Distinct(s) PROVE Distinct(Kept(s, S))
  <2>1. ASSUME NEW n \in 1..size, NEW m \in 1..size, s[nth(n)] = s[nth(m)] PROVE n = m
    <3>1. nth(n) = nth(m)
      BY <1>4, <1>8, <2>1 DEF Distinct
    <3> QED BY <1>4, <3>1
  <2> QED BY <1>3, <1>6, <2>1 DEF Distinct
<1> QED BY <1>6, <1>7, <1>8

(* An appended element joins the others, and repeats one only if it was there.    *)
LEMMA AppendIs ==
    ASSUME NEW T, NEW s \in Seq(T), NEW e \in T
    PROVE  /\ Append(s, e) \in Seq(T)
           /\ \A x : Holds(Append(s, e), x) <=> Holds(s, x) \/ x = e
           /\ Distinct(s) /\ ~Holds(s, e) => Distinct(Append(s, e))
<1>1. /\ Append(s, e) \in Seq(T) /\ Len(s) \in Nat
      /\ Len(Append(s, e)) = Len(s) + 1
      /\ \A i \in 1..Len(s) : Append(s, e)[i] = s[i]
      /\ Append(s, e)[Len(s) + 1] = e
  BY AppendProperties, LenProperties
<1>2. 1..(Len(s) + 1) = 1..Len(s) \cup {Len(s) + 1}
  BY <1>1
<1>3. ASSUME NEW x PROVE Holds(Append(s, e), x) <=> Holds(s, x) \/ x = e
  BY <1>1, <1>2 DEF Holds
<1>4. ASSUME Distinct(s), ~Holds(s, e) PROVE Distinct(Append(s, e))
  BY <1>1, <1>2, <1>4 DEF Holds, Distinct
<1> QED BY <1>1, <1>3, <1>4

(* Without its head a sequence holds the rest, and the head again only if it was  *)
(* there twice.                                                                   *)
LEMMA TailIs ==
    ASSUME NEW T, NEW s \in Seq(T), s # <<>>
    PROVE  /\ Head(s) \in T /\ Tail(s) \in Seq(T)
           /\ \A x : Holds(s, x) <=> x = Head(s) \/ Holds(Tail(s), x)
           /\ Distinct(s) => Distinct(Tail(s)) /\ ~Holds(Tail(s), Head(s))
<1>1. /\ Head(s) \in T /\ Tail(s) \in Seq(T) /\ Len(s) \in Nat \ {0}
      /\ Len(Tail(s)) = Len(s) - 1
      /\ \A i \in 1..Len(Tail(s)) : Tail(s)[i] = s[i + 1]
  BY HeadTailProperties, EmptySeq
<1>2. Head(s) = s[1]
  OBVIOUS
<1>3. /\ 1 \in 1..Len(s)
      /\ \A i \in 1..Len(Tail(s)) : i + 1 \in 1..Len(s) /\ i + 1 # 1
      /\ \A i \in 1..Len(s) : i = 1 \/ (i - 1 \in 1..Len(Tail(s)) /\ Tail(s)[i - 1] = s[i])
  BY <1>1
<1>4. ASSUME NEW x PROVE Holds(s, x) <=> x = Head(s) \/ Holds(Tail(s), x)
  BY <1>1, <1>2, <1>3 DEF Holds
<1>5. ASSUME Distinct(s) PROVE Distinct(Tail(s)) /\ ~Holds(Tail(s), Head(s))
  <2>1. \A i, k \in 1..Len(Tail(s)) : Tail(s)[i] = Tail(s)[k] => i + 1 = k + 1
    BY <1>1, <1>3, <1>5 DEF Distinct
  <2>2. Len(Tail(s)) \in Nat
    BY <1>1
  <2>3. Distinct(Tail(s))
    BY <2>1, <2>2 DEF Distinct
  <2>4. ~Holds(Tail(s), Head(s))
    BY <1>1, <1>2, <1>3, <1>5 DEF Distinct, Holds
  <2> QED BY <2>3, <2>4
<1> QED BY <1>1, <1>4, <1>5

(* An element put in front joins the others.                                      *)
LEMMA FrontIs ==
    ASSUME NEW T, NEW s \in Seq(T), NEW e \in T
    PROVE  /\ <<e>> \o s \in Seq(T)
           /\ \A x : Holds(<<e>> \o s, x) <=> Holds(s, x) \/ x = e
           /\ Distinct(s) /\ ~Holds(s, e) => Distinct(<<e>> \o s)
<1> DEFINE u == <<e>> \o s
<1>1. <<e>> \in Seq(T) /\ Len(<<e>>) = 1 /\ <<e>>[1] = e /\ Len(s) \in Nat
  BY LenProperties
<1>2. /\ u \in Seq(T) /\ Len(u) = 1 + Len(s)
      /\ \A i \in 1..(1 + Len(s)) : u[i] = IF i <= 1 THEN <<e>>[i] ELSE s[i - 1]
  BY <1>1, ConcatProperties
<1> HIDE DEF u
<1>3. /\ 1 \in 1..Len(u) /\ u[1] = e
      /\ \A i \in 1..Len(s) : i + 1 \in 1..Len(u) /\ u[i + 1] = s[i]
      /\ \A i \in 1..Len(u) : i = 1 \/ (i - 1 \in 1..Len(s) /\ u[i] = s[i - 1])
  BY <1>1, <1>2
<1>4. ASSUME NEW x PROVE Holds(u, x) <=> Holds(s, x) \/ x = e
  BY <1>3 DEF Holds
<1>5. ASSUME Distinct(s), ~Holds(s, e) PROVE Distinct(u)
  <2> SUFFICES ASSUME NEW i \in 1..Len(u), NEW k \in 1..Len(u), u[i] = u[k] PROVE i = k
    BY DEF Distinct
  <2>0. ASSUME NEW m \in 1..Len(u), m # 1 PROVE u[m] # e
    <3>1. m - 1 \in 1..Len(s) /\ u[m] = s[m - 1]
      BY <1>3, <2>0
    <3> QED BY <1>5, <3>1 DEF Holds
  <2>1. CASE i = 1 \/ k = 1
    BY <1>3, <2>0, <2>1
  <2>2. CASE i # 1 /\ k # 1
    <3>1. /\ i - 1 \in 1..Len(s) /\ k - 1 \in 1..Len(s)
          /\ s[i - 1] = s[k - 1]
      BY <1>3, <2>2
    <3>2. i - 1 = k - 1
      BY <1>5, <3>1 DEF Distinct
    <3>3. i \in Nat /\ k \in Nat
      BY <1>1, <1>2
    <3> QED BY <3>2, <3>3
  <2> QED BY <2>1, <2>2
<1> QED BY <1>2, <1>4, <1>5 DEF u

(* Cutting the i-th element out leaves the others.                                *)
LEMMA CutIs ==
    ASSUME NEW T, NEW s \in Seq(T), NEW i \in 1..Len(s)
    PROVE  LET u == SubSeq(s, 1, i - 1) \o SubSeq(s, i + 1, Len(s)) IN
           /\ s[i] \in T /\ u \in Seq(T)
           /\ \A x : Holds(s, x) <=> x = s[i] \/ Holds(u, x)
           /\ Distinct(s) => Distinct(u) /\ ~Holds(u, s[i])
<1> DEFINE a == SubSeq(s, 1, i - 1)
           b == SubSeq(s, i + 1, Len(s))
           u == a \o b
           old(k) == IF k < i THEN k ELSE k + 1
<1>1. Len(s) \in Nat /\ (\A k \in 1..Len(s) : s[k] \in T) /\ i \in 1..Len(s)
  BY LenProperties, ElementOfSeq
<1>2. /\ a \in Seq(T) /\ Len(a) = i - 1 /\ \A k \in 1..(i - 1) : a[k] = s[k]
  <2>1. 1 \in Int /\ i - 1 \in Int /\ \A k \in 1..(i - 1) : s[k] \in T
    BY <1>1
  <2>2. /\ a \in Seq(T) /\ Len(a) = (IF 1 <= i - 1 THEN (i - 1) - 1 + 1 ELSE 0)
        /\ \A k \in 1..((i - 1) - 1 + 1) : a[k] = s[1 + k - 1]
    BY <2>1, SubSeqProperties
  <2> HIDE DEF a
  <2> QED BY <1>1, <2>2
<1>3. /\ b \in Seq(T) /\ Len(b) = Len(s) - i
      /\ \A k \in 1..(Len(s) - i) : b[k] = s[i + k]
  <2>1. i + 1 \in Int /\ Len(s) \in Int /\ \A k \in (i + 1)..Len(s) : s[k] \in T
    BY <1>1
  <2>2. /\ b \in Seq(T) /\ Len(b) = (IF i + 1 <= Len(s) THEN Len(s) - (i + 1) + 1 ELSE 0)
        /\ \A k \in 1..(Len(s) - (i + 1) + 1) : b[k] = s[(i + 1) + k - 1]
    BY <2>1, SubSeqProperties
  <2> HIDE DEF b
  <2> QED BY <1>1, <2>2
<1> HIDE DEF a, b
<1>4. /\ u \in Seq(T) /\ Len(u) = (i - 1) + (Len(s) - i)
      /\ \A k \in 1..((i - 1) + (Len(s) - i)) : u[k] = IF k <= i - 1 THEN a[k] ELSE b[k - (i - 1)]
  <2>1. /\ u \in Seq(T) /\ Len(u) = Len(a) + Len(b)
        /\ \A k \in 1..(Len(a) + Len(b)) : u[k] = IF k <= Len(a) THEN a[k] ELSE b[k - Len(a)]
    BY <1>2, <1>3, ConcatProperties
  <2> HIDE DEF u
  <2> QED BY <1>2, <1>3, <2>1
<1> HIDE DEF u
<1>5. Len(u) = Len(s) - 1
  BY <1>1, <1>4
<1>6. \A k \in 1..Len(u) : u[k] = s[old(k)] /\ old(k) \in 1..Len(s) /\ old(k) # i
  BY <1>1, <1>2, <1>3, <1>4, <1>5
<1>7. \A k \in 1..Len(s) : k = i \/ \E m \in 1..Len(u) : old(m) = k
  <2> SUFFICES ASSUME NEW k \in 1..Len(s), k # i PROVE \E m \in 1..Len(u) : old(m) = k
    OBVIOUS
  <2>1. CASE k < i
    BY <1>1, <1>5, <2>1
  <2>2. CASE k > i
    <3>1. k - 1 \in 1..Len(u) /\ old(k - 1) = k
      BY <1>1, <1>5, <2>2
    <3> QED BY <3>1
  <2> QED BY <1>1, <2>1, <2>2
<1>8. \A k, m \in 1..Len(u) : old(k) = old(m) => k = m
  BY <1>1, <1>5
<1> HIDE DEF old
<1>9. ASSUME NEW x PROVE Holds(s, x) <=> x = s[i] \/ Holds(u, x)
  BY <1>1, <1>6, <1>7 DEF Holds
<1>10. ASSUME Distinct(s) PROVE Distinct(u) /\ ~Holds(u, s[i])
  BY <1>1, <1>6, <1>8, <1>10 DEF Distinct, Holds
<1> QED BY <1>1, <1>4, <1>9, <1>10 DEF u, a, b

(* The empty sequence holds nothing.                                              *)
LEMMA EmptyIs == \A T : <<>> \in Seq(T) /\ Distinct(<<>>) /\ \A x : ~Holds(<<>>, x)
  BY DEF Holds, Distinct

(* Where something fits, popFitting's first index exists.                         *)
LEMMA FirstFitting ==
    ASSUME NEW c, Len(pending) \in Nat, Fitting(c) # {}
    PROVE  LET i == CHOOSE i \in Fitting(c) : \A k \in Fitting(c) : i <= k IN i \in Fitting(c)
<1>1. Fitting(c) \subseteq Nat
  BY DEF Fitting
<1>2. PICK x \in Fitting(c) : \A y \in Fitting(c) : ~(<<y, x>> \in OpToRel(<, Nat))
  BY <1>1, NatLessThanWellFounded, WFMin
<1>3. ASSUME NEW y \in Fitting(c) PROVE x <= y
  <2>1. x \in Nat /\ y \in Nat
    BY <1>1
  <2>2. y < x => <<y, x>> \in OpToRel(<, Nat)
    BY <2>1, Zenon DEF OpToRel
  <2>3. ~(y < x)
    BY <1>2, <2>2
  <2> QED BY <2>1, <2>3
<1> QED BY <1>2, <1>3


-----------------------------------------------------------------------------
(* Type correctness *)

(* What the types need of the constants.                                          *)
LEMMA ConstantTypes ==
    /\ Threads = Conns \cup {"request", "cancel"}
    /\ ConsumerThreads = {"request", "cancel"} /\ ConsumerThreads \subseteq Threads
    /\ "request" \in Threads /\ "cancel" \in Threads
    /\ "request" \notin Conns /\ "cancel" \notin Conns
    /\ RunnerOf \in [Conns -> Runners]
    /\ Builds \subseteq Jobs /\ Denied \subseteq Jobs
    /\ None \notin Jobs /\ None \notin Conns
    /\ NoResult \notin Verdict
    /\ MaxCancels \in Nat /\ MaxDrops \in Nat /\ MaxFrameErrs \in Nat /\ MaxCrashes \in Nat
  BY DispatchAssumption DEF Threads, ConsumerThreads, NoResult, Verdict

(* A thread that dispatches has a connection to dispatch to, its own if it serves *)
(* one; the consumer of requests never goes through the queue.                    *)
LEMMA ThreadConn ==
    ASSUME Types, NEW t \in Threads, pc[t] \in {"frame", "send", "loop", "pop", "requeue"}
    PROVE  /\ Conn(t) \in Conns
           /\ t \in Conns => Conn(t) = t
           /\ t \notin Conns => Conn(t) = on[t] /\ on[t] # None
           /\ pc[t] \in {"loop", "pop", "requeue"} => t # "request"
  BY ConstantTypes DEF Types, PcOK, RequestSteps, CancelSteps, ConnSteps, EventOK, Conn

(* A thread between taking a job and giving it away has one.                      *)
LEMMA ThreadHand ==
    ASSUME Types, NEW t \in Threads, pc[t] \in Dispatching
    PROVE  hand[t] \in Jobs
  BY DEF Types, HandOK

(* The frames and verdicts the code builds are well-formed.                       *)
LEMMA RecordTypes ==
    /\ \A j \in Jobs : [type |-> "assign", job |-> j] \in Frame
    /\ \A j \in Jobs : [type |-> "cancel", job |-> j] \in Frame
    /\ \A j \in Jobs, s \in Ended : [job |-> j, status |-> s] \in Verdict
    /\ \A f \in Frame : f.job \in Jobs
    /\ \A v \in Verdict : v.job \in Jobs /\ v.status \in Ended
    /\ "healthy" \in Ended /\ "failed" \in Ended
  BY DEF Frame, Verdict, Ended

(* popFitting takes a queued job that fits the connection and leaves the others.  *)
LEMMA PopTakes ==
    ASSUME Types, NEW t \in Threads, PopFitting(t)
    PROVE  \E i \in 1..Len(pending) :
              /\ hand' = [hand EXCEPT ![t] = pending[i]] /\ pending[i] \in Jobs
              /\ pending' \in Seq(Jobs)
              /\ \A x : Holds(pending, x) <=> x = pending[i] \/ Holds(pending', x)
              /\ Distinct(pending) => Distinct(pending') /\ ~Holds(pending', pending[i])
<1> DEFINE i == CHOOSE i \in Fitting(Conn(t)) : \A k \in Fitting(Conn(t)) : i <= k
<1>1. pending \in Seq(Jobs) /\ Len(pending) \in Nat
  BY LenProperties DEF Types, HubOK
<1>2. i \in 1..Len(pending)
  <2>1. i \in Fitting(Conn(t))
    BY <1>1, FirstFitting DEF PopFitting
  <2> QED BY <2>1 DEF Fitting
<1>3. /\ hand' = [hand EXCEPT ![t] = pending[i]]
      /\ pending' = SubSeq(pending, 1, i - 1) \o SubSeq(pending, i + 1, Len(pending))
  BY DEF PopFitting
<1> HIDE DEF i
<1>4. LET u == SubSeq(pending, 1, i - 1) \o SubSeq(pending, i + 1, Len(pending)) IN
      /\ pending[i] \in Jobs /\ u \in Seq(Jobs)
      /\ \A x : Holds(pending, x) <=> x = pending[i] \/ Holds(u, x)
      /\ Distinct(pending) => Distinct(u) /\ ~Holds(u, pending[i])
  BY <1>1, <1>2, CutIs
<1> QED BY <1>2, <1>3, <1>4

(* The events a crash leaves to be delivered again were to be delivered, or       *)
(* were being handled.                                                            *)
LEMMA Redelivered ==
    ASSUME NEW e \in Jobs \cup {None}, NEW s \in Seq(Jobs), NEW keep
    PROVE  LET u == Kept((IF e = None THEN <<>> ELSE <<e>>) \o s, keep) IN
           /\ u \in Seq(Jobs)
           /\ \A j \in Jobs : Holds(u, j) => Holds(s, j) \/ e = j
           /\ Distinct(s) /\ ~Holds(s, e) => Distinct(u)
<1> DEFINE v == (IF e = None THEN <<>> ELSE <<e>>) \o s
<1>1. v \in Seq(Jobs) /\ (\A j \in Jobs : Holds(v, j) => Holds(s, j) \/ e = j)
      /\ (Distinct(s) /\ ~Holds(s, e) => Distinct(v))
  <2>1. CASE e = None
    <3>1. v = s
      BY <2>1, ConcatEmptySeq
    <3> QED BY <3>1
  <2>2. CASE e # None
    <3>1. v = <<e>> \o s /\ e \in Jobs
      BY <2>2
    <3> HIDE DEF v
    <3> QED BY <3>1, FrontIs
  <2> QED BY <2>1, <2>2
<1> HIDE DEF v
<1>2. /\ Kept(v, keep) \in Seq(Jobs)
      /\ \A x : Holds(Kept(v, keep), x) <=> Holds(v, x) /\ x \in keep
      /\ Distinct(v) => Distinct(Kept(v, keep))
  BY <1>1, KeptIs
<1>3. \A j \in Jobs : Holds(Kept(v, keep), j) => Holds(s, j) \/ e = j
  BY <1>1, <1>2
<1> QED BY <1>1, <1>2, <1>3 DEF v

(* What a step leaves alone keeps its types.                                      *)
LEMMA Frames ==
    ASSUME Types
    PROVE  /\ UNCHANGED <<status, checked>> => StoreOK'
           /\ UNCHANGED <<requests, cancels, verdicts>> => BusOK'
           /\ UNCHANGED <<conns, pending, owned, ended>> => HubOK'
           /\ UNCHANGED <<pc>> => PcOK'
           /\ UNCHANGED <<hand, pc>> => HandOK'
           /\ UNCHANGED <<event, on, pc>> => EventOK'
           /\ UNCHANGED <<result, pc>> => ResultOK'
           /\ UNCHANGED <<socket, down, up>> => LinkOK'
           /\ UNCHANGED <<socket, down, pc, conns>> => SocketOK'
           /\ UNCHANGED <<dialled, running, aborting>> => RunnerOK'
           /\ UNCHANGED <<asked, drops, frameErrs, crashes, starts, displaced, forgotten>> => CountOK'
<1>1. UNCHANGED <<status, checked>> => StoreOK'
  BY DEF Types, StoreOK
<1>2. UNCHANGED <<requests, cancels, verdicts>> => BusOK'
  BY DEF Types, BusOK
<1>3. UNCHANGED <<conns, pending, owned, ended>> => HubOK'
  BY DEF Types, HubOK
<1>4. UNCHANGED <<pc>> => PcOK'
  BY DEF Types, PcOK
<1>5. UNCHANGED <<hand, pc>> => HandOK'
  BY DEF Types, HandOK
<1>6. UNCHANGED <<event, on, pc>> => EventOK'
  BY DEF Types, EventOK
<1>7. UNCHANGED <<result, pc>> => ResultOK'
  BY DEF Types, ResultOK
<1>8. UNCHANGED <<socket, down, up>> => LinkOK'
  BY DEF Types, LinkOK
<1>9. UNCHANGED <<socket, down, pc, conns>> => SocketOK'
  BY DEF Types, SocketOK
<1>10. UNCHANGED <<dialled, running, aborting>> => RunnerOK'
  BY DEF Types, RunnerOK
<1>11. UNCHANGED <<asked, drops, frameErrs, crashes, starts, displaced, forgotten>> => CountOK'
  BY DEF Types, CountOK
<1> QED BY <1>1, <1>2, <1>3, <1>4, <1>5, <1>6, <1>7, <1>8, <1>9, <1>10, <1>11

(* Each step keeps the types.                                                     *)
LEMMA NextTypes == Types /\ [Next]_vars => Types'
<1> SUFFICES ASSUME Types, [Next]_vars PROVE Types'
  OBVIOUS
<1> USE DEF Types
<1>1. CASE StatusChanged
  <2>1. StoreOK'
    <3>1. Head(verdicts).job \in Jobs /\ Head(verdicts).status \in Ended
      BY <1>1, TailIs, RecordTypes DEF StatusChanged, BusOK
    <3> QED BY <1>1, <3>1 DEF StatusChanged, CanTransition, StoreOK
  <2>2. BusOK'
    BY <1>1, ConstantTypes DEF StatusChanged, BusOK
  <2> QED BY <1>1, <2>1, <2>2, Frames DEF StatusChanged, hubVars, threadVars, linkVars,
     runnerVars, bounds, history
<1>2. ASSUME NEW j \in Jobs, StartChecks(j) PROVE Types'
  <2>1. StoreOK'
    BY <1>2, ConstantTypes DEF StartChecks, StoreOK, Ended
  <2> QED BY <1>2, <2>1, Frames DEF StartChecks, busVars, hubVars, threadVars, linkVars,
     runnerVars, bounds, history
<1>3. ASSUME NEW j \in Jobs, StartCreates(j) PROVE Types'
  <2>1. StoreOK'
    BY <1>3, ConstantTypes DEF StartCreates, StoreOK, Ended
  <2>2. BusOK'
    BY <1>3, ConstantTypes DEF StartCreates, BusOK
  <2> QED BY <1>3, <2>1, <2>2, Frames DEF StartCreates, hubVars, threadVars, linkVars,
     runnerVars, bounds, history
<1>4. ASSUME NEW j \in Jobs, AskCancel(j) PROVE Types'
  <2>1. BusOK'
    BY <1>4, ConstantTypes DEF AskCancel, BusOK
  <2>2. CountOK'
    BY <1>4, ConstantTypes DEF AskCancel, history, CountOK
  <2> QED BY <1>4, <2>1, <2>2, Frames DEF AskCancel, deployVars, hubVars, threadVars,
     linkVars, runnerVars, history
<1>5. ASSUME NEW t \in Threads, DispatchOwns(t) PROVE Types'
  <2>1. HubOK'
    BY <1>5, ConstantTypes, ThreadConn, ThreadHand DEF DispatchOwns, SetJob,
       DispatchUnchanged, HubOK, Dispatching
  <2>2. PcOK'
    BY <1>5, ConstantTypes, ThreadConn DEF DispatchOwns, PcOK, RequestSteps, CancelSteps,
       ConnSteps, ThreadStates
  <2>3. HandOK'
    BY <1>5, ConstantTypes, ThreadConn DEF DispatchOwns, HandOK, PcOK, Dispatching
  <2>4. EventOK'
    BY <1>5, ConstantTypes, ThreadConn DEF DispatchOwns, DispatchUnchanged, EventOK, PcOK
  <2>5. ResultOK'
    BY <1>5, ConstantTypes, ThreadConn DEF DispatchOwns, DispatchUnchanged, ResultOK, PcOK
  <2>6. SocketOK'
    BY <1>5, ConstantTypes, ThreadConn DEF DispatchOwns, DispatchUnchanged, SocketOK, PcOK,
       LinkOK, HubOK
  <2>7. CountOK'
    <3>1. Conn(t) \in Conns
      BY <1>5, ThreadConn DEF DispatchOwns
    <3>2. displaced' \subseteq Jobs
      BY <1>5, <3>1 DEF DispatchOwns, SetJob, HubOK, CountOK
    <3> QED BY <1>5, <3>2 DEF DispatchOwns, DispatchUnchanged, CountOK
  <2> QED BY <1>5, <2>1, <2>2, <2>3, <2>4, <2>5, <2>6, <2>7, Frames DEF DispatchOwns,
     DispatchUnchanged, deployVars
<1>6. ASSUME NEW t \in Threads, DispatchFrameFails(t) PROVE Types'
  <2>1. PcOK'
    BY <1>6, ConstantTypes, ThreadConn DEF DispatchFrameFails, Unowned, PcOK, RequestSteps,
       CancelSteps, ConnSteps, ThreadStates
  <2>2. HandOK'
    BY <1>6, ConstantTypes, ThreadConn DEF DispatchFrameFails, Unowned, HandOK, PcOK,
       Dispatching
  <2>3. EventOK'
    BY <1>6, ConstantTypes, ThreadConn DEF DispatchFrameFails, Unowned, DispatchUnchanged,
       EventOK, PcOK
  <2>4. ResultOK'
    BY <1>6, ConstantTypes, ThreadConn DEF DispatchFrameFails, Unowned, DispatchUnchanged,
       ResultOK, PcOK
  <2>5. SocketOK'
    BY <1>6, ConstantTypes, ThreadConn DEF DispatchFrameFails, Unowned, DispatchUnchanged,
       SocketOK, PcOK, LinkOK, HubOK
  <2>6. CountOK'
    BY <1>6, ConstantTypes, ThreadConn DEF DispatchFrameFails, DispatchUnchanged, CountOK
  <2> QED BY <1>6, <2>1, <2>2, <2>3, <2>4, <2>5, <2>6, Frames DEF DispatchFrameFails,
     DispatchUnchanged, deployVars
<1>7. ASSUME NEW t \in Threads, DispatchDenied(t) PROVE Types'
  <2>1. PcOK'
    BY <1>7, ConstantTypes, ThreadConn DEF DispatchDenied, Dispatched, PcOK, RequestSteps,
       CancelSteps, ConnSteps, ThreadStates
  <2>2. HandOK'
    BY <1>7, ConstantTypes, ThreadConn DEF DispatchDenied, Dispatched, HandOK, PcOK,
       Dispatching
  <2>3. EventOK'
    BY <1>7, ConstantTypes, ThreadConn DEF DispatchDenied, Dispatched, DispatchUnchanged,
       EventOK, PcOK
  <2>4. ResultOK'
    BY <1>7, ConstantTypes, ThreadConn DEF DispatchDenied, Dispatched, DispatchUnchanged,
       ResultOK, PcOK
  <2>5. SocketOK'
    BY <1>7, ConstantTypes, ThreadConn DEF DispatchDenied, Dispatched, DispatchUnchanged,
       SocketOK, PcOK, LinkOK, HubOK
  <2>6. CountOK'
    BY <1>7, ConstantTypes, ThreadConn, ThreadHand DEF DispatchDenied, DispatchUnchanged,
       CountOK, Dispatching
  <2> QED BY <1>7, <2>1, <2>2, <2>3, <2>4, <2>5, <2>6, Frames DEF DispatchDenied,
     DispatchUnchanged, deployVars
<1>8. ASSUME NEW t \in Threads, DispatchSends(t) PROVE Types'
  <2>1. PcOK'
    BY <1>8, ConstantTypes, ThreadConn DEF DispatchSends, Dispatched, PcOK, RequestSteps,
       CancelSteps, ConnSteps, ThreadStates
  <2>2. HandOK'
    BY <1>8, ConstantTypes, ThreadConn DEF DispatchSends, Dispatched, HandOK, PcOK,
       Dispatching
  <2>3. EventOK'
    BY <1>8, ConstantTypes, ThreadConn DEF DispatchSends, Dispatched, DispatchUnchanged,
       EventOK, PcOK
  <2>4. ResultOK'
    BY <1>8, ConstantTypes, ThreadConn DEF DispatchSends, Dispatched, DispatchUnchanged,
       ResultOK, PcOK
  <2>5. LinkOK'
    <3>1. hand[t] \in Jobs /\ Conn(t) \in Conns
      BY <1>8, ThreadHand, ThreadConn DEF DispatchSends, Dispatching
    <3>2. \A s \in Seq(Frame) : Append(s, [type |-> "assign", job |-> hand[t]]) \in Seq(Frame)
      BY <3>1, RecordTypes, AppendProperties
    <3> QED BY <1>8, <3>1, <3>2 DEF DispatchSends, DispatchUnchanged, LinkOK
  <2>6. SocketOK'
    BY <1>8, ConstantTypes, ThreadConn DEF DispatchSends, Dispatched, DispatchUnchanged,
       SocketOK, PcOK, LinkOK, HubOK
  <2> QED BY <1>8, <2>1, <2>2, <2>3, <2>4, <2>5, <2>6, Frames DEF DispatchSends,
     DispatchUnchanged, deployVars
<1>9. ASSUME NEW t \in Threads, DispatchSendFails(t) PROVE Types'
  <2>1. HubOK'
    BY <1>9, ConstantTypes, ThreadConn DEF DispatchSendFails, ClearJob, DispatchUnchanged,
       HubOK
  <2>2. PcOK'
    BY <1>9, ConstantTypes, ThreadConn DEF DispatchSendFails, Unowned, PcOK, RequestSteps,
       CancelSteps, ConnSteps, ThreadStates
  <2>3. HandOK'
    BY <1>9, ConstantTypes, ThreadConn DEF DispatchSendFails, Unowned, HandOK, PcOK,
       Dispatching
  <2>4. EventOK'
    BY <1>9, ConstantTypes, ThreadConn DEF DispatchSendFails, Unowned, DispatchUnchanged,
       EventOK, PcOK
  <2>5. ResultOK'
    BY <1>9, ConstantTypes, ThreadConn DEF DispatchSendFails, Unowned, DispatchUnchanged,
       ResultOK, PcOK
  <2>6. SocketOK'
    BY <1>9, ConstantTypes, ThreadConn DEF DispatchSendFails, Unowned, DispatchUnchanged,
       SocketOK, PcOK, LinkOK, HubOK
  <2> QED BY <1>9, <2>1, <2>2, <2>3, <2>4, <2>5, <2>6, Frames DEF DispatchSendFails,
     DispatchUnchanged, deployVars
<1>10. ASSUME NEW t \in Threads, Requeue(t) PROVE Types'
  <2>1. HubOK'
    BY <1>10, ConstantTypes, ThreadConn, ThreadHand, FrontIs DEF Requeue, DispatchUnchanged,
       HubOK, Dispatching
  <2>2. PcOK'
    BY <1>10, ConstantTypes, ThreadConn DEF Requeue, Return, PcOK, RequestSteps,
       CancelSteps, ConnSteps, ThreadStates
  <2>3. HandOK'
    BY <1>10, ConstantTypes, ThreadConn DEF Requeue, Return, HandOK, PcOK, Dispatching
  <2>4. EventOK'
    BY <1>10, ConstantTypes, ThreadConn DEF Requeue, Return, DispatchUnchanged, EventOK,
       PcOK
  <2>5. ResultOK'
    BY <1>10, ConstantTypes, ThreadConn DEF Requeue, Return, DispatchUnchanged, ResultOK,
       PcOK
  <2>6. SocketOK'
    BY <1>10, ConstantTypes, ThreadConn DEF Requeue, Return, DispatchUnchanged, SocketOK,
       PcOK, LinkOK, HubOK
  <2> QED BY <1>10, <2>1, <2>2, <2>3, <2>4, <2>5, <2>6, Frames DEF Requeue,
     DispatchUnchanged, deployVars
<1>11. ASSUME NEW t \in Threads, PendingChecks(t) PROVE Types'
  <2>1. PcOK'
    BY <1>11, ConstantTypes, ThreadConn DEF PendingChecks, Return, PcOK, RequestSteps,
       CancelSteps, ConnSteps, ThreadStates
  <2>2. HandOK'
    BY <1>11, ConstantTypes, ThreadConn DEF PendingChecks, Return, HandOK, PcOK, Dispatching
  <2>3. EventOK'
    BY <1>11, ConstantTypes, ThreadConn DEF PendingChecks, Return, DispatchUnchanged,
       EventOK, PcOK
  <2>4. ResultOK'
    BY <1>11, ConstantTypes, ThreadConn DEF PendingChecks, Return, DispatchUnchanged,
       ResultOK, PcOK
  <2>5. SocketOK'
    BY <1>11, ConstantTypes, ThreadConn DEF PendingChecks, Return, DispatchUnchanged,
       SocketOK, PcOK, LinkOK, HubOK
  <2> QED BY <1>11, <2>1, <2>2, <2>3, <2>4, <2>5, Frames DEF PendingChecks,
     DispatchUnchanged, deployVars
<1>12. ASSUME NEW t \in Threads, PopFitting(t) PROVE Types'
  <2>1. HubOK'
    BY <1>12, PopTakes DEF PopFitting, DispatchUnchanged, HubOK
  <2>2. PcOK'
    BY <1>12, ConstantTypes, ThreadConn DEF PopFitting, PcOK, RequestSteps, CancelSteps,
       ConnSteps, ThreadStates
  <2>3. HandOK'
    <3>1. PICK j \in Jobs : hand' = [hand EXCEPT ![t] = j]
      BY <1>12, PopTakes
    <3>2. pc[t] = "pop" /\ pc' = [pc EXCEPT ![t] = "frame"]
      BY <1>12 DEF PopFitting
    <3> QED BY <3>1, <3>2, ConstantTypes DEF HandOK, PcOK, Dispatching
  <2>4. EventOK'
    BY <1>12, ConstantTypes, ThreadConn DEF PopFitting, DispatchUnchanged, EventOK, PcOK
  <2>5. ResultOK'
    BY <1>12, ConstantTypes, ThreadConn DEF PopFitting, DispatchUnchanged, ResultOK, PcOK
  <2>6. SocketOK'
    BY <1>12, ConstantTypes, ThreadConn DEF PopFitting, DispatchUnchanged, SocketOK, PcOK,
       LinkOK, HubOK
  <2> QED BY <1>12, <2>1, <2>2, <2>3, <2>4, <2>5, <2>6, Frames DEF PopFitting,
     DispatchUnchanged, deployVars
<1>13. ASSUME NEW t \in Threads, PopNothing(t) PROVE Types'
  <2>1. PcOK'
    BY <1>13, ConstantTypes, ThreadConn DEF PopNothing, Return, PcOK, RequestSteps,
       CancelSteps, ConnSteps, ThreadStates
  <2>2. HandOK'
    BY <1>13, ConstantTypes, ThreadConn DEF PopNothing, Return, HandOK, PcOK, Dispatching
  <2>3. EventOK'
    BY <1>13, ConstantTypes, ThreadConn DEF PopNothing, Return, DispatchUnchanged, EventOK,
       PcOK
  <2>4. ResultOK'
    BY <1>13, ConstantTypes, ThreadConn DEF PopNothing, Return, DispatchUnchanged, ResultOK,
       PcOK
  <2>5. SocketOK'
    BY <1>13, ConstantTypes, ThreadConn DEF PopNothing, Return, DispatchUnchanged, SocketOK,
       PcOK, LinkOK, HubOK
  <2> QED BY <1>13, <2>1, <2>2, <2>3, <2>4, <2>5, Frames DEF PopNothing, DispatchUnchanged,
     deployVars
<1>14. CASE Queue
  <2>1. HubOK'
    BY <1>14, ConstantTypes, ThreadHand, AppendProperties DEF Queue, DispatchUnchanged,
       HubOK, Dispatching
  <2>2. PcOK'
    BY <1>14, ConstantTypes DEF Queue, PcOK, RequestSteps, CancelSteps, ConnSteps,
       ThreadStates
  <2>3. HandOK'
    BY <1>14, ConstantTypes DEF Queue, HandOK, PcOK, Dispatching
  <2>4. EventOK'
    BY <1>14, ConstantTypes DEF Queue, DispatchUnchanged, EventOK, PcOK
  <2>5. ResultOK'
    BY <1>14, ConstantTypes DEF Queue, DispatchUnchanged, ResultOK, PcOK
  <2>6. SocketOK'
    BY <1>14, ConstantTypes DEF Queue, DispatchUnchanged, SocketOK, PcOK, LinkOK, HubOK
  <2> QED BY <1>14, <2>1, <2>2, <2>3, <2>4, <2>5, <2>6, Frames DEF Queue, DispatchUnchanged,
     deployVars
<1>15. CASE HandleRequest
  <2>1. BusOK'
    BY <1>15, ConstantTypes DEF HandleRequest, BusOK
  <2>2. PcOK'
    BY <1>15, ConstantTypes DEF HandleRequest, PcOK, RequestSteps, CancelSteps, ConnSteps,
       ThreadStates
  <2>3. HandOK'
    <3>1. Head(requests) \in Jobs
      BY <1>15, TailIs DEF HandleRequest, BusOK
    <3> QED BY <1>15, <3>1, ConstantTypes DEF HandleRequest, HandOK, PcOK, Dispatching
  <2>4. EventOK'
    <3>1. Head(requests) \in Jobs
      BY <1>15, TailIs DEF HandleRequest, BusOK
    <3>2. \A c \in IdleConnected(Head(requests)) : c \in Conns
      BY DEF IdleConnected
    <3> QED BY <1>15, <3>1, <3>2, ConstantTypes DEF HandleRequest, EventOK, PcOK
  <2>5. ResultOK'
    BY <1>15, ConstantTypes DEF HandleRequest, ConsumerUnchanged, ResultOK, PcOK
  <2>6. SocketOK'
    BY <1>15, ConstantTypes DEF HandleRequest, ConsumerUnchanged, linkVars, SocketOK, PcOK,
       LinkOK, HubOK
  <2> QED BY <1>15, <2>1, <2>2, <2>3, <2>4, <2>5, <2>6, Frames DEF HandleRequest, history,
     ConsumerUnchanged, deployVars, linkVars, runnerVars, bounds
<1>16. ASSUME NEW t \in ConsumerThreads, Ack(t) PROVE Types'
  <2>1. PcOK'
    BY <1>16, ConstantTypes DEF Ack, PcOK, RequestSteps, CancelSteps, ConnSteps,
       ThreadStates
  <2>2. HandOK'
    BY <1>16, ConstantTypes DEF Ack, HandOK, PcOK, Dispatching
  <2>3. EventOK'
    BY <1>16, ConstantTypes DEF Ack, EventOK, PcOK
  <2>4. ResultOK'
    BY <1>16, ConstantTypes DEF Ack, ConsumerUnchanged, ResultOK, PcOK
  <2>5. SocketOK'
    BY <1>16, ConstantTypes DEF Ack, ConsumerUnchanged, linkVars, SocketOK, PcOK, LinkOK,
       HubOK
  <2> QED BY <1>16, <2>1, <2>2, <2>3, <2>4, <2>5, Frames DEF Ack, busVars, history,
     ConsumerUnchanged, deployVars, linkVars, runnerVars, bounds
<1>17. CASE HandleCancel
  <2>1. BusOK'
    BY <1>17, ConstantTypes DEF HandleCancel, BusOK
  <2>2. HubOK'
    <3>1. pending' \in Seq(Jobs)
      BY <1>17, KeptIs DEF HandleCancel, HubOK
    <3> QED BY <1>17, <3>1 DEF HandleCancel, ConsumerUnchanged, HubOK
  <2>3. PcOK'
    BY <1>17, ConstantTypes DEF HandleCancel, PcOK, RequestSteps, CancelSteps, ConnSteps,
       ThreadStates
  <2>4. HandOK'
    BY <1>17, ConstantTypes DEF HandleCancel, HandOK, PcOK, Dispatching
  <2>5. EventOK'
    <3>1. Head(cancels) \in Jobs
      BY <1>17, TailIs DEF HandleCancel, BusOK
    <3>2. \A c \in Owners(Head(cancels)) : c \in Conns
      BY DEF Owners
    <3> QED BY <1>17, <3>1, <3>2, ConstantTypes DEF HandleCancel, EventOK, PcOK
  <2>6. ResultOK'
    BY <1>17, ConstantTypes DEF HandleCancel, ConsumerUnchanged, ResultOK, PcOK
  <2>7. SocketOK'
    BY <1>17, ConstantTypes DEF HandleCancel, ConsumerUnchanged, linkVars, SocketOK, PcOK,
       LinkOK, HubOK
  <2> QED BY <1>17, <2>1, <2>2, <2>3, <2>4, <2>5, <2>6, <2>7, Frames DEF HandleCancel,
     history, ConsumerUnchanged, deployVars, linkVars, runnerVars, bounds
<1>18. CASE CancelClears
  <2>1. HubOK'
    BY <1>18, ConstantTypes DEF CancelClears, ClearJob, HubOK
  <2>2. PcOK'
    BY <1>18, ConstantTypes DEF CancelClears, PcOK, RequestSteps, CancelSteps, ConnSteps,
       ThreadStates
  <2>3. HandOK'
    BY <1>18, ConstantTypes DEF CancelClears, HandOK, PcOK, Dispatching
  <2>4. EventOK'
    BY <1>18, ConstantTypes DEF CancelClears, EventOK, PcOK
  <2>5. ResultOK'
    BY <1>18, ConstantTypes DEF CancelClears, ResultOK, PcOK
  <2>6. SocketOK'
    BY <1>18, ConstantTypes DEF CancelClears, linkVars, SocketOK, PcOK, LinkOK, HubOK
  <2> QED BY <1>18, <2>1, <2>2, <2>3, <2>4, <2>5, <2>6, Frames DEF CancelClears, deployVars,
     busVars, linkVars, runnerVars, bounds
<1>19. CASE CancelSends
  <2>1. PcOK'
    BY <1>19, ConstantTypes DEF CancelSends, PcOK, RequestSteps, CancelSteps, ConnSteps,
       ThreadStates
  <2>2. HandOK'
    BY <1>19, ConstantTypes DEF CancelSends, HandOK, PcOK, Dispatching
  <2>3. EventOK'
    BY <1>19, ConstantTypes DEF CancelSends, EventOK, PcOK
  <2>4. ResultOK'
    BY <1>19, ConstantTypes DEF CancelSends, ResultOK, PcOK
  <2>5. LinkOK'
    <3>1. event["cancel"] \in Jobs /\ on["cancel"] \in Conns
      BY <1>19, ConstantTypes DEF CancelSends, EventOK
    <3>2. \A s \in Seq(Frame) : Append(s, [type |-> "cancel", job |-> event["cancel"]]) \in Seq(Frame)
      BY <3>1, RecordTypes, AppendProperties
    <3> QED BY <1>19, <3>1, <3>2 DEF CancelSends, LinkOK
  <2>6. SocketOK'
    BY <1>19, ConstantTypes DEF CancelSends, hubVars, SocketOK, PcOK, LinkOK, HubOK
  <2> QED BY <1>19, <2>1, <2>2, <2>3, <2>4, <2>5, <2>6, Frames DEF CancelSends, deployVars,
     busVars, hubVars, runnerVars, bounds, history
<1>20. CASE CancelPublishes
  <2>1. BusOK'
    <3>1. [job |-> event["cancel"], status |-> "failed"] \in Verdict
      BY <1>20, ConstantTypes, RecordTypes DEF CancelPublishes, EventOK
    <3> QED BY <1>20, <3>1, AppendProperties DEF CancelPublishes, BusOK
  <2>2. PcOK'
    BY <1>20, ConstantTypes DEF CancelPublishes, PcOK, RequestSteps, CancelSteps, ConnSteps,
       ThreadStates
  <2>3. HandOK'
    BY <1>20, ConstantTypes DEF CancelPublishes, HandOK, PcOK, Dispatching
  <2>4. EventOK'
    BY <1>20, ConstantTypes DEF CancelPublishes, EventOK, PcOK
  <2>5. ResultOK'
    BY <1>20, ConstantTypes DEF CancelPublishes, ConsumerUnchanged, ResultOK, PcOK
  <2>6. SocketOK'
    BY <1>20, ConstantTypes DEF CancelPublishes, ConsumerUnchanged, linkVars, SocketOK,
       PcOK, LinkOK, HubOK
  <2> QED BY <1>20, <2>1, <2>2, <2>3, <2>4, <2>5, <2>6, Frames DEF CancelPublishes, history,
     ConsumerUnchanged, deployVars, linkVars, runnerVars, bounds
<1>21. ASSUME NEW c \in Conns, HandleConn(c) PROVE Types'
  <2>1. HubOK'
    BY <1>21, ConstantTypes DEF HandleConn, ConnUnchanged, HubOK
  <2>2. PcOK'
    BY <1>21, ConstantTypes DEF HandleConn, PcOK, RequestSteps, CancelSteps, ConnSteps,
       ThreadStates
  <2>3. HandOK'
    BY <1>21, ConstantTypes DEF HandleConn, ConnUnchanged, HandOK, PcOK, Dispatching,
       SocketOK
  <2>4. EventOK'
    BY <1>21, ConstantTypes DEF HandleConn, ConnUnchanged, EventOK, PcOK
  <2>5. ResultOK'
    BY <1>21, ConstantTypes DEF HandleConn, ResultOK, PcOK
  <2>6. LinkOK'
    BY <1>21, ConstantTypes DEF HandleConn, LinkOK
  <2>7. SocketOK'
    BY <1>21, ConstantTypes DEF HandleConn, SocketOK, PcOK, LinkOK, HubOK
  <2>8. RunnerOK'
    BY <1>21, ConstantTypes DEF HandleConn, ConnUnchanged, RunnerOK
  <2> QED BY <1>21, <2>1, <2>2, <2>3, <2>4, <2>5, <2>6, <2>7, <2>8, Frames DEF HandleConn,
     ConnUnchanged, deployVars
<1>22. ASSUME NEW c \in Conns, DeployResult(c) PROVE Types'
  <2>1. HubOK'
    BY <1>22, ConstantTypes DEF DeployResult, ClearJob, ConnUnchanged, HubOK
  <2>2. PcOK'
    BY <1>22, ConstantTypes DEF DeployResult, PcOK, RequestSteps, CancelSteps, ConnSteps,
       ThreadStates
  <2>3. HandOK'
    BY <1>22, ConstantTypes DEF DeployResult, ConnUnchanged, HandOK, PcOK, Dispatching
  <2>4. EventOK'
    BY <1>22, ConstantTypes DEF DeployResult, ConnUnchanged, EventOK, PcOK
  <2>5. ResultOK'
    <3>1. Head(up[c]) \in Verdict
      BY <1>22, TailIs DEF DeployResult, LinkOK
    <3> QED BY <1>22, <3>1, ConstantTypes DEF DeployResult, ResultOK, PcOK
  <2>6. LinkOK'
    BY <1>22, ConstantTypes DEF DeployResult, LinkOK
  <2>7. SocketOK'
    BY <1>22, ConstantTypes DEF DeployResult, SocketOK, PcOK, LinkOK, HubOK
  <2> QED BY <1>22, <2>1, <2>2, <2>3, <2>4, <2>5, <2>6, <2>7, Frames DEF DeployResult,
     ConnUnchanged, deployVars
<1>23. ASSUME NEW c \in Conns, PublishResult(c) PROVE Types'
  <2>1. BusOK'
    <3>1. result[c] \in Verdict
      BY <1>23 DEF PublishResult, ResultOK
    <3> QED BY <1>23, <3>1, AppendProperties DEF PublishResult, ConnUnchanged, BusOK
  <2>2. PcOK'
    BY <1>23, ConstantTypes DEF PublishResult, PcOK, RequestSteps, CancelSteps, ConnSteps,
       ThreadStates
  <2>3. HandOK'
    BY <1>23, ConstantTypes DEF PublishResult, ConnUnchanged, HandOK, PcOK, Dispatching
  <2>4. EventOK'
    BY <1>23, ConstantTypes DEF PublishResult, ConnUnchanged, EventOK, PcOK
  <2>5. ResultOK'
    BY <1>23, ConstantTypes DEF PublishResult, ResultOK, PcOK
  <2>6. SocketOK'
    BY <1>23, ConstantTypes DEF PublishResult, SocketOK, PcOK, LinkOK, HubOK
  <2> QED BY <1>23, <2>1, <2>2, <2>3, <2>4, <2>5, <2>6, Frames DEF PublishResult,
     ConnUnchanged, deployVars
<1>24. ASSUME NEW c \in Conns, PublishResultFails(c) PROVE Types'
  <2>1. PcOK'
    BY <1>24, ConstantTypes DEF PublishResultFails, PcOK, RequestSteps, CancelSteps,
       ConnSteps, ThreadStates
  <2>2. HandOK'
    BY <1>24, ConstantTypes DEF PublishResultFails, ConnUnchanged, HandOK, PcOK, Dispatching
  <2>3. EventOK'
    BY <1>24, ConstantTypes DEF PublishResultFails, ConnUnchanged, EventOK, PcOK
  <2>4. ResultOK'
    BY <1>24, ConstantTypes DEF PublishResultFails, ResultOK, PcOK
  <2>5. SocketOK'
    BY <1>24, ConstantTypes DEF PublishResultFails, SocketOK, PcOK, LinkOK, HubOK
  <2>6. CountOK'
    <3>1. result[c].job \in Jobs
      BY <1>24, RecordTypes DEF PublishResultFails, ResultOK
    <3> QED BY <1>24, <3>1 DEF PublishResultFails, ConnUnchanged, CountOK
  <2> QED BY <1>24, <2>1, <2>2, <2>3, <2>4, <2>5, <2>6, Frames DEF PublishResultFails,
     ConnUnchanged, deployVars
<1>25. ASSUME NEW c \in Conns, ReadEnds(c) PROVE Types'
  <2>1. HubOK'
    BY <1>25, ConstantTypes DEF ReadEnds, ConnUnchanged, HubOK
  <2>2. PcOK'
    BY <1>25, ConstantTypes DEF ReadEnds, PcOK, RequestSteps, CancelSteps, ConnSteps,
       ThreadStates
  <2>3. HandOK'
    BY <1>25, ConstantTypes DEF ReadEnds, ConnUnchanged, HandOK, PcOK, Dispatching
  <2>4. EventOK'
    BY <1>25, ConstantTypes DEF ReadEnds, ConnUnchanged, EventOK, PcOK
  <2>5. ResultOK'
    BY <1>25, ConstantTypes DEF ReadEnds, ResultOK, PcOK
  <2>6. LinkOK'
    BY <1>25, ConstantTypes DEF ReadEnds, LinkOK
  <2>7. SocketOK'
    BY <1>25, ConstantTypes DEF ReadEnds, SocketOK, PcOK, LinkOK, HubOK
  <2> QED BY <1>25, <2>1, <2>2, <2>3, <2>4, <2>5, <2>6, <2>7, Frames DEF ReadEnds,
     ConnUnchanged, deployVars
<1>26. ASSUME NEW c \in Conns, RemoveConn(c) PROVE Types'
  <2>1. HubOK'
    BY <1>26, ConstantTypes DEF RemoveConn, ConnUnchanged, HubOK
  <2>2. PcOK'
    BY <1>26, ConstantTypes DEF RemoveConn, PcOK, RequestSteps, CancelSteps, ConnSteps,
       ThreadStates
  <2>3. HandOK'
    BY <1>26, ConstantTypes DEF RemoveConn, ConnUnchanged, HandOK, PcOK, Dispatching
  <2>4. EventOK'
    BY <1>26, ConstantTypes DEF RemoveConn, ConnUnchanged, EventOK, PcOK
  <2>5. ResultOK'
    BY <1>26, ConstantTypes DEF RemoveConn, ResultOK, PcOK
  <2>6. SocketOK'
    BY <1>26, ConstantTypes DEF RemoveConn, linkVars, SocketOK, PcOK, LinkOK, HubOK
  <2> QED BY <1>26, <2>1, <2>2, <2>3, <2>4, <2>5, <2>6, Frames DEF RemoveConn, linkVars,
     ConnUnchanged, deployVars
<1>27. ASSUME NEW c \in Conns, FailOwned(c) PROVE Types'
  <2>1. BusOK'
    <3>1. owned[c] = None \/ [job |-> owned[c], status |-> "failed"] \in Verdict
      BY RecordTypes DEF HubOK
    <3> QED BY <1>27, <3>1, AppendProperties DEF FailOwned, ConnUnchanged, BusOK
  <2>2. PcOK'
    BY <1>27, ConstantTypes DEF FailOwned, PcOK, RequestSteps, CancelSteps, ConnSteps,
       ThreadStates
  <2>3. HandOK'
    BY <1>27, ConstantTypes DEF FailOwned, ConnUnchanged, HandOK, PcOK, Dispatching
  <2>4. EventOK'
    BY <1>27, ConstantTypes DEF FailOwned, ConnUnchanged, EventOK, PcOK
  <2>5. ResultOK'
    BY <1>27, ConstantTypes DEF FailOwned, ResultOK, PcOK
  <2>6. SocketOK'
    BY <1>27, ConstantTypes DEF FailOwned, linkVars, SocketOK, PcOK, LinkOK, HubOK
  <2> QED BY <1>27, <2>1, <2>2, <2>3, <2>4, <2>5, <2>6, Frames DEF FailOwned, linkVars,
     ConnUnchanged, deployVars
<1>28. ASSUME NEW c \in Conns, NEW how \in {"dead", "closed"}, Drop(c, how) PROVE Types'
  <2>1. LinkOK'
    BY <1>28, ConstantTypes DEF Drop, LinkOK
  <2>2. SocketOK'
    BY <1>28, ConstantTypes DEF Drop, SocketOK, PcOK, LinkOK, HubOK
  <2>3. CountOK'
    BY <1>28, ConstantTypes DEF Drop, ConnUnchanged, CountOK
  <2> QED BY <1>28, <2>1, <2>2, <2>3, Frames DEF Drop, ConnUnchanged, deployVars
<1>29. ASSUME NEW c \in Conns, StartJob(c) PROVE Types'
  <2>1. LinkOK'
    BY <1>29, ConstantTypes DEF StartJob, RunnerUnchanged, LinkOK
  <2>2. SocketOK'
    BY <1>29, ConstantTypes DEF StartJob, RunnerUnchanged, hubVars, threadVars, SocketOK,
       PcOK, LinkOK, HubOK
  <2>3. RunnerOK'
    <3>1. Head(down[c]).job \in Jobs
      BY <1>29, TailIs, RecordTypes DEF StartJob, LinkOK
    <3> QED BY <1>29, <3>1 DEF StartJob, On, RunnerOK
  <2>4. CountOK'
    <3>1. Head(down[c]).job \in Jobs
      BY <1>29, TailIs, RecordTypes DEF StartJob, LinkOK
    <3> QED BY <1>29, <3>1 DEF StartJob, RunnerUnchanged, bounds, CountOK
  <2> QED BY <1>29, <2>1, <2>2, <2>3, <2>4, Frames DEF StartJob, RunnerUnchanged,
     deployVars, busVars, hubVars, threadVars, bounds
<1>30. ASSUME NEW c \in Conns, CancelJob(c) PROVE Types'
  <2>1. LinkOK'
    BY <1>30, ConstantTypes DEF CancelJob, RunnerUnchanged, LinkOK
  <2>2. SocketOK'
    BY <1>30, ConstantTypes DEF CancelJob, RunnerUnchanged, hubVars, threadVars, SocketOK,
       PcOK, LinkOK, HubOK
  <2>3. RunnerOK'
    BY <1>30 DEF CancelJob, RunnerOK
  <2> QED BY <1>30, <2>1, <2>2, <2>3, Frames DEF CancelJob, RunnerUnchanged, deployVars,
     busVars, hubVars, threadVars, bounds
<1>31. ASSUME NEW c \in Conns, ConnectionLost(c) PROVE Types'
  <2>1. LinkOK'
    BY <1>31, ConstantTypes DEF ConnectionLost, RunnerUnchanged, LinkOK
  <2>2. SocketOK'
    BY <1>31, ConstantTypes DEF ConnectionLost, RunnerUnchanged, hubVars, threadVars,
       SocketOK, PcOK, LinkOK, HubOK
  <2>3. RunnerOK'
    BY <1>31, ConstantTypes DEF ConnectionLost, On, RunnerOK
  <2> QED BY <1>31, <2>1, <2>2, <2>3, Frames DEF ConnectionLost, RunnerUnchanged,
     deployVars, busVars, hubVars, threadVars, bounds
<1>32. ASSUME NEW c \in Conns, NEW j \in Jobs, ExecutorEnds(c, j) PROVE Types'
  <2>1. LinkOK'
    <3>1. PICK s \in Ended : Answer(c, j, s)
      BY <1>32 DEF ExecutorEnds
    <3>2. [job |-> j, status |-> s] \in Verdict
      BY RecordTypes
    <3>3. Append(up[c], [job |-> j, status |-> s]) \in Seq(Verdict)
      BY <3>2, AppendProperties DEF LinkOK
    <3> QED BY <1>32, <3>1, <3>3 DEF ExecutorEnds, Answer, RunnerUnchanged, LinkOK
  <2>2. RunnerOK'
    BY <1>32, ConstantTypes DEF ExecutorEnds, RunnerOK
  <2> QED BY <1>32, <2>1, <2>2, Frames DEF ExecutorEnds, RunnerUnchanged, deployVars,
     busVars, hubVars, threadVars, bounds
<1>33. ASSUME NEW c \in Conns, NEW j \in Jobs, ExecutorStops(c, j) PROVE Types'
  <2>1. LinkOK'
    <3>1. \A s \in Ended : Append(up[c], [job |-> j, status |-> s]) \in Seq(Verdict)
      BY RecordTypes, AppendProperties DEF LinkOK
    <3>2. up' = up \/ \E s \in Ended : Answer(c, j, s)
      BY <1>33 DEF ExecutorStops, Ended
    <3> QED BY <1>33, <3>1, <3>2 DEF ExecutorStops, Answer, RunnerUnchanged, LinkOK
  <2>2. RunnerOK'
    BY <1>33, ConstantTypes DEF ExecutorStops, RunnerOK
  <2> QED BY <1>33, <2>1, <2>2, Frames DEF ExecutorStops, RunnerUnchanged, deployVars,
     busVars, hubVars, threadVars, bounds
<1>34. CASE Crash
  <2>1. StoreOK'
    BY <1>34, ConstantTypes DEF Crash, StoreOK, Ended
  <2>2. BusOK'
    <3> DEFINE again(e, s, keep) == Kept((IF e = None THEN <<>> ELSE <<e>>) \o s, keep)
    <3>1. PICK keep \in SUBSET Jobs : /\ requests' = again(event["request"], requests, keep)
                                     /\ cancels' = again(event["cancel"], cancels, keep)
      BY <1>34 DEF Crash
    <3>2. \A k \in ConsumerThreads, s \in Seq(Jobs) : again(event[k], s, keep) \in Seq(Jobs)
      BY Redelivered DEF EventOK
    <3> HIDE DEF again
    <3>3. requests' \in Seq(Jobs) /\ cancels' \in Seq(Jobs)
      BY <3>1, <3>2, ConstantTypes DEF BusOK
    <3>4. verdicts' = <<>>
      BY <1>34 DEF Crash
    <3> QED BY <3>3, <3>4, EmptySeq DEF BusOK
  <2>3. HubOK'
    BY <1>34, ConstantTypes DEF Crash, HubOK
  <2>4. PcOK'
    BY <1>34, ConstantTypes DEF Crash, PcOK, RequestSteps, CancelSteps, ConnSteps,
       ThreadStates
  <2>5. HandOK'
    BY <1>34, ConstantTypes DEF Crash, HandOK, PcOK, Dispatching
  <2>6. EventOK'
    BY <1>34, ConstantTypes DEF Crash, EventOK, PcOK
  <2>7. ResultOK'
    BY <1>34, ConstantTypes DEF Crash, ResultOK, PcOK
  <2>8. LinkOK'
    BY <1>34, ConstantTypes DEF Crash, LinkOK
  <2>9. SocketOK'
    BY <1>34, ConstantTypes DEF Crash, SocketOK, PcOK, LinkOK, HubOK
  <2>10. CountOK'
    BY <1>34, ConstantTypes DEF Crash, CountOK
  <2> QED BY <1>34, <2>1, <2>2, <2>3, <2>4, <2>5, <2>6, <2>7, <2>8, <2>9, <2>10, Frames DEF
     Crash, runnerVars
<1>35. CASE UNCHANGED vars
  BY <1>35, Frames DEF vars, deployVars, busVars, hubVars, threadVars,
       linkVars, runnerVars, bounds, history
<1> QED BY <1>1, <1>2, <1>3, <1>4, <1>5, <1>6, <1>7, <1>8, <1>9, <1>10, <1>11, <1>12, <1>13,
   <1>14, <1>15, <1>16, <1>17, <1>18, <1>19, <1>20, <1>21, <1>22, <1>23, <1>24, <1>25,
   <1>26, <1>27, <1>28, <1>29, <1>30, <1>31, <1>32, <1>33, <1>34, <1>35, ConstantTypes DEF
   Next, Deploys, RequestConsumer, CancelConsumer, Connection, Runner, Faults, Dispatch


(* Nothing is there at the start, and everything is where it belongs.             *)
LEMMA InitTypes == Init => Types
<1> SUFFICES ASSUME Init PROVE Types
  OBVIOUS
<1> USE DEF Init
<1>1. StoreOK /\ BusOK /\ HubOK
  BY ConstantTypes, EmptySeq DEF StoreOK, BusOK, HubOK
<1>2. PcOK /\ HandOK
  BY ConstantTypes
     DEF PcOK, HandOK, RequestSteps, CancelSteps, ConnSteps, Dispatching, ThreadStates
<1>3. EventOK /\ ResultOK
  BY ConstantTypes DEF EventOK, ResultOK
<1>4. LinkOK /\ SocketOK
  BY ConstantTypes, EmptySeq DEF LinkOK, SocketOK
<1>5. RunnerOK /\ CountOK
  BY ConstantTypes DEF RunnerOK, CountOK
<1> QED BY <1>1, <1>2, <1>3, <1>4, <1>5 DEF Types

(* The inductive invariant of the types.                                          *)
LEMMA TypesHold == Spec => []Types
<1>1. Init => Types
  BY InitTypes
<1>2. Types /\ [Next]_vars => Types'
  BY NextTypes
<1> QED BY <1>1, <1>2, PTL DEF Spec

(* TypeOK: the hub's tables, its threads and the runners only ever hold what the  *)
(* code can put there; a thread between buildFrame and sendFrame has a job and a  *)
(* connection.                                                                    *)
THEOREM TypeCorrect == Spec => []TypeOK
<1>1. Types => TypeOK
  <2> SUFFICES ASSUME Types PROVE TypeOK
    OBVIOUS
  <2>1. ASSUME NEW t \in Threads, pc[t] \in {"frame", "send", "queue", "requeue"}
        PROVE  hand[t] # None /\ (pc[t] # "queue" => Conn(t) # None)
    BY <2>1, ThreadConn, ThreadHand, ConstantTypes DEF Dispatching
  <2>2. checked \subseteq Jobs
    BY DEF Types, StoreOK
  <2>3. pc \in [Threads -> ThreadStates]
    BY DEF Types, PcOK
  <2> QED BY <2>1, <2>2, <2>3
          DEF TypeOK, Types, StoreOK, BusOK, HubOK, HandOK, EventOK, ResultOK, LinkOK,
              RunnerOK, CountOK
<1> QED BY <1>1, TypesHold, PTL


-----------------------------------------------------------------------------
(* The hub's table *)

(* A working connection stays in the table until a successor ends it: removeConn  *)
(* takes out only the connection it is called for.                                *)
LEMMA NextTable == Types /\ TableInv /\ [Next]_vars => TableInv'
<1> SUFFICES ASSUME Types, TableInv, [Next]_vars PROVE TableInv'
  OBVIOUS
<1>f. UNCHANGED <<pc, ended, conns>> => TableInv'
  BY DEF TableInv, Registered
<1>1. ASSUME NEW t \in Threads, DispatchOwns(t) PROVE TableInv'
  BY <1>1, ConstantTypes DEF DispatchOwns, DispatchUnchanged, TableInv, Working, Registered,
     Types, PcOK, HubOK
<1>2. ASSUME NEW t \in Threads, DispatchFrameFails(t) PROVE TableInv'
  BY <1>2, ConstantTypes DEF DispatchFrameFails, Unowned, DispatchUnchanged, TableInv,
     Working, Registered, Types, PcOK, HubOK
<1>3. ASSUME NEW t \in Threads, DispatchDenied(t) PROVE TableInv'
  BY <1>3, ConstantTypes DEF DispatchDenied, Dispatched, DispatchUnchanged, TableInv,
     Working, Registered, Types, PcOK, HubOK
<1>4. ASSUME NEW t \in Threads, DispatchSends(t) PROVE TableInv'
  BY <1>4, ConstantTypes DEF DispatchSends, Dispatched, DispatchUnchanged, TableInv,
     Working, Registered, Types, PcOK, HubOK
<1>5. ASSUME NEW t \in Threads, DispatchSendFails(t) PROVE TableInv'
  BY <1>5, ConstantTypes DEF DispatchSendFails, Unowned, DispatchUnchanged, TableInv,
     Working, Registered, Types, PcOK, HubOK
<1>6. ASSUME NEW t \in Threads, Requeue(t) PROVE TableInv'
  BY <1>6, ConstantTypes DEF Requeue, Return, DispatchUnchanged, TableInv, Working,
     Registered, Types, PcOK, HubOK
<1>7. ASSUME NEW t \in Threads, PendingChecks(t) PROVE TableInv'
  BY <1>7, ConstantTypes DEF PendingChecks, Return, DispatchUnchanged, TableInv, Working,
     Registered, Types, PcOK, HubOK
<1>8. ASSUME NEW t \in Threads, PopFitting(t) PROVE TableInv'
  BY <1>8, ConstantTypes DEF PopFitting, DispatchUnchanged, TableInv, Working, Registered,
     Types, PcOK, HubOK
<1>9. ASSUME NEW t \in Threads, PopNothing(t) PROVE TableInv'
  BY <1>9, ConstantTypes DEF PopNothing, Return, DispatchUnchanged, TableInv, Working,
     Registered, Types, PcOK, HubOK
<1>10. CASE Queue
  BY <1>10, ConstantTypes DEF Queue, DispatchUnchanged, TableInv, Working, Registered,
     Types, PcOK, HubOK, ConnSteps, CancelSteps, RequestSteps
<1>11. CASE HandleRequest
  BY <1>11, ConstantTypes DEF HandleRequest, ConsumerUnchanged, TableInv, Working,
     Registered, Types, PcOK, HubOK
<1>12. ASSUME NEW t \in ConsumerThreads, Ack(t) PROVE TableInv'
  BY <1>12, ConstantTypes DEF Ack, ConsumerUnchanged, TableInv, Working, Registered, Types,
     PcOK, HubOK, ConnSteps, CancelSteps, RequestSteps
<1>13. CASE HandleCancel
  BY <1>13, ConstantTypes DEF HandleCancel, ConsumerUnchanged, TableInv, Working,
     Registered, Types, PcOK, HubOK
<1>14. CASE CancelClears
  BY <1>14, ConstantTypes DEF CancelClears, TableInv, Working, Registered, Types, PcOK,
     HubOK
<1>15. CASE CancelSends
  BY <1>15, ConstantTypes DEF CancelSends, hubVars, TableInv, Working, Registered, Types,
     PcOK, HubOK
<1>16. CASE CancelPublishes
  BY <1>16, ConstantTypes DEF CancelPublishes, ConsumerUnchanged, TableInv, Working,
     Registered, Types, PcOK, HubOK
<1>17. ASSUME NEW c \in Conns, HandleConn(c) PROVE TableInv'
  BY <1>17, ConstantTypes DEF HandleConn, TableInv, Working, Registered, Types, PcOK, HubOK,
     SocketOK
<1>18. ASSUME NEW c \in Conns, DeployResult(c) PROVE TableInv'
  BY <1>18, ConstantTypes DEF DeployResult, TableInv, Working, Registered, Types, PcOK,
     HubOK
<1>19. ASSUME NEW c \in Conns, PublishResult(c) PROVE TableInv'
  BY <1>19, ConstantTypes DEF PublishResult, TableInv, Working, Registered, Types, PcOK,
     HubOK
<1>20. ASSUME NEW c \in Conns, PublishResultFails(c) PROVE TableInv'
  BY <1>20, ConstantTypes DEF PublishResultFails, TableInv, Working, Registered, Types,
     PcOK, HubOK
<1>21. ASSUME NEW c \in Conns, ReadEnds(c) PROVE TableInv'
  BY <1>21, ConstantTypes DEF ReadEnds, TableInv, Working, Registered, Types, PcOK, HubOK
<1>22. ASSUME NEW c \in Conns, RemoveConn(c) PROVE TableInv'
  BY <1>22, ConstantTypes DEF RemoveConn, TableInv, Working, Registered, Types, PcOK, HubOK
<1>23. ASSUME NEW c \in Conns, FailOwned(c) PROVE TableInv'
  BY <1>23, ConstantTypes DEF FailOwned, TableInv, Working, Registered, Types, PcOK, HubOK
<1>24. CASE Crash
  BY <1>24, ConstantTypes DEF Crash, TableInv, Working, Registered, Types, PcOK, HubOK
<1>25. CASE StatusChanged
  BY <1>25, <1>f DEF StatusChanged, hubVars, threadVars
<1>26. ASSUME NEW j \in Jobs, StartChecks(j) \/ StartCreates(j) \/ AskCancel(j) PROVE
   TableInv'
  BY <1>26, <1>f DEF StartChecks, StartCreates, AskCancel, hubVars, threadVars
<1>27. ASSUME NEW c \in Conns, NEW how \in {"dead", "closed"}, Drop(c, how) PROVE TableInv'
  BY <1>27, <1>f DEF Drop
<1>28. ASSUME NEW c \in Conns, StartJob(c) \/ CancelJob(c) \/ ConnectionLost(c) PROVE
   TableInv'
  BY <1>28, <1>f DEF StartJob, CancelJob, ConnectionLost, RunnerUnchanged, hubVars,
     threadVars
<1>29. ASSUME NEW c \in Conns, NEW j \in Jobs, ExecutorEnds(c, j) \/ ExecutorStops(c, j)
   PROVE TableInv'
  BY <1>29, <1>f DEF ExecutorEnds, ExecutorStops, RunnerUnchanged, hubVars, threadVars
<1>30. CASE UNCHANGED vars
  BY <1>30, <1>f DEF vars, hubVars, threadVars
<1> QED BY <1>1, <1>2, <1>3, <1>4, <1>5, <1>6, <1>7, <1>8, <1>9, <1>10, <1>11, <1>12, <1>13,
   <1>14, <1>15, <1>16, <1>17, <1>18, <1>19, <1>20, <1>21, <1>22, <1>23, <1>24, <1>25,
   <1>26, <1>27, <1>28, <1>29, <1>30, ConstantTypes DEF Next, Deploys, RequestConsumer,
   CancelConsumer, Connection, Runner, Faults, Dispatch

(* ConnectedIsRegistered: a runner that is connected is in the hub's table, so    *)
(* dispatch, cancel and teardown reach it; tearing a replaced connection down     *)
(* does not take its successor with it.                                           *)
THEOREM TableKept == Spec => []ConnectedIsRegistered
<1>1. Init => TableInv
  BY ConstantTypes DEF Init, TableInv, Working
<1>2. Types /\ TableInv /\ [Next]_vars => TableInv'
  BY NextTable
<1>3. TableInv => ConnectedIsRegistered
  BY DEF TableInv, Working, ConnectedIsRegistered
<1> QED BY <1>1, <1>2, <1>3, TypesHold, PTL DEF Spec


-----------------------------------------------------------------------------
(* No deploy vanishes *)

(* Verdicts appended and taken from the bus.                                      *)
LEMMA JudgedIs ==
    ASSUME Types
    PROVE  /\ \A v \in Verdict : \A j : verdicts' = Append(verdicts, v) =>
                 (Judged(j)' <=> Judged(j) \/ j = v.job)
           /\ verdicts # <<>> /\ verdicts' = Tail(verdicts) =>
                 /\ Head(verdicts) \in Verdict
                 /\ \A j : Judged(j) => Judged(j)' \/ j = Head(verdicts).job
           /\ verdicts' = verdicts => \A j : Judged(j)' <=> Judged(j)
<1>1. verdicts \in Seq(Verdict) /\ Len(verdicts) \in Nat
  BY LenProperties DEF Types, BusOK
<1>2. ASSUME NEW v \in Verdict, NEW j, verdicts' = Append(verdicts, v)
      PROVE  Judged(j)' <=> Judged(j) \/ j = v.job
  <2>1. /\ Len(verdicts') = Len(verdicts) + 1
        /\ \A i \in 1..Len(verdicts) : verdicts'[i] = verdicts[i]
        /\ verdicts'[Len(verdicts) + 1] = v
    BY <1>1, <1>2, AppendProperties
  <2>2. 1..(Len(verdicts) + 1) = 1..Len(verdicts) \cup {Len(verdicts) + 1}
    BY <1>1
  <2> QED BY <2>1, <2>2 DEF Judged
<1>3. ASSUME verdicts # <<>>, verdicts' = Tail(verdicts)
      PROVE  /\ Head(verdicts) \in Verdict
             /\ \A j : Judged(j) => Judged(j)' \/ j = Head(verdicts).job
  <2>1. /\ Head(verdicts) \in Verdict /\ Head(verdicts) = verdicts[1]
        /\ Len(verdicts) \in Nat \ {0} /\ Len(verdicts') = Len(verdicts) - 1
        /\ \A i \in 1..Len(verdicts') : verdicts'[i] = verdicts[i + 1]
    BY <1>1, <1>3, HeadTailProperties, EmptySeq
  <2>2. \A i \in 1..Len(verdicts) :
            i = 1 \/ (i - 1 \in 1..Len(verdicts') /\ verdicts'[i - 1] = verdicts[i])
    BY <2>1
  <2> QED BY <2>1, <2>2 DEF Judged
<1> QED BY <1>2, <1>3 DEF Judged

(* What carries a deploy changes hands and is not lost: every step that takes a   *)
(* trace of it away leaves another, or is one of the named lossy steps.  A thread *)
(* that dispatches to a connection torn down meanwhile finds its socket closed.   *)
LEMMA NextTrack == Types /\ TrackInv /\ [Next]_vars => TrackInv'
<1> SUFFICES ASSUME Types, TrackInv, [Next]_vars, NEW d \in Jobs, status'[d] = "pending"
             PROVE  Accounted(d)'
  BY DEF TrackInv
<1>a. status[d] = "pending" => Accounted(d)
  BY DEF TrackInv
<1>f. UNCHANGED <<status, requests, pending, hand, pc, event, owned, result, verdicts,
   socket, on, forgotten, displaced>> => Accounted(d)'
  BY <1>a, JudgedIs DEF Accounted, TrackedElse, WillRequeue, Conn
<1>1. CASE StatusChanged
  <2>1. status[d] = "pending"
    BY <1>1 DEF StatusChanged, CanTransition
  <2>2. Head(verdicts).job # d /\ (Judged(d) => Judged(d)')
    BY <1>1, <2>1, JudgedIs, RecordTypes DEF StatusChanged, CanTransition, Types, StoreOK, Ended
  <2> QED BY <1>1, <1>a, <2>1, <2>2
          DEF StatusChanged, hubVars, threadVars, linkVars, history, Accounted, TrackedElse,
              WillRequeue, Conn
<1>2. ASSUME NEW j \in Jobs, StartCreates(j) PROVE Accounted(d)'
  <2>1. Holds(requests', d) \/ status[d] = "pending"
    BY <1>2, AppendIs DEF StartCreates, Types, BusOK, StoreOK
  <2>2. Holds(requests, d) => Holds(requests', d)
    BY <1>2, AppendIs DEF StartCreates, Types, BusOK
  <2> QED BY <1>2, <1>a, <2>1, <2>2, JudgedIs
          DEF StartCreates, hubVars, threadVars, linkVars, history, Accounted, TrackedElse,
              WillRequeue, Conn
<1>3. ASSUME NEW t \in Threads, DispatchOwns(t) PROVE Accounted(d)'
  <2>1. Conn(t) \in Conns /\ (t \in Conns => Conn(t) = t) /\ Conn(t)' = Conn(t)
    BY <1>3, ThreadConn DEF DispatchOwns, DispatchUnchanged, Conn
  <2>2. pc[Conn(t)] = "gone" => socket[Conn(t)] = "closed"
    BY <2>1 DEF Types, SocketOK
  <2>3. \A c \in Conns : c # Conn(t) => owned'[c] = owned[c]
    BY <1>3, <2>1 DEF DispatchOwns, SetJob, Types, HubOK
  <2>4. owned'[Conn(t)] = hand[t] /\ (owned[Conn(t)] = d => d = hand[t] \/ d \in displaced')
    BY <1>3, <2>1, ConstantTypes DEF DispatchOwns, SetJob, Types, HubOK
  <2>5. pc[t] = "frame" /\ pc' = [pc EXCEPT ![t] = "send"] /\ pc \in [Threads -> ThreadStates]
    BY <1>3 DEF DispatchOwns, Types, PcOK
  <2>6. CASE hand[t] = d
    <3>1. CASE pc[Conn(t)] = "gone"
      <4>1. WillRequeue(d)'
        BY <1>3, <2>1, <2>2, <2>5, <2>6, <3>1 DEF DispatchOwns, WillRequeue
      <4> QED BY <4>1 DEF Accounted
    <3>2. CASE pc[Conn(t)] # "gone"
      <4>1. owned'[Conn(t)] = d /\ pc'[Conn(t)] # "gone"
        BY <2>1, <2>4, <2>5, <2>6, <3>2
      <4> QED BY <4>1, <2>1 DEF Accounted, TrackedElse
    <3> QED BY <3>1, <3>2
  <2>7. CASE hand[t] # d
    <3>1. status[d] = "pending" /\ Accounted(d)
      BY <1>3, <1>a DEF DispatchOwns, DispatchUnchanged, deployVars
    <3>2. WillRequeue(d) => WillRequeue(d)'
      BY <1>3, <2>5 DEF DispatchOwns, DispatchUnchanged, WillRequeue, Conn
    <3>3. d \in forgotten \cup displaced => d \in forgotten' \cup displaced'
      BY <1>3 DEF DispatchOwns, SetJob
    <3>4. ASSUME NEW u \in Threads, hand[u] = d, pc[u] # "send" PROVE Accounted(d)'
      BY <1>3, <2>5, <2>7, <3>4 DEF DispatchOwns, Accounted, TrackedElse
    <3>5. ASSUME NEW c \in Conns, owned[c] = d, pc[c] # "gone" PROVE Accounted(d)'
      <4>1. CASE c = Conn(t)
        BY <2>4, <2>7, <3>5, <4>1 DEF Accounted
      <4>2. CASE c # Conn(t)
        <5>1. owned'[c] = d /\ pc'[c] # "gone"
          BY <2>3, <2>5, <3>5, <4>2, ConstantTypes
        <5> QED BY <5>1 DEF Accounted, TrackedElse
      <4> QED BY <4>1, <4>2
    <3> QED BY <1>3, <2>5, <3>1, <3>2, <3>3, <3>4, <3>5, JudgedIs, ConstantTypes
            DEF DispatchOwns, DispatchUnchanged, Accounted, TrackedElse
  <2> QED BY <2>6, <2>7
<1>4. ASSUME NEW t \in Threads, DispatchFrameFails(t) PROVE Accounted(d)'
  BY <1>4, <1>a, JudgedIs, ConstantTypes DEF DispatchFrameFails, Unowned, DispatchUnchanged,
     deployVars, Accounted, TrackedElse, WillRequeue, Conn, Types, PcOK, HandOK
<1>5. ASSUME NEW t \in Threads, DispatchDenied(t) PROVE Accounted(d)'
  BY <1>5, <1>a, JudgedIs, ConstantTypes DEF DispatchDenied, Dispatched, DispatchUnchanged,
     deployVars, Accounted, TrackedElse, WillRequeue, Conn, Types, PcOK, HandOK
<1>6. ASSUME NEW t \in Threads, DispatchSends(t) PROVE Accounted(d)'
  <2>1. Conn(t) \in Conns /\ socket[Conn(t)] # "closed" /\ pc[t] = "send"
    BY <1>6, ThreadConn DEF DispatchSends, Types, LinkOK
  <2>2. /\ pc' = [pc EXCEPT ![t] = Dispatched(t)] /\ Dispatched(t) \in {"ack", "loop"}
        /\ hand' = [hand EXCEPT ![t] = None]
    BY <1>6 DEF DispatchSends, Dispatched
  <2>3. UNCHANGED <<requests, pending, event, owned, result, verdicts, socket, on, forgotten, displaced, status>>
    BY <1>6 DEF DispatchSends, DispatchUnchanged, deployVars
  <2>4. WillRequeue(d) => WillRequeue(d)'
    BY <2>1, <2>2, <2>3 DEF WillRequeue, Conn, Types, PcOK, HandOK
  <2>5. \A u \in Threads : hand[u] = d /\ pc[u] # "send" => hand'[u] = d /\ pc'[u] # "send"
    BY <2>1, <2>2 DEF Types, PcOK, HandOK
  <2>6. \A c \in Conns : owned[c] = d /\ pc[c] # "gone" => owned'[c] = d /\ pc'[c] # "gone"
    BY <2>2, <2>3, ConstantTypes DEF Types, PcOK
  <2>7. pc["cancel"] \in {"stop", "verdict"} => pc'["cancel"] = pc["cancel"]
    BY <2>1, <2>2, ConstantTypes DEF Types, PcOK
  <2> QED BY <1>a, <2>3, <2>4, <2>5, <2>6, <2>7, JudgedIs DEF Accounted, TrackedElse
<1>7. ASSUME NEW t \in Threads, DispatchSendFails(t) PROVE Accounted(d)'
  <2>1. /\ pc[t] = "send" /\ pc' = [pc EXCEPT ![t] = Unowned(t)]
        /\ Unowned(t) \in {"queue", "requeue"}
    BY <1>7 DEF DispatchSendFails, Unowned
  <2>2. \A c \in Conns : owned[c] = d => owned'[c] = d \/ hand[t] = d
    BY <1>7 DEF DispatchSendFails, ClearJob, Types, HubOK
  <2>3. UNCHANGED <<requests, pending, hand, event, result, verdicts, socket, on, forgotten, displaced, status>>
    BY <1>7 DEF DispatchSendFails, DispatchUnchanged, deployVars
  <2> QED BY <1>a, <2>1, <2>2, <2>3, ConstantTypes, JudgedIs
          DEF Accounted, TrackedElse, WillRequeue, Conn, Types, PcOK, HandOK
<1>8. ASSUME NEW t \in Threads, Requeue(t) PROVE Accounted(d)'
  <2>1. hand[t] \in Jobs /\ pending \in Seq(Jobs)
    BY <1>8, ThreadHand DEF Requeue, Dispatching, Types, HubOK
  <2>2. \A x : Holds(pending', x) <=> Holds(pending, x) \/ x = hand[t]
    BY <1>8, <2>1, FrontIs DEF Requeue
  <2> QED BY <1>8, <1>a, <2>1, <2>2, JudgedIs, ConstantTypes
          DEF Requeue, Return, DispatchUnchanged, deployVars, Accounted, TrackedElse,
              WillRequeue, Conn, Types, PcOK, HandOK
<1>9. ASSUME NEW t \in Threads, PendingChecks(t) PROVE Accounted(d)'
  BY <1>9, <1>a, JudgedIs, ConstantTypes DEF PendingChecks, Return, DispatchUnchanged,
     deployVars, Accounted, TrackedElse, WillRequeue, Conn, Types, PcOK, HandOK
<1>10. ASSUME NEW t \in Threads, PopFitting(t) PROVE Accounted(d)'
  <2>1. PICK x \in Jobs : /\ hand' = [hand EXCEPT ![t] = x]
                          /\ \A y : Holds(pending, y) => y = x \/ Holds(pending', y)
    BY <1>10, PopTakes
  <2>2. pc[t] = "pop" /\ pc' = [pc EXCEPT ![t] = "frame"]
    BY <1>10 DEF PopFitting
  <2>3. hand[t] = None
    BY <2>2 DEF Types, HandOK, Dispatching
  <2>4. /\ UNCHANGED <<owned, socket, displaced, forgotten>> /\ DispatchUnchanged
    BY <1>10 DEF PopFitting
  <2> QED BY <1>a, <2>1, <2>2, <2>3, <2>4, JudgedIs, ConstantTypes
          DEF DispatchUnchanged, deployVars, Accounted, TrackedElse,
              WillRequeue, Conn, Types, PcOK, HandOK
<1>11. ASSUME NEW t \in Threads, PopNothing(t) PROVE Accounted(d)'
  BY <1>11, <1>a, JudgedIs, ConstantTypes DEF PopNothing, Return, DispatchUnchanged,
     deployVars, Accounted, TrackedElse, WillRequeue, Conn, Types, PcOK, HandOK
<1>12. CASE Queue
  <2>1. hand["request"] \in Jobs /\ pending \in Seq(Jobs)
    BY <1>12, ThreadHand, ConstantTypes DEF Queue, Dispatching, Types, HubOK
  <2>2. \A x : Holds(pending', x) <=> Holds(pending, x) \/ x = hand["request"]
    BY <1>12, <2>1, AppendIs DEF Queue
  <2> QED BY <1>12, <1>a, <2>1, <2>2, JudgedIs, ConstantTypes
          DEF Queue, DispatchUnchanged, deployVars, Accounted, TrackedElse,
              WillRequeue, Conn, Types, PcOK, HandOK
<1>13. CASE HandleRequest
  <2>1. \A x : Holds(requests, x) => x = Head(requests) \/ Holds(requests', x)
    BY <1>13, TailIs DEF HandleRequest, Types, BusOK
  <2>2. /\ hand' = [hand EXCEPT !["request"] = Head(requests)]
        /\ pc["request"] = "idle" /\ hand["request"] = None
        /\ pc' = [pc EXCEPT !["request"] = pc'["request"]] /\ pc'["request"] \in {"queue", "frame"}
        /\ event'["cancel"] = event["cancel"]
    BY <1>13, ConstantTypes DEF HandleRequest, Types, HandOK, PcOK, Dispatching, EventOK
  <2>3. \A u \in Threads : u # "request" => Conn(u)' = Conn(u)
    <3>1. \A k \in ConsumerThreads : k # "request" => on'[k] = on[k]
      BY <1>13 DEF HandleRequest, Types, EventOK
    <3> QED BY <3>1, ConstantTypes DEF Conn
  <2>4. UNCHANGED <<pending, owned, result, verdicts, socket, forgotten, displaced, status>>
    BY <1>13 DEF HandleRequest, ConsumerUnchanged, history, linkVars, deployVars
  <2>5. WillRequeue(d) => WillRequeue(d)'
    BY <2>2, <2>3, <2>4 DEF WillRequeue, Types, PcOK, HandOK
  <2> QED BY <1>a, <2>1, <2>2, <2>4, <2>5, JudgedIs, ConstantTypes
          DEF Accounted, TrackedElse, Types, PcOK, HandOK
<1>14. ASSUME NEW t \in ConsumerThreads, Ack(t) PROVE Accounted(d)'
  <2>1. /\ pc' = [pc EXCEPT ![t] = "idle"] /\ pc[t] = "ack"
        /\ pc["cancel"] \in {"stop", "verdict"} => event'["cancel"] = event["cancel"]
    BY <1>14 DEF Ack, Types, EventOK
  <2>2. \A u \in Threads : u # t => Conn(u)' = Conn(u)
    BY <1>14 DEF Ack, Conn, Types, EventOK
  <2>3. UNCHANGED <<requests, pending, hand, owned, result, verdicts, socket, forgotten, displaced, status>>
    BY <1>14 DEF Ack, ConsumerUnchanged, history, linkVars, deployVars, busVars
  <2>4. WillRequeue(d) => WillRequeue(d)'
    BY <2>1, <2>2, <2>3 DEF WillRequeue, Types, PcOK
  <2> QED BY <1>a, <2>1, <2>3, <2>4, JudgedIs, ConstantTypes
          DEF Accounted, TrackedElse, Types, PcOK
<1>15. CASE HandleCancel
  <2>1. /\ pc["cancel"] = "idle"
        /\ pc' = [pc EXCEPT !["cancel"] = pc'["cancel"]] /\ pc'["cancel"] # "gone"
    BY <1>15, ConstantTypes DEF HandleCancel, Types, PcOK
  <2>2. Holds(pending, d) =>
            Holds(pending', d) \/ (event'["cancel"] = d /\ pc'["cancel"] = "verdict")
    <3>1. \A x : Holds(pending', x) <=> Holds(pending, x) /\ x \in Jobs \ {Head(cancels)}
      BY <1>15, KeptIs DEF HandleCancel, Types, HubOK
    <3> QED BY <1>15, <3>1, ConstantTypes DEF HandleCancel, Types, PcOK, EventOK
  <2>3. \A u \in Threads : u # "cancel" => Conn(u)' = Conn(u)
    <3>1. \A k \in ConsumerThreads : k # "cancel" => on'[k] = on[k]
      BY <1>15 DEF HandleCancel, Types, EventOK
    <3> QED BY <3>1, ConstantTypes DEF Conn
  <2>4. hand["cancel"] = None
    BY <2>1, ConstantTypes DEF Types, HandOK, Dispatching
  <2>5. UNCHANGED <<requests, hand, owned, result, verdicts, socket, forgotten, displaced, status>>
    BY <1>15 DEF HandleCancel, ConsumerUnchanged, history, linkVars, deployVars
  <2>6. WillRequeue(d) => WillRequeue(d)'
    BY <2>1, <2>3, <2>5 DEF WillRequeue, Types, PcOK
  <2>7. \A u \in Threads : u # "cancel" => pc'[u] = pc[u]
    BY <2>1 DEF Types, PcOK
  <2> QED BY <1>a, <2>1, <2>2, <2>4, <2>5, <2>6, <2>7, JudgedIs, ConstantTypes
          DEF Accounted, TrackedElse
<1>16. CASE CancelClears
  <2>1. \A c \in Conns : owned[c] = d => owned'[c] = d \/ event["cancel"] = d
    BY <1>16 DEF CancelClears, ClearJob, Types, HubOK
  <2>2. pc["cancel"] = "clear" /\ pc' = [pc EXCEPT !["cancel"] = "stop"]
    BY <1>16 DEF CancelClears
  <2>3. UNCHANGED <<requests, pending, hand, event, result, verdicts, socket, on, forgotten, displaced, status>>
    BY <1>16 DEF CancelClears, busVars, linkVars, deployVars
  <2>4. WillRequeue(d) => WillRequeue(d)'
    BY <2>2, <2>3 DEF WillRequeue, Conn, Types, PcOK
  <2>5. \A u \in Threads : hand[u] = d /\ pc[u] # "send" => pc'[u] # "send"
    BY <2>2 DEF Types, PcOK
  <2>6. pc'["cancel"] = "stop" /\ \A c \in Conns : pc'[c] = pc[c]
    BY <2>2, ConstantTypes DEF Types, PcOK
  <2> QED BY <1>a, <2>1, <2>3, <2>4, <2>5, <2>6, JudgedIs DEF Accounted, TrackedElse
<1>17. CASE CancelSends
  BY <1>17, <1>a, JudgedIs, ConstantTypes DEF CancelSends, deployVars, busVars, hubVars,
     history, Accounted, TrackedElse, WillRequeue, Conn, Types, PcOK, HandOK
<1>18. CASE CancelPublishes
  <2>1. /\ Judged(d) \/ event["cancel"] = d => Judged(d)'
    <3>1. [job |-> event["cancel"], status |-> "failed"] \in Verdict
      BY <1>18, ConstantTypes, RecordTypes DEF CancelPublishes, Types, EventOK
    <3> QED BY <1>18, <3>1, JudgedIs DEF CancelPublishes
  <2>2. pc["cancel"] = "verdict" /\ \E s \in {"ack", "loop"} : pc' = [pc EXCEPT !["cancel"] = s]
    BY <1>18 DEF CancelPublishes
  <2>3. UNCHANGED <<requests, pending, hand, event, owned, result, socket, on, forgotten, displaced, status>>
    BY <1>18 DEF CancelPublishes, ConsumerUnchanged, linkVars, history, deployVars
  <2> QED BY <1>a, <2>1, <2>2, <2>3, ConstantTypes
          DEF Accounted, TrackedElse, WillRequeue, Conn, Types, PcOK
<1>19. ASSUME NEW c \in Conns, HandleConn(c) PROVE Accounted(d)'
  <2>1. pc' = [pc EXCEPT ![c] = "loop"] /\ pc[c] = "new"
    BY <1>19 DEF HandleConn, Types, SocketOK
  <2>2. \A e \in Conns : socket[e] = "closed" => socket'[e] = "closed"
    BY <1>19 DEF HandleConn
  <2>3. UNCHANGED <<requests, pending, hand, event, owned, result, verdicts, on, forgotten, displaced, status>>
    BY <1>19 DEF HandleConn, ConnUnchanged, deployVars
  <2>4. WillRequeue(d) => WillRequeue(d)'
    <3> SUFFICES ASSUME NEW t \in Threads, hand[t] = d, pc[t] = "send", socket[Conn(t)] = "closed"
                 PROVE  WillRequeue(d)'
      BY DEF WillRequeue
    <3>1. Conn(t) \in Conns /\ Conn(t)' = Conn(t)
      BY <2>3, ThreadConn DEF Conn
    <3>2. pc'[t] = "send"
      BY <2>1 DEF Types, PcOK
    <3> QED BY <2>2, <2>3, <3>1, <3>2 DEF WillRequeue
  <2>5. \A u \in Threads : (pc[u] # "send" => pc'[u] # "send") /\ (pc[u] # "gone" => pc'[u] # "gone")
    BY <2>1 DEF Types, PcOK
  <2>6. pc'["cancel"] = pc["cancel"]
    BY <2>1, ConstantTypes DEF Types, PcOK
  <2> QED BY <1>a, <2>3, <2>4, <2>5, <2>6, JudgedIs, ConstantTypes
          DEF Accounted, TrackedElse
<1>20. ASSUME NEW c \in Conns, DeployResult(c) PROVE Accounted(d)'
  <2>1. result[c] = NoResult /\ NoResult.job = None
    BY <1>20 DEF DeployResult, Types, ResultOK, NoResult
  <2>2. result'[c] = Head(up[c]) /\ \A e \in Conns : e # c => result'[e] = result[e]
    BY <1>20 DEF DeployResult, Types, ResultOK
  <2>3. \A e \in Conns : owned[e] = d => owned'[e] = d \/ result'[c].job = d
    BY <1>20, <2>2 DEF DeployResult, ClearJob, Types, HubOK
  <2>4. pc[c] = "read" /\ pc' = [pc EXCEPT ![c] = "loop"]
    BY <1>20 DEF DeployResult
  <2>5. UNCHANGED <<requests, pending, hand, event, verdicts, socket, on, forgotten, displaced, status>>
    BY <1>20 DEF DeployResult, ConnUnchanged, deployVars
  <2>6. WillRequeue(d) => WillRequeue(d)'
    BY <2>4, <2>5 DEF WillRequeue, Conn, Types, PcOK
  <2>7. \A u \in Threads : (pc[u] # "send" => pc'[u] # "send") /\ (pc[u] # "gone" => pc'[u] # "gone")
    BY <2>4 DEF Types, PcOK
  <2>8. pc'["cancel"] = pc["cancel"]
    BY <2>4, ConstantTypes DEF Types, PcOK
  <2>9. \A e \in Conns : result[e].job = d => result'[e].job = d
    BY <2>1, <2>2, ConstantTypes
  <2> QED BY <1>a, <2>3, <2>5, <2>6, <2>7, <2>8, <2>9, JudgedIs, ConstantTypes
          DEF Accounted, TrackedElse
<1>21. ASSUME NEW c \in Conns, PublishResult(c) PROVE Accounted(d)'
  <2>1. result[c] \in Verdict /\ NoResult.job = None
    BY <1>21 DEF PublishResult, Types, ResultOK, NoResult
  <2>2. \A e \in Conns : result[e].job = d => result'[e].job = d \/ Judged(d)'
    BY <1>21, <2>1, JudgedIs DEF PublishResult, Types, ResultOK
  <2>3. Judged(d) => Judged(d)'
    BY <1>21, <2>1, JudgedIs DEF PublishResult
  <2>4. pc[c] = "publish" /\ pc' = [pc EXCEPT ![c] = "read"]
    BY <1>21 DEF PublishResult
  <2>5. UNCHANGED <<requests, pending, hand, event, owned, socket, on, forgotten, displaced, status>>
    BY <1>21 DEF PublishResult, ConnUnchanged, deployVars
  <2>6. WillRequeue(d) => WillRequeue(d)'
    BY <2>4, <2>5 DEF WillRequeue, Conn, Types, PcOK
  <2>7. \A u \in Threads : (pc[u] # "send" => pc'[u] # "send") /\ (pc[u] # "gone" => pc'[u] # "gone")
    BY <2>4 DEF Types, PcOK
  <2>8. pc'["cancel"] = pc["cancel"]
    BY <2>4, ConstantTypes DEF Types, PcOK
  <2> QED BY <1>a, <2>2, <2>3, <2>5, <2>6, <2>7, <2>8, ConstantTypes
          DEF Accounted, TrackedElse
<1>22. ASSUME NEW c \in Conns, PublishResultFails(c) PROVE Accounted(d)'
  <2>1. \A e \in Conns : result[e].job = d => result'[e].job = d \/ d \in forgotten'
    BY <1>22 DEF PublishResultFails, Types, ResultOK
  <2>2. pc[c] = "publish" /\ pc' = [pc EXCEPT ![c] = "read"] /\ forgotten \subseteq forgotten'
    BY <1>22 DEF PublishResultFails
  <2>3. UNCHANGED <<requests, pending, hand, event, owned, socket, on, displaced, status, verdicts>>
    BY <1>22 DEF PublishResultFails, ConnUnchanged, deployVars
  <2>4. WillRequeue(d) => WillRequeue(d)'
    BY <2>2, <2>3 DEF WillRequeue, Conn, Types, PcOK
  <2>5. \A u \in Threads : (pc[u] # "send" => pc'[u] # "send") /\ (pc[u] # "gone" => pc'[u] # "gone")
    BY <2>2 DEF Types, PcOK
  <2>6. pc'["cancel"] = pc["cancel"]
    BY <2>2, ConstantTypes DEF Types, PcOK
  <2> QED BY <1>a, <2>1, <2>2, <2>3, <2>4, <2>5, <2>6, ConstantTypes, JudgedIs
          DEF Accounted, TrackedElse
<1>23. ASSUME NEW c \in Conns, ReadEnds(c) PROVE Accounted(d)'
  BY <1>23, <1>a, JudgedIs, ConstantTypes DEF ReadEnds, ConnUnchanged, deployVars,
     Accounted, TrackedElse, WillRequeue, Conn, Types, PcOK, HandOK, SocketOK, LinkOK
<1>24. ASSUME NEW c \in Conns, RemoveConn(c) PROVE Accounted(d)'
  BY <1>24, <1>a, JudgedIs, ConstantTypes DEF RemoveConn, linkVars, ConnUnchanged,
     deployVars, Accounted, TrackedElse, WillRequeue, Conn, Types, PcOK, HandOK
<1>25. ASSUME NEW c \in Conns, FailOwned(c) PROVE Accounted(d)'
  <2>1. /\ Judged(d) => Judged(d)'
        /\ owned[c] = d => Judged(d)'
    <3>1. owned[c] # None => [job |-> owned[c], status |-> "failed"] \in Verdict
      BY RecordTypes DEF Types, HubOK
    <3> QED BY <1>25, <3>1, ConstantTypes, JudgedIs DEF FailOwned
  <2>2. pc[c] = "fail" /\ pc' = [pc EXCEPT ![c] = "gone"]
    BY <1>25 DEF FailOwned
  <2>3. UNCHANGED <<requests, pending, hand, event, owned, result, socket, on, forgotten, displaced, status>>
    BY <1>25 DEF FailOwned, ConnUnchanged, linkVars, deployVars
  <2>4. WillRequeue(d) => WillRequeue(d)'
    BY <2>2, <2>3 DEF WillRequeue, Conn, Types, PcOK
  <2>5. \A u \in Threads : (pc[u] # "send" => pc'[u] # "send") /\ (u # c => pc'[u] = pc[u])
    BY <2>2 DEF Types, PcOK
  <2> QED BY <1>a, <2>1, <2>3, <2>4, <2>5, ConstantTypes DEF Accounted, TrackedElse
<1>26. ASSUME NEW c \in Conns, NEW how \in {"dead", "closed"}, Drop(c, how) PROVE
   Accounted(d)'
  BY <1>26, <1>a, JudgedIs, ConstantTypes DEF Drop, ConnUnchanged, deployVars, Accounted,
     TrackedElse, WillRequeue, Conn, Types, PcOK, HandOK, SocketOK, LinkOK
<1>27. CASE Crash
  <2>1. status[d] = "pending" => Holds(requests', d) \/ d \in forgotten'
    BY <1>27 DEF Crash
  <2>2. status[d] = "pending"
    BY <1>27 DEF Crash
  <2> QED BY <2>1, <2>2 DEF Accounted, TrackedElse
<1>28. ASSUME NEW j \in Jobs, StartChecks(j) \/ AskCancel(j) PROVE Accounted(d)'
  BY <1>28, <1>f DEF StartChecks, AskCancel, busVars, hubVars, threadVars, linkVars,
     history, deployVars
<1>29. ASSUME NEW c \in Conns, StartJob(c) \/ CancelJob(c) \/ ConnectionLost(c) PROVE
   Accounted(d)'
  BY <1>29, <1>f DEF StartJob, CancelJob, ConnectionLost, RunnerUnchanged, deployVars,
     busVars, hubVars, threadVars
<1>30. ASSUME NEW c \in Conns, NEW j \in Jobs, ExecutorEnds(c, j) \/ ExecutorStops(c, j)
   PROVE Accounted(d)'
  BY <1>30, <1>f DEF ExecutorEnds, ExecutorStops, RunnerUnchanged, deployVars, busVars,
     hubVars, threadVars
<1>31. CASE UNCHANGED vars
  BY <1>31, <1>f DEF vars, deployVars, busVars, hubVars, threadVars, linkVars, history
<1> QED BY <1>1, <1>2, <1>3, <1>4, <1>5, <1>6, <1>7, <1>8, <1>9, <1>10, <1>11, <1>12, <1>13,
   <1>14, <1>15, <1>16, <1>17, <1>18, <1>19, <1>20, <1>21, <1>22, <1>23, <1>24, <1>25,
   <1>26, <1>27, <1>28, <1>29, <1>30, <1>31, ConstantTypes DEF Next, Deploys,
   RequestConsumer, CancelConsumer, Connection, Runner, Faults, Dispatch

(* NoDeployVanishes: a deploy that has not ended is on its way to an end, unless  *)
(* a named lossy step dropped it.                                                 *)
THEOREM NothingVanishes == Spec => []NoDeployVanishes
<1>1. Init => TrackInv
  BY DEF Init, TrackInv
<1>2. Types /\ TrackInv /\ [Next]_vars => TrackInv'
  BY NextTrack
<1>3. TrackInv => NoDeployVanishes
  BY DEF TrackInv, Accounted, TrackedElse, WillRequeue, Judged, NoDeployVanishes, Tracked
<1> QED BY <1>1, <1>2, <1>3, TypesHold, PTL DEF Spec


-----------------------------------------------------------------------------
(* Started once *)

(* An appended element, and a head taken away, change how often one element is    *)
(* there as expected.                                                             *)
LEMMA OnceIs ==
    ASSUME NEW T, NEW s \in Seq(T), NEW x, Once(s, x)
    PROVE  /\ \A e \in T : e # x \/ ~Holds(s, x) => Once(Append(s, e), x)
           /\ s # <<>> => Once(Tail(s), x) /\ (Head(s) = x => ~Holds(Tail(s), x))
<1>1. ASSUME NEW e \in T, e # x \/ ~Holds(s, x) PROVE Once(Append(s, e), x)
  <2>1. /\ Len(s) \in Nat /\ Len(Append(s, e)) = Len(s) + 1
        /\ \A i \in 1..Len(s) : Append(s, e)[i] = s[i]
        /\ Append(s, e)[Len(s) + 1] = e
    BY AppendProperties, LenProperties
  <2>2. 1..(Len(s) + 1) = 1..Len(s) \cup {Len(s) + 1}
    BY <2>1
  <2> QED BY <1>1, <2>1, <2>2 DEF Once, Holds
<1>2. ASSUME s # <<>> PROVE Once(Tail(s), x) /\ (Head(s) = x => ~Holds(Tail(s), x))
  <2>1. /\ Len(s) \in Nat \ {0} /\ Len(Tail(s)) = Len(s) - 1
        /\ \A i \in 1..Len(Tail(s)) : Tail(s)[i] = s[i + 1]
        /\ Head(s) = s[1]
    BY <1>2, HeadTailProperties, EmptySeq
  <2>2. 1 \in 1..Len(s) /\ \A i \in 1..Len(Tail(s)) : i + 1 \in 1..Len(s) /\ i + 1 # 1 /\ i \in Int
    BY <2>1
  <2>3. ASSUME NEW i \in 1..Len(Tail(s)), NEW k \in 1..Len(Tail(s)), Tail(s)[i] = x, Tail(s)[k] = x
        PROVE  i = k
    <3>1. i + 1 = k + 1
      BY <2>1, <2>2, <2>3 DEF Once
    <3> QED BY <2>2, <3>1
  <2>4. Head(s) = x => ~Holds(Tail(s), x)
    BY <2>1, <2>2 DEF Once, Holds
  <2> QED BY <2>3, <2>4 DEF Once
<1> QED BY <1>1, <1>2


(* A job is in one place of the hub: handleRequest takes it off the bus, the      *)
(* queue or a connection gets it from the thread that has it, and a crash leaves  *)
(* only what was on the bus or being handled.                                     *)
LEMMA NextPlace == Types /\ OnePlace /\ [Next]_vars => OnePlace'
<1> SUFFICES ASSUME Types, OnePlace, [Next]_vars PROVE OnePlace'
  OBVIOUS
<1>f. UNCHANGED <<requests, pending, event, hand, status>> => OnePlace'
  BY DEF OnePlace, AtHub
<1>1. CASE StatusChanged
  <2>1. \A k \in Jobs : status'[k] = "none" => status[k] = "none"
    BY <1>1 DEF StatusChanged, Types, StoreOK, CanTransition, Ended
  <2>2. UNCHANGED <<requests, pending, event, hand>>
    BY <1>1 DEF StatusChanged, hubVars, threadVars
  <2> QED BY <2>1, <2>2 DEF OnePlace, AtHub
<1>2. ASSUME NEW j \in Jobs, StartCreates(j) PROVE OnePlace'
  <2>1. requests \in Seq(Jobs) /\ status[j] = "none"
    BY <1>2 DEF StartCreates, Types, BusOK, StoreOK
  <2>2. ~Holds(requests, j) /\ ~Holds(pending, j) /\ event["request"] # j /\ \A t \in Threads : hand[t] # j
    BY <2>1 DEF OnePlace, AtHub
  <2>3. (\A x : Holds(requests', x) <=> Holds(requests, x) \/ x = j) /\ Distinct(requests')
    BY <1>2, <2>1, <2>2, AppendIs DEF StartCreates, OnePlace
  <2>4. \A k \in Jobs : status'[k] = "none" => status[k] = "none" /\ k # j
    BY <1>2 DEF StartCreates, Types, StoreOK
  <2>5. UNCHANGED <<pending, event, hand>>
    BY <1>2 DEF StartCreates, hubVars, threadVars
  <2> QED BY <2>2, <2>3, <2>4, <2>5 DEF OnePlace, AtHub
<1>3. ASSUME NEW t \in Threads, DispatchDenied(t) PROVE OnePlace'
  <2>1. hand' = [hand EXCEPT ![t] = None] /\ hand \in [Threads -> Jobs \cup {None}]
    BY <1>3 DEF DispatchDenied, Types, HandOK
  <2>2. UNCHANGED <<requests, pending, event, status>>
    BY <1>3 DEF DispatchDenied, DispatchUnchanged, deployVars
  <2> QED BY <2>1, <2>2, ConstantTypes DEF OnePlace, AtHub
<1>4. ASSUME NEW t \in Threads, DispatchSends(t) PROVE OnePlace'
  <2>1. hand' = [hand EXCEPT ![t] = None] /\ hand \in [Threads -> Jobs \cup {None}]
    BY <1>4 DEF DispatchSends, Types, HandOK
  <2>2. UNCHANGED <<requests, pending, event, status>>
    BY <1>4 DEF DispatchSends, DispatchUnchanged, deployVars
  <2> QED BY <2>1, <2>2, ConstantTypes DEF OnePlace, AtHub
<1>5. ASSUME NEW t \in Threads, Requeue(t) PROVE OnePlace'
  <2>1. hand[t] \in Jobs /\ pending \in Seq(Jobs) /\ ~Holds(pending, hand[t])
    BY <1>5, ThreadHand DEF Requeue, Dispatching, Types, HubOK, OnePlace
  <2>2. (\A x : Holds(pending', x) <=> Holds(pending, x) \/ x = hand[t]) /\ Distinct(pending')
    BY <1>5, <2>1, FrontIs DEF Requeue, OnePlace
  <2>3. hand' = [hand EXCEPT ![t] = None] /\ hand \in [Threads -> Jobs \cup {None}]
    BY <1>5 DEF Requeue, Types, HandOK
  <2>4. UNCHANGED <<requests, event, status>>
    BY <1>5 DEF Requeue, DispatchUnchanged, deployVars
  <2> QED BY <2>1, <2>2, <2>3, <2>4, ConstantTypes DEF OnePlace, AtHub
<1>6. ASSUME NEW t \in Threads, PopFitting(t) PROVE OnePlace'
  <2>1. PICK x \in Jobs :
            /\ hand' = [hand EXCEPT ![t] = x]
            /\ \A y : Holds(pending, y) <=> y = x \/ Holds(pending', y)
            /\ Distinct(pending) => Distinct(pending') /\ ~Holds(pending', x)
    BY <1>6, PopTakes
  <2>2. hand \in [Threads -> Jobs \cup {None}]
    BY DEF Types, HandOK
  <2>3. UNCHANGED <<requests, event, status>>
    BY <1>6 DEF PopFitting, DispatchUnchanged, deployVars
  <2>4. Holds(pending, x) /\ \A u \in Threads : hand[u] # x
    BY <2>1 DEF OnePlace
  <2> QED BY <2>1, <2>2, <2>3, <2>4, ConstantTypes DEF OnePlace, AtHub
<1>7. CASE Queue
  <2> DEFINE t == "request"
  <2>1. hand[t] \in Jobs /\ pending \in Seq(Jobs) /\ ~Holds(pending, hand[t]) /\ t \in Threads
    BY <1>7, ThreadHand, ConstantTypes DEF Queue, Dispatching, Types, HubOK, OnePlace
  <2>2. (\A x : Holds(pending', x) <=> Holds(pending, x) \/ x = hand[t]) /\ Distinct(pending')
    BY <1>7, <2>1, AppendIs DEF Queue, OnePlace
  <2>3. hand' = [hand EXCEPT ![t] = None] /\ hand \in [Threads -> Jobs \cup {None}]
    BY <1>7 DEF Queue, Types, HandOK
  <2>4. UNCHANGED <<requests, event, status>>
    BY <1>7 DEF Queue, DispatchUnchanged, deployVars
  <2> HIDE DEF t
  <2> QED BY <2>1, <2>2, <2>3, <2>4, ConstantTypes DEF OnePlace, AtHub
<1>8. CASE HandleRequest
  <2> DEFINE h == Head(requests)
  <2>1. /\ h \in Jobs /\ (\A x : Holds(requests, x) <=> x = h \/ Holds(requests', x))
        /\ Distinct(requests') /\ ~Holds(requests', h)
    BY <1>8, TailIs DEF HandleRequest, Types, BusOK, OnePlace
  <2>2. /\ hand' = [hand EXCEPT !["request"] = h] /\ hand \in [Threads -> Jobs \cup {None}]
        /\ event'["request"] = h
    BY <1>8, ConstantTypes DEF HandleRequest, Types, HandOK, EventOK
  <2>3. UNCHANGED <<pending, status>>
    BY <1>8 DEF HandleRequest, ConsumerUnchanged, deployVars
  <2> HIDE DEF h
  <2>4. /\ Holds(requests, h) /\ ~Holds(pending, h) /\ status[h] # "none"
        /\ \A u \in Threads : hand[u] # h
    BY <2>1 DEF OnePlace, AtHub
  <2> QED BY <2>1, <2>2, <2>3, <2>4, ConstantTypes DEF OnePlace, AtHub
<1>9. ASSUME NEW t \in ConsumerThreads, Ack(t) PROVE OnePlace'
  <2>1. event'["request"] \in {event["request"], None}
    BY <1>9, ConstantTypes DEF Ack, Types, EventOK
  <2>2. UNCHANGED <<requests, pending, hand, status>>
    BY <1>9 DEF Ack, ConsumerUnchanged, busVars, deployVars
  <2> QED BY <2>1, <2>2, ConstantTypes DEF OnePlace, AtHub
<1>10. CASE HandleCancel
  <2>1. (\A x : Holds(pending', x) => Holds(pending, x)) /\ Distinct(pending')
    BY <1>10, KeptIs DEF HandleCancel, Types, HubOK, OnePlace
  <2>2. event'["request"] = event["request"]
    BY <1>10, ConstantTypes DEF HandleCancel, Types, EventOK
  <2>3. UNCHANGED <<requests, hand, status>>
    BY <1>10 DEF HandleCancel, ConsumerUnchanged, deployVars
  <2> QED BY <2>1, <2>2, <2>3 DEF OnePlace, AtHub
<1>11. CASE Crash
  <2>1. /\ Distinct(requests')
        /\ \A j \in Jobs : Holds(requests', j) => Holds(requests, j) \/ event["request"] = j
    <3> DEFINE again(e, s, keep) == Kept((IF e = None THEN <<>> ELSE <<e>>) \o s, keep)
    <3>1. PICK keep \in SUBSET Jobs : requests' = again(event["request"], requests, keep)
      BY <1>11 DEF Crash
    <3>2. /\ event["request"] \in Jobs \cup {None} /\ requests \in Seq(Jobs)
          /\ Distinct(requests)
      BY ConstantTypes DEF Types, EventOK, BusOK, OnePlace
    <3>3. ~Holds(requests, event["request"])
      BY <3>2, ConstantTypes, ElementOfSeq DEF OnePlace, Holds
    <3> QED BY <3>1, <3>2, <3>3, Redelivered
  <2>2. pending' = <<>> /\ status' = status /\ event'["request"] = None /\ \A t \in Threads : hand'[t] = None
    BY <1>11, ConstantTypes DEF Crash
  <2> QED BY <2>1, <2>2, EmptyIs, ConstantTypes DEF OnePlace, AtHub
<1>12. ASSUME NEW j \in Jobs, StartChecks(j) \/ AskCancel(j) PROVE OnePlace'
  BY <1>12, <1>f DEF StartChecks, AskCancel, busVars, hubVars, threadVars, deployVars
<1>13. ASSUME NEW t \in Threads, DispatchOwns(t) \/ DispatchFrameFails(t) \/
   DispatchSendFails(t) \/ PendingChecks(t) \/ PopNothing(t) PROVE OnePlace'
  BY <1>13, <1>f DEF DispatchOwns, DispatchFrameFails, DispatchSendFails, PendingChecks,
     PopNothing, DispatchUnchanged, deployVars
<1>14. CASE CancelClears \/ CancelSends \/ CancelPublishes
  BY <1>14, <1>f DEF CancelClears, CancelSends, CancelPublishes, deployVars, busVars,
     hubVars, ConsumerUnchanged
<1>15. ASSUME NEW c \in Conns, HandleConn(c) \/ DeployResult(c) \/ PublishResult(c) \/
   PublishResultFails(c) \/ ReadEnds(c) \/ RemoveConn(c) \/ FailOwned(c) \/ StartJob(c) \/
   CancelJob(c) \/ ConnectionLost(c) PROVE OnePlace'
  BY <1>15, <1>f DEF HandleConn, DeployResult, PublishResult, PublishResultFails, ReadEnds,
     RemoveConn, FailOwned, StartJob, CancelJob, ConnectionLost, ConnUnchanged, deployVars,
     RunnerUnchanged, busVars, hubVars, threadVars
<1>16. ASSUME NEW c \in Conns, NEW how \in {"dead", "closed"}, Drop(c, how) PROVE OnePlace'
  BY <1>16, <1>f DEF Drop, ConnUnchanged, deployVars
<1>17. ASSUME NEW c \in Conns, NEW j \in Jobs, ExecutorEnds(c, j) \/ ExecutorStops(c, j)
   PROVE OnePlace'
  BY <1>17, <1>f DEF ExecutorEnds, ExecutorStops, RunnerUnchanged, deployVars, busVars,
     hubVars, threadVars
<1>18. CASE UNCHANGED vars
  BY <1>18, <1>f DEF vars, deployVars, busVars, hubVars, threadVars
<1> QED BY <1>1, <1>2, <1>3, <1>4, <1>5, <1>6, <1>7, <1>8, <1>9, <1>10, <1>11, <1>12, <1>13,
   <1>14, <1>15, <1>16, <1>17, <1>18, ConstantTypes DEF Next, Deploys, RequestConsumer,
   CancelConsumer, Connection, Runner, Faults, Dispatch


(* Most steps bring nothing closer to a second start.  The others are the new     *)
(* deploy, the send, the start and the crash.                                     *)
LEMMA QuietSteps ==
    ASSUME Types, [Next]_vars
    PROVE  \/ Quiet
           \/ \E j \in Jobs : StartCreates(j)
           \/ \E t \in Threads : DispatchSends(t)
           \/ \E c \in Conns : StartJob(c)
           \/ Crash
<1> DEFINE HubPart == \A k \in Jobs : (AtHub(k)' => AtHub(k)) /\ (status'[k] = "none" => status[k] = "none")
           LinkPart == /\ \A b \in Conns : socket'[b] = "open" => socket[b] = "open" \/ down'[b] = <<>>
                       /\ \A b \in Conns, k \in Jobs :
                             /\ Holds(down'[b], AssignOf(k)) => Holds(down[b], AssignOf(k))
                             /\ Once(down[b], AssignOf(k)) => Once(down'[b], AssignOf(k))
<1>h. UNCHANGED <<requests, pending, hand, status>> => HubPart
  BY DEF AtHub
<1>l. UNCHANGED <<socket, down>> => LinkPart
  OBVIOUS
<1>q. HubPart /\ LinkPart /\ UNCHANGED <<starts, crashes>> => Quiet
  BY DEF Quiet
<1> HIDE DEF HubPart, LinkPart
<1>1. ASSUME StatusChanged PROVE Quiet
  <2>1. HubPart
    <3> USE DEF HubPart
    <3>1. \A k \in Jobs : status'[k] = "none" => status[k] = "none"
      BY <1>1 DEF StatusChanged, Types, StoreOK, CanTransition, Ended
    <3> QED BY <1>1, <3>1 DEF StatusChanged, hubVars, threadVars, AtHub
  <2>2. UNCHANGED <<socket, down, starts, crashes>>
    BY <1>1 DEF StatusChanged, linkVars, bounds, history
  <2> QED BY <2>1, <2>2, <1>l, <1>q
<1>2. ASSUME NEW t \in Threads, DispatchDenied(t) PROVE Quiet
  <2>1. HubPart
    BY <1>2, ConstantTypes
       DEF DispatchDenied, DispatchUnchanged, deployVars, AtHub, Types, HandOK, HubPart
  <2>2. UNCHANGED <<socket, down, starts, crashes>>
    BY <1>2 DEF DispatchDenied, DispatchUnchanged
  <2> QED BY <2>1, <2>2, <1>l, <1>q
<1>3. ASSUME NEW t \in Threads, Requeue(t) PROVE Quiet
  <2>1. HubPart
    <3> USE DEF HubPart
    <3>1. hand[t] \in Jobs /\ pending \in Seq(Jobs)
      BY <1>3, ThreadHand DEF Requeue, Dispatching, Types, HubOK
    <3>2. \A x : Holds(pending', x) <=> Holds(pending, x) \/ x = hand[t]
      BY <1>3, <3>1, FrontIs DEF Requeue
    <3> QED BY <1>3, <3>2, ConstantTypes
            DEF Requeue, DispatchUnchanged, deployVars, AtHub, Types, HandOK
  <2>2. UNCHANGED <<socket, down, starts, crashes>>
    BY <1>3 DEF Requeue, DispatchUnchanged
  <2> QED BY <2>1, <2>2, <1>l, <1>q
<1>4. ASSUME NEW t \in Threads, PopFitting(t) PROVE Quiet
  <2>1. HubPart
    <3> USE DEF HubPart
    <3>1. PICK x \in Jobs : /\ hand' = [hand EXCEPT ![t] = x]
                            /\ \A y : Holds(pending, y) <=> y = x \/ Holds(pending', y)
      BY <1>4, PopTakes
    <3>2. UNCHANGED <<requests, status>>
      BY <1>4 DEF PopFitting, DispatchUnchanged, deployVars
    <3> QED BY <3>1, <3>2, ConstantTypes DEF AtHub, Types, HandOK
  <2>2. UNCHANGED <<socket, down, starts, crashes>>
    BY <1>4 DEF PopFitting, DispatchUnchanged
  <2> QED BY <2>1, <2>2, <1>l, <1>q
<1>5. ASSUME Queue PROVE Quiet
  <2>1. HubPart
    <3> USE DEF HubPart
    <3>1. hand["request"] \in Jobs /\ pending \in Seq(Jobs)
      BY <1>5, ThreadHand, ConstantTypes DEF Queue, Dispatching, Types, HubOK
    <3>2. \A x : Holds(pending', x) <=> Holds(pending, x) \/ x = hand["request"]
      BY <1>5, <3>1, AppendIs DEF Queue
    <3> QED BY <1>5, <3>2, ConstantTypes
            DEF Queue, DispatchUnchanged, deployVars, AtHub, Types, HandOK
  <2>2. UNCHANGED <<socket, down, starts, crashes>>
    BY <1>5 DEF Queue, DispatchUnchanged
  <2> QED BY <2>1, <2>2, <1>l, <1>q
<1>6. ASSUME HandleRequest PROVE Quiet
  <2>1. HubPart
    <3> USE DEF HubPart
    <3>1. /\ hand' = [hand EXCEPT !["request"] = Head(requests)]
          /\ \A x : Holds(requests, x) <=> x = Head(requests) \/ Holds(requests', x)
      BY <1>6, TailIs DEF HandleRequest, Types, BusOK
    <3>2. UNCHANGED <<pending, status>>
      BY <1>6 DEF HandleRequest, ConsumerUnchanged, deployVars
    <3> QED BY <3>1, <3>2, ConstantTypes DEF AtHub, Types, HandOK
  <2>2. UNCHANGED <<socket, down, starts, crashes>>
    BY <1>6 DEF HandleRequest, history, ConsumerUnchanged, linkVars, bounds
  <2> QED BY <2>1, <2>2, <1>l, <1>q
<1>7. ASSUME HandleCancel PROVE Quiet
  <2>1. HubPart
    <3> USE DEF HubPart
    <3>1. \A x : Holds(pending', x) => Holds(pending, x)
      BY <1>7, KeptIs DEF HandleCancel, Types, HubOK
    <3>2. UNCHANGED <<requests, hand, status>>
      BY <1>7 DEF HandleCancel, ConsumerUnchanged, deployVars
    <3> QED BY <3>1, <3>2 DEF AtHub
  <2>2. UNCHANGED <<socket, down, starts, crashes>>
    BY <1>7 DEF HandleCancel, history, ConsumerUnchanged, linkVars, bounds
  <2> QED BY <2>1, <2>2, <1>l, <1>q
<1>8. ASSUME CancelSends PROVE Quiet
  <2>1. LinkPart
    <3> USE DEF LinkPart
    <3> DEFINE b == on["cancel"]
               f == [type |-> "cancel", job |-> event["cancel"]]
    <3>1. b \in Conns /\ f \in Frame
      BY <1>8, ConstantTypes, RecordTypes DEF CancelSends, Types, EventOK
    <3>2. /\ UNCHANGED socket
          /\ down' = down \/ down' = [down EXCEPT ![b] = Append(down[b], f)]
      BY <1>8 DEF CancelSends
    <3>3. \A j \in Jobs : f # AssignOf(j)
      BY DEF AssignOf
    <3> HIDE DEF f, b
    <3>4. down[b] \in Seq(Frame) /\ down \in [Conns -> Seq(Frame)]
      BY <3>1 DEF Types, LinkOK
    <3>5. ASSUME NEW j \in Jobs
          PROVE  /\ Holds(Append(down[b], f), AssignOf(j)) <=> Holds(down[b], AssignOf(j))
                 /\ Once(down[b], AssignOf(j)) => Once(Append(down[b], f), AssignOf(j))
      BY <3>1, <3>3, <3>4, AppendIs, OnceIs
    <3> QED BY <3>1, <3>2, <3>4, <3>5
  <2>2. UNCHANGED <<requests, pending, hand, status, starts, crashes>>
    BY <1>8 DEF CancelSends, deployVars, busVars, hubVars, bounds, history
  <2> QED BY <2>1, <2>2, <1>h, <1>q
<1>9. ASSUME NEW c \in Conns, HandleConn(c) PROVE Quiet
  <2>1. LinkPart
    <3> USE DEF LinkPart
    <3>1. socket[c] = "unused" /\ down[c] = <<>> /\ down' = down
      BY <1>9 DEF HandleConn, Types, SocketOK
    <3> QED BY <1>9, <3>1 DEF HandleConn
  <2>2. UNCHANGED <<requests, pending, hand, status, starts, crashes>>
    BY <1>9 DEF HandleConn, ConnUnchanged, deployVars
  <2> QED BY <2>1, <2>2, <1>h, <1>q
<1>10. ASSUME NEW c \in Conns, ReadEnds(c) PROVE Quiet
  <2>1. LinkPart
    BY <1>10 DEF ReadEnds, Types, LinkOK, LinkPart
  <2>2. UNCHANGED <<requests, pending, hand, status, starts, crashes>>
    BY <1>10 DEF ReadEnds, ConnUnchanged, deployVars
  <2> QED BY <2>1, <2>2, <1>h, <1>q
<1>11. ASSUME NEW c \in Conns, NEW how \in {"dead", "closed"}, Drop(c, how) PROVE Quiet
  <2>1. LinkPart
    BY <1>11 DEF Drop, Types, LinkOK, LinkPart
  <2>2. UNCHANGED <<requests, pending, hand, status, starts, crashes>>
    BY <1>11 DEF Drop, ConnUnchanged, deployVars
  <2> QED BY <2>1, <2>2, <1>h, <1>q
<1>12. ASSUME NEW c \in Conns, CancelJob(c) PROVE Quiet
  <2>1. LinkPart
    <3> USE DEF LinkPart
    <3>1. /\ UNCHANGED socket
          /\ down[c] # <<>> /\ down' = [down EXCEPT ![c] = Tail(down[c])]
      BY <1>12 DEF CancelJob, RunnerUnchanged
    <3>2. down[c] \in Seq(Frame) /\ down \in [Conns -> Seq(Frame)]
      BY DEF Types, LinkOK
    <3>3. ASSUME NEW j \in Jobs
          PROVE  /\ Holds(Tail(down[c]), AssignOf(j)) => Holds(down[c], AssignOf(j))
                 /\ Once(down[c], AssignOf(j)) => Once(Tail(down[c]), AssignOf(j))
      BY <3>1, <3>2, TailIs, OnceIs
    <3> QED BY <3>1, <3>2, <3>3
  <2>2. UNCHANGED <<requests, pending, hand, status, starts, crashes>>
    BY <1>12 DEF CancelJob, RunnerUnchanged, deployVars, busVars, hubVars, threadVars,
       bounds
  <2> QED BY <2>1, <2>2, <1>h, <1>q
<1>13. ASSUME NEW c \in Conns, ConnectionLost(c) PROVE Quiet
  <2>1. LinkPart
    <3> USE DEF LinkPart
    <3>1. UNCHANGED socket /\ down' = [down EXCEPT ![c] = <<>>]
      BY <1>13 DEF ConnectionLost, RunnerUnchanged
    <3>2. \A j \in Jobs : ~Holds(<<>>, AssignOf(j)) /\ Once(<<>>, AssignOf(j))
      BY DEF Holds, Once
    <3> QED BY <3>1, <3>2 DEF Types, LinkOK
  <2>2. UNCHANGED <<requests, pending, hand, status, starts, crashes>>
    BY <1>13 DEF ConnectionLost, RunnerUnchanged, deployVars, busVars, hubVars, threadVars,
       bounds
  <2> QED BY <2>1, <2>2, <1>h, <1>q
<1>14. ASSUME NEW j \in Jobs, StartChecks(j) \/ AskCancel(j) PROVE Quiet
  <2>1. UNCHANGED <<requests, pending, hand, status, socket, down, starts, crashes>>
    BY <1>14 DEF StartChecks, AskCancel, busVars, hubVars, threadVars, linkVars, bounds,
       history, deployVars
  <2> QED BY <2>1, <1>h, <1>l, <1>q
<1>15. ASSUME NEW t \in Threads, DispatchOwns(t) \/ DispatchFrameFails(t) \/
   DispatchSendFails(t) \/ PendingChecks(t) \/ PopNothing(t) PROVE Quiet
  <2>1. UNCHANGED <<requests, pending, hand, status, socket, down, starts, crashes>>
    BY <1>15 DEF DispatchOwns, DispatchFrameFails, DispatchSendFails, PendingChecks,
       PopNothing, DispatchUnchanged, deployVars
  <2> QED BY <2>1, <1>h, <1>l, <1>q
<1>16. ASSUME NEW t \in ConsumerThreads, Ack(t) PROVE Quiet
  <2>1. UNCHANGED <<requests, pending, hand, status, socket, down, starts, crashes>>
    BY <1>16 DEF Ack, busVars, history, ConsumerUnchanged, deployVars, linkVars, bounds
  <2> QED BY <2>1, <1>h, <1>l, <1>q
<1>17. ASSUME CancelClears \/ CancelPublishes PROVE Quiet
  <2>1. UNCHANGED <<requests, pending, hand, status, socket, down, starts, crashes>>
    BY <1>17 DEF CancelClears, CancelPublishes, deployVars, busVars, linkVars, bounds,
       history, ConsumerUnchanged
  <2> QED BY <2>1, <1>h, <1>l, <1>q
<1>18. ASSUME NEW c \in Conns, DeployResult(c) \/ PublishResult(c) \/ PublishResultFails(c)
   \/ RemoveConn(c) \/ FailOwned(c) PROVE Quiet
  <2>1. UNCHANGED <<requests, pending, hand, status, socket, down, starts, crashes>>
    BY <1>18 DEF DeployResult, PublishResult, PublishResultFails, RemoveConn, FailOwned,
       ConnUnchanged, deployVars, linkVars
  <2> QED BY <2>1, <1>h, <1>l, <1>q
<1>19. ASSUME NEW c \in Conns, NEW j \in Jobs, ExecutorEnds(c, j) \/ ExecutorStops(c, j)
   PROVE Quiet
  <2>1. UNCHANGED <<requests, pending, hand, status, socket, down, starts, crashes>>
    BY <1>19 DEF ExecutorEnds, ExecutorStops, RunnerUnchanged, deployVars, busVars, hubVars,
       threadVars, bounds
  <2> QED BY <2>1, <1>h, <1>l, <1>q
<1>20. ASSUME UNCHANGED vars PROVE Quiet
  <2>1. UNCHANGED <<requests, pending, hand, status, socket, down, starts, crashes>>
    BY <1>20 DEF vars, deployVars, busVars, hubVars, threadVars, linkVars, bounds, history
  <2> QED BY <2>1, <1>h, <1>l, <1>q
<1> QED BY <1>1, <1>2, <1>3, <1>4, <1>5, <1>6, <1>7, <1>8, <1>9, <1>10, <1>11, <1>12, <1>13,
   <1>14, <1>15, <1>16, <1>17, <1>18, <1>19, <1>20, ConstantTypes DEF Next, Deploys,
   RequestConsumer, CancelConsumer, Connection, Runner, Faults, Dispatch


(* The carriers of a job are finitely many, before a step and after it.           *)
LEMMA CarriersFinite ==
    ASSUME NEW j
    PROVE  /\ IsFiniteSet(Carriers(j)) /\ Cardinality(Carriers(j)) \in Nat
           /\ IsFiniteSet(Carriers(j)') /\ Cardinality(Carriers(j)') \in Nat
           /\ Carriers(j)' \subseteq Carriers(j) =>
                 Cardinality(Carriers(j)') <= Cardinality(Carriers(j))
<1>1. Carriers(j) \in SUBSET Conns /\ Carriers(j)' \in SUBSET Conns /\ IsFiniteSet(Conns)
  BY DispatchAssumption DEF Carriers
<1>2. IsFiniteSet(Carriers(j)) /\ IsFiniteSet(Carriers(j)')
  BY <1>1, FS_Subset
<1> QED BY <1>2, FS_Subset, FS_CardinalityType

(* What is counted are numbers.                                                   *)
LEMMA Counted ==
    ASSUME Types PROVE crashes \in Nat /\ \A j \in Jobs : starts[j] \in Nat
  BY ConstantTypes DEF Types, CountOK

(* A quiet step keeps the count.                                                  *)
LEMMA QuietKeeps == Types /\ OneFrame /\ CountInv /\ Quiet => OneFrame' /\ CountInv'
<1> SUFFICES ASSUME Types, OneFrame, CountInv, Quiet PROVE OneFrame' /\ CountInv'
  OBVIOUS
<1>1. OneFrame'
  <2>1. \A c \in Conns, j \in Jobs : Once(down'[c], AssignOf(j))
    BY DEF OneFrame, Quiet
  <2>2. ASSUME NEW c \in Conns, NEW j \in Jobs, socket'[c] = "open", AtHub(j)'
        PROVE  ~Holds(down'[c], AssignOf(j))
    BY <2>2, EmptyIs DEF OneFrame, Quiet
  <2> QED BY <2>1, <2>2 DEF OneFrame, AssignOf
<1>2. ASSUME NEW j \in Jobs
      PROVE  /\ (starts[j] + Cardinality(Carriers(j)) + (IF AtHub(j) THEN 1 ELSE 0) <= 1 + crashes)'
             /\ (status[j] = "none" => starts[j] = 0 /\ Carriers(j) = {})'
  <2>1. Carriers(j)' \subseteq Carriers(j)
    BY DEF Carriers, Quiet, AssignOf
  <2>2. /\ Cardinality(Carriers(j)) \in Nat /\ Cardinality(Carriers(j)') \in Nat
        /\ Cardinality(Carriers(j)') <= Cardinality(Carriers(j))
    BY <2>1, CarriersFinite
  <2>3. starts'[j] = starts[j] /\ crashes' = crashes /\ starts[j] \in Nat /\ crashes \in Nat
    BY Counted DEF Quiet
  <2>4. AtHub(j)' => AtHub(j)
    BY DEF Quiet
  <2>5. starts[j] + Cardinality(Carriers(j)) + (IF AtHub(j) THEN 1 ELSE 0) <= 1 + crashes
    BY DEF CountInv
  <2>6. starts'[j] + Cardinality(Carriers(j)') + (IF AtHub(j)' THEN 1 ELSE 0) <= 1 + crashes'
    BY <2>2, <2>3, <2>4, <2>5
  <2>7. status'[j] = "none" => starts'[j] = 0 /\ Carriers(j)' = {}
    BY <2>1, <2>3 DEF CountInv, Quiet
  <2> QED BY <2>6, <2>7
<1> QED BY <1>1, <1>2 DEF CountInv

(* A new deploy was never started and nothing carries it.                         *)
LEMMA CreateKeeps ==
    ASSUME Types, OnePlace, OneFrame, CountInv, NEW k \in Jobs, StartCreates(k)
    PROVE  OneFrame' /\ CountInv'
<1>1. status[k] = "none" /\ starts[k] = 0 /\ Carriers(k) = {}
  BY DEF StartCreates, Types, StoreOK, CountInv
<1>2. UNCHANGED <<pending, hand, down, socket, starts, crashes>>
  BY DEF StartCreates, hubVars, threadVars, linkVars, history, bounds
<1>3. \A x : Holds(requests', x) <=> Holds(requests, x) \/ x = k
  BY AppendIs DEF StartCreates, Types, BusOK
<1>4. \A j : Carriers(j)' = Carriers(j)
  BY <1>2 DEF Carriers, AssignOf
<1>5. \A j \in Jobs : AtHub(j)' => AtHub(j) \/ j = k
  BY <1>2, <1>3 DEF AtHub
<1>6. OneFrame'
  <2>1. \A c \in Conns : ~Holds(down[c], AssignOf(k))
    BY <1>1 DEF Carriers
  <2> QED BY <1>2, <1>5, <2>1 DEF OneFrame, AssignOf
<1>7. ASSUME NEW j \in Jobs
      PROVE  /\ (starts[j] + Cardinality(Carriers(j)) + (IF AtHub(j) THEN 1 ELSE 0) <= 1 + crashes)'
             /\ (status[j] = "none" => starts[j] = 0 /\ Carriers(j) = {})'
  <2>1. starts[j] \in Nat /\ crashes \in Nat /\ Cardinality(Carriers(j)) \in Nat
    BY Counted, CarriersFinite
  <2>2. CASE j = k
    <3>1. starts[j] = 0 /\ Cardinality(Carriers(j)) = 0
      BY <1>1, <2>2, FS_EmptySet
    <3>2. starts'[j] + Cardinality(Carriers(j)') + (IF AtHub(j)' THEN 1 ELSE 0) <= 1 + crashes'
      BY <1>2, <1>4, <2>1, <3>1
    <3> QED BY <1>1, <1>2, <1>4, <2>2, <3>2
  <2>3. CASE j # k
    <3>1. AtHub(j)' => AtHub(j)
      BY <1>5, <2>3
    <3>2. starts[j] + Cardinality(Carriers(j)) + (IF AtHub(j) THEN 1 ELSE 0) <= 1 + crashes
      BY DEF CountInv
    <3>3. starts'[j] + Cardinality(Carriers(j)') + (IF AtHub(j)' THEN 1 ELSE 0) <= 1 + crashes'
      BY <1>2, <1>4, <2>1, <3>1, <3>2
    <3>4. status'[j] = status[j]
      BY <2>3 DEF StartCreates, Types, StoreOK
    <3> QED BY <1>2, <1>4, <3>3, <3>4 DEF CountInv
  <2> QED BY <2>2, <2>3
<1> QED BY <1>6, <1>7 DEF CountInv

(* A sent job leaves the hub for one connection.                                  *)
LEMMA SendKeeps ==
    ASSUME Types, OnePlace, OneFrame, CountInv, NEW t \in Threads, DispatchSends(t)
    PROVE  OneFrame' /\ CountInv'
<1>0. PICK h \in Jobs, b \in Conns : h = hand[t] /\ b = Conn(t)
  BY ThreadHand, ThreadConn DEF DispatchSends, Dispatching
<1>1. h \in Jobs /\ b \in Conns
  BY <1>0
<1>2. UNCHANGED <<requests, pending, status, socket, starts, crashes>>
  BY DEF DispatchSends, DispatchUnchanged, deployVars
<1>3. /\ hand' = [hand EXCEPT ![t] = None] /\ hand \in [Threads -> Jobs \cup {None}]
      /\ down \in [Conns -> Seq(Frame)] /\ AssignOf(h) \in Frame
      /\ \/ down' = down
         \/ socket[b] = "open" /\ down' = [down EXCEPT ![b] = Append(down[b], AssignOf(h))]
  BY <1>0, RecordTypes DEF DispatchSends, Types, HandOK, LinkOK, AssignOf
<1>4. AtHub(h) /\ ~AtHub(h)' /\ \A j \in Jobs : AtHub(j)' => AtHub(j)
  <2>1. AtHub(h)
    BY <1>0 DEF AtHub
  <2>2. ~Holds(requests, h) /\ ~Holds(pending, h) /\ \A u \in Threads : hand[u] = h => u = t
    BY <1>0, ConstantTypes DEF OnePlace
  <2>3. ~AtHub(h)'
    BY <1>0, <1>2, <1>3, <2>2, ConstantTypes DEF AtHub
  <2> QED BY <1>2, <1>3, <2>1, <2>3, ConstantTypes DEF AtHub
<1>5. \A j \in Jobs : AssignOf(j) = AssignOf(h) <=> j = h
  BY DEF AssignOf
<1>6. CASE down' = down
  <2>1. Quiet
    BY <1>2, <1>4, <1>6 DEF Quiet
  <2> QED BY <2>1, QuietKeeps
<1>7. CASE socket[b] = "open" /\ down' = [down EXCEPT ![b] = Append(down[b], AssignOf(h))]
  <2>1. ~Holds(down[b], AssignOf(h)) /\ down[b] \in Seq(Frame)
    BY <1>1, <1>3, <1>4, <1>7 DEF OneFrame
  <2>2. ASSUME NEW j \in Jobs
        PROVE  /\ Holds(down'[b], AssignOf(j)) <=> Holds(down[b], AssignOf(j)) \/ j = h
               /\ Once(down'[b], AssignOf(j))
    <3>1. down'[b] = Append(down[b], AssignOf(h))
      BY <1>1, <1>3, <1>7
    <3>2. Once(down[b], AssignOf(j))
      BY <1>1 DEF OneFrame
    <3>3. Holds(down'[b], AssignOf(j)) <=> Holds(down[b], AssignOf(j)) \/ AssignOf(j) = AssignOf(h)
      BY <1>3, <2>1, <3>1, AppendIs
    <3>4. AssignOf(h) # AssignOf(j) \/ ~Holds(down[b], AssignOf(j))
      BY <1>5, <2>1
    <3>5. Once(down'[b], AssignOf(j))
      BY <1>3, <2>1, <3>1, <3>2, <3>4, OnceIs
    <3> QED BY <1>5, <3>3, <3>5
  <2>3. \A c \in Conns : c # b => down'[c] = down[c]
    BY <1>3, <1>7
  <2>4. OneFrame'
    <3>1. \A c \in Conns, j \in Jobs : Once(down'[c], AssignOf(j))
      BY <2>2, <2>3 DEF OneFrame
    <3>2. ASSUME NEW c \in Conns, NEW j \in Jobs, socket'[c] = "open", AtHub(j)'
          PROVE  ~Holds(down'[c], AssignOf(j))
      <4>1. j # h /\ AtHub(j) /\ ~Holds(down[c], AssignOf(j))
        BY <1>2, <1>4, <3>2 DEF OneFrame
      <4> QED BY <2>2, <2>3, <4>1
    <3> QED BY <3>1, <3>2 DEF OneFrame, AssignOf
  <2>5. Carriers(h)' = Carriers(h) \cup {b} /\ b \notin Carriers(h)
    BY <1>1, <2>1, <2>2, <2>3 DEF Carriers, AssignOf
  <2>6. \A j \in Jobs : j # h => Carriers(j)' = Carriers(j)
    BY <1>1, <2>2, <2>3 DEF Carriers, AssignOf
  <2>7. ASSUME NEW j \in Jobs
        PROVE  /\ (starts[j] + Cardinality(Carriers(j)) + (IF AtHub(j) THEN 1 ELSE 0) <= 1 + crashes)'
               /\ (status[j] = "none" => starts[j] = 0 /\ Carriers(j) = {})'
    <3>1. starts[j] \in Nat /\ crashes \in Nat /\ Cardinality(Carriers(j)) \in Nat
      BY Counted, CarriersFinite
    <3>2. starts[j] + Cardinality(Carriers(j)) + (IF AtHub(j) THEN 1 ELSE 0) <= 1 + crashes
      BY DEF CountInv
    <3>3. CASE j = h
      <4>1. Cardinality(Carriers(j)') = Cardinality(Carriers(j)) + 1
        BY <2>5, <3>3, CarriersFinite, FS_AddElement
      <4>2. AtHub(j) /\ ~AtHub(j)'
        BY <1>4, <3>3
      <4>3. starts'[j] + Cardinality(Carriers(j)') + (IF AtHub(j)' THEN 1 ELSE 0) <= 1 + crashes'
        BY <1>2, <3>1, <3>2, <4>1, <4>2
      <4>4. status'[j] # "none"
        BY <1>2, <4>2 DEF OnePlace
      <4> QED BY <4>3, <4>4
    <3>4. CASE j # h
      <4>1. (AtHub(j)' => AtHub(j)) /\ Carriers(j)' = Carriers(j)
        BY <1>4, <2>6, <3>4
      <4>2. starts'[j] + Cardinality(Carriers(j)') + (IF AtHub(j)' THEN 1 ELSE 0) <= 1 + crashes'
        BY <1>2, <3>1, <3>2, <4>1
      <4> QED BY <1>2, <4>1, <4>2 DEF CountInv
    <3> QED BY <3>3, <3>4
  <2> QED BY <2>4, <2>7 DEF CountInv
<1> QED BY <1>3, <1>6, <1>7

(* A started job leaves the connection that carried it.                           *)
LEMMA StartKeeps ==
    ASSUME Types, OnePlace, OneFrame, CountInv, NEW b \in Conns, StartJob(b)
    PROVE  OneFrame' /\ CountInv'
<1> DEFINE f == Head(down[b])
<1>1. /\ down[b] # <<>> /\ down[b] \in Seq(Frame) /\ down \in [Conns -> Seq(Frame)]
      /\ f \in Frame /\ f.type = "assign"
  BY TailIs DEF StartJob, Types, LinkOK
<1>2. PICK h \in Jobs : f = AssignOf(h) /\ h = f.job
  BY <1>1 DEF Frame, AssignOf
<1>3. /\ starts' = [starts EXCEPT ![h] = starts[h] + 1] /\ starts \in [Jobs -> Nat]
      /\ down' = [down EXCEPT ![b] = Tail(down[b])]
      /\ UNCHANGED <<requests, pending, hand, status, socket, crashes>>
  BY <1>2 DEF StartJob, RunnerUnchanged, deployVars, busVars, hubVars, threadVars, bounds, Types, CountOK
<1> HIDE DEF f
<1>4. \A j \in Jobs : AssignOf(j) = AssignOf(h) <=> j = h
  BY DEF AssignOf
<1>5. ASSUME NEW j \in Jobs
      PROVE  /\ Once(Tail(down[b]), AssignOf(j))
             /\ Holds(down[b], AssignOf(j)) <=> j = h \/ Holds(Tail(down[b]), AssignOf(j))
             /\ j = h => ~Holds(Tail(down[b]), AssignOf(j))
  <2>1. Once(down[b], AssignOf(j))
    BY DEF OneFrame
  <2>2. /\ Once(Tail(down[b]), AssignOf(j))
        /\ f = AssignOf(j) => ~Holds(Tail(down[b]), AssignOf(j))
    BY <1>1, <2>1, OnceIs DEF f
  <2>3. Holds(down[b], AssignOf(j)) <=> AssignOf(j) = f \/ Holds(Tail(down[b]), AssignOf(j))
    BY <1>1, TailIs DEF f
  <2> QED BY <1>2, <1>4, <2>2, <2>3
<1>6. \A c \in Conns : (c # b => down'[c] = down[c]) /\ down'[b] = Tail(down[b])
  BY <1>1, <1>3
<1>7. \A j : AtHub(j)' <=> AtHub(j)
  BY <1>3 DEF AtHub
<1>8. OneFrame'
  BY <1>3, <1>5, <1>6, <1>7 DEF OneFrame, AssignOf
<1>9. Carriers(h)' = Carriers(h) \ {b} /\ b \in Carriers(h)
  BY <1>2, <1>5, <1>6 DEF Carriers, AssignOf
<1>10. \A j \in Jobs : j # h => Carriers(j)' = Carriers(j)
  BY <1>5, <1>6 DEF Carriers, AssignOf
<1>11. ASSUME NEW j \in Jobs
       PROVE  /\ (starts[j] + Cardinality(Carriers(j)) + (IF AtHub(j) THEN 1 ELSE 0) <= 1 + crashes)'
              /\ (status[j] = "none" => starts[j] = 0 /\ Carriers(j) = {})'
  <2>1. starts[j] \in Nat /\ crashes \in Nat /\ Cardinality(Carriers(j)) \in Nat
    BY Counted, CarriersFinite
  <2>2. starts[j] + Cardinality(Carriers(j)) + (IF AtHub(j) THEN 1 ELSE 0) <= 1 + crashes
    BY DEF CountInv
  <2>3. CASE j = h
    <3>1. Cardinality(Carriers(j)') = Cardinality(Carriers(j)) - 1
      BY <1>9, <2>3, CarriersFinite, FS_RemoveElement
    <3>2. starts'[j] = starts[j] + 1
      BY <1>2, <1>3, <2>3
    <3>3. starts'[j] + Cardinality(Carriers(j)') + (IF AtHub(j)' THEN 1 ELSE 0) <= 1 + crashes'
      BY <1>3, <1>7, <2>1, <2>2, <3>1, <3>2
    <3>4. status'[j] # "none"
      BY <1>3, <1>9, <2>3 DEF CountInv
    <3> QED BY <3>3, <3>4
  <2>4. CASE j # h
    <3>1. starts'[j] = starts[j] /\ Carriers(j)' = Carriers(j)
      BY <1>3, <1>10, <2>4
    <3>2. starts'[j] + Cardinality(Carriers(j)') + (IF AtHub(j)' THEN 1 ELSE 0) <= 1 + crashes'
      BY <1>3, <1>7, <2>1, <2>2, <3>1
    <3> QED BY <1>3, <3>1, <3>2 DEF CountInv
  <2> QED BY <2>3, <2>4
<1> QED BY <1>8, <1>11 DEF CountInv

(* After a crash the job may be in the hub again, and no connection is open.      *)
LEMMA CrashKeeps ==
    ASSUME Types, OnePlace, OnePlace', OneFrame, CountInv, Crash
    PROVE  OneFrame' /\ CountInv'
<1>1. /\ crashes' = crashes + 1 /\ UNCHANGED <<starts, down, status>>
      /\ \A c \in Conns : socket'[c] # "open"
  BY DEF Crash
<1>2. \A j : Carriers(j)' = Carriers(j)
  BY <1>1 DEF Carriers, AssignOf
<1>3. OneFrame'
  BY <1>1 DEF OneFrame, AssignOf
<1>4. ASSUME NEW j \in Jobs
      PROVE  /\ (starts[j] + Cardinality(Carriers(j)) + (IF AtHub(j) THEN 1 ELSE 0) <= 1 + crashes)'
             /\ (status[j] = "none" => starts[j] = 0 /\ Carriers(j) = {})'
  <2>1. starts[j] \in Nat /\ crashes \in Nat /\ Cardinality(Carriers(j)) \in Nat
    BY Counted, CarriersFinite
  <2>2. starts[j] + Cardinality(Carriers(j)) + (IF AtHub(j) THEN 1 ELSE 0) <= 1 + crashes
    BY DEF CountInv
  <2>3. starts'[j] + Cardinality(Carriers(j)') + (IF AtHub(j)' THEN 1 ELSE 0) <= 1 + crashes'
    BY <1>1, <1>2, <2>1, <2>2
  <2> QED BY <1>1, <1>2, <2>3 DEF CountInv
<1> QED BY <1>3, <1>4 DEF CountInv

(* Each step keeps the count of starts.                                           *)
LEMMA NextOnce == Types /\ OnceInv /\ [Next]_vars => OnceInv'
<1> SUFFICES ASSUME Types, OnceInv, [Next]_vars PROVE OnceInv'
  OBVIOUS
<1>1. OnePlace /\ OneFrame /\ CountInv /\ OnePlace'
  BY NextPlace DEF OnceInv
<1>2. OneFrame' /\ CountInv'
  BY <1>1, QuietSteps, QuietKeeps, CreateKeeps, SendKeeps, StartKeeps, CrashKeeps
<1> QED BY <1>1, <1>2 DEF OnceInv

(* StartedOnce: whatever races between the consumers, the connections and the     *)
(* cancels, a runner starts a job at most once, and once more for each crash of   *)
(* the server.                                                                    *)
THEOREM StartsCounted == Spec => []StartedOnce
<1>1. Init => OnceInv
  <2> SUFFICES ASSUME Init PROVE OnceInv
    OBVIOUS
  <2>1. /\ requests = <<>> /\ pending = <<>> /\ event["request"] = None
        /\ \A t \in Threads : hand[t] = None
    BY ConstantTypes DEF Init
  <2>2. OnePlace
    BY <2>1, EmptyIs, ConstantTypes DEF OnePlace, AtHub
  <2>3. \A c \in Conns, j \in Jobs : Once(down[c], AssignOf(j)) /\ ~Holds(down[c], AssignOf(j))
    BY DEF Init, Once, Holds
  <2>4. OneFrame
    BY <2>3 DEF OneFrame
  <2>5. ASSUME NEW j \in Jobs PROVE starts[j] = 0 /\ Carriers(j) = {} /\ ~AtHub(j) /\ crashes = 0
    BY <2>1, <2>3, EmptyIs, ConstantTypes DEF Init, Carriers, AtHub
  <2>6. CountInv
    BY <2>5, FS_EmptySet DEF CountInv
  <2> QED BY <2>2, <2>4, <2>6 DEF OnceInv
<1>2. Types /\ OnceInv /\ [Next]_vars => OnceInv'
  BY NextOnce
<1>3. Types /\ OnceInv => StartedOnce
  <2> SUFFICES ASSUME Types, OnceInv, NEW j \in Jobs PROVE starts[j] <= 1 + crashes
    BY DEF StartedOnce
  <2>1. starts[j] \in Nat /\ crashes \in Nat /\ Cardinality(Carriers(j)) \in Nat
    BY Counted, CarriersFinite
  <2>2. starts[j] + Cardinality(Carriers(j)) + (IF AtHub(j) THEN 1 ELSE 0) <= 1 + crashes
    BY DEF OnceInv, CountInv
  <2> QED BY <2>1, <2>2
<1> QED BY <1>1, <1>2, <1>3, TypesHold, PTL DEF Spec
=============================================================================
