--------------------------- MODULE DeliveryLedger ---------------------------
(***************************************************************************)
(* What the event spine promises, with no relay, channel, goroutine or     *)
(* process in it: a ledger of the deliveries each committed event owes.    *)
(*                                                                         *)
(* A pair <<consumer, event>> is carried while some copy of the event is   *)
(* on its way to the consumer.  It stops being carried only because the    *)
(* consumer finished it, because a dead letter stands for the event, or by *)
(* an entry under lost; and an event leaves the outbox only once every     *)
(* pair it owes is carried or accounted for.                               *)
(***************************************************************************)
CONSTANTS Events, Owed  \* Owed: the <<consumer, event>> pairs of the subscriptions

VARIABLES
    committed,  \* events whose domain write committed
    outbox,     \* committed events still to be published
    carried,    \* pairs with a copy under way
    done,       \* pairs recorded as processed
    letters,    \* events with a dead letter
    lost        \* pairs whose last delivery was abandoned on the record

vars == <<committed, outbox, carried, done, letters, lost>>

Init ==
    /\ committed = {} /\ outbox = {} /\ carried = {}
    /\ done = {} /\ letters = {} /\ lost = {}

\* The pair may have another copy under way.
PutDown(p) == carried' \in {carried, carried \ {p}}

Commit(e) ==
    /\ e \notin committed
    /\ committed' = committed \cup {e} /\ outbox' = outbox \cup {e}
    /\ UNCHANGED <<carried, done, letters, lost>>

Carry(p) ==
    /\ p[2] \in committed
    /\ carried' = carried \cup {p} /\ lost' = lost \ {p}
    /\ UNCHANGED <<committed, outbox, done, letters>>

\* The consumer is gone when its turn comes.
Miss(p) ==
    /\ p[2] \in committed
    /\ lost' = lost \cup {p}
    /\ UNCHANGED <<committed, outbox, carried, done, letters>>

\* Now, or already before this copy.
Finish(p) ==
    /\ p \in carried
    /\ done' = done \cup {p}
    /\ PutDown(p)
    /\ UNCHANGED <<committed, outbox, letters, lost>>

Bury(p) ==
    /\ p \in carried
    /\ letters' = letters \cup {p[2]}
    /\ PutDown(p)
    /\ UNCHANGED <<committed, outbox, done, lost>>

Abandon(S) ==
    /\ lost' = lost \cup S
    /\ \E T \in SUBSET S : carried' = carried \ T
    /\ UNCHANGED <<committed, outbox, done, letters>>

Accounted(e) ==
    e \in letters \/ \A p \in Owed : p[2] = e => p \in carried \cup done \cup lost

Publish(e) ==
    /\ e \in outbox /\ Accounted(e)
    /\ outbox' = outbox \ {e}
    /\ UNCHANGED <<committed, carried, done, letters, lost>>

\* An operator's replay takes the dead letter away.
Discard(e) ==
    /\ e \in letters
    /\ letters' = letters \ {e}
    /\ lost' = lost \cup {p \in Owed : p[2] = e /\ p \notin carried \cup done}
    /\ UNCHANGED <<committed, outbox, carried, done>>

Next ==
    \/ \E e \in Events : Commit(e) \/ Publish(e) \/ Discard(e)
    \/ \E p \in Owed : Carry(p) \/ Miss(p) \/ Finish(p) \/ Bury(p)
    \/ \E S \in SUBSET carried : Abandon(S)

Spec == Init /\ [][Next]_vars
=============================================================================
