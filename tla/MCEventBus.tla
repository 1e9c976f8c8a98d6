----------------------------- MODULE MCEventBus -----------------------------
(* Instances of EventBus for TLC: one topic with two subscriptions, or with one. *)
EXTENDS EventBus, TLC
CONSTANTS c1, c2

TwoSubs == [e \in Events |-> <<c1, c2>>]
OneSub == [e \in Events |-> <<c1>>]

\* Row ids are interchangeable: the order of rows is rowid, not the id.
EventSymmetry == Permutations(Events)
=============================================================================
