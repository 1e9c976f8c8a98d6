---------------------------- MODULE MCPlayQueue ----------------------------
(* Instances of PlayQueue for TLC. *)
EXTENDS PlayQueue
CONSTANTS i1, i2, p1, ann, bob, t1, t2, pc1

\* Two matches on one target land on Ann's computer, the first before the
\* second.  Bob, who shares the computer, presses a play on the same target,
\* or Ann presses one on another.
MCItemPerson == [i \in Items |-> ann]
MCItemTarget == [i \in Items |-> t1]
MCPressers == {<<bob, t1>>, <<ann, t2>>}
MCComputerOf == [p \in People |-> pc1]
MCPrio == [i \in Items |-> IF i = i1 THEN 1 ELSE 0]

\* The press is of the second match's play.
MCPlayOf == [o \in Owners |-> IF o = i1 THEN i1 ELSE p1]
=============================================================================
