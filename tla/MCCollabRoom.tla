-------------------------- MODULE MCCollabRoom --------------------------
(* Small instances of CollabRoom for TLC.                                  *)
EXTENDS CollabRoom, TLC

CONSTANTS t1, t2, e1, e2

\* The first tab dials the odd connections, the second the even ones.
MCTabOf == [c \in Conns |-> IF c % 2 = 1 THEN t1 ELSE t2]

\* The first text is typed in the first tab.
MCTypedAt == [e \in Edits |-> IF e = e1 THEN t1 ELSE t2]
=============================================================================
