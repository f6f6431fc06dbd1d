--------------------------- MODULE MCTabSessions ---------------------------
(* Instances of TabSessions for TLC: the slots are those of one pool.        *)
EXTENDS TabSessions, TLC

CONSTANT p1

OnePool == [c \in Conns |-> p1]

Interchangeable == Permutations(Tabs) \cup Permutations(Runs)
AndSlots == Interchangeable \cup Permutations(Conns)
=============================================================================
