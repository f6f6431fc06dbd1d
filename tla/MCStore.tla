------------------------------ MODULE MCStore ------------------------------
(* Instances of Store for TLC.                                             *)
EXTENDS Store, TLC

Interchangeable == Permutations(Tabs) \cup Permutations(Saves)

\* mishap and early stay set, and say that nothing is promised any more.
Promised == ~mishap /\ ~early
=============================================================================
