---------------------------- MODULE MCServerPools ----------------------------
(* Instances of ServerPools for TLC.                                        *)
EXTENDS ServerPools, TLC

Interchangeable == Permutations(Reqs) \cup Permutations(Dbs) \cup Permutations(Tabs)
=============================================================================
