---------------------------- MODULE MCListeners ----------------------------
(* Instances of Listeners for TLC.                                          *)
EXTENDS Listeners, TLC

Interchangeable == Permutations(Tabs) \cup Permutations(Channels)
                   \cup Permutations(Listeners) \cup Permutations(Cmds)
=============================================================================
