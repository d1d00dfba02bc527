------------------------- MODULE MCMissionLifecycle -------------------------
(* Small instances of MissionLifecycle for TLC.                            *)
EXTENDS MissionLifecycle, TLC

Interchangeable == Permutations(Creators) \cup Permutations(Slots)
=============================================================================
