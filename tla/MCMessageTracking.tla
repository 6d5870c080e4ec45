-------------------------- MODULE MCMessageTracking ---------------------------
(***************************************************************************)
(* Small instances of MessageTracking.                                     *)
(***************************************************************************)
EXTENDS MessageTracking, TLC

\* Row ids and the goroutine slots of each kind are interchangeable.
TrackingSymmetry == Permutations(Rows) \cup Permutations(Watchers)
                    \cup Permutations(Speedups)
=============================================================================
