-------------------------- MODULE MCRequestLifecycle --------------------------
(***************************************************************************)
(* Small instances of RequestLifecycle.                                    *)
(***************************************************************************)
EXTENDS RequestLifecycle, TLC

\* Goroutine slots are interchangeable, and so are messages not yet published.
SlotSymmetry == Permutations(Workers) \cup Permutations(Checkers)
                \cup Permutations(Msgs)
=============================================================================
