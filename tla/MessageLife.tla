------------------------------ MODULE MessageLife ------------------------------
(***************************************************************************)
(* What the service promises of a published message, whichever goroutines  *)
(* publish, replace, watch and save it: once its request counts it, it     *)
(* counts it for good, and its receipt is recorded at most once and never  *)
(* withdrawn.  RequestLifecycle and MessageTracking both implement this:   *)
(* the first for the rows that processRequest links and checkMessage reads, *)
(* the second for the nonces that live on when replaceMessage replaces the *)
(* row they had.                                                           *)
(***************************************************************************)
CONSTANT Messages

VARIABLES
  counted,   \* messages that a request counts
  recorded   \* those among them whose receipt is stored

lifeVars == <<counted, recorded>>

\* Saving a request counts all the messages of one run of extend at once.
Count(S) ==
  /\ counted' = counted \cup S
  /\ UNCHANGED recorded

Record(m) ==
  /\ m \in counted
  /\ recorded' = recorded \cup {m}
  /\ UNCHANGED counted

LifeInit == counted = {} /\ recorded = {}

LifeNext ==
  \/ \E S \in SUBSET Messages : Count(S)
  \/ \E m \in Messages : Record(m)

LifeSpec == LifeInit /\ [][LifeNext]_lifeVars

=============================================================================
