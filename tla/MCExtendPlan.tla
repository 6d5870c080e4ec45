----------------------------- MODULE MCExtendPlan -----------------------------
(***************************************************************************)
(* Small instances of ExtendPlan: four sectors, each one of a few kinds.   *)
(***************************************************************************)
EXTENDS ExtendPlan, TLC

CONSTANTS l1, l2

Info(expiration, pledge, location, lifetime, claims) ==
  [expiration |-> expiration, pledge |-> pledge, location |-> location,
   lifetime |-> lifetime, claims |-> claims]

\* Two expirations in each partition, dear and cheap sectors, two near the end
\* of their lives, one whose claims end too early and one whose claims do not.
MCSectorInfos ==
  {Info(1, 1, l1, 9, {}), Info(2, 2, l1, 9, {}), Info(2, 1, l1, 3, {}), Info(1, 1, l1, 2, {}),
   Info(1, 1, l1, 9, {3}), Info(1, 1, l2, 9, {9}), Info(3, 2, l2, 9, {})}

Args(extension, newExpiration, tolerance, maxSectors, maxPledge) ==
  [from |-> 1, to |-> 2, extension |-> extension,
   newExpiration |-> newExpiration, tolerance |-> tolerance,
   maxSectors |-> maxSectors, maxPledge |-> maxPledge]

\* Separate and merged expirations, slices of one and of two, a budget that is
\* too small, a new expiration, a negative tolerance.
MCArguments ==
  {Args(2, NoEpoch, t, n, 0) : t \in {0, 1}, n \in {1, 2}}
  \cup {Args(2, NoEpoch, 2, 2, 0), Args(2, NoEpoch, 0, 0, 3),
        Args(2, NoEpoch, 1, 0, 0), Args(NoEpoch, 4, 0, 2, 0),
        Args(2, NoEpoch, -1, 2, 3)}

\* Sectors are interchangeable.
SectorSymmetry == Permutations(Sectors)
=============================================================================
