-------------------------- MODULE ExtendPlan_proofs ---------------------------
(***************************************************************************)
(* Proofs about ExtendPlan for any sectors, partitions and arguments: the  *)
(* invariant PlanInv, from it the type invariant and RenewalsExtend, and   *)
(* with OnceInv that no sector is declared twice.                          *)
(***************************************************************************)
EXTENDS ExtendPlan, FiniteSetTheorems, SequenceTheorems, TLAPS

-----------------------------------------------------------------------------
(* Operators *)

\* The arguments and the sectors have the types that createRequest and the
\* node give them.
LEMMA InputTypes ==
  ASSUME sector \in [Sectors -> SectorInfos], args \in Arguments
  PROVE  /\ args.tolerance \in Int /\ args.maxSectors \in Nat
         /\ args.extension \in Int /\ args.newExpiration \in Int
         /\ \A s \in Sectors :
              /\ sector[s].expiration \in Nat /\ sector[s].lifetime \in Nat
              /\ sector[s].pledge \in Nat /\ sector[s].location \in Locations
  <1>1. args \in Argument
    BY PlanAssumption
  <1>2. \A s \in Sectors : sector[s] \in SectorInfo
    BY PlanAssumption
  <1> QED BY <1>1, <1>2 DEF Argument, SectorInfo

\* A message has room for at least one sector.
LEMMA AddrSectorsPositive ==
  ASSUME sector \in [Sectors -> SectorInfos], args \in Arguments
  PROVE  AddrSectors \in Nat \ {0}
  BY InputTypes, PlanAssumption DEF AddrSectors

\* The new expiration of a sector that is worth renewing is an epoch after its
\* current one, by more than the tolerance, and within its life.
LEMMA WorthwhileGains ==
  ASSUME sector \in [Sectors -> SectorInfos], args \in Arguments,
         NEW s \in Sectors, ~NotWorthwhile(s)
  PROVE  /\ NewExpiration(s) \in Epochs
         /\ NewExpiration(s) > sector[s].expiration
         /\ NewExpiration(s) > sector[s].expiration + args.tolerance
         /\ NewExpiration(s) <= sector[s].lifetime
  BY InputTypes, PlanAssumption
  DEF NotWorthwhile, Within, NewExpiration, Least, Epochs

\* A sector fits a group it starts and every group it can join.
LEMMA StarterFits ==
  ASSUME sector \in [Sectors -> SectorInfos], args \in Arguments,
         NEW s \in Sectors, ~NotWorthwhile(s)
  PROVE  /\ Key(s, NewExpiration(s)) \in Locations \X Epochs
         /\ s \in Members(Key(s, NewExpiration(s)))
  <1>1. sector[s].location \in Locations
    BY InputTypes
  <1> QED BY WorthwhileGains, <1>1 DEF Key, Members, Fits

LEMMA JoinerFits ==
  ASSUME sector \in [Sectors -> SectorInfos], args \in Arguments,
         NEW s \in Sectors, ~NotWorthwhile(s), NEW e \in Close(s)
  PROVE  /\ Key(s, e) \in Locations \X Epochs
         /\ s \in Members(Key(s, e))
  <1>1. sector[s].location \in Locations /\ args.tolerance \in Int
        /\ sector[s].expiration \in Nat /\ sector[s].lifetime \in Nat
    BY InputTypes
  <1>2. e \in Epochs /\ Within(NewExpiration(s), e)
    BY DEF Close
  <1>3. NewExpiration(s) \in Int /\ e \in Int
    BY WorthwhileGains, <1>2, PlanAssumption DEF Epochs
  <1>4. e > sector[s].expiration /\ e <= sector[s].lifetime + args.tolerance
    BY WorthwhileGains, <1>1, <1>2, <1>3 DEF Within
  <1> QED BY <1>1, <1>2, <1>4 DEF Key, Members, Fits

\* The declaration of any sequence of members of a group is sound.
LEMMA DeclarationSound ==
  ASSUME sector \in [Sectors -> SectorInfos], args \in Arguments,
         NEW k \in Locations \X Epochs, NEW numbers \in Seq(Members(k))
  PROVE  Declaration(k, numbers) \in Declarations
  <1> DEFINE counted == {s \in Range(numbers) : Extendable(s, k[2])}
  <1>1. Range(numbers) \subseteq Members(k)
    BY LenProperties, ElementOfSeq DEF Range
  <1>2. Range(numbers) \subseteq Sectors
    BY <1>1 DEF Members
  <1>3. IsFiniteSet(counted)
    BY <1>2, PlanAssumption, FS_Subset
  <1>4. Cardinality(counted) \in Nat
    BY <1>3, FS_CardinalityType
  <1>5. k[1] \in Locations /\ k[2] \in Epochs /\ k = <<k[1], k[2]>>
    OBVIOUS
  <1>6. Declaration(k, numbers) =
          [location |-> k[1], expiration |-> k[2], sectors |-> Range(numbers),
           counted |-> Cardinality(counted)]
    BY DEF Declaration
  <1> HIDE DEF counted
  <1> QED BY <1>1, <1>2, <1>4, <1>5, <1>6 DEF Declarations

\* A slice of a group consists of members of the group.
LEMMA BatchOfGroup ==
  ASSUME sector \in [Sectors -> SectorInfos], args \in Arguments,
         NEW S, NEW numbers \in Seq(S), NEW i \in Nat \ {0}
  PROVE  Batch(numbers, i) \in Seq(S)
  <1> DEFINE m == (i - 1) * AddrSectors + 1
             n == Least(i * AddrSectors, Len(numbers))
  <1>1. AddrSectors \in Nat \ {0}
    BY AddrSectorsPositive
  <1>2. Len(numbers) \in Nat
    BY LenProperties
  <1>3. (i - 1) * AddrSectors \in Nat /\ i * AddrSectors \in Nat
    BY <1>1
  <1>4. m \in Int /\ n \in Int /\ m >= 1 /\ n <= Len(numbers)
    BY <1>2, <1>3 DEF Least
  <1> HIDE DEF m, n
  <1>5. \A j \in m..n : numbers[j] \in S
    BY <1>2, <1>4, ElementOfSeq
  <1>6. SubSeq(numbers, m, n) \in Seq(S)
    BY <1>4, <1>5, SubSeqProperties
  <1> QED BY <1>6 DEF Batch, m, n

LEMMA FullBatchesType ==
  ASSUME sector \in [Sectors -> SectorInfos], args \in Arguments,
         NEW S, NEW numbers \in Seq(S), numbers # <<>>
  PROVE  FullBatches(numbers) \in Nat
  <1>1. AddrSectors \in Nat \ {0}
    BY AddrSectorsPositive
  <1>2. Len(numbers) - 1 \in Nat
    BY EmptySeq
  <1>3. \A a \in Nat, b \in Nat \ {0} : a \div b \in Nat
    OBVIOUS
  <1> QED BY <1>1, <1>2, <1>3 DEF FullBatches

-----------------------------------------------------------------------------
(* The invariant *)

LEMMA InitPlan == Init => PlanInv
  <1> SUFFICES ASSUME Init PROVE PlanInv
    OBVIOUS
  <1>1. todo \subseteq Sectors
    BY DEF Init, Candidates
  <1>2. \A S : <<>> \in Seq(S)
    BY EmptySeq
  <1> QED BY <1>1, <1>2 DEF Init, PlanInv

\* The inputs of a call do not change, so what fits a group does not either.
LEMMA SameInputs ==
  ASSUME UNCHANGED inputs
  PROVE  /\ sector' = sector /\ args' = args
         /\ \A k : Members(k)' = Members(k)
         /\ Declarations' = Declarations
  BY DEF inputs, Members, Fits, Declarations

LEMMA NextPlan == PlanInv /\ [Next]_vars => PlanInv'
  <1> SUFFICES ASSUME PlanInv, [Next]_vars PROVE PlanInv'
    OBVIOUS
  <1>0. /\ sector \in [Sectors -> SectorInfos] /\ args \in Arguments
        /\ \A s \in Sectors : sector[s].pledge \in Nat
    BY InputTypes DEF PlanInv
  <1>1. ASSUME NEW s \in Sectors, SkipPledge(s)  PROVE PlanInv'
    <2>1. UNCHANGED inputs
      BY <1>1 DEF SkipPledge
    <2> QED BY <1>1, <2>1, SameInputs DEF SkipPledge, Considered, PlanInv, packing
  <1>2. ASSUME NEW s \in Sectors, SkipSector(s)  PROVE PlanInv'
    <2>1. UNCHANGED inputs
      BY <1>2 DEF SkipSector
    <2>2. pledged' \in Nat
      BY <1>0, <1>2 DEF SkipSector, Spent, PlanInv
    <2> QED BY <1>2, <2>1, <2>2, SameInputs
            DEF SkipSector, Considered, PlanInv, packing
  <1>3. ASSUME NEW s \in Sectors, NEW e \in Epochs, JoinGroup(s, e)  PROVE PlanInv'
    <2>1. UNCHANGED inputs
      BY <1>3 DEF JoinGroup
    <2>2. pledged' \in Nat
      BY <1>0, <1>3 DEF JoinGroup, Spent, PlanInv
    <2>3. Key(s, e) \in Locations \X Epochs /\ s \in Members(Key(s, e))
      BY <1>0, <1>3, JoinerFits DEF JoinGroup
    <2>4. Append(groups[Key(s, e)], s) \in Seq(Members(Key(s, e)))
      BY <2>3, AppendProperties DEF PlanInv
    <2>5. DOMAIN groups' = Locations \X Epochs
      BY <1>3 DEF JoinGroup, PlanInv
    <2>6. \A k \in Locations \X Epochs : groups'[k] \in Seq(Members(k))
      BY <1>3, <2>3, <2>4 DEF JoinGroup, PlanInv
    <2>7. \A k \in left : groups'[k] # <<>>
      <3>1. Append(groups[Key(s, e)], s) # <<>>
        BY <2>3, AppendProperties DEF PlanInv
      <3> QED BY <1>3, <3>1 DEF JoinGroup, PlanInv
    <2> QED BY <1>3, <2>1, <2>2, <2>5, <2>6, <2>7, SameInputs
            DEF JoinGroup, Considered, PlanInv, packing
  <1>4. ASSUME NEW s \in Sectors, StartGroup(s)  PROVE PlanInv'
    <2> DEFINE key == Key(s, NewExpiration(s))
    <2>1. UNCHANGED inputs
      BY <1>4 DEF StartGroup
    <2>2. pledged' \in Nat
      BY <1>0, <1>4 DEF StartGroup, Spent, PlanInv
    <2>3. key \in Locations \X Epochs /\ s \in Members(key)
      BY <1>0, <1>4, StarterFits DEF StartGroup
    <2>4. groups' = [groups EXCEPT ![key] = <<s>>]
      BY <1>4 DEF StartGroup
    <2> HIDE DEF key
    <2>5. <<s>> \in Seq(Members(key)) /\ <<s>> # <<>>
      BY <2>3
    <2>6. \A k \in Locations \X Epochs : groups'[k] \in Seq(Members(k))
      BY <2>3, <2>4, <2>5 DEF PlanInv
    <2>7. DOMAIN groups' = Locations \X Epochs
      BY <2>4 DEF PlanInv
    <2>8. \A k \in left : groups'[k] # <<>>
      BY <2>4, <2>5 DEF PlanInv
    <2> QED BY <1>4, <2>1, <2>2, <2>6, <2>7, <2>8, SameInputs
            DEF StartGroup, Considered, PlanInv, packing
  <1>5. ASSUME Grouped  PROVE PlanInv'
    <2>1. UNCHANGED inputs
      BY <1>5 DEF Grouped
    <2> QED BY <1>5, <2>1, SameInputs DEF Grouped, PlanInv, grouping
  <1>6. ASSUME NEW k \in Locations \X Epochs, Visit(k)  PROVE PlanInv'
    <2> DEFINE numbers == groups[k]
               full == FullBatches(numbers)
               rest == Declaration(k, Batch(numbers, full + 1))
               count == scount + rest.counted
               closes == count > AddrSectors \/ Len(open) >= DeclarationsMax
               batches == [i \in 1..full |-> <<Declaration(k, Batch(numbers, i))>>]
               closed == IF closes THEN <<open>> ELSE <<>>
    <2>1. UNCHANGED inputs
      BY <1>6 DEF Visit
    <2>2. numbers \in Seq(Members(k)) /\ numbers # <<>>
      BY <1>6 DEF Visit, PlanInv
    <2>3. full \in Nat
      BY <1>0, <2>2, FullBatchesType
    <2>4. \A i \in Nat \ {0} : Declaration(k, Batch(numbers, i)) \in Declarations
      BY <1>0, <2>2, BatchOfGroup, DeclarationSound
    <2>5. rest \in Declarations
      BY <2>3, <2>4
    <2>6. rest.counted \in Nat
      BY <2>5 DEF Declarations
    <2>7. /\ params' = params \o batches \o closed
          /\ open' = IF closes THEN <<rest>> ELSE Append(open, rest)
          /\ scount' = IF closes THEN rest.counted ELSE count
      BY <1>6 DEF Visit, Pack, CountFrom
    <2>8. batches \in Seq(Seq(Declarations))
      <3>1. \A i \in 1..full : <<Declaration(k, Batch(numbers, i))>> \in Seq(Declarations)
        BY <2>3, <2>4
      <3>2. batches \in [1..full -> Seq(Declarations)]
        BY <3>1
      <3> HIDE DEF batches, full
      <3> QED BY <2>3, <3>2, SeqDef
    <2>9. closed \in Seq(Seq(Declarations))
      BY EmptySeq DEF PlanInv
    <2> HIDE DEF numbers, full, rest, batches, closed, closes
    <2>10. params' \in Seq(Seq(Declarations))
      <3>1. params \o batches \in Seq(Seq(Declarations))
        BY <2>8, ConcatProperties DEF PlanInv
      <3> QED BY <2>7, <2>9, <3>1, ConcatProperties
    <2>11. open' \in Seq(Declarations)
      BY <2>5, <2>7, AppendProperties DEF PlanInv
    <2>12. scount' \in Nat
      BY <2>6, <2>7 DEF PlanInv
    <2>13. left' \subseteq left /\ visiting' \in Locations
      BY <1>6 DEF Visit
    <2> QED BY <1>6, <2>1, <2>10, <2>11, <2>12, <2>13, SameInputs
            DEF Visit, PlanInv, grouping
  <1>7. ASSUME Finish  PROVE PlanInv'
    <2>1. UNCHANGED inputs
      BY <1>7 DEF Finish
    <2>2. params' \in Seq(Seq(Declarations))
      BY <1>7, AppendProperties DEF Finish, Closed, PlanInv
    <2> QED BY <1>7, <2>1, <2>2, SameInputs DEF Finish, PlanInv, grouping
  <1>8. ASSUME PlanFails  PROVE PlanInv'
    <2>1. UNCHANGED inputs
      BY <1>8 DEF PlanFails
    <2> QED BY <1>8, <2>1, SameInputs DEF PlanFails, PlanInv, grouping, packing
  <1>9. ASSUME UNCHANGED vars  PROVE PlanInv'
    <2>1. UNCHANGED inputs
      BY <1>9 DEF vars
    <2> QED BY <1>9, <2>1, SameInputs DEF vars, PlanInv, grouping, packing
  <1> QED BY <1>1, <1>2, <1>3, <1>4, <1>5, <1>6, <1>7, <1>8, <1>9 DEF Next

\* Every group and every message the packing can build consists of sectors
\* that fit it.
THEOREM PlanInvariance == Spec => []PlanInv
  BY InitPlan, NextPlan, PTL DEF Spec

-----------------------------------------------------------------------------
(* What follows from it *)

\* A declaration of any message, the open one included, is sound.
LEMMA DeclaredSound ==
  ASSUME PlanInv, NEW d \in Declared
  PROVE  d \in Declarations
  <1>1. Messages \in Seq(Seq(Declarations))
    BY AppendProperties DEF Messages, PlanInv
  <1>2. PICK m \in Range(Messages) : d \in Range(m)
    BY DEF Declared
  <1>3. m \in Seq(Declarations)
    BY <1>1, <1>2, LenProperties, ElementOfSeq DEF Range
  <1> QED BY <1>2, <1>3, LenProperties, ElementOfSeq DEF Range

\* Merging sectors into a group of a close expiration never shortens the life
\* of one, nor exceeds it by more than the tolerance (service.go:485-528).
THEOREM RenewalsAlwaysExtend == Spec => []RenewalsExtend
  <1>1. PlanInv => RenewalsExtend
    <2> SUFFICES ASSUME PlanInv, NEW d \in Declared, NEW s \in d.sectors
                 PROVE  /\ d.expiration > sector[s].expiration
                        /\ d.expiration <= MaxExtendNow
                        /\ \/ d.expiration <= sector[s].lifetime
                           \/ d.expiration <= sector[s].lifetime + args.tolerance
      BY DEF RenewalsExtend
    <2>1. d \in Declarations
      BY DeclaredSound
    <2>2. d.expiration \in Epochs /\ s \in Members(<<d.location, d.expiration>>)
      BY <2>1 DEF Declarations
    <2> QED BY <2>2 DEF Members, Fits, Epochs
  <1> QED BY <1>1, PlanInvariance, PTL

\* The variables keep their types, and every sector is declared in the
\* partition it is in.
THEOREM PlanTypes == Spec => []PlanTypeOK
  <1>1. PlanInv => PlanTypeOK
    <2> SUFFICES ASSUME PlanInv PROVE PlanTypeOK
      OBVIOUS
    <2>1. ASSUME NEW k \in DOMAIN groups, NEW s \in Range(groups[k])
          PROVE  sector[s].location = k[1]
      <3>1. groups[k] \in Seq(Members(k))
        BY DEF PlanInv
      <3>2. s \in Members(k)
        BY <3>1, LenProperties, ElementOfSeq DEF Range
      <3> QED BY <3>2 DEF Members, Fits
    <2>2. ASSUME NEW d \in Declared
          PROVE  DeclarationOK(d) /\ \A s \in d.sectors : sector[s].location = d.location
      BY DeclaredSound DEF Declarations, DeclarationOK, Members, Fits
    <2> QED BY <2>1, <2>2 DEF PlanInv, PlanTypeOK
  <1> QED BY <1>1, PlanInvariance, PTL

-----------------------------------------------------------------------------
(* No sector is declared twice *)

\* Two slices of a group start at least one full slice apart.
LEMMA SlicesApart ==
  ASSUME NEW A \in Nat \ {0}, NEW i \in Nat \ {0}, NEW j \in Nat \ {0}, i < j
  PROVE  i * A <= (j - 1) * A
  <1>1. PICK r \in Nat : j - 1 = i + r
    <2>1. j - 1 - i \in Nat /\ j - 1 = i + (j - 1 - i)
      OBVIOUS
    <2> QED BY <2>1
  <1>2. r * A \in Nat /\ i * A \in Nat
    OBVIOUS
  <1>3. (i + r) * A = i * A + r * A
    OBVIOUS
  <1> QED BY <1>1, <1>2, <1>3

\* A sector of a slice stands in the group, at a place of that slice.
LEMMA BatchElements ==
  ASSUME sector \in [Sectors -> SectorInfos], args \in Arguments,
         NEW S, NEW numbers \in Seq(S), NEW i \in Nat \ {0},
         NEW s \in Range(Batch(numbers, i))
  PROVE  \E n \in 1..Len(numbers) :
           /\ numbers[n] = s
           /\ (i - 1) * AddrSectors < n /\ n <= i * AddrSectors
  <1> DEFINE m == (i - 1) * AddrSectors + 1
             n == Least(i * AddrSectors, Len(numbers))
  <1>1. AddrSectors \in Nat \ {0}
    BY AddrSectorsPositive
  <1>2. Len(numbers) \in Nat
    BY LenProperties
  <1>3. (i - 1) * AddrSectors \in Nat /\ i * AddrSectors \in Nat
    BY <1>1
  <1>4. /\ m \in Int /\ n \in Int /\ m >= 1
        /\ n <= Len(numbers) /\ n <= i * AddrSectors
    BY <1>2, <1>3 DEF Least
  <1>5. Batch(numbers, i) = SubSeq(numbers, m, n)
    BY DEF Batch
  <1>6. m = (i - 1) * AddrSectors + 1
    OBVIOUS
  <1> HIDE DEF m, n
  <1>7. \A x \in m..n : numbers[x] \in S
    BY <1>2, <1>4, ElementOfSeq
  <1>8. /\ SubSeq(numbers, m, n) \in Seq(S)
        /\ Len(SubSeq(numbers, m, n)) = IF m <= n THEN n - m + 1 ELSE 0
        /\ \A x \in 1..n - m + 1 : SubSeq(numbers, m, n)[x] = numbers[m + x - 1]
    BY <1>4, <1>7, SubSeqProperties
  <1>9. PICK x \in 1..Len(SubSeq(numbers, m, n)) : SubSeq(numbers, m, n)[x] = s
    BY <1>5, <1>8, LenProperties DEF Range
  <1>10. /\ x \in 1..n - m + 1 /\ x \in Nat
         /\ numbers[m + x - 1] = s
    BY <1>4, <1>8, <1>9
  <1>11. /\ m + x - 1 \in 1..Len(numbers)
         /\ (i - 1) * AddrSectors < m + x - 1
         /\ m + x - 1 <= i * AddrSectors
    <2> DEFINE lo == (i - 1) * AddrSectors
               hi == i * AddrSectors
    <2>1. /\ lo \in Nat /\ hi \in Nat /\ m = lo + 1
          /\ n <= hi /\ n <= Len(numbers)
      BY <1>3, <1>4, <1>6
    <2> HIDE DEF lo, hi
    <2>2. m + x - 1 \in 1..Len(numbers) /\ lo < m + x - 1 /\ m + x - 1 <= hi
      BY ONLY <1>2, <1>4, <1>10, <2>1
    <2> QED BY <2>2 DEF lo, hi
  <1> QED BY <1>10, <1>11

\* The slices of a group without repetition have no sector in common.
LEMMA BatchesApart ==
  ASSUME sector \in [Sectors -> SectorInfos], args \in Arguments,
         NEW S, NEW numbers \in Seq(S), IsInjective(numbers),
         NEW i \in Nat \ {0}, NEW j \in Nat \ {0},
         Range(Batch(numbers, i)) \cap Range(Batch(numbers, j)) # {}
  PROVE  i = j
  <1>1. AddrSectors \in Nat \ {0}
    BY AddrSectorsPositive
  <1>2. PICK s : s \in Range(Batch(numbers, i)) /\ s \in Range(Batch(numbers, j))
    OBVIOUS
  <1>3. PICK n \in 1..Len(numbers) :
          /\ numbers[n] = s
          /\ (i - 1) * AddrSectors < n /\ n <= i * AddrSectors
    BY <1>2, BatchElements
  <1>4. PICK m \in 1..Len(numbers) :
          /\ numbers[m] = s
          /\ (j - 1) * AddrSectors < m /\ m <= j * AddrSectors
    BY <1>2, BatchElements
  <1>5. m = n /\ n \in Nat
    BY <1>3, <1>4, LenProperties DEF IsInjective
  <1>6. /\ (i - 1) * AddrSectors \in Nat /\ i * AddrSectors \in Nat
        /\ (j - 1) * AddrSectors \in Nat /\ j * AddrSectors \in Nat
    BY <1>1
  <1>7. ~(i < j)
    BY <1>1, <1>3, <1>4, <1>5, <1>6, SlicesApart
  <1>8. ~(j < i)
    BY <1>1, <1>3, <1>4, <1>5, <1>6, SlicesApart
  <1> QED BY <1>7, <1>8

\* The places of the messages after d joins the open message.
LEMMA OpenedPlaces ==
  ASSUME NEW S, NEW ps \in Seq(Seq(S)), NEW op \in Seq(S), NEW d \in S,
         NEW i \in 1..Len(Append(ps, Append(op, d))),
         NEW x \in 1..Len(Append(ps, Append(op, d))[i])
  PROVE  \/ /\ i \in 1..Len(Append(ps, op)) /\ x \in 1..Len(Append(ps, op)[i])
            /\ Append(ps, Append(op, d))[i][x] = Append(ps, op)[i][x]
         \/ /\ i = Len(ps) + 1 /\ x = Len(op) + 1
            /\ Append(ps, Append(op, d))[i][x] = d
  <1> DEFINE P == Len(ps)
             O == Len(op)
             opened == Append(op, d)
             old == Append(ps, op)
             new == Append(ps, opened)
  <1>1. P \in Nat /\ O \in Nat
    BY LenProperties
  <1>2. /\ opened \in Seq(S) /\ Len(opened) = O + 1 /\ opened[O + 1] = d
        /\ \A y \in 1..O : opened[y] = op[y]
    BY AppendProperties
  <1> HIDE DEF opened
  <1>3. /\ Len(old) = P + 1 /\ old[P + 1] = op
        /\ \A j \in 1..P : old[j] = ps[j]
    BY AppendProperties
  <1>4. /\ Len(new) = P + 1 /\ new[P + 1] = opened
        /\ \A j \in 1..P : new[j] = ps[j]
    BY <1>2, AppendProperties
  <1>5. i \in 1..Len(new) /\ x \in 1..Len(new[i])
    BY DEF opened
  <1> HIDE DEF P, O, old, new
  <1>6. CASE i \in 1..P
    <2>1. new[i] = old[i] /\ i \in 1..Len(old)
      BY <1>1, <1>3, <1>4, <1>6
    <2> QED BY <1>5, <2>1 DEF old, new, opened
  <1>7. CASE i = P + 1
    <2>1. new[i] = opened /\ old[i] = op /\ i \in 1..Len(old)
      BY <1>1, <1>3, <1>4, <1>7
    <2>2. x \in 1..O \/ x = O + 1
      BY <1>1, <1>2, <1>5, <2>1
    <2>3. CASE x \in 1..O
      BY <1>2, <2>1, <2>3 DEF old, new, opened, O
    <2>4. CASE x = O + 1
      BY <1>2, <1>7, <2>1, <2>4 DEF new, opened, O, P
    <2> QED BY <2>2, <2>3, <2>4
  <1> QED BY <1>1, <1>4, <1>5, <1>6, <1>7

\* The places of the messages after the open one is closed and d starts another.
LEMMA ClosedPlaces ==
  ASSUME NEW S, NEW old \in Seq(Seq(S)), NEW d \in S,
         NEW i \in 1..Len(Append(old, <<d>>)),
         NEW x \in 1..Len(Append(old, <<d>>)[i])
  PROVE  \/ /\ i \in 1..Len(old) /\ x \in 1..Len(old[i])
            /\ Append(old, <<d>>)[i][x] = old[i][x]
         \/ /\ i = Len(old) + 1 /\ x = 1
            /\ Append(old, <<d>>)[i][x] = d
  <1> DEFINE new == Append(old, <<d>>)
  <1>1. Len(old) \in Nat /\ <<d>> \in Seq(S)
    BY LenProperties
  <1>2. /\ Len(new) = Len(old) + 1 /\ new[Len(old) + 1] = <<d>>
        /\ \A j \in 1..Len(old) : new[j] = old[j]
    BY <1>1, AppendProperties
  <1>3. i \in 1..Len(new) /\ x \in 1..Len(new[i])
    OBVIOUS
  <1> HIDE DEF new
  <1>4. CASE i \in 1..Len(old)
    BY <1>2, <1>3, <1>4 DEF new
  <1>5. CASE i = Len(old) + 1
    <2>1. x = 1 /\ new[i][x] = d
      BY <1>2, <1>3, <1>5
    <2> QED BY <1>5, <2>1 DEF new
  <1> QED BY <1>1, <1>2, <1>3, <1>4, <1>5

\* The messages of the slices b[1] to b[full].
Slices(b, full) == [j \in 1..full |-> <<b[j]>>]

\* The place x of message i after the slices are inserted before the open one.
SlicedAt(ps, op, b, full, new, i, x) ==
  LET old == Append(ps, op) IN
  /\ Len(old) = Len(ps) + 1
  /\ \/ /\ i \in 1..Len(ps) /\ x \in 1..Len(old[i])
        /\ new[i][x] = old[i][x]
     \/ /\ i = Len(ps) + full + 1 /\ x \in 1..Len(old[Len(ps) + 1])
        /\ new[i][x] = old[Len(ps) + 1][x]
     \/ /\ i \in (Len(ps) + 1)..(Len(ps) + full) /\ x = 1
        /\ new[i][x] = b[i - Len(ps)]

\* The places of the messages after the slices are inserted before the open one.
LEMMA SlicedPlaces ==
  ASSUME NEW S, NEW ps \in Seq(Seq(S)), NEW op \in Seq(S),
         NEW full \in Nat, NEW b \in [1..(full + 1) -> S],
         NEW i \in 1..Len(Append(ps \o Slices(b, full), op)),
         NEW x \in 1..Len(Append(ps \o Slices(b, full), op)[i])
  PROVE  SlicedAt(ps, op, b, full, Append(ps \o Slices(b, full), op), i, x)
  <1> DEFINE P == Len(ps)
             new == Append(ps \o Slices(b, full), op)
             slices == Slices(b, full)
             packed == ps \o slices
             old == Append(ps, op)
  <1>11. P \in Nat
    BY LenProperties
  <1>12. i \in 1..Len(new) /\ x \in 1..Len(new[i])
    OBVIOUS
  <1>1. /\ Len(old) = P + 1 /\ old[P + 1] = op
        /\ \A j \in 1..P : old[j] = ps[j]
    BY AppendProperties
  <1> HIDE DEF old, new, P
  <1>2. \A j \in 1..full : slices[j] = <<b[j]>>
    BY DEF Slices
  <1>3. slices \in Seq(Seq(S)) /\ Len(slices) = full
    <2>1. slices \in [1..full -> Seq(S)]
      BY DEF Slices
    <2> HIDE DEF slices
    <2> QED BY <2>1, SeqDef, LenProperties
  <1> HIDE DEF slices
  <1>4. /\ packed \in Seq(Seq(S)) /\ Len(packed) = P + full
        /\ \A j \in 1..(P + full) :
             packed[j] = IF j <= P THEN ps[j] ELSE slices[j - P]
    BY <1>3, ConcatProperties DEF P
  <1>5. new = Append(packed, op)
    BY DEF slices, new
  <1> HIDE DEF packed
  <1>6. /\ Len(new) = P + full + 1 /\ new[P + full + 1] = op
        /\ \A j \in 1..(P + full) : new[j] = packed[j]
    <2>1. /\ Len(Append(packed, op)) = Len(packed) + 1
          /\ Append(packed, op)[Len(packed) + 1] = op
          /\ \A j \in 1..Len(packed) : Append(packed, op)[j] = packed[j]
      BY ONLY <1>4, op \in Seq(S), AppendProperties
    <2> QED BY <1>4, <1>5, <2>1
  <1>7. CASE i \in 1..P
    <2>1. i \in 1..(P + full) /\ i <= P
      BY ONLY <1>11, <1>7, full \in Nat
    <2>2. new[i] = old[i]
      BY ONLY <1>1, <1>4, <1>6, <1>7, <2>1
    <2> QED BY <1>1, <1>7, <1>12, <2>2 DEF old, new, P, SlicedAt
  <1>8. CASE i = P + full + 1
    <2>1. new[i] = old[P + 1]
      BY <1>1, <1>6, <1>8
    <2> QED BY <1>1, <1>8, <1>12, <2>1 DEF old, new, P, SlicedAt
  <1>9. CASE i \in (P + 1)..(P + full)
    <2>1. i \in 1..(P + full) /\ ~(i <= P) /\ i - P \in 1..full
      BY ONLY <1>11, <1>9, full \in Nat
    <2>2. new[i] = <<b[i - P]>>
      BY <1>2, <1>4, <1>6, <2>1
    <2>3. x = 1 /\ new[i][x] = b[i - P]
      BY <2>2, <1>12
    <2> QED BY <1>1, <1>9, <2>3 DEF old, new, P, SlicedAt
  <1>10. i \in 1..P \/ i = P + full + 1 \/ i \in (P + 1)..(P + full)
    <2>1. i \in 1..(P + full + 1)
      BY <1>6, <1>12
    <2> QED BY ONLY <1>11, <2>1, full \in Nat
  <1> QED BY <1>7, <1>8, <1>9, <1>10

\* A declaration of sectors that no message declares, in the open message.
LEMMA OpenedOnce ==
  ASSUME NEW S, NEW ps \in Seq(Seq(S)), NEW op \in Seq(S), NEW d \in S,
         Once(Append(ps, op)), Undeclared(Append(ps, op), d.sectors)
  PROVE  Once(Append(ps, Append(op, d)))
  <1> DEFINE old == Append(ps, op)
             new == Append(ps, Append(op, d))
             Old(i, x) == /\ i \in 1..Len(old) /\ x \in 1..Len(old[i])
                          /\ new[i][x] = old[i][x]
             New(i, x) == i = Len(ps) + 1 /\ x = Len(op) + 1 /\ new[i][x] = d
  <1>1. \A i \in 1..Len(new) : \A x \in 1..Len(new[i]) : Old(i, x) \/ New(i, x)
    BY OpenedPlaces
  <1>2. /\ \A i, j \in 1..Len(old) : \A x \in 1..Len(old[i]), y \in 1..Len(old[j]) :
             old[i][x].sectors \cap old[j][y].sectors # {} => i = j /\ x = y
        /\ \A i \in 1..Len(old) : \A x \in 1..Len(old[i]) :
             old[i][x].sectors \cap d.sectors = {}
    BY DEF Once, Undeclared
  <1> HIDE DEF old, new
  <1>3. SUFFICES ASSUME NEW i \in 1..Len(new), NEW j \in 1..Len(new),
                        NEW x \in 1..Len(new[i]), NEW y \in 1..Len(new[j]),
                        new[i][x].sectors \cap new[j][y].sectors # {}
                 PROVE  i = j /\ x = y
    BY DEF Once, new
  <1>4. CASE Old(i, x) /\ Old(j, y)
    BY <1>2, <1>3, <1>4
  <1>5. CASE Old(i, x) /\ New(j, y)
    BY <1>2, <1>3, <1>5
  <1>6. CASE New(i, x) /\ Old(j, y)
    BY <1>2, <1>3, <1>6
  <1>7. CASE New(i, x) /\ New(j, y)
    BY <1>7
  <1> QED BY <1>1, <1>4, <1>5, <1>6, <1>7

\* A declaration of sectors that no message declares, in a message of its own.
LEMMA ClosedOnce ==
  ASSUME NEW S, NEW old \in Seq(Seq(S)), NEW d \in S,
         Once(old), Undeclared(old, d.sectors)
  PROVE  Once(Append(old, <<d>>))
  <1> DEFINE new == Append(old, <<d>>)
             Old(i, x) == /\ i \in 1..Len(old) /\ x \in 1..Len(old[i])
                          /\ new[i][x] = old[i][x]
             New(i, x) == i = Len(old) + 1 /\ x = 1 /\ new[i][x] = d
  <1>1. \A i \in 1..Len(new) : \A x \in 1..Len(new[i]) : Old(i, x) \/ New(i, x)
    BY ClosedPlaces
  <1>2. /\ \A i, j \in 1..Len(old) : \A x \in 1..Len(old[i]), y \in 1..Len(old[j]) :
             old[i][x].sectors \cap old[j][y].sectors # {} => i = j /\ x = y
        /\ \A i \in 1..Len(old) : \A x \in 1..Len(old[i]) :
             old[i][x].sectors \cap d.sectors = {}
    BY DEF Once, Undeclared
  <1> HIDE DEF new
  <1>3. SUFFICES ASSUME NEW i \in 1..Len(new), NEW j \in 1..Len(new),
                        NEW x \in 1..Len(new[i]), NEW y \in 1..Len(new[j]),
                        new[i][x].sectors \cap new[j][y].sectors # {}
                 PROVE  i = j /\ x = y
    BY DEF Once, new
  <1>4. CASE Old(i, x) /\ Old(j, y)
    BY <1>2, <1>3, <1>4
  <1>5. CASE Old(i, x) /\ New(j, y)
    BY <1>2, <1>3, <1>5
  <1>6. CASE New(i, x) /\ Old(j, y)
    BY <1>2, <1>3, <1>6
  <1>7. CASE New(i, x) /\ New(j, y)
    BY <1>7
  <1> QED BY <1>1, <1>4, <1>5, <1>6, <1>7

\* Slices that are apart, of sectors that no message declares.
LEMMA SlicedOnce ==
  ASSUME NEW S, NEW ps \in Seq(Seq(S)), NEW op \in Seq(S),
         NEW full \in Nat, NEW b \in [1..(full + 1) -> S],
         Once(Append(ps, op)),
         \A i \in 1..(full + 1) : Undeclared(Append(ps, op), b[i].sectors),
         \A i, j \in 1..(full + 1) : b[i].sectors \cap b[j].sectors # {} => i = j
  PROVE  Once(Append(ps \o Slices(b, full), op))
  <1> DEFINE old == Append(ps, op)
             new == Append(ps \o Slices(b, full), op)
             P == Len(ps)
             Old(i, x, j) == /\ j \in 1..Len(old) /\ x \in 1..Len(old[j])
                             /\ new[i][x] = old[j][x]
             Kept(i, x) == i \in 1..P /\ Old(i, x, i)
             Last(i, x) == i = P + full + 1 /\ Old(i, x, P + 1)
             New(i, x) == /\ i \in (P + 1)..(P + full) /\ x = 1
                          /\ new[i][x] = b[i - P]
  <1>1. P \in Nat
    BY LenProperties
  <1>2. ASSUME NEW i \in 1..Len(new), NEW x \in 1..Len(new[i])
        PROVE  Kept(i, x) \/ Last(i, x) \/ New(i, x)
    <2>1. SlicedAt(ps, op, b, full, new, i, x)
      BY SlicedPlaces
    <2> HIDE DEF P, old, new
    <2> QED BY ONLY <1>1, <2>1, full \in Nat DEF SlicedAt, P, old
  <1>3. /\ \A i, j \in 1..Len(old) : \A x \in 1..Len(old[i]), y \in 1..Len(old[j]) :
             old[i][x].sectors \cap old[j][y].sectors # {} => i = j /\ x = y
        /\ \A k \in 1..(full + 1) :
             \A i \in 1..Len(old) : \A x \in 1..Len(old[i]) :
               old[i][x].sectors \cap b[k].sectors = {}
    BY DEF Once, Undeclared
  <1> HIDE DEF P, old, new
  <1>4. SUFFICES ASSUME NEW i \in 1..Len(new), NEW j \in 1..Len(new),
                        NEW x \in 1..Len(new[i]), NEW y \in 1..Len(new[j]),
                        new[i][x].sectors \cap new[j][y].sectors # {}
                 PROVE  i = j /\ x = y
    BY DEF Once, new
  <1> DEFINE Was(k) == IF k \in 1..P THEN k ELSE P + 1
  <1>5. /\ Kept(i, x) \/ Last(i, x) => Old(i, x, Was(i))
        /\ Kept(j, y) \/ Last(j, y) => Old(j, y, Was(j))
    <2> HIDE DEF Was
    <2>1. \A k \in 1..P : Was(k) = k
      BY ONLY DEF Was
    <2>2. ~(P + full + 1 \in 1..P)
      BY ONLY <1>1, full \in Nat
    <2>3. Was(P + full + 1) = P + 1
      BY ONLY <2>2 DEF Was
    <2> QED BY ONLY <2>1, <2>3
  <1>6. /\ New(i, x) => i - P \in 1..(full + 1)
        /\ New(j, y) => j - P \in 1..(full + 1)
    <2>1. \A k \in (P + 1)..(P + full) : k - P \in 1..(full + 1)
      BY ONLY <1>1, full \in Nat
    <2> QED BY ONLY <2>1
  <1>7. CASE (Kept(i, x) \/ Last(i, x)) /\ (Kept(j, y) \/ Last(j, y))
    <2> HIDE DEF Was
    <2>1. Old(i, x, Was(i)) /\ Old(j, y, Was(j))
      BY <1>5, <1>7
    <2>2. old[Was(i)][x].sectors \cap old[Was(j)][y].sectors # {}
      BY <1>4, <2>1
    <2>3. Was(i) = Was(j) /\ x = y
      BY ONLY <1>3, <2>1, <2>2
    <2>4. /\ i \in 1..P \/ i = P + full + 1
          /\ j \in 1..P \/ j = P + full + 1
      BY ONLY <1>7
    <2>5. Was(i) = Was(j) => i = j
      BY ONLY <1>1, <2>4, full \in Nat DEF Was
    <2> QED BY <2>3, <2>5
  <1>8. CASE (Kept(i, x) \/ Last(i, x)) /\ New(j, y)
    <2> HIDE DEF Was
    <2>1. Old(i, x, Was(i)) /\ j - P \in 1..(full + 1) /\ new[j][y] = b[j - P]
      BY ONLY <1>5, <1>6, <1>8
    <2>2. old[Was(i)][x].sectors \cap b[j - P].sectors # {}
      BY ONLY <1>4, <2>1
    <2> QED BY ONLY <1>3, <2>1, <2>2
  <1>9. CASE New(i, x) /\ (Kept(j, y) \/ Last(j, y))
    <2> HIDE DEF Was
    <2>1. Old(j, y, Was(j)) /\ i - P \in 1..(full + 1) /\ new[i][x] = b[i - P]
      BY ONLY <1>5, <1>6, <1>9
    <2>2. old[Was(j)][y].sectors \cap b[i - P].sectors # {}
      BY ONLY <1>4, <2>1
    <2> QED BY ONLY <1>3, <2>1, <2>2
  <1>10. CASE New(i, x) /\ New(j, y)
    <2>1. i - P = j - P
      BY <1>4, <1>6, <1>10
    <2> QED BY <1>1, <1>10, <2>1
  <1>11. Kept(i, x) \/ Last(i, x) \/ New(i, x)
    BY <1>2
  <1>12. Kept(j, y) \/ Last(j, y) \/ New(j, y)
    BY <1>2
  <1> QED BY <1>7, <1>8, <1>9, <1>10, <1>11, <1>12

\* Of sectors that neither the messages nor the new declarations name, nothing
\* is declared afterwards.
LEMMA OpenedUndeclared ==
  ASSUME NEW S, NEW ps \in Seq(Seq(S)), NEW op \in Seq(S), NEW d \in S, NEW G,
         Undeclared(Append(ps, op), G), d.sectors \cap G = {}
  PROVE  Undeclared(Append(ps, Append(op, d)), G)
  <1> DEFINE old == Append(ps, op)
             new == Append(ps, Append(op, d))
  <1>1. SUFFICES ASSUME NEW i \in 1..Len(new), NEW x \in 1..Len(new[i])
                 PROVE  new[i][x].sectors \cap G = {}
    BY DEF Undeclared
  <1>2. \/ i \in 1..Len(old) /\ x \in 1..Len(old[i]) /\ new[i][x] = old[i][x]
        \/ new[i][x] = d
    BY OpenedPlaces
  <1> HIDE DEF new, old
  <1>3. \A j \in 1..Len(old) : \A y \in 1..Len(old[j]) : old[j][y].sectors \cap G = {}
    BY DEF Undeclared, old
  <1> QED BY <1>2, <1>3

LEMMA ClosedUndeclared ==
  ASSUME NEW S, NEW old \in Seq(Seq(S)), NEW d \in S, NEW G,
         Undeclared(old, G), d.sectors \cap G = {}
  PROVE  Undeclared(Append(old, <<d>>), G)
  <1> DEFINE new == Append(old, <<d>>)
  <1>1. SUFFICES ASSUME NEW i \in 1..Len(new), NEW x \in 1..Len(new[i])
                 PROVE  new[i][x].sectors \cap G = {}
    BY DEF Undeclared
  <1>2. \/ i \in 1..Len(old) /\ x \in 1..Len(old[i]) /\ new[i][x] = old[i][x]
        \/ new[i][x] = d
    BY ClosedPlaces
  <1> HIDE DEF new
  <1> QED BY <1>2 DEF Undeclared

LEMMA SlicedUndeclared ==
  ASSUME NEW S, NEW ps \in Seq(Seq(S)), NEW op \in Seq(S),
         NEW full \in Nat, NEW b \in [1..(full + 1) -> S], NEW G,
         Undeclared(Append(ps, op), G),
         \A i \in 1..full : b[i].sectors \cap G = {}
  PROVE  Undeclared(Append(ps \o Slices(b, full), op), G)
  <1> DEFINE P == Len(ps)
             old == Append(ps, op)
             new == Append(ps \o Slices(b, full), op)
  <1>1. P \in Nat
    BY LenProperties
  <1>2. SUFFICES ASSUME NEW i \in 1..Len(new), NEW x \in 1..Len(new[i])
                 PROVE  new[i][x].sectors \cap G = {}
    BY DEF Undeclared
  <1>3. /\ Len(old) = P + 1
        /\ \/ /\ i \in 1..P /\ x \in 1..Len(old[i])
              /\ new[i][x] = old[i][x]
           \/ /\ i = P + full + 1 /\ x \in 1..Len(old[P + 1])
              /\ new[i][x] = old[P + 1][x]
           \/ /\ i \in (P + 1)..(P + full) /\ x = 1
              /\ new[i][x] = b[i - P]
    <2>1. SlicedAt(ps, op, b, full, new, i, x)
      BY SlicedPlaces
    <2> HIDE DEF P, old, new
    <2> QED BY ONLY <1>1, <2>1, full \in Nat DEF SlicedAt, P, old
  <1> HIDE DEF new, P
  <1>6. \A j \in 1..Len(old) : \A y \in 1..Len(old[j]) : old[j][y].sectors \cap G = {}
    BY DEF Undeclared
  <1> HIDE DEF old
  <1>7. new[i][x].sectors \cap G = {}
    <2>1. i \in (P + 1)..(P + full) => i - P \in 1..full
      BY <1>1
    <2>2. i \in 1..P => i \in 1..(P + 1)
      BY <1>1
    <2>3. P + 1 \in 1..(P + 1)
      BY <1>1
    <2> QED BY <1>3, <1>6, <2>1, <2>2, <2>3
  <1> QED BY <1>7 DEF new

\* Nothing is declared while the sectors are grouped.
LEMMA NothingYet ==
  ASSUME params = <<>>, open = <<>>, phase # "done"
  PROVE  LeftUndeclared /\ DeclaredOnce
  <1> DEFINE m == Append(params, open)
  <1>1. Messages = m
    BY DEF Messages
  <1>2. Len(m) = 1 /\ m[1] = <<>>
    BY AppendProperties, EmptySeq
  <1> HIDE DEF m
  <1>3. \A i \in 1..Len(m) : Len(m[i]) = 0
    BY <1>2, EmptySeq
  <1>4. Once(m) /\ \A G : Undeclared(m, G)
    BY <1>3 DEF Once, Undeclared
  <1> QED BY <1>1, <1>4 DEF LeftUndeclared, DeclaredOnce

\* A sector that a group does not have can be appended to it.
LEMMA JoinedOnce ==
  ASSUME NEW S, NEW q \in Seq(S), NEW s \in S,
         IsInjective(q), s \notin Range(q)
  PROVE  /\ IsInjective(Append(q, s))
         /\ Range(Append(q, s)) = Range(q) \cup {s}
  <1> DEFINE longer == Append(q, s)
  <1>1. /\ Len(q) \in Nat /\ DOMAIN q = 1..Len(q)
        /\ longer \in Seq(S) /\ Len(longer) = Len(q) + 1
        /\ \A i \in 1..Len(q) : longer[i] = q[i]
        /\ longer[Len(q) + 1] = s
    BY AppendProperties, LenProperties
  <1>2. DOMAIN longer = 1..(Len(q) + 1)
    BY <1>1, LenProperties
  <1> HIDE DEF longer
  <1>3. \A i \in 1..Len(q) : longer[i] # s
    BY <1>1 DEF Range
  <1>4. \A i \in 1..(Len(q) + 1) : i \in 1..Len(q) \/ i = Len(q) + 1
    BY <1>1
  <1>5. IsInjective(longer)
    BY <1>1, <1>2, <1>3, <1>4 DEF IsInjective
  <1>6. Range(longer) = Range(q) \cup {s}
    <2>1. \A y : y \in Range(longer) <=> \E i \in 1..(Len(q) + 1) : y = longer[i]
      BY <1>2 DEF Range
    <2>2. \A y : y \in Range(q) <=> \E i \in 1..Len(q) : y = q[i]
      BY <1>1 DEF Range
    <2>3. /\ \A i \in 1..Len(q) : i \in 1..(Len(q) + 1)
          /\ Len(q) + 1 \in 1..(Len(q) + 1)
      BY <1>1
    <2>4. \A y : y \in Range(longer) <=> y \in Range(q) \/ y = s
      BY <1>1, <1>4, <2>1, <2>2, <2>3
    <2> QED BY <2>4
  <1> QED BY <1>5, <1>6 DEF longer

\* Without the last message nothing is declared twice either.
LEMMA OncePrefix ==
  ASSUME NEW T, NEW ps \in Seq(T), NEW op \in T, Once(Append(ps, op))
  PROVE  Once(ps)
  <1> DEFINE old == Append(ps, op)
  <1>1. /\ Len(ps) \in Nat /\ Len(old) = Len(ps) + 1
        /\ \A i \in 1..Len(ps) : old[i] = ps[i]
    BY AppendProperties, LenProperties
  <1>2. \A i, j \in 1..Len(old) : \A x \in 1..Len(old[i]), y \in 1..Len(old[j]) :
          old[i][x].sectors \cap old[j][y].sectors # {} => i = j /\ x = y
    BY DEF Once
  <1> HIDE DEF old
  <1>3. \A i \in 1..Len(ps) : i \in 1..Len(old)
    BY <1>1
  <1> QED BY <1>1, <1>2, <1>3 DEF Once

\* A slice of a group has sectors of the group only.
LEMMA BatchInGroup ==
  ASSUME sector \in [Sectors -> SectorInfos], args \in Arguments,
         NEW S, NEW numbers \in Seq(S), NEW i \in Nat \ {0}
  PROVE  Range(Batch(numbers, i)) \subseteq Range(numbers)
  <1> SUFFICES ASSUME NEW s \in Range(Batch(numbers, i)) PROVE s \in Range(numbers)
    OBVIOUS
  <1>1. PICK n \in 1..Len(numbers) : numbers[n] = s
    BY BatchElements
  <1>2. DOMAIN numbers = 1..Len(numbers)
    BY LenProperties
  <1> QED BY <1>1, <1>2 DEF Range

\* Packing a group: its slices, the rest and the message it goes into are those
\* of the lemmas above.
LEMMA VisitPacks ==
  ASSUME PlanInv, NEW k \in Locations \X Epochs, Visit(k)
  PROVE  \E full \in Nat : \E b \in [1..(full + 1) -> Declarations] :
           /\ \A i \in 1..(full + 1) : b[i].sectors = Range(Batch(groups[k], i))
           /\ \/ Append(params', open')
                   = Append(params \o Slices(b, full), Append(open, b[full + 1]))
              \/ Append(params', open')
                   = Append(Append(params \o Slices(b, full), open), <<b[full + 1]>>)
           /\ params \o Slices(b, full) \in Seq(Seq(Declarations))
  <1> DEFINE numbers == groups[k]
             full == FullBatches(numbers)
             D(i) == Declaration(k, Batch(numbers, i))
             b == [i \in 1..(full + 1) |-> D(i)]
             batches == [i \in 1..full |-> <<D(i)>>]
             rest == D(full + 1)
             count == scount + rest.counted
             closes == count > AddrSectors \/ Len(open) >= DeclarationsMax
  <1>1. sector \in [Sectors -> SectorInfos] /\ args \in Arguments
    BY DEF PlanInv
  <1>2. numbers \in Seq(Members(k)) /\ numbers # <<>>
    BY DEF Visit, PlanInv
  <1>3. full \in Nat
    BY <1>1, <1>2, FullBatchesType
  <1>4. \A i \in Nat \ {0} : D(i) \in Declarations
    BY <1>1, <1>2, BatchOfGroup, DeclarationSound
  <1>5. \A i : D(i).sectors = Range(Batch(numbers, i))
    BY DEF Declaration
  <1>6. /\ params' = params \o batches \o (IF closes THEN <<open>> ELSE <<>>)
        /\ open' = IF closes THEN <<rest>> ELSE Append(open, rest)
    BY DEF Visit, Pack
  <1> HIDE DEF numbers, full, closes, D
  <1>7. b \in [1..(full + 1) -> Declarations]
    <2>1. \A i \in 1..(full + 1) : i \in Nat \ {0}
      BY <1>3
    <2> QED BY <1>4, <2>1
  <1>8. b[full + 1] = rest /\ \A i \in 1..(full + 1) : b[i] = D(i)
    BY <1>3
  <1>9. batches = Slices(b, full)
    <2>1. \A i \in 1..full : b[i] = D(i)
      BY <1>3, <1>8
    <2> HIDE DEF b
    <2> QED BY <2>1 DEF Slices
  <1> HIDE DEF b, batches, rest
  <1>10. params \o batches \in Seq(Seq(Declarations))
    <2>1. Slices(b, full) \in [1..full -> Seq(Declarations)]
      <3>1. \A i \in 1..full : b[i] \in Declarations
        BY <1>3, <1>7
      <3> QED BY <3>1 DEF Slices
    <2>2. batches \in Seq(Seq(Declarations))
      BY <1>3, <1>9, <2>1, SeqDef
    <2> QED BY <2>2, ConcatProperties DEF PlanInv
  <1>11. CASE closes
    <2>1. params' = Append(params \o batches, open)
      BY <1>6, <1>10, <1>11, AppendIsConcat DEF PlanInv
    <2>2. open' = <<b[full + 1]>>
      BY <1>6, <1>8, <1>11
    <2> QED BY <1>3, <1>5, <1>7, <1>8, <1>9, <1>10, <2>1, <2>2 DEF numbers
  <1>12. CASE ~closes
    <2>1. params' = params \o batches
      BY <1>6, <1>10, <1>12, ConcatEmptySeq
    <2>2. open' = Append(open, b[full + 1])
      BY <1>6, <1>8, <1>12
    <2> QED BY <1>3, <1>5, <1>7, <1>8, <1>9, <1>10, <2>1, <2>2 DEF numbers
  <1> QED BY <1>11, <1>12

\* Visiting a group declares its sectors once, and none of those that are left.
LEMMA VisitOnce ==
  ASSUME PlanInv, OnceInv, NEW k \in Locations \X Epochs, Visit(k)
  PROVE  LeftUndeclared' /\ DeclaredOnce'
  <1>0. PICK full \in Nat :
          \E b \in [1..(full + 1) -> Declarations] :
           /\ \A i \in 1..(full + 1) : b[i].sectors = Range(Batch(groups[k], i))
           /\ \/ Append(params', open')
                   = Append(params \o Slices(b, full), Append(open, b[full + 1]))
              \/ Append(params', open')
                   = Append(Append(params \o Slices(b, full), open), <<b[full + 1]>>)
           /\ params \o Slices(b, full) \in Seq(Seq(Declarations))
    BY VisitPacks
  <1>1. PICK b \in [1..(full + 1) -> Declarations] :
           /\ \A i \in 1..(full + 1) : b[i].sectors = Range(Batch(groups[k], i))
           /\ \/ Append(params', open')
                   = Append(params \o Slices(b, full), Append(open, b[full + 1]))
              \/ Append(params', open')
                   = Append(Append(params \o Slices(b, full), open), <<b[full + 1]>>)
           /\ params \o Slices(b, full) \in Seq(Seq(Declarations))
    BY <1>0
  <1> DEFINE sliced == params \o Slices(b, full)
             old == Append(params, open)
             between == Append(sliced, open)
             new == Append(params', open')
  <1>2. /\ sector \in [Sectors -> SectorInfos] /\ args \in Arguments
        /\ groups[k] \in Seq(Members(k))
        /\ params \in Seq(Seq(Declarations)) /\ open \in Seq(Declarations)
    BY DEF PlanInv
  <1>3. /\ phase = "pack" /\ phase' = "pack" /\ k \in left
        /\ left' = left \ {k} /\ groups' = groups
    BY DEF Visit, grouping
  <1>4. Messages = old /\ Messages' = new
    BY <1>3 DEF Messages
  <1>5. Once(old) /\ \A l \in left : Undeclared(old, Range(groups[l]))
    BY <1>4 DEF OnceInv, DeclaredOnce, LeftUndeclared
  <1>6. IsInjective(groups[k])
    BY DEF OnceInv, GroupsApart
  <1>7. \A i \in 1..(full + 1) : i \in Nat \ {0}
    OBVIOUS
  <1>8. \A i \in 1..(full + 1) : b[i].sectors \subseteq Range(groups[k])
    BY <1>1, <1>2, <1>7, BatchInGroup
  <1>9. \A i, j \in 1..(full + 1) : b[i].sectors \cap b[j].sectors # {} => i = j
    <2> SUFFICES ASSUME NEW i \in 1..(full + 1), NEW j \in 1..(full + 1),
                        b[i].sectors \cap b[j].sectors # {}
                 PROVE  i = j
      OBVIOUS
    <2>1. Range(Batch(groups[k], i)) \cap Range(Batch(groups[k], j)) # {}
      BY <1>1
    <2>2. i \in Nat \ {0} /\ j \in Nat \ {0}
      BY <1>7
    <2> QED BY <1>2, <1>6, <2>1, <2>2, BatchesApart
  <1>10. \A i \in 1..(full + 1) : Undeclared(old, b[i].sectors)
    BY <1>3, <1>5, <1>8 DEF Undeclared
  <1>11. Once(between)
    BY <1>2, <1>5, <1>9, <1>10, SlicedOnce
  <1>12. ASSUME NEW l \in left'
         PROVE  /\ Undeclared(between, Range(groups[l]))
                /\ b[full + 1].sectors \cap Range(groups[l]) = {}
    <2>1. l \in left /\ l # k /\ l \in Locations \X Epochs
      BY <1>3 DEF PlanInv
    <2>2. Range(groups[l]) \cap Range(groups[k]) = {}
      BY <2>1 DEF OnceInv, GroupsApart
    <2>3. \A i \in 1..(full + 1) : b[i].sectors \cap Range(groups[l]) = {}
      BY <1>8, <2>2
    <2>4. \A i \in 1..full : b[i].sectors \cap Range(groups[l]) = {}
      BY <2>3
    <2>5. Undeclared(between, Range(groups[l]))
      BY <1>2, <1>5, <2>1, <2>4, SlicedUndeclared
    <2> QED BY <2>3, <2>5
  <1> DEFINE last == b[full + 1]
  <1>13. last \in Declarations /\ between \in Seq(Seq(Declarations))
    BY <1>1, <1>2, AppendProperties
  <1>14. Undeclared(between, last.sectors)
    <2>1. \A i \in 1..full : i # full + 1 /\ i \in 1..(full + 1)
      OBVIOUS
    <2>2. full + 1 \in 1..(full + 1)
      OBVIOUS
    <2>3. \A i \in 1..full : b[i].sectors \cap last.sectors = {}
      BY <1>9, <2>1, <2>2
    <2>4. Undeclared(old, last.sectors)
      BY <1>10, <2>2
    <2> HIDE DEF last
    <2> QED BY <1>2, <2>3, <2>4, SlicedUndeclared
  <1> HIDE DEF last, sliced, old, new
  <1>15. CASE new = Append(sliced, Append(open, last))
    <2>1. Once(new)
      BY <1>1, <1>2, <1>11, <1>13, <1>14, <1>15, OpenedOnce DEF sliced
    <2>2. \A l \in left' : Undeclared(new, Range(groups[l]))
      BY <1>1, <1>2, <1>12, <1>13, <1>15, OpenedUndeclared DEF sliced, last
    <2> QED BY <1>3, <1>4, <2>1, <2>2 DEF LeftUndeclared, DeclaredOnce
  <1>16. CASE new = Append(between, <<last>>)
    <2> HIDE DEF between
    <2>1. Once(new)
      BY <1>11, <1>13, <1>14, <1>16, ClosedOnce
    <2>2. \A l \in left' : Undeclared(new, Range(groups[l]))
      BY <1>12, <1>13, <1>16, ClosedUndeclared DEF last
    <2> QED BY <1>3, <1>4, <2>1, <2>2 DEF LeftUndeclared, DeclaredOnce
  <1> QED BY <1>1, <1>15, <1>16 DEF new, sliced, last

LEMMA InitOnce == Init => OnceInv
  <1> SUFFICES ASSUME Init PROVE OnceInv
    OBVIOUS
  <1>1. /\ params = <<>> /\ open = <<>> /\ phase = "group"
        /\ \A k \in Locations \X Epochs : groups[k] = <<>>
    BY DEF Init
  <1>2. LeftUndeclared /\ DeclaredOnce
    BY <1>1, NothingYet
  <1>3. IsInjective(<<>>) /\ Range(<<>>) = {}
    BY DEF IsInjective, Range
  <1>4. GroupsApart
    <2>1. \A k \in Locations \X Epochs : Range(groups[k]) = {}
      BY <1>1, <1>3
    <2>2. \A k \in Locations \X Epochs : IsInjective(groups[k])
      BY <1>1, <1>3
    <2> QED BY <2>1, <2>2 DEF GroupsApart
  <1> QED BY <1>2, <1>4 DEF OnceInv

\* As long as sectors are grouped, only the groups can go wrong.
LEMMA GroupingOnce ==
  ASSUME OnceInv, phase = "group", UNCHANGED <<phase, packing>>, GroupsApart'
  PROVE  OnceInv'
  <1>1. params' = <<>> /\ open' = <<>> /\ phase' # "done"
    BY DEF OnceInv, LeftUndeclared, packing
  <1>2. (params = <<>> /\ open = <<>> /\ phase # "done")'
    BY <1>1
  <1>3. ((params = <<>> /\ open = <<>> /\ phase # "done")
           => LeftUndeclared /\ DeclaredOnce)'
    BY NothingYet, PTL
  <1> QED BY <1>2, <1>3 DEF OnceInv

\* A sector that is considered may replace a group or join one: it is in none.
LEMMA SectorJoins ==
  ASSUME PlanInv, OnceInv, NEW s \in todo, todo' = todo \ {s},
         NEW key \in Locations \X Epochs, NEW q,
         groups' = [groups EXCEPT ![key] = q],
         IsInjective(q), Range(q) \subseteq Range(groups[key]) \cup {s}
  PROVE  GroupsApart'
  <1>1. /\ \A k \in Locations \X Epochs : IsInjective(groups[k])
        /\ \A k, l \in Locations \X Epochs :
             Range(groups[k]) \cap Range(groups[l]) # {} => k = l
        /\ \A k \in Locations \X Epochs : Range(groups[k]) \cap todo = {}
    BY DEF OnceInv, GroupsApart
  <1>2. \A k \in Locations \X Epochs : groups'[k] = IF k = key THEN q ELSE groups[k]
    BY DEF PlanInv
  <1>3. \A k \in Locations \X Epochs : IsInjective(groups'[k])
    BY <1>1, <1>2
  <1>4. \A k \in Locations \X Epochs :
          Range(groups'[k]) \subseteq
            IF k = key THEN Range(groups[k]) \cup {s} ELSE Range(groups[k])
    BY <1>2
  <1>5. \A k \in Locations \X Epochs : s \notin Range(groups[k])
    BY <1>1
  <1>6. \A k, l \in Locations \X Epochs :
          Range(groups'[k]) \cap Range(groups'[l]) # {} => k = l
    BY <1>1, <1>4, <1>5
  <1>7. \A k \in Locations \X Epochs : Range(groups'[k]) \cap todo' = {}
    BY <1>1, <1>4
  <1> QED BY <1>3, <1>6, <1>7 DEF GroupsApart

LEMMA NextOnce == PlanInv /\ OnceInv /\ [Next]_vars => OnceInv'
  <1> SUFFICES ASSUME PlanInv, OnceInv, [Next]_vars PROVE OnceInv'
    OBVIOUS
  <1>1. ASSUME NEW s \in Sectors, SkipPledge(s) \/ SkipSector(s)  PROVE OnceInv'
    <2>1. /\ phase = "group" /\ UNCHANGED <<phase, packing>>
          /\ groups' = groups /\ todo' \subseteq todo
      BY <1>1 DEF SkipPledge, SkipSector, Considered
    <2>2. GroupsApart'
      BY <2>1 DEF OnceInv, GroupsApart
    <2> QED BY <2>1, <2>2, GroupingOnce
  <1>2. ASSUME NEW s \in Sectors, NEW e \in Epochs, JoinGroup(s, e)  PROVE OnceInv'
    <2> DEFINE key == Key(s, e)
    <2>1. /\ phase = "group" /\ UNCHANGED <<phase, packing>>
          /\ groups' = [groups EXCEPT ![key] = Append(groups[key], s)]
          /\ s \in todo /\ todo' = todo \ {s}
      BY <1>2 DEF JoinGroup, Considered, Cheapest
    <2>2. key \in Locations \X Epochs /\ s \in Members(key)
      BY <1>2, JoinerFits DEF JoinGroup, PlanInv
    <2> HIDE DEF key
    <2>3. /\ groups[key] \in Seq(Members(key)) /\ IsInjective(groups[key])
          /\ s \notin Range(groups[key])
      BY <2>1, <2>2 DEF PlanInv, OnceInv, GroupsApart
    <2>4. /\ IsInjective(Append(groups[key], s))
          /\ Range(Append(groups[key], s)) = Range(groups[key]) \cup {s}
      BY <2>2, <2>3, JoinedOnce
    <2>5. GroupsApart'
      BY <2>1, <2>2, <2>4, SectorJoins
    <2> QED BY <2>1, <2>5, GroupingOnce
  <1>3. ASSUME NEW s \in Sectors, StartGroup(s)  PROVE OnceInv'
    <2> DEFINE key == Key(s, NewExpiration(s))
    <2>1. /\ phase = "group" /\ UNCHANGED <<phase, packing>>
          /\ groups' = [groups EXCEPT ![key] = <<s>>]
          /\ s \in todo /\ todo' = todo \ {s}
      BY <1>3 DEF StartGroup, Considered, Cheapest
    <2>2. key \in Locations \X Epochs
      BY <1>3, StarterFits DEF StartGroup, PlanInv
    <2> HIDE DEF key
    <2>3. DOMAIN <<s>> = {1} /\ <<s>>[1] = s
      OBVIOUS
    <2>4. IsInjective(<<s>>) /\ Range(<<s>>) \subseteq Range(groups[key]) \cup {s}
      BY <2>3 DEF IsInjective, Range
    <2>5. GroupsApart'
      BY <2>1, <2>2, <2>4, SectorJoins
    <2> QED BY <2>1, <2>5, GroupingOnce
  <1>4. ASSUME Grouped  PROVE OnceInv'
    <2>1. /\ params' = params /\ open' = open /\ phase = "group" /\ phase' = "pack"
          /\ groups' = groups /\ todo' = todo
      BY <1>4 DEF Grouped, grouping
    <2>2. (params = <<>> /\ open = <<>> /\ phase # "done")'
      BY <2>1 DEF OnceInv, LeftUndeclared
    <2>3. ((params = <<>> /\ open = <<>> /\ phase # "done")
             => LeftUndeclared /\ DeclaredOnce)'
      BY NothingYet, PTL
    <2>4. GroupsApart'
      BY <2>1 DEF OnceInv, GroupsApart
    <2> QED BY <2>2, <2>3, <2>4 DEF OnceInv
  <1>5. ASSUME NEW k \in Locations \X Epochs, Visit(k)  PROVE OnceInv'
    <2>1. groups' = groups /\ todo' = todo
      BY <1>5 DEF Visit, grouping
    <2>2. GroupsApart'
      BY <2>1 DEF OnceInv, GroupsApart
    <2> QED BY <1>5, <2>2, VisitOnce DEF OnceInv
  <1>6. ASSUME Finish  PROVE OnceInv'
    <2>1. /\ phase = "pack" /\ phase' = "done" /\ left' = {}
          /\ groups' = groups /\ todo' = todo
          /\ params' = params \/ params' = Append(params, open)
      BY <1>6 DEF Finish, Closed, grouping
    <2>2. GroupsApart'
      BY <2>1 DEF OnceInv, GroupsApart
    <2>3. Once(Append(params, open))
      BY <2>1 DEF OnceInv, DeclaredOnce, Messages
    <2>4. Once(params)
      BY <2>3, OncePrefix DEF PlanInv
    <2>5. DeclaredOnce'
      BY <2>1, <2>3, <2>4 DEF DeclaredOnce, Messages
    <2>6. LeftUndeclared'
      BY <2>1 DEF LeftUndeclared
    <2> QED BY <2>2, <2>5, <2>6 DEF OnceInv
  <1>7. ASSUME PlanFails  PROVE OnceInv'
    <2>1. /\ groups' = groups /\ todo' = todo /\ left' = left
          /\ params' = params /\ open' = open
          /\ phase # "done" /\ phase' = "error"
      BY <1>7 DEF PlanFails, grouping, packing
    <2>2. Messages' = Messages
      BY <2>1 DEF Messages
    <2> QED BY <2>1, <2>2 DEF OnceInv, GroupsApart, LeftUndeclared, DeclaredOnce
  <1>8. ASSUME UNCHANGED vars  PROVE OnceInv'
    <2>1. Messages' = Messages
      BY <1>8 DEF vars, packing, Messages
    <2> QED BY <1>8, <2>1 DEF vars, grouping, packing, OnceInv, GroupsApart,
                              LeftUndeclared, DeclaredOnce
  <1> QED BY <1>1, <1>2, <1>3, <1>4, <1>5, <1>6, <1>7, <1>8 DEF Next

\* No sector is declared in two places of the messages, however the groups are
\* sliced and packed (service.go:566-629).
THEOREM NoSectorTwice == Spec => []DeclaredOnce
  <1>1. OnceInv => DeclaredOnce
    BY DEF OnceInv
  <1> QED BY <1>1, InitOnce, NextOnce, PlanInvariance, PTL DEF Spec

=============================================================================
