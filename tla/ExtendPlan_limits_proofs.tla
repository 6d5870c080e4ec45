----------------------- MODULE ExtendPlan_limits_proofs -----------------------
(***************************************************************************)
(* Proofs about the sums of ExtendPlan, for any sectors, partitions and    *)
(* arguments: the pledge of what is renewed, and the sectors of a message. *)
(***************************************************************************)
EXTENDS ExtendPlan_proofs, SumLemmas

-----------------------------------------------------------------------------
(* The budget *)

LEMMA RangeOfOne ==
  ASSUME NEW s
  PROVE  Range(<<s>>) = {s}
  <1> DEFINE one == <<s>>
  <1>1. DOMAIN one = {1} /\ one[1] = s
    OBVIOUS
  <1> HIDE DEF one
  <1>2. Range(one) = {s}
    BY <1>1 DEF Range
  <1> QED BY <1>2 DEF one

LEMMA RangeOfAppend ==
  ASSUME NEW S, NEW q \in Seq(S), NEW s \in S
  PROVE  Range(Append(q, s)) = Range(q) \cup {s}
  <1>1. Append(q, s) = q \o <<s>> /\ <<s>> \in Seq(S)
    BY AppendIsConcat
  <1>2. \A one \in Seq(S) : Range(q \o one) = Range(q) \cup Range(one)
    BY RangeConcatenation
  <1> QED BY <1>1, <1>2, RangeOfOne

\* The pledge of sectors grows with them, by the pledge of those that are new.
LEMMA PledgeGrows ==
  ASSUME sector \in [Sectors -> SectorInfos], args \in Arguments,
         NEW G \in SUBSET Sectors
  PROVE  /\ PledgeOf(G) \in Nat
         /\ \A H \in SUBSET G : PledgeOf(H) <= PledgeOf(G)
         /\ \A s \in Sectors : PledgeOf(G \cup {s}) <= PledgeOf(G) + sector[s].pledge
  <1> DEFINE f == [s \in Sectors |-> sector[s].pledge]
  <1>1. \A s \in Sectors : f[s] \in Nat /\ f[s] = sector[s].pledge
    BY InputTypes
  <1>2. \A H : PledgeOf(H) = SumFunctionOnSet(f, H)
    BY DEF PledgeOf
  <1>3. \A H \in SUBSET Sectors : IsFiniteSet(H) /\ \A s \in H : f[s] \in Nat
    BY <1>1, PlanAssumption, FS_Subset
  <1> HIDE DEF f
  <1>4. PledgeOf(G) \in Nat
    BY <1>2, <1>3, SumType
  <1>5. \A H \in SUBSET G : PledgeOf(H) <= PledgeOf(G)
    BY <1>2, <1>3, SumOfPart
  <1>6. ASSUME NEW s \in Sectors
        PROVE  PledgeOf(G \cup {s}) <= PledgeOf(G) + sector[s].pledge
    <2>1. f[s] \in Nat /\ f[s] = sector[s].pledge
      BY <1>1
    <2>2. CASE s \in G
      <3>1. G \cup {s} = G
        BY <2>2
      <3>2. PledgeOf(G) <= PledgeOf(G) + f[s]
        BY ONLY <1>4, <2>1
      <3> QED BY <2>1, <3>1, <3>2
    <2>3. CASE s \notin G
      <3>1. IsFiniteSet(G) /\ \A y \in G \cup {s} : f[y] \in Nat
        BY <1>3
      <3>2. PledgeOf(G \cup {s}) = PledgeOf(G) + f[s]
        BY <1>2, <2>3, <3>1, SumWith
      <3>3. PledgeOf(G \cup {s}) <= PledgeOf(G) + f[s]
        BY ONLY <1>4, <2>1, <3>2
      <3> QED BY <2>1, <3>3
    <2> QED BY <2>2, <2>3
  <1> QED BY <1>4, <1>5, <1>6

LEMMA RenewedAreSectors ==
  ASSUME PlanInv
  PROVE  Renewed \subseteq Sectors
  <1> SUFFICES ASSUME NEW k \in Locations \X Epochs, NEW s \in Range(groups[k])
               PROVE  s \in Sectors
    BY DEF PlanInv, Renewed
  <1>1. groups[k] \in Seq(Members(k))
    BY DEF PlanInv
  <1>2. s \in Members(k)
    BY <1>1, RangeOfSeq
  <1> QED BY <1>2 DEF Members

\* A sector is taken after its pledge was found to fit and was added.
LEMMA TakingSpends ==
  ASSUME PlanInv, BudgetInv, UNCHANGED inputs, NEW s \in Sectors,
         ~OverBudget(s), pledged' = Spent(s), Renewed' \subseteq Renewed \cup {s}
  PROVE  BudgetInv'
  <1>1. /\ sector \in [Sectors -> SectorInfos] /\ args \in Arguments
        /\ pledged \in Nat
    BY DEF PlanInv
  <1>2. sector' = sector /\ args' = args
    BY DEF inputs
  <1>3. Renewed \in SUBSET Sectors /\ Renewed \cup {s} \in SUBSET Sectors
    BY RenewedAreSectors
  <1>4. sector[s].pledge \in Nat /\ pledged' = pledged + sector[s].pledge
    BY <1>1, InputTypes DEF Spent
  <1>5. PledgeOf(Renewed') <= PledgeOf(Renewed \cup {s})
    BY <1>1, <1>3, PledgeGrows
  <1>6. PledgeOf(Renewed \cup {s}) <= PledgeOf(Renewed) + sector[s].pledge
    BY <1>1, <1>3, PledgeGrows
  <1>7. /\ PledgeOf(Renewed) \in Nat /\ PledgeOf(Renewed \cup {s}) \in Nat
        /\ PledgeOf(Renewed') \in Nat
    BY <1>1, <1>3, PledgeGrows
  <1>8. PledgeOf(Renewed) <= pledged
    BY DEF BudgetInv
  <1>9. PledgeOf(Renewed') <= pledged'
    BY ONLY <1>1, <1>4, <1>5, <1>6, <1>7, <1>8
  <1>10. PledgeOf(Renewed)' = PledgeOf(Renewed')
    BY <1>2 DEF PledgeOf
  <1>11. args.maxPledge # 0 => pledged' <= args.maxPledge
    <2>1. args.maxPledge \in Nat
      BY <1>1, PlanAssumption DEF Argument
    <2> QED BY <1>1, <1>4, <2>1 DEF OverBudget
  <1> QED BY <1>2, <1>9, <1>10, <1>11 DEF BudgetInv

\* A group that gets one sector more adds no other to those renewed.
LEMMA OneGroupChanges ==
  ASSUME PlanInv, NEW key \in Locations \X Epochs, NEW q, NEW s,
         groups' = [groups EXCEPT ![key] = q],
         Range(q) \subseteq Range(groups[key]) \cup {s}
  PROVE  Renewed' \subseteq Renewed \cup {s}
  <1>1. DOMAIN groups = Locations \X Epochs /\ DOMAIN groups' = DOMAIN groups
    BY DEF PlanInv
  <1>2. \A k \in Locations \X Epochs : groups'[k] = IF k = key THEN q ELSE groups[k]
    BY <1>1
  <1>3. \A k \in Locations \X Epochs : Range(groups'[k]) \subseteq Range(groups[k]) \cup {s}
    <2>1. DOMAIN <<s>> = {1}
      OBVIOUS
    <2>2. <<s>>[1] = s
      OBVIOUS
    <2> QED BY <1>2, <2>1, <2>2, Zenon
  <1> QED BY <1>1, <1>3 DEF Renewed

\* A sector that is considered is the only one that is newly renewed.
LEMMA ConsideredRenews ==
  ASSUME PlanInv, NEW s \in Sectors,
         \/ SkipPledge(s) \/ SkipSector(s)
         \/ \E e \in Epochs : JoinGroup(s, e)
         \/ StartGroup(s)
  PROVE  Renewed' \subseteq Renewed \cup {s}
  <1>1. CASE SkipPledge(s) \/ SkipSector(s)
    <2>1. groups' = groups
      BY <1>1 DEF SkipPledge, SkipSector
    <2> QED BY <2>1 DEF Renewed
  <1>2. ASSUME NEW e \in Epochs, JoinGroup(s, e)
        PROVE  Renewed' \subseteq Renewed \cup {s}
    <2> DEFINE key == Key(s, e)
    <2>1. groups' = [groups EXCEPT ![key] = Append(groups[key], s)]
      BY <1>2 DEF JoinGroup
    <2>2. key \in Locations \X Epochs /\ s \in Members(key)
      BY <1>2, JoinerFits DEF JoinGroup, PlanInv
    <2> HIDE DEF key
    <2>3. Range(Append(groups[key], s)) = Range(groups[key]) \cup {s}
      BY <2>2, RangeOfAppend DEF PlanInv
    <2> QED BY <2>1, <2>2, <2>3, OneGroupChanges
  <1>3. CASE StartGroup(s)
    <2> DEFINE key == Key(s, NewExpiration(s))
    <2>1. groups' = [groups EXCEPT ![key] = <<s>>]
      BY <1>3 DEF StartGroup
    <2>2. key \in Locations \X Epochs
      BY <1>3, StarterFits DEF StartGroup, PlanInv
    <2> HIDE DEF key
    <2>3. Range(<<s>>) \subseteq Range(groups[key]) \cup {s}
      BY DEF Range
    <2> QED BY <2>1, <2>2, <2>3, OneGroupChanges
  <1> QED BY <1>1, <1>2, <1>3

LEMMA InitBudget == Init => BudgetInv
  <1> SUFFICES ASSUME Init PROVE BudgetInv
    OBVIOUS
  <1>1. /\ \A k \in DOMAIN groups : groups[k] = <<>>
        /\ pledged = 0 /\ args \in Arguments
    BY DEF Init
  <1>2. Range(<<>>) = {}
    BY DEF Range
  <1>3. Renewed = {}
    BY <1>1, <1>2 DEF Renewed
  <1>4. PledgeOf(Renewed) = 0
    BY <1>3, SumOfNone DEF PledgeOf
  <1>5. args.maxPledge \in Nat
    BY <1>1, PlanAssumption DEF Argument
  <1> QED BY <1>1, <1>4, <1>5 DEF BudgetInv

LEMMA NextBudget == PlanInv /\ BudgetInv /\ [Next]_vars => BudgetInv'
  <1> SUFFICES ASSUME PlanInv, BudgetInv, [Next]_vars PROVE BudgetInv'
    OBVIOUS
  <1>1. ASSUME NEW s \in Sectors, SkipSector(s)  PROVE BudgetInv'
    <2>1. UNCHANGED inputs /\ ~OverBudget(s) /\ pledged' = Spent(s)
      BY <1>1 DEF SkipSector
    <2> QED BY <1>1, <2>1, ConsideredRenews, TakingSpends
  <1>2. ASSUME NEW s \in Sectors, NEW e \in Epochs, JoinGroup(s, e)  PROVE BudgetInv'
    <2>1. UNCHANGED inputs /\ ~OverBudget(s) /\ pledged' = Spent(s)
      BY <1>2 DEF JoinGroup
    <2> QED BY <1>2, <2>1, ConsideredRenews, TakingSpends
  <1>3. ASSUME NEW s \in Sectors, StartGroup(s)  PROVE BudgetInv'
    <2>1. UNCHANGED inputs /\ ~OverBudget(s) /\ pledged' = Spent(s)
      BY <1>3 DEF StartGroup
    <2> QED BY <1>3, <2>1, ConsideredRenews, TakingSpends
  <1>4. ASSUME UNCHANGED <<inputs, pledged, groups>>  PROVE BudgetInv'
    BY <1>4 DEF BudgetInv, Renewed, PledgeOf, inputs
  <1>5. ASSUME NEW s \in Sectors, SkipPledge(s)  PROVE BudgetInv'
    BY <1>4, <1>5 DEF SkipPledge
  <1>6. ASSUME NEW k \in Locations \X Epochs, Visit(k)  PROVE BudgetInv'
    BY <1>4, <1>6 DEF Visit, grouping
  <1>7. ASSUME Grouped \/ Finish \/ PlanFails \/ UNCHANGED vars  PROVE BudgetInv'
    BY <1>4, <1>7 DEF Grouped, Finish, PlanFails, vars, grouping
  <1> QED BY <1>1, <1>2, <1>3, <1>5, <1>6, <1>7 DEF Next

\* The pledge of the sectors that are renewed stays within
\* max_initial_pledges, whatever their order and grouping (service.go:464-528).
THEOREM BudgetIsKept == Spec => []PledgeWithinBudget
  <1>1. PlanInv /\ BudgetInv => PledgeWithinBudget
    <2> SUFFICES ASSUME PlanInv, BudgetInv, args.maxPledge # 0
                 PROVE  PledgeOf(Renewed) <= args.maxPledge
      BY DEF PledgeWithinBudget
    <2>1. PledgeOf(Renewed) \in Nat
      BY RenewedAreSectors, PledgeGrows DEF PlanInv
    <2>2. args.maxPledge \in Nat /\ pledged \in Nat
      BY PlanAssumption DEF PlanInv, Argument
    <2> QED BY <2>1, <2>2 DEF BudgetInv
  <1> QED BY <1>1, InitBudget, NextBudget, PlanInvariance, PTL DEF Spec

-----------------------------------------------------------------------------
(* The limits of a message *)

LEMMA CountedIsSum ==
  ASSUME NEW m
  PROVE  CountedIn(m) = SumFunctionOnSet([x \in DOMAIN m |-> m[x].counted], DOMAIN m)
  <1> DEFINE f == [x \in DOMAIN m |-> m[x].counted]
  <1>1. DOMAIN f = DOMAIN m
    OBVIOUS
  <1> QED BY <1>1 DEF CountedIn, SumFunction

\* Every declaration adds its count to that of the message it joins.
LEMMA CountedInMore ==
  ASSUME NEW op \in Seq(Declarations), NEW d \in Declarations
  PROVE  CountedIn(Append(op, d)) = CountedIn(op) + d.counted
  <1> DEFINE new == Append(op, d)
             O == Len(op)
             f == [x \in DOMAIN op |-> op[x].counted]
             g == [x \in DOMAIN new |-> new[x].counted]
  <1>1. /\ O \in Nat /\ DOMAIN op = 1..O /\ new \in Seq(Declarations)
        /\ Len(new) = O + 1 /\ new[O + 1] = d
        /\ \A x \in 1..O : new[x] = op[x]
    BY AppendProperties, LenProperties
  <1>2. DOMAIN new = (1..O) \cup {O + 1}
    <2>1. DOMAIN new = 1..(O + 1)
      BY <1>1, LenProperties
    <2> QED BY <1>1, <2>1
  <1>3. CountedIn(op) = SumFunctionOnSet(f, 1..O)
    BY <1>1, CountedIsSum
  <1>4. CountedIn(new) = SumFunctionOnSet(g, (1..O) \cup {O + 1})
    BY <1>2, CountedIsSum
  <1> HIDE DEF new, O
  <1>5. \A x \in 1..O : f[x] = g[x]
    BY <1>1, <1>2
  <1>6. \A x \in (1..O) \cup {O + 1} : g[x] \in Nat
    <2>1. \A x \in (1..O) \cup {O + 1} : new[x] \in Declarations
      BY <1>1, ElementOfSeq
    <2> QED BY <1>2, <2>1 DEF Declarations
  <1>7. g[O + 1] = d.counted
    BY <1>1, <1>2
  <1>8. IsFiniteSet(1..O) /\ O + 1 \notin 1..O
    BY <1>1, FS_Interval
  <1> DEFINE places == 1..O
             last == O + 1
  <1> HIDE DEF f, g, places, last
  <1>9. SumFunctionOnSet(f, places) = SumFunctionOnSet(g, places)
    BY ONLY <1>5, <1>8, SumSame DEF places
  <1>10. SumFunctionOnSet(g, places \cup {last}) = SumFunctionOnSet(g, places) + g[last]
    <2>1. IsFiniteSet(places) /\ last \notin places /\ \A x \in places \cup {last} : g[x] \in Nat
      BY ONLY <1>6, <1>8 DEF places, last
    <2> QED BY ONLY <2>1, SumWith
  <1> QED BY <1>3, <1>4, <1>7, <1>9, <1>10 DEF new, places, last

LEMMA CountedInNone == CountedIn(<<>>) = 0
  <1>1. DOMAIN <<>> = {}
    OBVIOUS
  <1> QED BY <1>1, CountedIsSum, SumOfNone

LEMMA CountedInOne ==
  ASSUME NEW d \in Declarations
  PROVE  CountedIn(<<d>>) = d.counted
  <1>1. <<>> \in Seq(Declarations) /\ Append(<<>>, d) = <<d>>
    BY EmptySeq
  <1>2. CountedIn(<<d>>) = 0 + d.counted
    BY <1>1, CountedInMore, CountedInNone
  <1>3. d.counted \in Nat
    BY DEF Declarations
  <1> QED BY <1>2, <1>3

\* A slice has at most max_sectors sectors.
LEMMA BatchSize ==
  ASSUME sector \in [Sectors -> SectorInfos], args \in Arguments,
         NEW S, NEW numbers \in Seq(S), NEW i \in Nat \ {0}
  PROVE  /\ IsFiniteSet(Range(Batch(numbers, i)))
         /\ Cardinality(Range(Batch(numbers, i))) <= AddrSectors
  <1> DEFINE m == (i - 1) * AddrSectors + 1
             n == Least(i * AddrSectors, Len(numbers))
             slice == SubSeq(numbers, m, n)
             L == Len(slice)
  <1>1. AddrSectors \in Nat \ {0}
    BY AddrSectorsPositive
  <1>2. Len(numbers) \in Nat
    BY LenProperties
  <1>3. /\ (i - 1) * AddrSectors \in Nat /\ i * AddrSectors \in Nat
        /\ i * AddrSectors = (i - 1) * AddrSectors + AddrSectors
    BY <1>1
  <1>4. /\ m \in Int /\ n \in Int /\ m >= 1 /\ n <= Len(numbers)
        /\ n <= m - 1 + AddrSectors
    BY <1>1, <1>2, <1>3 DEF Least
  <1>5. Batch(numbers, i) = slice
    BY DEF Batch
  <1> HIDE DEF m, n
  <1>6. \A j \in m..n : numbers[j] \in S
    BY <1>2, <1>4, ElementOfSeq
  <1>7. slice \in Seq(S) /\ L = IF m <= n THEN n - m + 1 ELSE 0
    BY <1>4, <1>6, SubSeqProperties
  <1> HIDE DEF slice, L
  <1>8. L \in Nat /\ L <= AddrSectors
    BY <1>1, <1>4, <1>7
  <1>9. slice \in Surjection(1..L, Range(slice))
    BY <1>7, LenProperties DEF Surjection, Range, L
  <1>10. IsFiniteSet(1..L) /\ Cardinality(1..L) = L
    BY <1>8, FS_Interval
  <1>11. IsFiniteSet(Range(slice)) /\ Cardinality(Range(slice)) <= L
    BY <1>9, <1>10, FS_Surjection
  <1>12. Cardinality(Range(slice)) \in Nat
    BY <1>11, FS_CardinalityType
  <1>13. Cardinality(Range(slice)) <= AddrSectors
    BY ONLY <1>1, <1>8, <1>11, <1>12
  <1> QED BY <1>5, <1>11, <1>13

\* No slice counts more sectors than a message may have.
LEMMA DeclarationCount ==
  ASSUME sector \in [Sectors -> SectorInfos], args \in Arguments,
         NEW S, NEW numbers \in Seq(S), NEW i \in Nat \ {0}, NEW k
  PROVE  /\ Declaration(k, Batch(numbers, i)).counted \in Nat
         /\ Declaration(k, Batch(numbers, i)).counted <= AddrSectors
  <1> DEFINE slice == Range(Batch(numbers, i))
             counted == {s \in slice : Extendable(s, k[2])}
  <1>1. IsFiniteSet(slice) /\ Cardinality(slice) <= AddrSectors
    BY BatchSize
  <1>2. Declaration(k, Batch(numbers, i)).counted = Cardinality(counted)
    BY DEF Declaration
  <1>3. counted \in SUBSET slice
    OBVIOUS
  <1> HIDE DEF slice, counted
  <1>4. Cardinality(counted) <= Cardinality(slice) /\ IsFiniteSet(counted)
    BY <1>1, <1>3, FS_Subset
  <1>5. Cardinality(counted) \in Nat /\ Cardinality(slice) \in Nat
    BY <1>1, <1>4, FS_CardinalityType
  <1>6. AddrSectors \in Nat
    BY AddrSectorsPositive
  <1>7. Cardinality(counted) <= AddrSectors
    BY ONLY <1>1, <1>4, <1>5, <1>6
  <1> QED BY <1>2, <1>5, <1>7

LEMMA OneWithinLimits ==
  ASSUME NEW d \in Declarations, d.counted <= AddrSectors
  PROVE  WithinLimits(<<d>>)
  <1>1. Len(<<d>>) <= DeclarationsMax
    BY PlanAssumption
  <1>2. CountedIn(<<d>>) = d.counted
    BY CountedInOne
  <1> QED BY <1>1, <1>2 DEF WithinLimits

\* The limits are those of the arguments, which do not change.
LEMMA SameLimits ==
  ASSUME UNCHANGED inputs
  PROVE  AddrSectors' = AddrSectors
  BY DEF inputs, AddrSectors

\* The i-th slice of the group that is visited, the full ones, and the last.
Slice(k, i) == Declaration(k, Batch(groups[k], i))
FullSlices(k) == {Slice(k, i) : i \in 1..FullBatches(groups[k])}
Rest(k) == Slice(k, FullBatches(groups[k]) + 1)

\* The open message has no room for the last slice.
Closes(k) ==
  \/ scount + Rest(k).counted > AddrSectors
  \/ Len(open) >= DeclarationsMax

LEMMA SliceType ==
  ASSUME PlanInv, NEW k \in Locations \X Epochs
  PROVE  \A i \in Nat \ {0} :
           /\ Slice(k, i) \in Declarations
           /\ Slice(k, i).counted \in Nat /\ Slice(k, i).counted <= AddrSectors
  <1>1. /\ sector \in [Sectors -> SectorInfos] /\ args \in Arguments
        /\ groups[k] \in Seq(Members(k))
    BY DEF PlanInv
  <1> TAKE i \in Nat \ {0}
  <1>2. Slice(k, i) \in Declarations
    BY <1>1, BatchOfGroup, DeclarationSound DEF Slice
  <1>3. Slice(k, i).counted \in Nat /\ Slice(k, i).counted <= AddrSectors
    BY <1>1, DeclarationCount DEF Slice
  <1> QED BY <1>2, <1>3

\* The messages that a visit adds, and what it leaves open.
LEMMA VisitAppends ==
  ASSUME PlanInv, NEW k \in Locations \X Epochs, Visit(k)
  PROVE  /\ Range(params') = Range(params) \cup {<<d>> : d \in FullSlices(k)}
                                \cup (IF Closes(k) THEN {open} ELSE {})
         /\ open' = IF Closes(k) THEN <<Rest(k)>> ELSE Append(open, Rest(k))
         /\ scount' = IF Closes(k) THEN Rest(k).counted ELSE scount + Rest(k).counted
         /\ Rest(k) \in Declarations /\ FullBatches(groups[k]) \in Nat
  <1> DEFINE full == FullBatches(groups[k])
             batches == [i \in 1..full |-> <<Slice(k, i)>>]
             closed == IF Closes(k) THEN <<open>> ELSE <<>>
  <1>1. /\ sector \in [Sectors -> SectorInfos] /\ args \in Arguments
        /\ groups[k] \in Seq(Members(k)) /\ groups[k] # <<>>
        /\ open \in Seq(Declarations) /\ params \in Seq(Seq(Declarations))
    BY DEF Visit, PlanInv
  <1>2. full \in Nat
    BY <1>1, FullBatchesType
  <1>3. /\ params' = params \o batches \o closed
        /\ open' = IF Closes(k) THEN <<Rest(k)>> ELSE Append(open, Rest(k))
        /\ scount' = IF Closes(k) THEN Rest(k).counted ELSE scount + Rest(k).counted
    BY DEF Visit, Pack, CountFrom, Closes, Rest, Slice
  <1>4. FullSlices(k) = {Slice(k, i) : i \in 1..full} /\ Rest(k) = Slice(k, full + 1)
    BY DEF FullSlices, Rest
  <1> HIDE DEF full
  <1>5. Rest(k) \in Declarations /\ \A i \in 1..full : Slice(k, i) \in Declarations
    BY <1>2, <1>4, SliceType
  <1>6. batches \in Seq(Seq(Declarations))
    <2>1. \A i \in 1..full : <<Slice(k, i)>> \in Seq(Declarations)
      BY <1>5
    <2>2. batches \in [1..full -> Seq(Declarations)]
      BY <2>1
    <2> HIDE DEF batches
    <2> QED BY <1>2, <2>2, SeqDef
  <1>7. Range(batches) = {<<d>> : d \in FullSlices(k)}
    <2>1. Range(batches) = {<<Slice(k, i)>> : i \in 1..full}
      BY DEF Range
    <2> QED BY <1>4, <2>1
  <1>8. /\ closed \in Seq(Seq(Declarations))
        /\ Range(closed) = IF Closes(k) THEN {open} ELSE {}
    <2>1. CASE Closes(k)
      <3>1. Range(<<open>>) = {open} /\ <<open>> \in Seq(Seq(Declarations))
        BY <1>1, RangeOfOne
      <3> QED BY <2>1, <3>1
    <2>2. CASE ~Closes(k)
      <3>1. Range(<<>>) = {} /\ <<>> \in Seq(Seq(Declarations))
        BY EmptySeq DEF Range
      <3> QED BY <2>2, <3>1
    <2> QED BY <2>1, <2>2
  <1> HIDE DEF batches, closed
  <1>9. Range(params') = Range(params) \cup Range(batches) \cup Range(closed)
    <2> DEFINE packed == params \o batches
    <2>1. packed \in Seq(Seq(Declarations)) /\ params' = packed \o closed
      BY <1>1, <1>3, <1>6, ConcatProperties
    <2>2. Range(packed) = Range(params) \cup Range(batches)
      BY <1>1, <1>6, RangeConcatenation
    <2> HIDE DEF packed
    <2>3. Range(packed \o closed) = Range(packed) \cup Range(closed)
      BY <1>8, <2>1, RangeConcatenation
    <2> QED BY <2>1, <2>2, <2>3
  <1> QED BY <1>2, <1>3, <1>5, <1>7, <1>8, <1>9 DEF full

\* A visit closes the open message before it exceeds a limit.
LEMMA VisitLimits ==
  ASSUME PlanInv, LimitsInv, NEW k \in Locations \X Epochs, Visit(k)
  PROVE  LimitsInv'
  <1>1. /\ scount \in Nat /\ AddrSectors \in Nat
        /\ open \in Seq(Declarations) /\ FullBatches(groups[k]) \in Nat
    BY AddrSectorsPositive, VisitAppends DEF PlanInv
  <1>2. /\ CountedIn(open) = scount /\ WithinLimits(open)
        /\ \A m \in Range(params) : WithinLimits(m)
    BY DEF LimitsInv
  <1>3. \A m : WithinLimits(m)' <=> WithinLimits(m)
    <2>1. AddrSectors' = AddrSectors
      BY SameLimits DEF Visit
    <2> QED BY <2>1 DEF WithinLimits
  <1>4. /\ \A d \in FullSlices(k) \cup {Rest(k)} : WithinLimits(<<d>>)
        /\ Rest(k) \in Declarations
        /\ Rest(k).counted \in Nat /\ Rest(k).counted <= AddrSectors
    BY <1>1, SliceType, OneWithinLimits DEF FullSlices, Rest
  <1>5. \A m \in Range(params') : WithinLimits(m)
    <2> TAKE m \in Range(params')
    <2>1. \/ m \in Range(params) \/ m = open
          \/ \E d \in FullSlices(k) : m = <<d>>
      BY VisitAppends
    <2> QED BY <1>2, <1>4, <2>1
  <1>6. CountedIn(open') = scount' /\ WithinLimits(open')
    <2>1. CASE Closes(k)
      <3>1. open' = <<Rest(k)>> /\ scount' = Rest(k).counted
        BY <2>1, VisitAppends
      <3> QED BY <1>4, <3>1, CountedInOne
    <2>2. CASE ~Closes(k)
      <3>1. open' = Append(open, Rest(k)) /\ scount' = scount + Rest(k).counted
        BY <2>2, VisitAppends
      <3>2. CountedIn(open') = scount + Rest(k).counted
        BY <1>1, <1>2, <1>4, <3>1, CountedInMore
      <3>3. Len(open') = Len(open) + 1 /\ Len(open) \in Nat
        BY <1>1, <1>4, <3>1, AppendProperties, LenProperties
      <3>4. scount + Rest(k).counted <= AddrSectors /\ Len(open) < DeclarationsMax
        BY <1>1, <1>4, <2>2, <3>3, PlanAssumption DEF Closes
      <3>5. Len(open') <= DeclarationsMax
        BY <3>3, <3>4, PlanAssumption
      <3> QED BY <3>1, <3>2, <3>4, <3>5 DEF WithinLimits
    <2> QED BY <2>1, <2>2
  <1>7. (CountedIn(open) = scount)'
    BY <1>6 DEF CountedIn
  <1> QED BY <1>3, <1>5, <1>6, <1>7 DEF LimitsInv

LEMMA InitLimits == Init => LimitsInv
  <1> SUFFICES ASSUME Init PROVE LimitsInv
    OBVIOUS
  <1>1. /\ params = <<>> /\ open = <<>> /\ scount = 0
        /\ sector \in [Sectors -> SectorInfos] /\ args \in Arguments
    BY DEF Init
  <1>2. CountedIn(open) = scount
    BY <1>1, CountedInNone
  <1>3. Len(open) = 0 /\ AddrSectors \in Nat /\ DeclarationsMax \in Nat
    BY <1>1, EmptySeq, AddrSectorsPositive, PlanAssumption
  <1>4. WithinLimits(open)
    BY <1>1, <1>2, <1>3 DEF WithinLimits
  <1>5. Range(<<>>) = {}
    BY DEF Range
  <1> QED BY <1>1, <1>2, <1>4, <1>5 DEF LimitsInv

LEMMA NextLimits == PlanInv /\ LimitsInv /\ [Next]_vars => LimitsInv'
  <1> SUFFICES ASSUME PlanInv, LimitsInv, [Next]_vars PROVE LimitsInv'
    OBVIOUS
  <1>1. ASSUME UNCHANGED <<inputs, packing>>  PROVE LimitsInv'
    <2>1. params' = params /\ open' = open /\ scount' = scount
      BY <1>1 DEF packing
    <2>2. AddrSectors' = AddrSectors
      BY <1>1, SameLimits
    <2> QED BY <2>1, <2>2 DEF LimitsInv, WithinLimits, CountedIn
  <1>2. ASSUME NEW s \in Sectors, SkipPledge(s) \/ SkipSector(s) \/ StartGroup(s)
        PROVE  LimitsInv'
    BY <1>1, <1>2 DEF SkipPledge, SkipSector, StartGroup
  <1>3. ASSUME NEW s \in Sectors, NEW e \in Epochs, JoinGroup(s, e)  PROVE LimitsInv'
    BY <1>1, <1>3 DEF JoinGroup
  <1>4. ASSUME NEW k \in Locations \X Epochs, Visit(k)  PROVE LimitsInv'
    BY <1>4, VisitLimits
  <1>5. ASSUME Grouped \/ Finish  PROVE LimitsInv'
    <2>1. /\ UNCHANGED inputs /\ open' = open /\ scount' = scount
          /\ params' = params \/ params' = Append(params, open)
      BY <1>5 DEF Grouped, Finish, Closed
    <2>2. AddrSectors' = AddrSectors
      BY <2>1, SameLimits
    <2>3. \A m : WithinLimits(m)' <=> WithinLimits(m)
      BY <2>2 DEF WithinLimits
    <2>4. Range(Append(params, open)) = Range(params) \cup {open}
      BY RangeOfAppend DEF PlanInv
    <2>5. \A m \in Range(params') : WithinLimits(m)
      BY <2>1, <2>4 DEF LimitsInv
    <2>6. (CountedIn(open) = scount /\ WithinLimits(open))'
      BY <2>1, <2>2 DEF LimitsInv, WithinLimits, CountedIn
    <2> QED BY <2>3, <2>5, <2>6 DEF LimitsInv
  <1>6. ASSUME PlanFails \/ UNCHANGED vars  PROVE LimitsInv'
    BY <1>1, <1>6 DEF PlanFails, vars
  <1> QED BY <1>2, <1>3, <1>4, <1>5, <1>6 DEF Next

\* No message counts more sectors than max_sectors or names more declarations
\* than the network takes, however slices and groups share messages
\* (service.go:566-629).
THEOREM LimitsAreKept == Spec => []MessagesWithinLimits
  <1>1. PlanInv /\ LimitsInv => MessagesWithinLimits
    <2> SUFFICES ASSUME PlanInv, LimitsInv, NEW m \in Range(Messages)
                 PROVE  WithinLimits(m)
      BY DEF MessagesWithinLimits
    <2>1. Range(Append(params, open)) = Range(params) \cup {open}
      BY RangeOfAppend DEF PlanInv
    <2>2. m \in Range(params) \/ m = open
      BY <2>1 DEF Messages
    <2> QED BY <2>2 DEF LimitsInv
  <1> QED BY <1>1, InitLimits, NextLimits, PlanInvariance, PTL DEF Spec

=============================================================================
