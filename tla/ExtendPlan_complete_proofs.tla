---------------------- MODULE ExtendPlan_complete_proofs ----------------------
(***************************************************************************)
(* Proofs that a plan of ExtendPlan is complete and has nothing empty, for *)
(* any sectors, partitions and arguments; with a tolerance that is not     *)
(* negative only the budget, spent from the cheapest up, leaves one out.   *)
(***************************************************************************)
EXTENDS ExtendPlan_limits_proofs

-----------------------------------------------------------------------------
(* The slices of a group *)

\* The number of the slice in which a place is: after those that are full.
LEMMA SliceOfPlace ==
  ASSUME NEW A \in Nat \ {0}, NEW L \in Nat \ {0}, NEW n \in 1..L
  PROVE  \E i \in 1..((L - 1) \div A + 1) : (i - 1) * A < n /\ n <= i * A
  <1> DEFINE q == (n - 1) \div A
             last == (L - 1) \div A
  <1>1. \A a \in Nat : /\ a \div A \in Nat
                       /\ (a \div A) * A <= a /\ a < (a \div A) * A + A
    OBVIOUS
  <1>2. /\ q \in Nat /\ q * A <= n - 1 /\ n - 1 < q * A + A
        /\ last \in Nat /\ L - 1 < last * A + A
    <2>1. n - 1 \in Nat /\ L - 1 \in Nat
      OBVIOUS
    <2> QED BY <1>1, <2>1
  <1> HIDE DEF q, last
  <1>3. q <= last
    <2> SUFFICES ASSUME ~(q <= last) PROVE FALSE
      OBVIOUS
    <2>1. last + 1 <= q
      BY <1>2
    <2>2. (last + 1) * A <= q * A
      <3>1. PICK r \in Nat : q = last + 1 + r
        <4>1. q - (last + 1) \in Nat /\ q = last + 1 + (q - (last + 1))
          BY <1>2, <2>1
        <4> QED BY <4>1
      <3>2. q * A = (last + 1) * A + r * A
        BY <1>2, <3>1
      <3>3. r * A \in Nat /\ (last + 1) * A \in Nat
        BY <1>2
      <3> QED BY <3>2, <3>3
    <2>3. (last + 1) * A = last * A + A
      BY <1>2
    <2>4. last * A \in Nat /\ q * A \in Nat
      BY <1>2
    <2> QED BY <1>2, <2>2, <2>3, <2>4
  <1> DEFINE i == q + 1
  <1>4. i \in 1..(last + 1) /\ i - 1 = q
    BY <1>2, <1>3
  <1>5. (i - 1) * A < n /\ n <= i * A
    <2>1. i * A = q * A + A /\ q * A \in Nat
      BY <1>2
    <2> QED BY <1>2, <1>4, <2>1
  <1> HIDE DEF i
  <1>6. \E j \in 1..(last + 1) : (j - 1) * A < n /\ n <= j * A
    BY <1>4, <1>5, Zenon
  <1> QED BY ONLY <1>6 DEF last

\* A slice has the sectors at its places.
LEMMA PlaceInBatch ==
  ASSUME sector \in [Sectors -> SectorInfos], args \in Arguments,
         NEW S, NEW numbers \in Seq(S), NEW i \in Nat \ {0},
         NEW n \in 1..Len(numbers),
         (i - 1) * AddrSectors < n, n <= i * AddrSectors
  PROVE  numbers[n] \in Range(Batch(numbers, i))
  <1> DEFINE lo == (i - 1) * AddrSectors
             hi == i * AddrSectors
             m == lo + 1
             end == Least(hi, Len(numbers))
             slice == SubSeq(numbers, m, end)
             x == n - lo
  <1>1. lo \in Nat /\ hi \in Nat /\ Len(numbers) \in Nat
    BY AddrSectorsPositive, LenProperties
  <1>2. Batch(numbers, i) = slice
    BY DEF Batch
  <1>3. lo < n /\ n <= hi
    OBVIOUS
  <1> HIDE DEF lo, hi
  <1>4. /\ m \in Int /\ end \in Int /\ m >= 1 /\ n <= end /\ end <= Len(numbers)
    BY <1>1, <1>3 DEF Least
  <1>5. x \in 1..(end - m + 1) /\ m <= end /\ m + x - 1 = n
    BY <1>1, <1>3, <1>4
  <1> HIDE DEF m, end
  <1>6. \A j \in m..end : numbers[j] \in S
    BY <1>1, <1>4, ElementOfSeq
  <1>7. /\ slice \in Seq(S) /\ Len(slice) = end - m + 1
        /\ \A j \in 1..(end - m + 1) : slice[j] = numbers[m + j - 1]
    BY <1>4, <1>5, <1>6, SubSeqProperties
  <1> HIDE DEF slice, x
  <1>8. DOMAIN slice = 1..(end - m + 1)
    BY <1>7, LenProperties
  <1>9. slice[x] = numbers[n]
    BY <1>5, <1>7
  <1> QED BY <1>2, <1>5, <1>8, <1>9 DEF Range

\* Every sector of a group is in one of its slices.
LEMMA BatchesCover ==
  ASSUME sector \in [Sectors -> SectorInfos], args \in Arguments,
         NEW S, NEW numbers \in Seq(S), NEW s \in Range(numbers)
  PROVE  \E i \in 1..(FullBatches(numbers) + 1) : s \in Range(Batch(numbers, i))
  <1>1. PICK n \in 1..Len(numbers) : numbers[n] = s
    BY LenProperties DEF Range
  <1>2. Len(numbers) \in Nat \ {0} /\ AddrSectors \in Nat \ {0}
    BY LenProperties, AddrSectorsPositive
  <1>3. PICK i \in 1..(FullBatches(numbers) + 1) :
          (i - 1) * AddrSectors < n /\ n <= i * AddrSectors
    BY <1>2, SliceOfPlace DEF FullBatches
  <1>4. FullBatches(numbers) \in Nat
    BY <1>1, <1>2, FullBatchesType, EmptySeq
  <1>5. i \in Nat \ {0}
    BY <1>4
  <1>6. numbers[n] \in Range(Batch(numbers, i))
    BY <1>3, <1>5, PlaceInBatch
  <1> QED BY <1>1, <1>6

-----------------------------------------------------------------------------
(* No candidate is lost while sectors are grouped *)

\* What is asked of a sector depends on the inputs of the call only.
LEMMA SameQuestions ==
  ASSUME UNCHANGED inputs
  PROVE  /\ args' = args /\ Candidates(sector, args)' = Candidates(sector, args)
         /\ \A s : NotWorthwhile(s)' <=> NotWorthwhile(s)
         /\ \A s, e : Within(NewExpiration(s), e)' <=> Within(NewExpiration(s), e)
         /\ \A s, e : Extendable(s, e)' <=> Extendable(s, e)
  <1>1. sector' = sector /\ args' = args
    BY DEF inputs
  <1>2. \A s : NewExpiration(s)' = NewExpiration(s)
    BY <1>1 DEF NewExpiration
  <1>3. \A a, b : Within(a, b)' <=> Within(a, b)
    BY <1>1 DEF Within
  <1>4. \A s, e : Within(NewExpiration(s), e)' <=> Within(NewExpiration(s), e)
    BY <1>1, <1>2 DEF Within
  <1>5. \A s : NotWorthwhile(s)' <=> NotWorthwhile(s)
    BY <1>1, <1>2 DEF NotWorthwhile, Within
  <1>6. \A s, e : Extendable(s, e)' <=> Extendable(s, e)
    BY <1>1 DEF Extendable
  <1> QED BY <1>1, <1>4, <1>5, <1>6 DEF Candidates

\* A sector is considered before those that are dearer.
LEMMA ConsideredInOrder ==
  ASSUME InOrder, UNCHANGED inputs, NEW s \in Sectors, Considered(s),
         Renewed' \subseteq Renewed \cup {s}
  PROVE  InOrder'
  <1>1. /\ sector' = sector /\ s \in todo /\ todo' = todo \ {s}
        /\ \A v \in todo : sector[s].pledge <= sector[v].pledge
    BY DEF inputs, Considered, Cheapest
  <1> DEFINE C == Candidates(sector, args)
  <1>2. Candidates(sector, args)' = C
    BY SameQuestions
  <1>3. todo \subseteq C /\ Renewed \subseteq C \ todo
    BY DEF InOrder
  <1>4. \A u \in C \ todo, v \in todo : sector[u].pledge <= sector[v].pledge
    BY DEF InOrder
  <1> HIDE DEF C
  <1>5. todo' \subseteq C /\ Renewed' \subseteq C \ todo'
    BY <1>1, <1>3
  <1>6. \A u \in C \ todo', v \in todo' : sector'[u].pledge <= sector'[v].pledge
    BY <1>1, <1>4
  <1> QED BY <1>2, <1>5, <1>6 DEF InOrder

LEMMA InitInOrder == Init => InOrder
  <1> SUFFICES ASSUME Init PROVE InOrder
    OBVIOUS
  <1>1. todo = Candidates(sector, args) /\ \A k \in DOMAIN groups : groups[k] = <<>>
    BY DEF Init
  <1>2. Range(<<>>) = {}
    BY DEF Range
  <1>3. Renewed = {}
    BY <1>1, <1>2 DEF Renewed
  <1> QED BY <1>1, <1>3 DEF InOrder

LEMMA NextInOrder == PlanInv /\ InOrder /\ [Next]_vars => InOrder'
  <1> SUFFICES ASSUME PlanInv, InOrder, [Next]_vars PROVE InOrder'
    OBVIOUS
  <1>1. ASSUME NEW s \in Sectors,
               \/ SkipPledge(s) \/ SkipSector(s)
               \/ \E e \in Epochs : JoinGroup(s, e)
               \/ StartGroup(s)
        PROVE  InOrder'
    <2>1. UNCHANGED inputs /\ Considered(s)
      BY <1>1 DEF SkipPledge, SkipSector, JoinGroup, StartGroup
    <2>2. Renewed' \subseteq Renewed \cup {s}
      BY <1>1, ConsideredRenews
    <2> QED BY <2>1, <2>2, ConsideredInOrder
  <1>2. ASSUME UNCHANGED <<inputs, todo, groups>>  PROVE InOrder'
    <2>1. Candidates(sector, args)' = Candidates(sector, args) /\ sector' = sector
      BY <1>2, SameQuestions DEF inputs
    <2>2. Renewed' = Renewed /\ todo' = todo
      BY <1>2 DEF Renewed
    <2> QED BY <2>1, <2>2 DEF InOrder
  <1>3. ASSUME NEW k \in Locations \X Epochs, Visit(k)  PROVE InOrder'
    BY <1>2, <1>3 DEF Visit, grouping
  <1>4. ASSUME Grouped \/ Finish \/ PlanFails \/ UNCHANGED vars  PROVE InOrder'
    BY <1>2, <1>4 DEF Grouped, Finish, PlanFails, vars, grouping
  <1> QED BY <1>1, <1>3, <1>4 DEF Next

\* While the cheapest sector left is affordable, so were all before it.
LEMMA AffordableSoFar ==
  ASSUME PlanInv, InOrder, NEW s \in todo, ~OverBudget(s),
         NEW u \in Candidates(sector, args), OverBudget(u)
  PROVE  u \in todo
  <1> SUFFICES ASSUME u \notin todo PROVE FALSE
    OBVIOUS
  <1>1. sector[u].pledge <= sector[s].pledge
    BY DEF InOrder
  <1>2. u \in Sectors /\ s \in Sectors
    BY DEF Candidates, PlanInv
  <1>3. sector[u].pledge \in Nat /\ sector[s].pledge \in Nat
    BY <1>2, InputTypes DEF PlanInv
  <1>4. pledged \in Nat /\ args.maxPledge \in Nat
    BY PlanAssumption DEF PlanInv, Argument
  <1> QED BY <1>1, <1>3, <1>4 DEF OverBudget

\* Taking a sector keeps the others where they are.
LEMMA TakenFromTodo ==
  ASSUME PlanInv, InOrder, NoneLost, UNCHANGED inputs,
         NEW s \in Sectors, Considered(s), ~OverBudget(s),
         args.tolerance >= 0 =>
           \/ NotWorthwhile(s)
           \/ \E k \in Locations \X Epochs :
                s \in Range(groups'[k]) /\ Within(NewExpiration(s), k[2]),
         args.tolerance >= 0 =>
           \A k \in Locations \X Epochs : Range(groups[k]) \subseteq Range(groups'[k])
  PROVE  NoneLost'
  <1> SUFFICES ASSUME args.tolerance >= 0, NEW u \in Candidates(sector, args)
               PROVE  \/ u \in todo' \/ NotWorthwhile(u)
                      \/ \E k \in Locations \X Epochs :
                           u \in Range(groups'[k]) /\ Within(NewExpiration(u), k[2])
    BY SameQuestions DEF NoneLost, InGroup
  <1>1. s \in todo /\ todo' = todo \ {s}
    BY DEF Considered, Cheapest
  <1>2. CASE u = s
    BY <1>2
  <1>3. CASE u # s
    <2>1. \/ u \in todo \/ NotWorthwhile(u) \/ OverBudget(u)
          \/ \E k \in Locations \X Epochs : InGroup(u, k)
      BY DEF NoneLost, Unaffordable
    <2>2. OverBudget(u) => u \in todo
      BY <1>1, AffordableSoFar
    <2>3. CASE u \in todo
      BY <1>1, <1>3, <2>3
    <2>4. CASE \E k \in Locations \X Epochs : InGroup(u, k)
      BY <2>4 DEF InGroup
    <2> QED BY <2>1, <2>2, <2>3, <2>4
  <1> QED BY <1>2, <1>3

\* Who is out of budget stays so while nothing is spent and no one renewed.
LEMMA SameBudget ==
  ASSUME UNCHANGED <<inputs, pledged, groups>>
  PROVE  \A s : Unaffordable(s)' <=> Unaffordable(s)
  <1>1. \A s : OverBudget(s)' <=> OverBudget(s)
    BY DEF OverBudget, inputs
  <1>2. Renewed' = Renewed /\ sector' = sector
    BY DEF Renewed, inputs
  <1> QED BY <1>1, <1>2 DEF Unaffordable

LEMMA NextNoneLost == PlanInv /\ InOrder /\ NoneLost /\ [Next]_vars => NoneLost'
  <1> SUFFICES ASSUME PlanInv, InOrder, NoneLost, [Next]_vars PROVE NoneLost'
    OBVIOUS
  <1>1. ASSUME NEW s \in Sectors, SkipPledge(s)  PROVE NoneLost'
    <2>1. /\ UNCHANGED <<inputs, pledged, groups>> /\ OverBudget(s)
          /\ s \in todo /\ todo' = todo \ {s}
      BY <1>1 DEF SkipPledge, Considered, Cheapest
    <2>2. Unaffordable(s)
      BY <2>1 DEF Unaffordable, InOrder
    <2>3. args.tolerance >= 0 =>
            \A u \in Candidates(sector, args) :
              \/ u \in todo' \/ NotWorthwhile(u) \/ Unaffordable(u)
              \/ \E k \in Locations \X Epochs : InGroup(u, k)
      BY <2>1, <2>2 DEF NoneLost
    <2>4. \A u, k : InGroup(u, k)' <=> InGroup(u, k)
      BY <2>1, SameQuestions DEF InGroup
    <2> QED BY <2>1, <2>3, <2>4, SameQuestions, SameBudget DEF NoneLost
  <1>2. ASSUME NEW s \in Sectors, SkipSector(s)  PROVE NoneLost'
    BY <1>2, TakenFromTodo DEF SkipSector
  <1>3. ASSUME NEW s \in Sectors, NEW e \in Epochs, JoinGroup(s, e)  PROVE NoneLost'
    <2> DEFINE key == Key(s, e)
    <2>1. /\ UNCHANGED inputs /\ Considered(s) /\ ~OverBudget(s) /\ ~NotWorthwhile(s)
          /\ e \in Close(s)
          /\ groups' = [groups EXCEPT ![key] = Append(groups[key], s)]
      BY <1>3 DEF JoinGroup
    <2>2. key \in Locations \X Epochs /\ s \in Members(key)
      BY <2>1, JoinerFits DEF PlanInv
    <2>3. Within(NewExpiration(s), key[2])
      BY <2>1 DEF Close, Key
    <2> HIDE DEF key
    <2>4. Range(Append(groups[key], s)) = Range(groups[key]) \cup {s}
      BY <2>2, RangeOfAppend DEF PlanInv
    <2>5. \A k \in Locations \X Epochs :
            groups'[k] = IF k = key THEN Append(groups[key], s) ELSE groups[k]
      BY <2>1 DEF PlanInv
    <2>6. s \in Range(groups'[key])
      BY <2>2, <2>4, <2>5
    <2>7. \A k \in Locations \X Epochs : Range(groups[k]) \subseteq Range(groups'[k])
      BY <2>4, <2>5
    <2> QED BY <2>1, <2>2, <2>3, <2>6, <2>7, TakenFromTodo
  <1>4. ASSUME NEW s \in Sectors, StartGroup(s)  PROVE NoneLost'
    <2> DEFINE e == NewExpiration(s)
               key == Key(s, e)
    <2>1. /\ UNCHANGED inputs /\ Considered(s) /\ ~OverBudget(s) /\ ~NotWorthwhile(s)
          /\ Close(s) = {}
          /\ groups' = [groups EXCEPT ![key] = <<s>>]
      BY <1>4 DEF StartGroup
    <2>2. key \in Locations \X Epochs /\ e \in Epochs /\ key[2] = e
      BY <2>1, StarterFits, WorthwhileGains DEF PlanInv, Key
    <2>3. args.tolerance >= 0 => Within(e, e)
      <3>1. e \in Int /\ args.tolerance \in Int
        BY <2>2, InputTypes, PlanAssumption DEF Epochs, PlanInv
      <3> HIDE DEF e
      <3> QED BY <3>1 DEF Within
    <2>4. args.tolerance >= 0 => groups[key] = <<>>
      BY <2>1, <2>2, <2>3 DEF Close
    <2> HIDE DEF key
    <2>5. \A k \in Locations \X Epochs :
            groups'[k] = IF k = key THEN <<s>> ELSE groups[k]
      BY <2>1 DEF PlanInv
    <2>6. s \in Range(groups'[key])
      BY <2>2, <2>5, RangeOfOne
    <2>7. args.tolerance >= 0 =>
            \A k \in Locations \X Epochs : Range(groups[k]) \subseteq Range(groups'[k])
      <3>1. Range(<<>>) = {}
        BY DEF Range
      <3> QED BY <2>4, <2>5, <3>1
    <2> QED BY <2>1, <2>2, <2>3, <2>6, <2>7, TakenFromTodo
  <1>5. ASSUME UNCHANGED <<inputs, todo, pledged, groups>>  PROVE NoneLost'
    <2>1. \A u, k : InGroup(u, k)' <=> InGroup(u, k)
      BY <1>5, SameQuestions DEF InGroup
    <2> QED BY <1>5, <2>1, SameQuestions, SameBudget DEF NoneLost
  <1>6. ASSUME NEW k \in Locations \X Epochs, Visit(k)  PROVE NoneLost'
    BY <1>5, <1>6 DEF Visit, grouping
  <1>7. ASSUME Grouped \/ Finish \/ PlanFails \/ UNCHANGED vars  PROVE NoneLost'
    BY <1>5, <1>7 DEF Grouped, Finish, PlanFails, vars, grouping
  <1> QED BY <1>1, <1>2, <1>3, <1>4, <1>6, <1>7 DEF Next

-----------------------------------------------------------------------------
(* What a visit declares *)

\* The declarations of the messages ps.
DeclaredIn(ps) == UNION {Range(m) : m \in Range(ps)}

LEMMA DeclaredSoFar ==
  ASSUME PlanInv, phase # "done"
  PROVE  Declared = DeclaredIn(params) \cup Range(open)
  <1>1. Messages = Append(params, open)
    BY DEF Messages
  <1>2. Range(Append(params, open)) = Range(params) \cup {open}
    BY RangeOfAppend DEF PlanInv
  <1> QED BY <1>1, <1>2 DEF Declared, DeclaredIn

\* A visit declares the slices of its group, and keeps what was declared.
Sliced(k) == FullSlices(k) \cup {Rest(k)}

LEMMA SlicedIsAll ==
  ASSUME NEW k, FullBatches(groups[k]) \in Nat
  PROVE  Sliced(k) = {Slice(k, i) : i \in 1..(FullBatches(groups[k]) + 1)}
  <1> DEFINE full == FullBatches(groups[k])
  <1>1. Sliced(k) = {Slice(k, i) : i \in 1..full} \cup {Slice(k, full + 1)}
    BY DEF Sliced, FullSlices, Rest
  <1> HIDE DEF full
  <1>2. \A i : i \in 1..(full + 1) <=> i \in 1..full \/ i = full + 1
    BY DEF full
  <1>3. Sliced(k) = {Slice(k, i) : i \in 1..(full + 1)}
    BY <1>1, <1>2
  <1> QED BY <1>3 DEF full

LEMMA VisitDeclares ==
  ASSUME PlanInv, NEW k \in Locations \X Epochs, Visit(k)
  PROVE  Declared' = Declared \cup Sliced(k)
  <1>1. open \in Seq(Declarations) /\ Rest(k) \in Declarations
    BY VisitAppends DEF PlanInv
  <1>2. phase = "pack" /\ phase' = "pack"
    BY DEF Visit
  <1>3. Declared = DeclaredIn(params) \cup Range(open)
    BY <1>2, DeclaredSoFar
  <1>4. Declared' = DeclaredIn(params') \cup Range(open')
    <2>1. PlanInv'
      BY NextPlan DEF Next
    <2>2. (PlanInv /\ phase # "done" => Declared = DeclaredIn(params) \cup Range(open))'
      BY DeclaredSoFar, PTL
    <2>3. (DeclaredIn(params) \cup Range(open))' = DeclaredIn(params') \cup Range(open')
      BY DEF DeclaredIn
    <2> QED BY <1>2, <2>1, <2>2, <2>3
  <1>5. \A d : d \in DeclaredIn(params') <=>
              \/ d \in DeclaredIn(params) \/ d \in FullSlices(k)
              \/ Closes(k) /\ d \in Range(open)
    <2>1. \A m : m \in Range(params') <=>
                \/ m \in Range(params) \/ \E d \in FullSlices(k) : m = <<d>>
                \/ Closes(k) /\ m = open
      BY VisitAppends
    <2>2. \A c, d : d \in Range(<<c>>) <=> d = c
      <3>1. \A c : Range(<<c>>) = {c}
        BY RangeOfOne
      <3> QED BY <3>1
    <2>3. \A ps, d : d \in DeclaredIn(ps) <=> \E m \in Range(ps) : d \in Range(m)
      BY DEF DeclaredIn
    <2> TAKE d
    <2>4. ASSUME d \in DeclaredIn(params')
          PROVE  \/ d \in DeclaredIn(params) \/ d \in FullSlices(k)
                 \/ Closes(k) /\ d \in Range(open)
      <3>1. PICK m \in Range(params') : d \in Range(m)
        BY <2>3, <2>4
      <3>2. CASE m \in Range(params)
        BY <2>3, <3>1, <3>2
      <3>3. CASE \E c \in FullSlices(k) : m = <<c>>
        <4>1. PICK c \in FullSlices(k) : m = <<c>>
          BY <3>3
        <4>2. d = c
          BY <2>2, <3>1, <4>1, Zenon
        <4> QED BY <4>2
      <3>4. CASE Closes(k) /\ m = open
        BY <3>1, <3>4
      <3> QED BY <2>1, <3>2, <3>3, <3>4
    <2>5. d \in DeclaredIn(params) => d \in DeclaredIn(params')
      BY <2>1, <2>3
    <2>6. d \in FullSlices(k) => d \in DeclaredIn(params')
      <3>1. d \in FullSlices(k) => <<d>> \in Range(params') /\ d \in Range(<<d>>)
        BY <2>1, <2>2
      <3> QED BY <2>3, <3>1
    <2>7. Closes(k) /\ d \in Range(open) => d \in DeclaredIn(params')
      BY <2>1, <2>3
    <2> QED BY <2>4, <2>5, <2>6, <2>7
  <1>6. CASE Closes(k)
    <2>1. Range(open') = {Rest(k)}
      BY <1>6, VisitAppends, RangeOfOne
    <2> QED BY <1>3, <1>4, <1>5, <1>6, <2>1 DEF Sliced
  <1>7. CASE ~Closes(k)
    <2>1. open' = Append(open, Rest(k))
      BY <1>7, VisitAppends
    <2>2. Range(open') = Range(open) \cup {Rest(k)}
      BY <1>1, <2>1, RangeOfAppend
    <2> QED BY <1>3, <1>4, <1>5, <1>7, <2>2 DEF Sliced
  <1> QED BY <1>6, <1>7

\* The end of a call drops the open message, or closes it.
LEMMA FinishDeclares ==
  ASSUME PlanInv, Finish
  PROVE  /\ Declared = DeclaredIn(params) \cup Range(open)
         /\ Declared' = IF scount # 0 THEN Declared ELSE DeclaredIn(params)
  <1>1. /\ phase = "pack" /\ phase' = "done"
        /\ params' = IF scount # 0 THEN Append(params, open) ELSE params
    BY DEF Finish, Closed
  <1>2. Declared = DeclaredIn(params) \cup Range(open)
    BY <1>1, DeclaredSoFar
  <1>3. Declared' = DeclaredIn(params')
    <2>1. (phase = "done" => Declared = DeclaredIn(params))'
      BY DEF Declared, Messages, DeclaredIn
    <2>2. DeclaredIn(params)' = DeclaredIn(params')
      BY DEF DeclaredIn
    <2> QED BY <1>1, <2>1, <2>2
  <1>4. DeclaredIn(Append(params, open)) = DeclaredIn(params) \cup Range(open)
    <2>1. Range(Append(params, open)) = Range(params) \cup {open}
      BY RangeOfAppend DEF PlanInv
    <2> QED BY <2>1 DEF DeclaredIn
  <1> QED BY <1>1, <1>2, <1>3, <1>4

-----------------------------------------------------------------------------
(* The invariant *)

LEMMA InitComplete == Init => CompleteInv
  <1> SUFFICES ASSUME Init PROVE CompleteInv
    OBVIOUS
  <1>1. /\ phase = "group" /\ todo = Candidates(sector, args)
        /\ params = <<>> /\ open = <<>>
    BY DEF Init
  <1>2. PlanInv
    BY InitPlan
  <1>3. Declared = DeclaredIn(params) \cup Range(open)
    BY <1>1, <1>2, DeclaredSoFar
  <1>4. Range(<<>>) = {}
    BY DEF Range
  <1>5. Declared = {}
    BY <1>1, <1>3, <1>4 DEF DeclaredIn
  <1>6. NoneLost /\ VisitedDeclared /\ CountsExact
    BY <1>1, <1>5 DEF NoneLost, VisitedDeclared, CountsExact
  <1> QED BY <1>1, <1>6, InitInOrder DEF CompleteInv

\* What is counted of a declaration is asked of the inputs only.
LEMMA CountsStay ==
  ASSUME CountsExact, UNCHANGED inputs, Declared' \subseteq Declared
  PROVE  CountsExact'
  <1>1. \A d : {s \in d.sectors : Extendable(s, d.expiration)}'
                 = {s \in d.sectors : Extendable(s, d.expiration)}
    BY DEF inputs, Extendable
  <1> QED BY <1>1 DEF CountsExact

LEMMA VisitComplete ==
  ASSUME PlanInv, CompleteInv, NEW k \in Locations \X Epochs, Visit(k)
  PROVE  VisitedDeclared' /\ CountsExact'
  <1>1. /\ UNCHANGED inputs /\ phase = "pack" /\ phase' = "pack"
        /\ groups' = groups /\ todo' = todo /\ left' = left \ {k}
    BY DEF Visit, grouping
  <1>2. Declared' = Declared \cup Sliced(k)
    BY VisitDeclares
  <1>3. /\ sector \in [Sectors -> SectorInfos] /\ args \in Arguments
        /\ groups[k] \in Seq(Members(k))
        /\ Sliced(k) = {Slice(k, i) : i \in 1..(FullBatches(groups[k]) + 1)}
    BY VisitAppends, SlicedIsAll DEF PlanInv
  <1>4. \A s, e : Extendable(s, e)' <=> Extendable(s, e)
    BY <1>1, SameQuestions
  <1>5. ASSUME NEW s \in Range(groups[k])
        PROVE  \E d \in Declared' : s \in d.sectors /\ d.expiration = k[2]
    <2>1. PICK i \in 1..(FullBatches(groups[k]) + 1) : s \in Range(Batch(groups[k], i))
      BY <1>3, BatchesCover
    <2> DEFINE d == Slice(k, i)
    <2>2. d \in Declared'
      BY <1>2, <1>3
    <2>3. s \in d.sectors /\ d.expiration = k[2]
      BY <2>1 DEF Slice, Declaration
    <2> QED BY <2>2, <2>3
  <1>6. ASSUME NEW l \in (Locations \X Epochs) \ left', NEW s \in Range(groups[l]),
               Extendable(s, l[2])
        PROVE  \E d \in Declared' : s \in d.sectors /\ d.expiration = l[2]
    <2>1. CASE l = k
      BY <1>5, <2>1
    <2>2. CASE l # k
      <3>1. l \in (Locations \X Epochs) \ left
        BY <1>1, <2>2
      <3>2. \E d \in Declared : s \in d.sectors /\ d.expiration = l[2]
        BY <1>1, <1>6, <3>1 DEF CompleteInv, VisitedDeclared, DeclaredIfExtendable
      <3> QED BY <1>2, <3>2
    <2> QED BY <2>1, <2>2
  <1>7. VisitedDeclared'
    <2>1. todo' = {}
      BY <1>1 DEF CompleteInv, VisitedDeclared
    <2> QED BY <1>1, <1>4, <1>6, <2>1 DEF VisitedDeclared, DeclaredIfExtendable
  <1>8. ASSUME NEW d \in Declared'
        PROVE  d.counted = Cardinality({s \in d.sectors : Extendable(s, d.expiration)})
    <2>1. CASE d \in Declared
      BY <2>1 DEF CompleteInv, CountsExact
    <2>2. CASE d \in Sliced(k)
      <3>1. PICK i \in 1..(FullBatches(groups[k]) + 1) : d = Slice(k, i)
        BY <1>3, <2>2
      <3> QED BY <3>1 DEF Slice, Declaration
    <2> QED BY <1>2, <2>1, <2>2
  <1>9. \A d : {s \in d.sectors : Extendable(s, d.expiration)}'
                 = {s \in d.sectors : Extendable(s, d.expiration)}
    BY <1>4
  <1>10. CountsExact'
    BY <1>8, <1>9 DEF CountsExact
  <1> QED BY <1>7, <1>10

\* In a message that counts nothing no declaration counts anything.
LEMMA NothingCounted ==
  ASSUME NEW op \in Seq(Declarations), CountedIn(op) = 0, NEW d \in Range(op)
  PROVE  d.counted = 0
  <1> DEFINE f == [x \in DOMAIN op |-> op[x].counted]
             S == DOMAIN op
  <1>1. IsFiniteSet(S) /\ \A x \in S : op[x] \in Declarations
    <2>1. S = 1..Len(op) /\ Len(op) \in Nat
      BY LenProperties
    <2> QED BY <2>1, FS_Interval, ElementOfSeq
  <1>2. \A x \in S : f[x] \in Nat /\ f[x] = op[x].counted
    BY <1>1 DEF Declarations
  <1>3. SumFunctionOnSet(f, S) = 0
    BY CountedIsSum
  <1>4. PICK x \in S : d = op[x]
    BY DEF Range
  <1> HIDE DEF f, S
  <1>5. SumFunctionOnSet(f, S) = f[x] + SumFunctionOnSet(f, S \ {x})
    BY <1>1, <1>2, SumWithout
  <1>6. SumFunctionOnSet(f, S \ {x}) \in Nat /\ f[x] \in Nat
    <2>1. IsFiniteSet(S \ {x})
      BY <1>1, FS_RemoveElement
    <2> QED BY <1>2, <2>1, SumType
  <1>7. f[x] = 0
    BY ONLY <1>3, <1>5, <1>6
  <1> QED BY <1>2, <1>4, <1>7

\* The open message that is dropped at the end declares nothing extendable.
LEMMA FinishComplete ==
  ASSUME PlanInv, LimitsInv, CompleteInv, Finish
  PROVE  VisitedDeclared' /\ CountsExact'
  <1>1. /\ UNCHANGED inputs /\ phase = "pack" /\ phase' = "done" /\ left = {}
        /\ groups' = groups /\ todo' = todo /\ left' = left
    BY DEF Finish, grouping
  <1>2. /\ Declared = DeclaredIn(params) \cup Range(open)
        /\ Declared' = IF scount # 0 THEN Declared ELSE DeclaredIn(params)
    BY FinishDeclares
  <1>6. ASSUME NEW d \in Declared, NEW s \in d.sectors, Extendable(s, d.expiration)
        PROVE  d \in Declared'
    <2>1. CASE scount # 0
      BY <1>2, <2>1
    <2>2. CASE scount = 0
      <3>1. SUFFICES ASSUME d \in Range(open) PROVE FALSE
        BY <1>2, <2>2
      <3>2. d.counted = 0
        BY <2>2, <3>1, NothingCounted DEF LimitsInv, PlanInv
      <3>3. d \in Declarations
        BY DeclaredSound
      <3> DEFINE extendable == {u \in d.sectors : Extendable(u, d.expiration)}
      <3>4. IsFiniteSet(extendable)
        <4>1. extendable \in SUBSET Sectors
          BY <3>3 DEF Declarations
        <4> QED BY <4>1, PlanAssumption, FS_Subset
      <3>5. Cardinality(extendable) = 0
        BY <3>2 DEF CompleteInv, CountsExact
      <3>6. extendable = {}
        <4> HIDE DEF extendable
        <4> QED BY <3>4, <3>5, FS_EmptySet
      <3> QED BY <1>6, <3>6
    <2> QED BY <2>1, <2>2
  <1>7. VisitedDeclared'
    <2>1. \A s, e : Extendable(s, e)' <=> Extendable(s, e)
      BY <1>1, SameQuestions
    <2>2. todo' = {}
      BY <1>1 DEF CompleteInv, VisitedDeclared
    <2>3. ASSUME NEW k \in Locations \X Epochs, NEW s \in Range(groups[k]),
                 Extendable(s, k[2])
          PROVE  \E d \in Declared' : s \in d.sectors /\ d.expiration = k[2]
      <3>1. PICK d \in Declared : s \in d.sectors /\ d.expiration = k[2]
        BY <1>1, <2>3 DEF CompleteInv, VisitedDeclared, DeclaredIfExtendable
      <3>2. d \in Declared'
        BY <1>6, <2>3, <3>1
      <3> QED BY <3>1, <3>2
    <2> QED BY <1>1, <2>1, <2>2, <2>3 DEF VisitedDeclared, DeclaredIfExtendable
  <1>8. CountsExact'
    BY <1>1, <1>2, CountsStay DEF CompleteInv
  <1> QED BY <1>7, <1>8

LEMMA NextComplete ==
  PlanInv /\ LimitsInv /\ CompleteInv /\ [Next]_vars => CompleteInv'
  <1> SUFFICES ASSUME PlanInv, LimitsInv, CompleteInv, [Next]_vars PROVE CompleteInv'
    OBVIOUS
  <1>1. InOrder' /\ NoneLost'
    BY NextInOrder, NextNoneLost DEF CompleteInv
  <1>2. ASSUME phase # "done", phase' # "done", params' = params, open' = open
        PROVE  Declared' = Declared
    BY <1>2 DEF Declared, Messages
  <1>3. ASSUME UNCHANGED <<inputs, packing>>, phase = "group", phase' = "group"
        PROVE  CompleteInv'
    <2>1. Declared' = Declared
      BY <1>2, <1>3 DEF packing
    <2>2. CountsExact'
      BY <1>3, <2>1, CountsStay DEF CompleteInv
    <2> QED BY <1>1, <1>3, <2>2 DEF CompleteInv, VisitedDeclared
  <1>4. ASSUME NEW s \in Sectors, SkipPledge(s) \/ SkipSector(s) \/ StartGroup(s)
        PROVE  CompleteInv'
    BY <1>3, <1>4 DEF SkipPledge, SkipSector, StartGroup, Considered
  <1>5. ASSUME NEW s \in Sectors, NEW e \in Epochs, JoinGroup(s, e)  PROVE CompleteInv'
    BY <1>3, <1>5 DEF JoinGroup, Considered
  <1>6. ASSUME Grouped  PROVE CompleteInv'
    <2>1. /\ UNCHANGED inputs /\ phase = "group" /\ phase' = "pack" /\ todo' = {}
          /\ groups' = groups /\ params' = params /\ open' = open
          /\ left' = {k \in Locations \X Epochs : groups[k] # <<>>}
      BY <1>6 DEF Grouped, grouping
    <2>2. CountsExact'
      BY <1>2, <2>1, CountsStay DEF CompleteInv
    <2>3. Range(<<>>) = {}
      BY DEF Range
    <2>4. \A k \in (Locations \X Epochs) \ left' : Range(groups'[k]) = {}
      BY <2>1, <2>3
    <2>5. VisitedDeclared'
      BY <2>1, <2>4 DEF VisitedDeclared
    <2> QED BY <1>1, <2>1, <2>2, <2>5 DEF CompleteInv
  <1>7. ASSUME NEW k \in Locations \X Epochs, Visit(k)  PROVE CompleteInv'
    <2>1. phase' = "pack"
      BY <1>7 DEF Visit
    <2> QED BY <1>1, <1>7, <2>1, VisitComplete DEF CompleteInv
  <1>8. ASSUME Finish  PROVE CompleteInv'
    <2>1. left' = {}
      BY <1>8 DEF Finish
    <2> QED BY <1>1, <1>8, <2>1, FinishComplete DEF CompleteInv
  <1>9. ASSUME PlanFails  PROVE CompleteInv'
    <2>1. /\ UNCHANGED inputs /\ phase # "done" /\ phase' = "error"
          /\ params' = params /\ open' = open
      BY <1>9 DEF PlanFails, packing
    <2>2. CountsExact'
      BY <1>2, <2>1, CountsStay DEF CompleteInv
    <2> QED BY <1>1, <2>1, <2>2 DEF CompleteInv, VisitedDeclared
  <1>10. ASSUME UNCHANGED vars  PROVE CompleteInv'
    <2>1. /\ UNCHANGED inputs /\ phase' = phase /\ left' = left /\ todo' = todo
          /\ groups' = groups /\ params' = params /\ open' = open
      BY <1>10 DEF vars, grouping, packing
    <2>2. Declared' = Declared
      BY <2>1 DEF Declared, Messages
    <2>3. CountsExact'
      BY <2>1, <2>2, CountsStay DEF CompleteInv
    <2>4. \A s, e : Extendable(s, e)' <=> Extendable(s, e)
      BY <2>1, SameQuestions
    <2>5. VisitedDeclared'
      BY <2>1, <2>2, <2>4 DEF CompleteInv, VisitedDeclared, DeclaredIfExtendable
    <2> QED BY <1>1, <2>1, <2>3, <2>5 DEF CompleteInv
  <1> QED BY <1>4, <1>5, <1>6, <1>7, <1>8, <1>9, <1>10 DEF Next

\* The counts of the messages are exact, and what has been considered is renewed,
\* over budget or not worthwhile, and declared once its group was visited.
THEOREM PlanComplete == Spec => [](LimitsInv /\ CompleteInv)
  BY InitLimits, NextLimits, InitComplete, NextComplete, PlanInvariance, PTL DEF Spec

\* With a tolerance that is not negative every sector in range that gains more
\* than the tolerance is in a group close to its own new expiration and, if its
\* claims allow it, declared there; one is left out only when the budget has no
\* room for it, and then no dearer sector is renewed (service.go:440-634).
THEOREM NothingIsDropped == Spec => []NothingDropped
  <1>1. CompleteInv => NothingDropped
    <2> SUFFICES ASSUME CompleteInv, phase = "done", args.tolerance >= 0,
                        NEW s \in Candidates(sector, args)
                 PROVE  \/ NotWorthwhile(s) \/ Unaffordable(s)
                        \/ \E k \in Locations \X Epochs :
                             InGroup(s, k) /\ DeclaredIfExtendable(s, k)
      BY DEF NothingDropped
    <2>1. todo = {} /\ left = {}
      BY DEF CompleteInv, VisitedDeclared
    <2>2. \/ NotWorthwhile(s) \/ Unaffordable(s)
          \/ \E k \in Locations \X Epochs : InGroup(s, k)
      BY <2>1 DEF CompleteInv, NoneLost
    <2>3. ASSUME NEW k \in Locations \X Epochs, InGroup(s, k)
          PROVE  DeclaredIfExtendable(s, k)
      BY <2>1, <2>3 DEF InGroup, CompleteInv, VisitedDeclared
    <2> QED BY <2>2, <2>3
  <1> QED BY <1>1, PlanComplete, PTL

-----------------------------------------------------------------------------
(* Nothing is empty *)

\* A slice of a group that is not empty has its first sector.
LEMMA SliceHasSectors ==
  ASSUME PlanInv, NEW k \in Locations \X Epochs, groups[k] # <<>>,
         NEW i \in 1..(FullBatches(groups[k]) + 1)
  PROVE  Slice(k, i).sectors # {}
  <1> DEFINE L == Len(groups[k])
             A == AddrSectors
             full == FullBatches(groups[k])
             j == i - 1
  <1>1. /\ sector \in [Sectors -> SectorInfos] /\ args \in Arguments
        /\ groups[k] \in Seq(Members(k))
    BY DEF PlanInv
  <1>2. L \in Nat \ {0} /\ A \in Nat \ {0} /\ full \in Nat
    BY <1>1, EmptySeq, LenProperties, AddrSectorsPositive, FullBatchesType
  <1>3. full * A <= L - 1
    <2>1. \A a \in Nat, b \in Nat \ {0} : (a \div b) * b <= a
      OBVIOUS
    <2>2. full = (L - 1) \div A /\ L - 1 \in Nat
      BY <1>2 DEF FullBatches
    <2> HIDE DEF full, L, A
    <2> QED BY <1>2, <2>1, <2>2
  <1>4. j \in Nat /\ j <= full /\ i = j + 1
    BY <1>2
  <1>5. i \in Nat \ {0}
    BY <1>4
  <1> HIDE DEF L, A, full, j
  <1>6. j * A \in Nat /\ j * A <= L - 1 /\ i * A = j * A + A
    <2>1. PICK r \in Nat : full = j + r
      <3>1. full - j \in Nat /\ full = j + (full - j)
        BY <1>2, <1>4
      <3> QED BY <3>1
    <2>2. full * A = j * A + r * A /\ r * A \in Nat /\ j * A \in Nat
      BY <1>2, <1>4, <2>1
    <2>3. i * A = j * A + A
      BY <1>2, <1>4
    <2> QED BY <1>2, <1>3, <2>2, <2>3
  <1> DEFINE n == j * A + 1
  <1>7. n \in 1..L /\ j * A < n /\ n <= i * A
    BY <1>2, <1>6
  <1> HIDE DEF n
  <1>8. groups[k][n] \in Range(Batch(groups[k], i))
    BY <1>1, <1>5, <1>7, PlaceInBatch DEF A, L, j
  <1> QED BY <1>8 DEF Slice, Declaration

\* A message is closed, for a declaration that it has no room for or at the
\* end, only when it has one.
LEMMA OpenWhenClosed ==
  ASSUME PlanInv, LimitsInv
  PROVE  /\ scount # 0 => open # <<>>
         /\ \A k \in Locations \X Epochs :
              Visit(k) /\ Closes(k) => open # <<>>
  <1>1. scount # 0 => open # <<>>
    BY CountedInNone DEF LimitsInv
  <1>2. ASSUME NEW k \in Locations \X Epochs, Visit(k), Closes(k), open = <<>>
        PROVE  FALSE
    <2>1. Len(open) = 0
      BY <1>2, EmptySeq
    <2>2. FullBatches(groups[k]) \in Nat
      BY <1>2, VisitAppends
    <2>3. Rest(k).counted \in Nat /\ Rest(k).counted <= AddrSectors
      BY <2>2, SliceType DEF Rest
    <2>4. AddrSectors \in Nat /\ scount = 0
      BY <1>1, <1>2, AddrSectorsPositive DEF PlanInv
    <2> QED BY <1>2, <2>1, <2>3, <2>4, PlanAssumption DEF Closes
  <1> QED BY <1>1, <1>2

LEMMA InitNoneEmpty == Init => NoneEmpty
  <1> SUFFICES ASSUME Init PROVE NoneEmpty
    OBVIOUS
  <1>1. phase = "group" /\ params = <<>> /\ open = <<>>
    BY DEF Init
  <1>2. Declared = DeclaredIn(params) \cup Range(open)
    BY <1>1, InitPlan, DeclaredSoFar
  <1>3. Range(<<>>) = {}
    BY DEF Range
  <1> QED BY <1>1, <1>2, <1>3 DEF NoneEmpty, DeclaredIn

LEMMA NextNoneEmpty ==
  PlanInv /\ LimitsInv /\ NoneEmpty /\ [Next]_vars => NoneEmpty'
  <1> SUFFICES ASSUME PlanInv, LimitsInv, NoneEmpty, [Next]_vars PROVE NoneEmpty'
    OBVIOUS
  <1>1. ASSUME UNCHANGED <<params, open>>, phase = "done" <=> phase' = "done"
        PROVE  NoneEmpty'
    <2>1. Declared' = Declared
      BY <1>1 DEF Declared, Messages
    <2> QED BY <1>1, <2>1 DEF NoneEmpty
  <1>2. ASSUME NEW s \in Sectors,
               \/ SkipPledge(s) \/ SkipSector(s)
               \/ \E e \in Epochs : JoinGroup(s, e)
               \/ StartGroup(s)
        PROVE  NoneEmpty'
    BY <1>1, <1>2 DEF SkipPledge, SkipSector, JoinGroup, StartGroup, packing
  <1>3. ASSUME Grouped \/ PlanFails \/ UNCHANGED vars  PROVE NoneEmpty'
    BY <1>1, <1>3 DEF Grouped, PlanFails, vars, packing
  <1>4. ASSUME NEW k \in Locations \X Epochs, Visit(k)  PROVE NoneEmpty'
    <2>1. \A m \in Range(params') : m # <<>>
      <3> TAKE m \in Range(params')
      <3>1. \/ m \in Range(params) \/ \E d \in FullSlices(k) : m = <<d>>
            \/ Closes(k) /\ m = open
        BY <1>4, VisitAppends
      <3> QED BY <1>4, <3>1, OpenWhenClosed DEF NoneEmpty
    <2>2. Declared' = Declared \cup {Slice(k, i) : i \in 1..(FullBatches(groups[k]) + 1)}
      BY <1>4, VisitDeclares, VisitAppends, SlicedIsAll
    <2>3. groups[k] # <<>>
      BY <1>4 DEF Visit, PlanInv
    <2>4. \A d \in Declared' : d.sectors # {}
      BY <2>2, <2>3, SliceHasSectors DEF NoneEmpty
    <2> QED BY <2>1, <2>4 DEF NoneEmpty
  <1>5. ASSUME Finish  PROVE NoneEmpty'
    <2>1. Declared' \subseteq Declared
      BY <1>5, FinishDeclares
    <2>2. params' = IF scount # 0 THEN Append(params, open) ELSE params
      BY <1>5 DEF Finish, Closed
    <2>3. Range(Append(params, open)) = Range(params) \cup {open}
      BY RangeOfAppend DEF PlanInv
    <2>4. \A m \in Range(params') : m # <<>>
      BY <2>2, <2>3, OpenWhenClosed DEF NoneEmpty
    <2> QED BY <2>1, <2>4 DEF NoneEmpty
  <1> QED BY <1>2, <1>3, <1>4, <1>5 DEF Next

\* No message without a declaration and no declaration without a sector is
\* ever made, however the groups are sliced and packed (service.go:566-629).
THEOREM NothingEmpty == Spec => []NoneEmpty
  <1>1. LimitsInv /\ CompleteInv => LimitsInv
    OBVIOUS
  <1> QED
    BY <1>1, InitNoneEmpty, NextNoneEmpty, PlanInvariance, PlanComplete, PTL DEF Spec

-----------------------------------------------------------------------------
(* When the documented limit holds *)

\* No sector has a claim that ends with or before an epoch it may be renewed to.
NoClaimEnds == \A s \in Sectors, e \in Epochs : Extendable(s, e)

\* The documented limit of sectors per message (README.md:122) is broken by
\* claims only: without one that ends too early every declared sector is
\* counted, and the limit on the count is one on the sectors (service.go:586).
THEOREM OnlyClaimsBreakTheLimit == Spec => [](NoClaimEnds => SectorsPerMessage)
  <1>1. ASSUME PlanInv, CountsExact, MessagesWithinLimits, NoClaimEnds,
               NEW m \in Range(Messages)
        PROVE  SumFunction([x \in DOMAIN m |-> Cardinality(m[x].sectors)]) <= AddrSectors
    <2>1. ASSUME NEW x \in DOMAIN m  PROVE m[x].counted = Cardinality(m[x].sectors)
      <3> DEFINE d == m[x]
      <3>1. d \in Declared
        BY DEF Declared, Range
      <3>2. d.sectors \subseteq Sectors /\ d.expiration \in Epochs
        BY <1>1, <3>1, DeclaredSound DEF Declarations
      <3>3. d.counted = Cardinality({s \in d.sectors : Extendable(s, d.expiration)})
        BY <1>1, <3>1 DEF CountsExact
      <3> HIDE DEF d
      <3>4. {s \in d.sectors : Extendable(s, d.expiration)} = d.sectors
        BY <1>1, <3>2 DEF NoClaimEnds
      <3>5. d.counted = Cardinality(d.sectors)
        BY <3>3, <3>4
      <3> QED BY <3>5 DEF d
    <2>2. [x \in DOMAIN m |-> m[x].counted] = [x \in DOMAIN m |-> Cardinality(m[x].sectors)]
      BY <2>1
    <2>3. CountedIn(m) <= AddrSectors
      BY <1>1 DEF MessagesWithinLimits, WithinLimits
    <2> QED BY <2>2, <2>3 DEF CountedIn
  <1>2. PlanInv /\ CountsExact /\ MessagesWithinLimits => (NoClaimEnds => SectorsPerMessage)
    BY <1>1 DEF SectorsPerMessage
  <1>3. CompleteInv => CountsExact
    BY DEF CompleteInv
  <1> QED BY <1>2, <1>3, PlanInvariance, LimitsAreKept, PlanComplete, PTL

=============================================================================
