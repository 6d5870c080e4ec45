------------------------------ MODULE ExtendPlan ------------------------------
(***************************************************************************)
(* The planning half of extend: which of a miner's sectors a request       *)
(* renews, the new expiration each gets, and how the declarations are      *)
(* packed into messages.                                                   *)
(*                                                                         *)
(* Go ranges over the maps in any order and sort.Slice orders equal        *)
(* pledges any way: each such choice is an \E.  Calls to the node are one  *)
(* action, PlanFails.                                                      *)
(***************************************************************************)
EXTENDS Integers, Sequences, FiniteSets, Functions

CONSTANTS
  Sectors,       \* the miner's active sectors
  Locations,     \* deadline and partition pairs
  SectorInfos,   \* what a sector can be: the values of sector[s]
  Arguments,     \* arguments of extend, those of createRequest included
  MaxExtendNow,  \* the current epoch and the longest extension from it
  SectorsMax,    \* the network's limit of sectors per message
  DeclarationsMax \* the network's limit of declarations per message

\* Epochs that a declaration can name; no epoch stands for a null argument.
Epochs == 0..MaxExtendNow
NoEpoch == -1

\* lifetime: the last epoch of the sector's life.  claims: when its claims end.
SectorInfo == [expiration : Nat, pledge : Nat, location : Locations,
               lifetime : Nat, claims : SUBSET Nat]

\* createRequest demands an extension of at least the tolerance, or a new
\* expiration, which clears the tolerance; it does not refuse a negative one.
Argument == {a \in [from : Nat, to : Nat, extension : Int, newExpiration : Int,
                    tolerance : Int, maxSectors : Nat, maxPledge : Nat] :
               /\ a.extension # NoEpoch => a.extension >= a.tolerance
               /\ a.extension # NoEpoch \/ a.newExpiration # NoEpoch
               /\ a.newExpiration # NoEpoch => a.tolerance = 0
               /\ a.maxSectors <= SectorsMax}

ASSUME PlanAssumption ==
  /\ IsFiniteSet(Sectors)
  /\ SectorInfos \subseteq SectorInfo
  /\ Arguments \subseteq Argument
  /\ MaxExtendNow \in Nat
  /\ SectorsMax \in Nat \ {0} /\ DeclarationsMax \in Nat \ {0}

VARIABLES
  sector,   \* what the node says of each sector
  args,     \* the arguments of the call
  phase,    \* where the call is
  todo,     \* sectors still to be considered
  pledged,  \* totalPledge
  groups,   \* extensions: per location and new expiration, its sectors
  left,     \* keys of groups not visited yet
  visiting, \* the location whose expirations are being visited
  open,     \* p: the declarations of the message being filled
  scount,   \* sectors counted for p
  params    \* the messages

inputs == <<sector, args>>
grouping == <<todo, pledged, groups>>
packing == <<left, visiting, open, scount, params>>
vars == <<inputs, phase, grouping, packing>>

-----------------------------------------------------------------------------
(* Which sectors, and until when *)

Candidates(sec, a) ==
  {s \in Sectors : a.from <= sec[s].expiration /\ sec[s].expiration <= a.to}

AddrSectors == IF args.maxSectors # 0 THEN args.maxSectors ELSE SectorsMax

Within(a, b) == a - b <= args.tolerance /\ b - a <= args.tolerance

Least(a, b) == IF a <= b THEN a ELSE b

\* new_expiration overrides extension; both are capped.
NewExpiration(s) ==
  LET wanted == IF args.newExpiration # NoEpoch THEN args.newExpiration
                ELSE sector[s].expiration + args.extension
  IN Least(Least(wanted, MaxExtendNow), sector[s].lifetime)

OverBudget(s) ==
  args.maxPledge # 0 /\ pledged + sector[s].pledge > args.maxPledge

\* Mutant: a gain within the tolerance is taken for worthwhile.
AlreadyExpiresLater(s) == NewExpiration(s) <= sector[s].expiration

NotWorthwhile(s) ==
  \/ NewExpiration(s) <= sector[s].expiration
  \/ Within(NewExpiration(s), sector[s].expiration)

\* Mutant: the location looked up is not the sector's own.
KeyOfVisited(s, e) == <<visiting, e>>

Key(s, e) == <<sector[s].location, e>>

\* The groups a sector can join.
Close(s) == {e \in Epochs : groups[Key(s, e)] # <<>> /\ Within(NewExpiration(s), e)}

\* Mutant: sectors are considered in any order.
InAnyOrder(s) == s \in todo

\* Sectors are considered by pledge.
Cheapest(s) ==
  s \in todo /\ \A u \in todo : sector[s].pledge <= sector[u].pledge

Considered(s) == phase = "group" /\ Cheapest(s) /\ todo' = todo \ {s}

\* Mutant: the pledge is compared but not added up.
SpentNothing(s) == pledged

Spent(s) == pledged + sector[s].pledge

SkipPledge(s) ==
  /\ Considered(s)
  /\ OverBudget(s)
  /\ UNCHANGED <<inputs, phase, pledged, groups, packing>>

\* The pledge of a sector that is then skipped stays spent.
SkipSector(s) ==
  /\ Considered(s)
  /\ ~OverBudget(s)
  /\ NotWorthwhile(s)
  /\ pledged' = Spent(s)
  /\ UNCHANGED <<inputs, phase, groups, packing>>

JoinGroup(s, e) ==
  /\ Considered(s)
  /\ ~OverBudget(s) /\ ~NotWorthwhile(s)
  /\ e \in Close(s)
  /\ pledged' = Spent(s)
  /\ groups' = [groups EXCEPT ![Key(s, e)] = Append(@, s)]
  /\ UNCHANGED <<inputs, phase, packing>>

\* With a negative tolerance nothing is close, and a group that has this very
\* expiration is overwritten.
StartGroup(s) ==
  /\ Considered(s)
  /\ ~OverBudget(s) /\ ~NotWorthwhile(s)
  /\ Close(s) = {}
  /\ pledged' = Spent(s)
  /\ groups' = [groups EXCEPT ![Key(s, NewExpiration(s))] = <<s>>]
  /\ UNCHANGED <<inputs, phase, packing>>

Grouped ==
  /\ phase = "group" /\ todo = {}
  /\ phase' = "pack"
  /\ left' = {k \in Locations \X Epochs : groups[k] # <<>>}
  /\ UNCHANGED <<inputs, grouping, visiting, open, scount, params>>

-----------------------------------------------------------------------------
(* buildParams and the packing into messages *)

\* The claims of a sector must outlive its new expiration.
Extendable(s, e) == \A c \in sector[s].claims : c > e

\* What buildParams makes of numbers: every number is declared, the ones that
\* cannot be extended too, but only the others are counted.
Declaration(k, numbers) ==
  [location |-> k[1], expiration |-> k[2], sectors |-> Range(numbers),
   counted |-> Cardinality({s \in Range(numbers) : Extendable(s, k[2])})]

\* Mutant: as many numbers as fill a slice are sliced off too, none is left.
FullBatchesToTheLast(numbers) == Len(numbers) \div AddrSectors

FullBatches(numbers) == (Len(numbers) - 1) \div AddrSectors

\* Mutant: the next batch starts with the last sector of this one.
BatchOverlapping(numbers, i) ==
  SubSeq(numbers, IF i = 1 THEN 1 ELSE (i - 1) * AddrSectors,
         Least(i * AddrSectors, Len(numbers)))

\* The i-th slice of at most AddrSectors numbers.
Batch(numbers, i) ==
  SubSeq(numbers, (i - 1) * AddrSectors + 1,
         Least(i * AddrSectors, Len(numbers)))

\* Mutant: the count starts from nothing for the next message.
CountFromNothing(rest) == 0

CountFrom(rest) == rest.counted

\* Full slices get a message each, the rest goes into the open message, which
\* is closed first when it would have too much.
Pack(k) ==
  LET full == FullBatches(groups[k])
      rest == Declaration(k, Batch(groups[k], full + 1))
      count == scount + rest.counted
      closes == count > AddrSectors \/ Len(open) >= DeclarationsMax
      batches == [i \in 1..full |-> <<Declaration(k, Batch(groups[k], i))>>]
  IN /\ params' = params \o batches \o (IF closes THEN <<open>> ELSE <<>>)
     /\ open' = IF closes THEN <<rest>> ELSE Append(open, rest)
     /\ scount' = IF closes THEN CountFrom(rest) ELSE count

\* The expirations of a location are visited together.
Visit(k) ==
  /\ phase = "pack" /\ k \in left
  /\ (\E e \in Epochs : <<visiting, e>> \in left) => k[1] = visiting
  /\ Pack(k)
  /\ left' = left \ {k}
  /\ visiting' = k[1]
  /\ UNCHANGED <<inputs, phase, grouping>>

\* Mutant: the last message is appended only when it is full.
ClosedIfFull == IF scount = AddrSectors THEN Append(params, open) ELSE params

\* An open message in which nothing was counted is dropped.
Closed == IF scount # 0 THEN Append(params, open) ELSE params

Finish ==
  /\ phase = "pack" /\ left = {}
  /\ params' = Closed
  /\ phase' = "done"
  /\ UNCHANGED <<inputs, grouping, left, visiting, open, scount>>

\* A call to the node fails, a location or a claim is missing: no result.
PlanFails ==
  /\ phase \in {"group", "pack"}
  /\ phase' = "error"
  /\ UNCHANGED <<inputs, grouping, packing>>

Init ==
  /\ sector \in [Sectors -> SectorInfos]
  /\ args \in Arguments
  /\ phase = "group"
  /\ todo = Candidates(sector, args)
  /\ pledged = 0
  /\ groups = [k \in Locations \X Epochs |-> <<>>]
  /\ left = {} /\ visiting \in Locations
  /\ open = <<>> /\ scount = 0 /\ params = <<>>

Next ==
  \/ \E s \in Sectors : \/ SkipPledge(s) \/ SkipSector(s)
                        \/ \E e \in Epochs : JoinGroup(s, e)
                        \/ StartGroup(s)
  \/ Grouped
  \/ \E k \in Locations \X Epochs : Visit(k)
  \/ Finish
  \/ PlanFails

Spec == Init /\ [][Next]_vars

-----------------------------------------------------------------------------
(* Properties *)

\* The messages so far, the one being filled included.
Messages == IF phase = "done" THEN params ELSE Append(params, open)

Declared == UNION {Range(m) : m \in Range(Messages)}

DeclarationOK(d) ==
  /\ d.location \in Locations /\ d.expiration \in Epochs
  /\ d.sectors \subseteq Sectors /\ d.counted \in Nat

\* Every variable holds a value of its kind; every sector of a group or of a
\* declaration lies in the partition that the declaration names.
PlanTypeOK ==
  /\ sector \in [Sectors -> SectorInfos] /\ args \in Arguments
  /\ phase \in {"group", "pack", "done", "error"}
  /\ todo \subseteq Sectors /\ pledged \in Nat
  /\ DOMAIN groups = Locations \X Epochs
  /\ \A k \in DOMAIN groups : \A s \in Range(groups[k]) : sector[s].location = k[1]
  /\ left \subseteq Locations \X Epochs /\ visiting \in Locations
  /\ scount \in Nat
  /\ \A d \in Declared :
       DeclarationOK(d) /\ \A s \in d.sectors : sector[s].location = d.location

\* A renewal never shortens a sector's life, although a sector is put into a
\* group whose expiration was computed for another: the declared expiration is
\* after the current one of every sector it names, and exceeds what the sector
\* may live by no more than the tolerance.
RenewalsExtend ==
  \A d \in Declared : \A s \in d.sectors :
    /\ d.expiration > sector[s].expiration
    /\ d.expiration <= MaxExtendNow
    /\ \/ d.expiration <= sector[s].lifetime
       \/ d.expiration <= sector[s].lifetime + args.tolerance

Once(messages) ==
  \A i, j \in 1..Len(messages) :
    \A x \in 1..Len(messages[i]), y \in 1..Len(messages[j]) :
      messages[i][x].sectors \cap messages[j][y].sectors # {} => i = j /\ x = y

\* No sector is declared twice, in one message or in two: the chain would
\* refuse the second.
DeclaredOnce == Once(Messages)

\* The sectors in groups.
Renewed == UNION {Range(groups[k]) : k \in DOMAIN groups}

\* The sector is in the group of k, close to its own new expiration.
InGroup(s, k) == s \in Range(groups[k]) /\ Within(NewExpiration(s), k[2])

DeclaredIfExtendable(s, k) ==
  Extendable(s, k[2]) => \E d \in Declared : s \in d.sectors /\ d.expiration = k[2]

\* There is no budget left for the sector, and nothing dearer was renewed.
Unaffordable(s) ==
  OverBudget(s) /\ \A u \in Renewed : sector[u].pledge <= sector[s].pledge

\* With a tolerance that is not negative the plan is complete: every sector in
\* range that gains more than the tolerance is in one group, close to its own
\* new expiration, and if its claims allow it, a message declares it there;
\* unless the budget is used up, on sectors that cost no more than this one.
NothingDropped ==
  phase = "done" /\ args.tolerance >= 0 =>
    \A s \in Candidates(sector, args) :
      \/ NotWorthwhile(s)
      \/ Unaffordable(s)
      \/ \E k \in Locations \X Epochs : InGroup(s, k) /\ DeclaredIfExtendable(s, k)

CountedIn(m) == SumFunction([x \in DOMAIN m |-> m[x].counted])

WithinLimits(m) == CountedIn(m) <= AddrSectors /\ Len(m) <= DeclarationsMax

\* No message has more extendable sectors than max_sectors, nor more
\* declarations than the network takes, across slices, partitions and
\* expirations that share a message.
MessagesWithinLimits == \A m \in Range(Messages) : WithinLimits(m)

\* Nothing empty is published: no message without a declaration, although one
\* is closed before the next declaration is put into it, and no declaration
\* without a sector, although groups are cut into slices.
NoneEmpty ==
  /\ \A m \in Range(params) : m # <<>>
  /\ \A d \in Declared : d.sectors # {}

PledgeOf(G) == SumFunctionOnSet([s \in Sectors |-> sector[s].pledge], G)

\* The sectors that are renewed cost no more pledge than max_initial_pledges.
PledgeWithinBudget == args.maxPledge # 0 => PledgeOf(Renewed) <= args.maxPledge

-----------------------------------------------------------------------------
(* The inductive invariant behind RenewalsExtend *)

\* What is known of a sector in the group of k, whichever sector started it.
Fits(s, k) ==
  /\ sector[s].location = k[1]
  /\ k[2] > sector[s].expiration
  /\ \/ k[2] <= sector[s].lifetime
     \/ k[2] <= sector[s].lifetime + args.tolerance

Members(k) == {s \in Sectors : Fits(s, k)}

Declarations ==
  {d \in [location : Locations, expiration : Epochs, sectors : SUBSET Sectors,
          counted : Nat] :
     d.sectors \subseteq Members(<<d.location, d.expiration>>)}

PlanInv ==
  /\ sector \in [Sectors -> SectorInfos] /\ args \in Arguments
  /\ phase \in {"group", "pack", "done", "error"}
  /\ todo \subseteq Sectors /\ pledged \in Nat
  /\ DOMAIN groups = Locations \X Epochs
  /\ \A k \in Locations \X Epochs : groups[k] \in Seq(Members(k))
  /\ left \subseteq Locations \X Epochs /\ visiting \in Locations
  /\ \A k \in left : groups[k] # <<>>
  /\ open \in Seq(Declarations) /\ scount \in Nat
  /\ params \in Seq(Seq(Declarations))

-----------------------------------------------------------------------------
(* The inductive invariant behind DeclaredOnce *)

\* None of the sectors G is declared.
Undeclared(messages, G) ==
  \A i \in 1..Len(messages) :
    \A x \in 1..Len(messages[i]) : messages[i][x].sectors \cap G = {}

\* A sector is considered once, and then is in one group, once.
GroupsApart ==
  /\ \A k \in Locations \X Epochs : IsInjective(groups[k])
  /\ \A k, l \in Locations \X Epochs :
       Range(groups[k]) \cap Range(groups[l]) # {} => k = l
  /\ \A k \in Locations \X Epochs : Range(groups[k]) \cap todo = {}

\* Nothing is declared of a group before it is visited.
LeftUndeclared ==
  /\ phase = "group" => params = <<>> /\ open = <<>>
  /\ \A k \in left : Undeclared(Messages, Range(groups[k]))

OnceInv == GroupsApart /\ LeftUndeclared /\ DeclaredOnce

-----------------------------------------------------------------------------
(* The inductive invariants behind the limits and the budget *)

\* The running count is that of the open message, and within the limit.
LimitsInv ==
  /\ CountedIn(open) = scount /\ WithinLimits(open)
  /\ \A m \in Range(params) : WithinLimits(m)

\* What is spent covers the sectors taken: more, when a sector is skipped or a
\* group overwritten after its pledge was added.
BudgetInv ==
  /\ PledgeOf(Renewed) <= pledged
  /\ args.maxPledge # 0 => pledged <= args.maxPledge

-----------------------------------------------------------------------------
(* The inductive invariant behind NothingDropped *)

\* Sectors are considered by pledge, whether they are then taken or not.
InOrder ==
  /\ todo \subseteq Candidates(sector, args)
  /\ Renewed \subseteq Candidates(sector, args) \ todo
  /\ \A u \in Candidates(sector, args) \ todo, v \in todo :
       sector[u].pledge <= sector[v].pledge

\* A candidate is still to be considered, or not worthwhile, or in a group, or
\* was too dear when its turn came, and then is so for good.
NoneLost ==
  args.tolerance >= 0 =>
    \A s \in Candidates(sector, args) :
      \/ s \in todo \/ NotWorthwhile(s) \/ Unaffordable(s)
      \/ \E k \in Locations \X Epochs : InGroup(s, k)

\* Once a group is visited, every sector of it that can be extended is declared.
VisitedDeclared ==
  phase \in {"pack", "done"} =>
    /\ todo = {}
    /\ \A k \in (Locations \X Epochs) \ left :
         \A s \in Range(groups[k]) : DeclaredIfExtendable(s, k)

\* What is counted of a declaration is what it can extend.
CountsExact ==
  \A d \in Declared :
    d.counted = Cardinality({s \in d.sectors : Extendable(s, d.expiration)})

CompleteInv ==
  /\ InOrder /\ NoneLost /\ VisitedDeclared /\ CountsExact
  /\ phase = "done" => left = {}

-----------------------------------------------------------------------------
(* What the documentation says and the code does not do *)

\* README.md:122 "max_sectors ... Maximum number of sectors per message".
SectorsPerMessage ==
  \A m \in Range(Messages) :
    SumFunction([x \in DOMAIN m |-> Cardinality(m[x].sectors)]) <= AddrSectors

=============================================================================
