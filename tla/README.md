# A TLA+ model of extend

`extend` is a service that renews the sectors of Filecoin miners. A client posts
a renewal request; the service plans `ExtendSectorExpiration2` messages, pushes
them to a node, follows them to the chain, replaces them when they wait too
long, and reports the outcome in the request's row.

The models follow the Go code (`service.go`, `api.go`, `model.go`, `map.go`,
`cmd.go`). Line numbers in comments and in `PROJECT.json` are lines of those
files.

## Inventory

| Component | State | Operations | Interaction | What makes it correct |
|---|---|---|---|---|
| HTTP API (`api.go`) | none of its own | create, get, update, speedup | writes the requests table, calls the service | an update does not disturb a request at work |
| Processor (`runProcessor`, `processRequest`) | `processingRequests`, the rows a tick read, one copy of a row per goroutine | tick, dispatch, base fee, extend, save | reads and writes the requests table, publishes messages, links their rows | one goroutine per request; every published message is tracked; dry runs publish nothing |
| Planner (`extend`, `buildParams`) | local: groups, the open message, the count | filter, budget, expiration, grouping, packing | called by the processor | no sector twice, none lost, none shortened, limits respected |
| Message checker (`runMessageChecker`, `checkMessage`) | `checkingRequests`, the rows and messages a tick read | tick, dispatch, verdict, save | starts watchers, finishes requests | the verdict is earned by the messages and keeps earlier errors |
| Watchers (`watchMessage`) | `watchingMessages`, one copy of a message row per goroutine | read, register, wait, save, leave | cancelled by replacements | what landed is recorded and stays recorded |
| Replacement (`replaceMessage`, `runPendingChecker`, `runSpeedupWorker`) | ids to replace, an open transaction, a semaphore | find, sign, delete, push, create, commit, follow | deletes and creates message rows, cancels watchers | a published nonce never drops out of its request |
| Start and stop (`NewService`, `Shutdown`, `MonitorShutdown`, `runCmd`) | a context, a WaitGroup, channels | start, signal, stop the API, cancel, wait | all loops, the watches in `watchingMessages` | the process ends; nobody waits for what will not come |
| Speedups (`speedupRequest`, `runSpeedupWorker`, `watchMessage.Wait`) | an unbuffered channel, a semaphore | send, receive, acquire, replace, wait or watch, release | handlers, the worker, watchers | every speedup is served, the batch is respected |
| `SafeMap` (`map.go`) | a map and a mutex | Set, Get, Delete, Has, Keys, Range | shared by all of the above | each operation is atomic; a pair of them is not |
| Conversions (`chain.go`, `model.go`, end of `service.go`) | none | epochs, sector lists, column types | | what is stored reads back |
| Authentication, command line, database setup, debug cache | | | | not part of the core logic |

What is hard: rows are read, carried into a goroutine and written back whole
(`db.Save` writes every column), so any two writers may overwrite each other;
the maps that keep goroutines apart are consulted separately from the table;
the node accepts a message before any row says so; a replacement pushes to the
mempool inside a database transaction; Go ranges over maps in any order. The
hazards in `PROJECT.json` give the line of each.

## Modules

### RequestLifecycle

The requests table `db`, what is known of messages `msg`, and every copy of a
row that a goroutine or a handler holds.

| Code | Model |
|---|---|
| `createRequest`, `update` | `CreateRequest`; `UpdateRead` and `UpdateSave`, with anything in between |
| tick, `Has`/`Set`, `go` in `runProcessor` | `ProcessorTick`, `ProcessorSkip`, `ProcessorLaunch`: the list read by the tick stays in `found` until it is dispatched |
| `processRequest` | `CheckBasefee`, `BasefeeUnknown`, `PlanExtend`, one step per planned message (`ParamFails`, `DryRunParam`, `PushMessage`), `SaveProcessed`, and `FinishWorker` for the deferred `Delete` |
| `runMessageChecker`, `checkMessage` | `CheckerTick` (the pending rows), `CheckerPreload` (their messages: Preload is a second query), `CheckerSkip`, `CheckerLaunch`, `CheckWatch`, `CheckSave`, `FinishChecker` |
| `watchMessage` | `WatchRecords`, `WatchFails`: only what the verdict depends on |
| a reply of the node that is lost | `PushReplyLost`: the message is in the mempool, `extend` sees an error and makes no row |
| a process that dies or is stopped | `CrashRestart`: the tables stay, everything else is gone. `Shutdown` waits for the loops only, so a goroutine it leaves behind dies in the same way |

A "message" here is one nonce: replacing it changes its row but not its
identity. `MessageTracking` justifies this (`NonceKeepsARow`,
`RecordedIsPermanent`). Every planned message counts as one sector in
`published`; the planner's module counts sectors. Columns that are written and
never decided on (took, confirmed_at, total_sectors, dry_run_result) are left
out. `db.Create(msg)` makes a row without a request id, and saving the request
creates what is missing and sets the id: both are in `LinkMessages`.

### MessageTracking

The messages table `row`, the map `watching`, the watchers, and the calls of
`replaceMessage`. Every step of `watchMessage` between two accesses to the table
or to the map is an action (`WatchRead`, `WatchHas`, `WatchSet`, `WatchReceipt`
or `WatchCancelled` or `WatchFails`, `WatchSave`, `WatchExit`), as is every step
of the transaction (`TxDelete`, `TxPush` or `TxRefused`, `TxCommit` or
`CommitFails`). A row whose `DELETE` is not committed is locked, an
`UPDATE` or a second `DELETE` of it waits (`Locked`), and both find
no row afterwards; `Save` then upserts the row and with it an empty `deleted_at`,
as gorm does. Only one message of a nonce can land; `StateWaitMsg` is called
with `allowReplaced`, so a watcher of any of them gets its receipt.

The message checker and the speedup handler look at pending requests only
(`Unrecorded`; service.go:201-203 and 773). Of a request the module therefore
has one bit, `pending`, and `RequestMoves`, which takes it out of pending or
back: the verdict of `checkMessage`, or one of the saves of an out-of-date copy
that `RequestLifecycle` shows. A request that leaves pending for good while one
of its messages is still waited for is no longer looked at, and once the watcher
is gone nobody records that message; the code has no recovery from this.
`LandedIsRecorded` has it as a premise, and safety does not depend on it.

Abstracted: the channel and the semaphore of the speedup worker are a set of ids
and a set of slots (`Shutdown` has them in detail); any watched
message may be overdue, which contains every value of `max-wait`. After
a replacement the lookup by cid may find the new row or return an error
(`FollowLost`): both are allowed, whatever the driver makes of its argument.

### ExtendPlan

One call of `extend` up to its publishing loop. Sectors are considered by
pledge (equal ones in any order), a group is a pair of a partition and an
expiration, `JoinGroup` may take any close group, and `Visit` takes the groups of
a partition together, partitions and expirations in any order, as Go's maps do.
`Declaration` is `buildParams`: all numbers are declared, those whose claims end
too early are not counted. `Pack` cuts slices of `max_sectors` and puts the rest
into the open message. An epoch is a small number; claim ids and
bitfields are left out.

### Shutdown

What blocks or ends a goroutine, and nothing else: `main` is `MonitorShutdown`
and `runCmd`, `loop` the four loops (`runProcessor` and `runMessageChecker` are
one, "tickers": they wait for their ticks and the context and never for the
goroutines they start), `sender` the speedup handler and the goroutine it leaves
behind, `sem` and `slot` the semaphore and the goroutines of the speedup worker,
`watching` and `watcher` the map and the `watchMessage` goroutines with their
`cancelCh`.

| Code | Model |
|---|---|
| `MonitorShutdown`, `runCmd` | `Signal`, `ApiStopped` (`srv.Shutdown` waits for handlers), `Exit` (`wg.Wait` returned; what is left dies) |
| `Shutdown` | `CancelWatch` for each key `Range` visits, then `CancelContext` |
| `Range` in `map.go` | holds the read lock while it cancels: `Set` and `Delete` wait (`MapUnlocked`); a key set afterwards is not visited |
| `watchMessage` | `WatchDeclined`/`WatchAccepted`, `WatchSet`, `WatchReturns` or `WatchInterrupted`, and the deferred `WatchClose` and `WatchDelete`, which removes whatever entry the id has |
| `Wait` | `SlotFollows` and `SlotEnds`: it listens to the channel of its watch only, never to the context |
| the speedup channel | unbuffered: `Receive` is the send and the receive |
| `runSpeedupWorker` | `Receive`, then `Spawn` when there is `Room`, outside of any select; the goroutine replaces, then waits for the watch it found or runs one itself |
| `runPendingChecker` | `PendingTick`, `PendingReplace`, one message after the other |

A channel is the flag `closed` of its watch, and of the goroutine that waits for
it: a watch slot may be used again while a goroutine still waits for the channel
of the earlier watch. Calls to the node and to the database return; when the
context is done they may fail.

### MessageLife

What the service promises of a published message, in two actions: `Count` (its
request counts it, for good) and `Record` (its receipt is stored, once). Both
detailed models implement it, each for its half: `RequestLifecycle` for the
linking and judging of messages (`LifecycleImplementsLife`: a message is counted
when its row is linked), `MessageTracking` for what happens to the row below a
nonce (`TrackingImplementsLife`: a nonce is counted when it has a row, and
recorded when a live row of it is). This is the contract between the two: what
`RequestLifecycle` takes to be one message with one receipt is, in
`MessageTracking`, a nonce whose rows are replaced, deleted and revived.

### Proof and MC modules

`RequestLifecycle_proofs`, `MessageTracking_proofs` and `Shutdown_proofs` hold
the theorems about these modules. Those about `ExtendPlan` are in three:
`ExtendPlan_proofs` (groups and places), `ExtendPlan_limits_proofs` (sums; with
`SumLemmas`, which is about sums in general) and `ExtendPlan_complete_proofs`
(completeness). `MC*.tla` are the instances: symmetry sets, and the sectors and
arguments of the planner.

## Runs

| Run | Question | Instance | Why it is enough |
|---|---|---|---|
| `lifecycle_races` | what overlapping writers can do to a request | 1 request, 2 processRequest and 2 checkMessage goroutines, 1 PATCH, 2 messages, plans of up to 2 | requests share no row; two goroutines of a kind show every race of the two maps; two messages tell "some" from "all" |
| `lifecycle_faults` | what crashes, lost replies and failures can do | as above with 3 messages, dry runs, 2 faults, no PATCH | one fault to lose a save and one while what was lost is repeated; with 3 messages and plans of up to 2, a request can forget more messages than one fault allows |
| `lifecycle_liveness` | does a request finish | 1 goroutine each, 1 PATCH, 1 fault, base fees 1 and 2, limits none and 1 | the PATCH can undo a finished request once, the fault can lose one result |
| `tracking_replace` | what concurrent replacements do to a nonce | 1 nonce, 3 rows, 2 watchers, 1 speedup and the pending checker; the request stays pending | 3 rows let a replacement be replaced, or two replacements of one row both commit; a request that stays pending allows every watch and every speedup |
| `tracking_liveness` | is what landed recorded, whatever fails | 1 nonce, 2 rows, 1 watcher, 2 faults, 2 moves of the request | one replacement; a push that is rolled back and a second attempt, or a lost watcher and a lost save; the request can leave pending for good, or leave and come back |
| `shutdown_ends` | does the process end, is every speedup served | 2 messages, 1 watcher and 1 speedup slot (which may watch itself), 1 handler sending up to 1 message per call, batches 0 and 1 | two messages let a goroutine replace one and follow the other; handler and slot are used any number of times; the batch is full with one goroutine; the pending checker, `Range` and both kinds of watcher can be between any two steps |
| `plan_messages` | is a plan sound and complete | 4 sectors of 7 kinds in 2 partitions, 9 argument tuples, at most 2 declarations a message | merging, slicing with and without remainder, closing by count and by declarations, a budget that ends within the list |

`CHECK_DEADLOCK FALSE` is set for `ExtendPlan` (a call returns) and for
`Shutdown` (a process exits). The bounds are constants: `MaxParams`,
`MaxPatches`, `MaxSpeedups`, `MaxMoves`, `MaxFaults`, `MaxQueue`, the
number of rows and messages, and the goroutine slots (the code has no limit on
processRequest, checkMessage and watchMessage goroutines; a dispatch that finds
no free slot waits).

Five runs show that the code does not do what the documentation says:

- `lifecycle_doc_update`: README.md:243 says only requests that have not started
  can be updated; `update` (api.go:136) refuses only finished ones.
- `lifecycle_doc_published`: README.md:135 says `published_sectors` is what was
  published; a request processed twice counts its last run only.
- `lifecycle_doc_basefee`: README.md:97 says messages are pushed only when the
  base fee is below the limit; the code pushes at the limit too, and compares
  once, before it publishes.
- `tracking_doc_succeeded`: README.md:136 says `succeeded_sectors` is what was
  renewed; two live rows of one nonce count its sectors twice.
- `plan_doc_max_sectors`: README.md:122 says `max_sectors` bounds a message; the
  sectors that cannot be extended are declared on top of it.

## Properties

RequestLifecycle. `OneGoroutinePerRequest`: the maps exclude each other's
goroutines although the loops dispatch rows read before earlier goroutines saved
and left. `PublishedIsTracked`: without faults no published message is
forgotten. `PendingHasMessages`: `checkMessage` never judges an empty list.
That goroutines save whole rows they read earlier is the code's known weakness.
`IllegalOnlyByStaleSave` and `ErrorIsKept` say what it costs, and that nothing
else is wrong: a status goes backwards, or a stored error is lost, only in a
step that itself saves a copy which differs from the row it overwrites
(`StaleSave`). Such a save can erase the error of an earlier run, and the request
may then end as a success. `SuccessIsEarned` says what a success is worth in any
case, whatever the age of the copies: it is given by a run of `extend` that
published nothing and met no error, or by a `checkMessage` that saw messages,
all of them linked to the request and recorded as successful, where the
successful ones cover the `published_sectors` it saves. Messages that another
run linked after `checkMessage` read its list are not weighed.
`DryRunNeverPublishes` and `ReceiptsArePermanent` hold without exception. So
does `PublishedNotOverstated`:
`published_sectors` may be too small, as `lifecycle_doc_published` shows, but it
never exceeds what the linked messages carry. `ForgottenBounded` is what is left
of `PublishedIsTracked` with faults: between the node's acceptance of a message
and the save that links it the code has no recovery, but one fault forgets at
most the messages of one run. `LifecycleImplementsLife` is the refinement of
`MessageLife`. `FinishedForGood` is liveness.

MessageTracking. `NonceKeepsARow`: whatever replaces a message, and wherever it
fails, its request still counts a row for it. `EntryHasWatcher`: no entry of
`watchingMessages` is left behind; a live watcher without an entry is possible
and harmless, an entry without a watcher would strand the message.
`RecordedIsPermanent`: a replacement does not delete a recorded receipt.
`ExchangedOneForOne`: the live rows of a nonce are exchanged one for one, and
names the two steps that add one, a save of a row that was deleted meanwhile and
a commit whose `DELETE` found nothing; `tracking_doc_succeeded` shows what
follows from them.
`TrackingImplementsLife` is the refinement of `MessageLife`. `LandedIsRecorded`
is liveness: every live row of a message that landed is recorded for good, unless
the request leaves pending for good before.

Shutdown. `WaiterWillWake`: whoever waits for a watch, deaf to the context, waits
for one that will still close its channel, although the map entry it was found
by may have been overwritten or removed by another watcher. With one watcher and
one slot TLC never overwrites an entry somebody waits for; that case rests on the
theorem `NobodyWaitsForTheDead`. `BlockedByItsOwn`:
the worker waits for the semaphore only while a goroutine of its own is at work.
`ShutdownEnds` and `SpeedupsServed` are liveness. A batch of 0 is excluded from
both: with it the first speedup blocks the worker, and thereby `Shutdown`, for
good (cmd.go accepts 0). A negative batch, with which the worker panics at its
start, is left out.

ExtendPlan. `RenewalsExtend`, `DeclaredOnce`, `NothingDropped`,
`MessagesWithinLimits`, `PledgeWithinBudget` and `NoneEmpty` (no message without
a declaration, no declaration without a sector). `NothingDropped` says that a
sector in range that gains more than the tolerance is in one group and declared
if its claims allow it, unless the budget has no room for it and every renewed
sector costs at most as much: the pledge of a sector that is skipped
afterwards stays spent (service.go:482), so some of the budget may be lost, but
never to a dearer sector. It needs a tolerance that is not negative: with a
negative one, which `createRequest` accepts, a sector overwrites the group of its
own expiration (service.go:527).

## Fairness

Weak fairness, of the ticks (tickers fire for as long as the service runs), of
the second query of a checker's tick, of the dispatch of a list that was read, of
every goroutine that is running (Go schedules it, and calls to the node and to
the database return), and of the recording of a message that is waited for. Nothing is assumed of clients,
of the base fee, of mining or of faults: `FinishedForGood` supposes that the
limit allows the request from some time on, and `LandedIsRecorded` that the
message has landed and that its request is pending from some time on or has
everything recorded. In `RequestLifecycle` `WatchRecords` is fair, so a watched
message lands and is recorded; that it is recorded once it landed is what
`LandedIsRecorded` checks on the detailed model.

In `Shutdown` the steps of goroutines are weakly fair. Strong fairness is assumed
where Go gives it: a select takes one of its ready cases at random, so a loop
whose context is done does not take another case for ever (`LoopStops` of the
pending checker and of the speedup worker), and senders that wait on a
channel are served in order (`Receive`). Nobody has to send a signal, to call or
to tick, and no message has to land: a watch ends by itself only in
`SpeedupsServed`, whose premise says that messages keep landing.

## What is proved

All theorems are for every value of the constants that satisfies the modules'
assumptions (types and distinctness of model values; for the planner also that
the sectors are finite and that arguments are those `createRequest` accepts).

- RequestLifecycle: `Invariance` (`IInv`), and from it `TypeOK`,
  `OneGoroutinePerRequest`, `ForgottenBounded`, `PendingHasMessages`,
  `DryRunNeverPublishes`, `PublishedIsTracked`, the action properties
  `IllegalOnlyByStaleSave`, `ErrorIsKept` and `ReceiptsArePermanent`, and the
  refinement `LifecycleImplementsLife`; `NothingOverstated` for
  `PublishedNotOverstated`, `SuccessesAreEarned` for `SuccessIsEarned`. The
  properties speak of the tables, but a step writes a copy read long before, so
  none of them is inductive. `IInv` adds what every copy satisfies
  (`CopiesSound`): it belongs to a request that exists, agrees with the table on
  `dry_run`, carries no error unless pending or failed, and if it says pending
  the request has a linked message; a list of messages is not empty, and all of it
  is linked. This is stable because messages are never unlinked and
  `dry_run` is never written. `MapsExact` ties running goroutines to the two
  maps, `CountersBounded` bounds what a run publishes. `ReportInv` carries the bound on
  `published_sectors` through every copy of a row: it stays true of a copy, however
  old, because linked messages only grow, and a run that is not dry holds as
  many messages as it reports (`SentReported`). A row read with its messages
  reports no more than those (the messages are read after the row), which is
  what `SuccessIsEarned` needs. The proof first reduces
  every step to what it may change (`StepFrame`) and then treats one part of
  `IInv` per lemma.
- MessageTracking: `Tracking` (`TrackingInv`), and from it `TrackingTypeOK`,
  `NonceKeepsARow`, `EntryHasWatcher`, `RecordedIsPermanent` and the refinement
  `TrackingImplementsLife`. The argument for the nonce: a commit deletes at most
  the row whose lock the transaction holds and creates a live row of the same
  nonce; `OneDeleter` says that two transactions never hold one row. For
  receipts: a locked row is not recorded (`ReplacersSound`), because a push is
  accepted only while the nonce is unused and a save of a locked row waits.
  `ReplacedOneForOne` (`ExchangedOneForOne`) needs that a row a transaction has
  deleted is still live to everyone else until the commit (`DeletedIsLive`).
- Shutdown: `ShutdownCorrect` (`ShutdownInv`), and from it `ShutdownTypeOK`,
  `WaiterWillWake` and `BlockedByItsOwn`. An entry of the map may be removed by
  a watch that did not set it, but never names a watch that has left
  (`EntriesOwned`); what a goroutine takes from the map is therefore a watch
  that will close its channel or has closed it. `SemaphoreExact` ties the
  semaphore to the goroutines at work, whence the worker is blocked by its own
  only.
- ExtendPlan, groups and places: `PlanInvariance` (`PlanInv`), and from it `PlanTypeOK` and
  `RenewalsExtend`; `NoSectorTwice` for `DeclaredOnce`. `PlanInv` types every
  group as a sequence of sectors that fit its key, and every message as a
  sequence of declarations of such sectors; a sector that joins a group differs
  from its own new expiration by at most the tolerance, and that one exceeds the
  current expiration by more. For `DeclaredOnce`, `OnceInv` adds that groups are
  disjoint, have no repetition and nothing of what is still to be considered
  (`GroupsApart`), and that nothing is declared of a group that was not visited
  (`LeftUndeclared`). A visit declares slices of one group, which are apart
  (`BatchesApart`), each in a place of its own: before the open message
  (`SlicedOnce`), in it (`OpenedOnce`) or after it (`ClosedOnce`).

- ExtendPlan, sums: `BudgetIsKept` (`PledgeWithinBudget`) and `LimitsAreKept`
  (`MessagesWithinLimits`). What is spent covers what is renewed (`BudgetInv`),
  and `scount` is the sum over the open message (`LimitsInv`). A sum is a fold of
  the library, a recursive function. `SumLemmas` shows that it exists,
  what it is for the empty set and how it grows by one term: the induction is on
  the number of terms, carried out as a least counterexample
  (`FiniteInduction`), since the library's induction theorems take operators.
- ExtendPlan, completeness: `PlanComplete` (`LimitsInv` and `CompleteInv`), and
  from it `NothingIsDropped` (`NothingDropped`). `InOrder` says that sectors are
  considered by pledge, `NoneLost` what became of each of them; a sector that was
  over the budget stays `Unaffordable`, because what is spent never shrinks.
  `VisitedDeclared` says that a visit declares all of a group: every place of it
  is in one of the full slices or in the rest. `NothingEmpty` (`NoneEmpty`) needs
  that slices are not empty and that a message is closed only after something
  was counted in it. `OnlyClaimsBreakTheLimit` explains the finding
  `plan_doc_max_sectors`: when no claim ends too early, every declared sector is
  counted (`CountsExact`), and the documented limit holds.

Model-checked only: liveness (`FinishedForGood`, `LandedIsRecorded`,
`ShutdownEnds`, `SpeedupsServed`), which is out of the prover's reach. The
invariants and action properties of all runs that are expected to pass are proved.

## Not modelled, and what is left

- Conversions: `TimestampToEpoch`, `ArrayToString`, `NewExtension2FromParams`,
  `NewPseudoExtendParams` and the column types. They are pure functions
  that no other part decides on: the planner takes epochs, and the recorded
  extensions and dry-run results are written and only shown. The claim lists of
  `buildParams` are in `ExtendPlan` as far as they decide what is counted.
- Routing, decoding and GET, authentication, flags, schema migration and the debug
  cache share no state with the core.
- The time of `max-wait` and of the tickers: any watched message may be overdue
  and any tick may come, which contains every value.
- One model of tables, replacements and shutdown together is beyond TLC. The parts
  are tied by `MessageLife`, and by `CrashRestart`, which is what a stop looks
  like to the tables.

Further work: an instance of `shutdown_ends` with two goroutines of the worker
that follow each other.
