--------------------------- MODULE MessageTracking ----------------------------
(***************************************************************************)
(* How a published message is followed to the chain: watchMessage, started *)
(* by checkMessage or after a speedup, and replaceMessage, called by the   *)
(* speedup worker and by the pending checker, with the map                 *)
(* watchingMessages between them.                                          *)
(*                                                                         *)
(* A replacement has the nonce of the message it replaces, so only one of  *)
(* the messages with a nonce lands; it has a row of its own, and the old   *)
(* row is soft-deleted in the same transaction.  StateWaitMsg accepts a    *)
(* replacement (allowReplaced), so whoever waits for a nonce sees it land. *)
(***************************************************************************)
EXTENDS Naturals, FiniteSets

CONSTANTS
  Rows,         \* ids of the messages table
  Nonces,       \* nonces of the worker address
  NoNonce, NoRow, NoWatcher,
  Watchers,     \* slots for the watchMessage goroutines checkMessage starts
  Speedups,     \* slots of the speedup worker: the capacity of its semaphore
  Pending,      \* the pending checker, one more caller of replaceMessage
  MaxSpeedups,  \* bound: calls of the speedup handler
  MaxMoves,     \* bound: saves that take a request out of pending, or back
  MaxFaults     \* bound: crashes, failed saves, commits and waits, together

ASSUME TrackingAssumption ==
  /\ NoNonce \notin Nonces /\ NoRow \notin Rows
  /\ NoWatcher \notin Watchers \cup Speedups /\ Pending \notin Speedups
  /\ Watchers \cap Speedups = {}
  /\ MaxSpeedups \in Nat /\ MaxMoves \in Nat /\ MaxFaults \in Nat

VARIABLES
  row,        \* the messages table
  landed,     \* nonces whose message is on chain
  pending,    \* nonces whose request has status pending
  moves,      \* moves of a request out of pending or back, so far
  watching,   \* watchingMessages: row id to the watcher that set the entry
  watcher,    \* the watchMessage goroutines
  toWatch,    \* ids checkMessage read as not on chain and has not handled
  toSpeedup,  \* ids the speedup handler read and the worker has not taken
  overdue,    \* ids the pending checker found waiting too long
  replacer,   \* the calls of replaceMessage
  speedups,   \* speedup calls so far
  faults      \* faults so far

watchVars == <<watching, watcher, toWatch>>
replaceVars == <<toSpeedup, overdue, replacer, speedups>>
outside == <<landed, pending, moves>>
vars == <<row, outside, watchVars, replaceVars, faults>>

Replacers == Speedups \cup {Pending}

\* A speedup may run watchMessage itself, in a slot of its own.
AllWatchers == Watchers \cup Speedups

Row == [state : {"free", "live", "deleted"}, nonce : Nonces \cup {NoNonce},
        onChain : BOOLEAN]
FreeRow == [state |-> "free", nonce |-> NoNonce, onChain |-> FALSE]

IdleWatcher == [pc |-> "idle", id |-> NoRow, cancelled |-> FALSE]

\* deleted: the DELETE of the transaction found the row.  next: the row of the
\* replacement.  waits: the watcher a speedup waits for, itself included.
IdleReplacer == [pc |-> "idle", id |-> NoRow, deleted |-> FALSE,
                 next |-> NoRow, waits |-> NoWatcher]

Live(i) == row[i].state = "live"
LiveRows(n) == {i \in Rows : Live(i) /\ row[i].nonce = n}
Fault == faults < MaxFaults /\ faults' = faults + 1

\* A transaction that deleted a row has it locked until it ends.
Locked(i) == \E p \in Replacers :
  /\ replacer[p].pc \in {"push", "commit"}
  /\ replacer[p].id = i /\ replacer[p].deleted

-----------------------------------------------------------------------------
(* The chain and the request's own publishing, as the tracking sees them *)

\* extend publishes a message, and its row is saved with a pending request.
Publish(n, i) ==
  /\ \A j \in Rows : row[j].nonce # n
  /\ row[i].state = "free"
  /\ row' = [row EXCEPT ![i] = [state |-> "live", nonce |-> n, onChain |-> FALSE]]
  /\ pending' = pending \cup {n}
  /\ UNCHANGED <<landed, moves, watchVars, replaceVars, faults>>

\* Saving the request takes it out of pending, or back: the verdict of
\* checkMessage, or a copy that is out of date (see RequestLifecycle).
RequestMoves(n) ==
  /\ moves < MaxMoves
  /\ moves' = moves + 1
  /\ \E i \in Rows : row[i].nonce = n
  /\ pending' = IF n \in pending THEN pending \ {n} ELSE pending \cup {n}
  /\ UNCHANGED <<row, landed, watchVars, replaceVars, faults>>

Land(n) ==
  /\ n \notin landed
  /\ \E i \in Rows : row[i].nonce = n
  /\ landed' = landed \cup {n}
  /\ UNCHANGED <<row, pending, moves, watchVars, replaceVars, faults>>

-----------------------------------------------------------------------------
(* checkMessage: watch what is not on chain *)

\* The messages of pending requests that are not on chain.
Unrecorded == {i \in Rows : Live(i) /\ ~row[i].onChain /\ row[i].nonce \in pending}

\* The tick reads pending requests only, with their messages.
CheckTick ==
  /\ toWatch = {}
  /\ toWatch' = Unrecorded
  /\ UNCHANGED <<row, outside, watching, watcher, replaceVars, faults>>

StillWatching(i) ==
  /\ i \in toWatch
  /\ watching[i] # NoWatcher
  /\ toWatch' = toWatch \ {i}
  /\ UNCHANGED <<row, outside, watching, watcher, replaceVars, faults>>

Started(w, i) == [watcher EXCEPT ![w] = [pc |-> "read", id |-> i,
                                         cancelled |-> FALSE]]

StartWatch(i, w) ==
  /\ i \in toWatch /\ w \in Watchers
  /\ watching[i] = NoWatcher
  /\ watcher[w].pc = "idle"
  /\ watcher' = Started(w, i)
  /\ toWatch' = toWatch \ {i}
  /\ UNCHANGED <<row, outside, watching, replaceVars, faults>>

-----------------------------------------------------------------------------
(* watchMessage *)

WatcherAt(w, pc) == watcher' = [watcher EXCEPT ![w].pc = pc]
WatcherGone(w) == watcher' = [watcher EXCEPT ![w] = IdleWatcher]

\* db.First does not find a deleted row.
WatchRead(w) ==
  /\ watcher[w].pc = "read"
  /\ IF Live(watcher[w].id) THEN WatcherAt(w, "has") ELSE WatcherGone(w)
  /\ UNCHANGED <<row, outside, watching, toWatch, replaceVars, faults>>

WatchHas(w) ==
  /\ watcher[w].pc = "has"
  /\ IF watching[watcher[w].id] = NoWatcher THEN WatcherAt(w, "set")
     ELSE WatcherGone(w)
  /\ UNCHANGED <<row, outside, watching, toWatch, replaceVars, faults>>

WatchSet(w) ==
  /\ watcher[w].pc = "set"
  /\ watching' = [watching EXCEPT ![watcher[w].id] = w]
  /\ WatcherAt(w, "wait")
  /\ UNCHANGED <<row, outside, toWatch, replaceVars, faults>>

\* select takes whichever is ready.
WatchReceipt(w) ==
  /\ watcher[w].pc = "wait"
  /\ row[watcher[w].id].nonce \in landed
  /\ WatcherAt(w, "save")
  /\ UNCHANGED <<row, outside, watching, toWatch, replaceVars, faults>>

WatchCancelled(w) ==
  /\ watcher[w].pc = "wait"
  /\ watcher[w].cancelled
  /\ WatcherAt(w, "exit")
  /\ UNCHANGED <<row, outside, watching, toWatch, replaceVars, faults>>

\* StateWaitMsg returns an error.
WatchFails(w) ==
  /\ watcher[w].pc = "wait"
  /\ Fault
  /\ WatcherAt(w, "exit")
  /\ UNCHANGED <<row, outside, watching, toWatch, replaceVars>>

\* Save updates the row; it finds no row to update when it was deleted, and
\* then upserts every column, deleted_at included.
SavedRow(i) == [state |-> "live", nonce |-> row[i].nonce, onChain |-> TRUE]

WatchSave(w) ==
  /\ watcher[w].pc = "save"
  /\ ~Locked(watcher[w].id)
  /\ row' = [row EXCEPT ![watcher[w].id] = SavedRow(watcher[w].id)]
  /\ WatcherAt(w, "exit")
  /\ UNCHANGED <<outside, watching, toWatch, replaceVars, faults>>

WatchSaveFails(w) ==
  /\ watcher[w].pc = "save"
  /\ Fault
  /\ WatcherAt(w, "exit")
  /\ UNCHANGED <<row, outside, watching, toWatch, replaceVars>>

\* Mutant: the entry stays.
StillWatched(w) == watching

\* The deferred Delete removes the entry of the row, whoever set it.
Unwatched(w) == [watching EXCEPT ![watcher[w].id] = NoWatcher]

WatchExit(w) ==
  /\ watcher[w].pc = "exit"
  /\ watching' = Unwatched(w)
  /\ WatcherGone(w)
  /\ UNCHANGED <<row, outside, toWatch, replaceVars, faults>>

WatcherStep(w) ==
  \/ WatchRead(w) \/ WatchHas(w) \/ WatchSet(w)
  \/ WatchReceipt(w) \/ WatchCancelled(w) \/ WatchFails(w)
  \/ WatchSave(w) \/ WatchSaveFails(w) \/ WatchExit(w)

-----------------------------------------------------------------------------
(* Who calls replaceMessage *)

\* replaceMessage reads the row and does not find a deleted one.
Loaded(p, i) ==
  IF Live(i)
  THEN [replacer EXCEPT ![p] = [IdleReplacer EXCEPT !.pc = "find", !.id = i]]
  ELSE replacer

\* POST /requests/{id}/speedup, refused for a request that is not pending.
SpeedupRequest ==
  /\ speedups < MaxSpeedups
  /\ speedups' = speedups + 1
  /\ toSpeedup' = toSpeedup \cup Unrecorded
  /\ UNCHANGED <<row, outside, watchVars, overdue, replacer, faults>>

SpeedupWorker(p, i) ==
  /\ i \in toSpeedup
  /\ replacer[p].pc = "idle"
  /\ replacer' = Loaded(p, i)
  /\ toSpeedup' = toSpeedup \ {i}
  /\ UNCHANGED <<row, outside, watchVars, overdue, speedups, faults>>

\* Any watched message may have waited longer than maxWait.
PendingScan ==
  /\ overdue = {} /\ replacer[Pending].pc = "idle"
  /\ \E late \in SUBSET {i \in Rows : watching[i] # NoWatcher} :
       late # {} /\ overdue' = late
  /\ UNCHANGED <<row, outside, watchVars, toSpeedup, replacer, speedups, faults>>

PendingReplace(i) ==
  /\ i \in overdue
  /\ replacer[Pending].pc = "idle"
  /\ replacer' = Loaded(Pending, i)
  /\ overdue' = overdue \ {i}
  /\ UNCHANGED <<row, outside, watchVars, toSpeedup, speedups, faults>>

-----------------------------------------------------------------------------
(* replaceMessage *)

ReplacerDone(p) == replacer' = [replacer EXCEPT ![p] = IdleReplacer]
ReplacerAt(p, pc) == replacer' = [replacer EXCEPT ![p].pc = pc]

\* The mempool still has the message; the replacement is priced and signed.
ReplaceFind(p) ==
  /\ replacer[p].pc = "find"
  /\ row[replacer[p].id].nonce \notin landed
  /\ ReplacerAt(p, "delete")
  /\ UNCHANGED <<row, outside, watchVars, toSpeedup, overdue, speedups, faults>>

\* It has not, or one of the calls to the node fails.
ReplaceGivesUp(p) ==
  /\ replacer[p].pc = "find"
  /\ ReplacerDone(p)
  /\ UNCHANGED <<row, outside, watchVars, toSpeedup, overdue, speedups, faults>>

\* The DELETE finds no row if another transaction deleted it meanwhile.
TxDelete(p) ==
  /\ replacer[p].pc = "delete"
  /\ ~Locked(replacer[p].id)
  /\ replacer' = [replacer EXCEPT ![p].pc = "push",
                                  ![p].deleted = Live(replacer[p].id)]
  /\ UNCHANGED <<row, outside, watchVars, toSpeedup, overdue, speedups, faults>>

\* The watcher that the map has for row i is cancelled.
Cancelled(i) ==
  [w \in AllWatchers |-> IF watching[i] = w
                         THEN [watcher[w] EXCEPT !.cancelled = TRUE]
                         ELSE watcher[w]]

\* Bound: there are as many replacements as rows left for them.
RowsLeft == Cardinality({p \in Replacers : replacer[p].pc = "commit"})
            < Cardinality({i \in Rows : row[i].state = "free"})

\* MpoolPush accepts the replacement while the nonce is unused.
TxPush(p) ==
  /\ replacer[p].pc = "push" /\ RowsLeft
  /\ row[replacer[p].id].nonce \notin landed
  /\ watcher' = Cancelled(replacer[p].id)
  /\ ReplacerAt(p, "commit")
  /\ UNCHANGED <<row, outside, watching, toWatch, toSpeedup, overdue, speedups,
                 faults>>

\* MpoolPush or the insert fails: rollback.
TxRefused(p) ==
  /\ replacer[p].pc = "push"
  /\ ReplacerDone(p)
  /\ UNCHANGED <<row, outside, watchVars, toSpeedup, overdue, speedups, faults>>

\* Mutant: the new message is a copy of the one just deleted, DeletedAt included.
CommittedCopy(p, new) ==
  LET old == replacer[p].id
  IN [row EXCEPT ![old].state = IF replacer[p].deleted THEN "deleted" ELSE @,
                 ![new] = [state |-> "deleted", nonce |-> row[old].nonce,
                           onChain |-> FALSE]]

\* Mutant: the old row is deleted last, whatever happened to it meanwhile.
CommittedDeletingLast(p, new) ==
  LET old == replacer[p].id
  IN [row EXCEPT ![old].state = "deleted",
                 ![new] = [state |-> "live", nonce |-> row[old].nonce,
                           onChain |-> FALSE]]

\* Mutant: the new message does not get the nonce.
CommittedWithoutNonce(p, new) ==
  LET old == replacer[p].id
  IN [row EXCEPT ![old].state = IF replacer[p].deleted THEN "deleted" ELSE @,
                 ![new] = [FreeRow EXCEPT !.state = "live"]]

\* Mutant: the DELETE is left out of the transaction.
CommittedAlongside(p, new) ==
  [row EXCEPT ![new] = [state |-> "live", nonce |-> row[replacer[p].id].nonce,
                        onChain |-> FALSE]]

CommittedRows(p, new) ==
  LET old == replacer[p].id
  IN [row EXCEPT ![old].state = IF replacer[p].deleted THEN "deleted" ELSE @,
                 ![new] = [state |-> "live", nonce |-> row[old].nonce,
                           onChain |-> FALSE]]

\* replaceMessageAndWait goes on with the replacement.
Following(new) == [IdleReplacer EXCEPT !.pc = "after", !.next = new]

TxCommit(p, new) ==
  /\ replacer[p].pc = "commit"
  /\ row[new].state = "free"
  /\ row' = CommittedRows(p, new)
  /\ IF p \in Speedups
     THEN replacer' = [replacer EXCEPT ![p] = Following(new)]
     ELSE ReplacerDone(p)
  /\ UNCHANGED <<outside, watchVars, toSpeedup, overdue, speedups, faults>>

CommitFails(p) ==
  /\ replacer[p].pc = "commit"
  /\ Fault
  /\ ReplacerDone(p)
  /\ UNCHANGED <<row, outside, watchVars, toSpeedup, overdue, speedups>>

-----------------------------------------------------------------------------
(* replaceMessageAndWait: the rest of a speedup *)

\* Reading the replacement back fails: it was itself replaced, or the query
\* returns an error.
FollowLost(p) ==
  /\ replacer[p].pc = "after"
  /\ ReplacerDone(p)
  /\ UNCHANGED <<row, outside, watchVars, toSpeedup, overdue, speedups, faults>>

FollowWatcher(p) ==
  /\ replacer[p].pc = "after"
  /\ Live(replacer[p].next)
  /\ watching[replacer[p].next] # NoWatcher
  /\ replacer' = [replacer EXCEPT ![p].pc = "waiting",
                                  ![p].waits = watching[replacer[p].next]]
  /\ UNCHANGED <<row, outside, watchVars, toSpeedup, overdue, speedups, faults>>

FollowItself(p) ==
  /\ replacer[p].pc = "after"
  /\ Live(replacer[p].next)
  /\ watching[replacer[p].next] = NoWatcher
  /\ replacer' = [replacer EXCEPT ![p].pc = "waiting", ![p].waits = p]
  /\ watcher' = Started(p, replacer[p].next)
  /\ UNCHANGED <<row, outside, watching, toWatch, toSpeedup, overdue, speedups,
                 faults>>

\* watchMessage returned, or Wait saw its channel closed or its row deleted.
FollowDone(p) ==
  /\ replacer[p].pc = "waiting"
  /\ LET w == replacer[p].waits
     IN IF w = p THEN watcher[w].pc = "idle"
        ELSE \/ watcher[w].id # replacer[p].next
             \/ watcher[w].cancelled
             \/ ~Live(replacer[p].next)
  /\ ReplacerDone(p)
  /\ UNCHANGED <<row, outside, watchVars, toSpeedup, overdue, speedups, faults>>

ReplacerStep(p) ==
  \/ ReplaceFind(p) \/ ReplaceGivesUp(p)
  \/ TxDelete(p) \/ TxPush(p) \/ TxRefused(p)
  \/ \E new \in Rows : TxCommit(p, new)
  \/ CommitFails(p)
  \/ FollowLost(p) \/ FollowWatcher(p) \/ FollowItself(p) \/ FollowDone(p)

-----------------------------------------------------------------------------
\* The process dies and starts again; an open transaction is rolled back.
CrashRestart ==
  /\ Fault
  /\ watching' = [i \in Rows |-> NoWatcher]
  /\ watcher' = [w \in AllWatchers |-> IdleWatcher]
  /\ toWatch' = {} /\ toSpeedup' = {} /\ overdue' = {}
  /\ replacer' = [p \in Replacers |-> IdleReplacer]
  /\ UNCHANGED <<row, outside, speedups>>

Init ==
  /\ row = [i \in Rows |-> FreeRow]
  /\ landed = {} /\ pending = {} /\ moves = 0
  /\ watching = [i \in Rows |-> NoWatcher]
  /\ watcher = [w \in AllWatchers |-> IdleWatcher]
  /\ toWatch = {} /\ toSpeedup = {} /\ overdue = {}
  /\ replacer = [p \in Replacers |-> IdleReplacer]
  /\ speedups = 0 /\ faults = 0

Next ==
  \/ \E n \in Nonces, i \in Rows : Publish(n, i)
  \/ \E n \in Nonces : Land(n) \/ RequestMoves(n)
  \/ CheckTick
  \/ \E i \in Rows : StillWatching(i)
  \/ \E i \in Rows, w \in Watchers : StartWatch(i, w)
  \/ \E w \in AllWatchers : WatcherStep(w)
  \/ SpeedupRequest
  \/ \E p \in Speedups, i \in Rows : SpeedupWorker(p, i)
  \/ PendingScan
  \/ \E i \in Rows : PendingReplace(i)
  \/ \E p \in Replacers : ReplacerStep(p)
  \/ CrashRestart

Spec == Init /\ [][Next]_vars

\* Tickers fire, goroutines are scheduled and calls to the node return.
Fairness ==
  /\ WF_vars(CheckTick)
  /\ WF_vars(\E i \in Rows : \/ StillWatching(i)
                            \/ \E w \in Watchers : StartWatch(i, w))
  /\ \A w \in AllWatchers : WF_vars(WatcherStep(w))
  /\ \A p \in Replacers : WF_vars(ReplacerStep(p))

FairSpec == Spec /\ Fairness

-----------------------------------------------------------------------------
(* Properties *)

WatcherState == [pc : {"idle", "read", "has", "set", "wait", "save", "exit"},
                 id : Rows \cup {NoRow}, cancelled : BOOLEAN]
ReplacerState ==
  [pc : {"idle", "find", "delete", "push", "commit", "after", "waiting"},
   id : Rows \cup {NoRow}, deleted : BOOLEAN, next : Rows \cup {NoRow},
   waits : AllWatchers \cup {NoWatcher}]

\* Every variable holds a value of its kind, and a row that is used has the
\* nonce of a published message.
TrackingTypeOK ==
  /\ row \in [Rows -> Row]
  /\ \A i \in Rows : row[i].state # "free" => row[i].nonce \in Nonces
  /\ landed \subseteq Nonces /\ pending \subseteq Nonces /\ moves \in 0..MaxMoves
  /\ watching \in [Rows -> AllWatchers \cup {NoWatcher}]
  /\ watcher \in [AllWatchers -> WatcherState]
  /\ toWatch \subseteq Rows /\ toSpeedup \subseteq Rows /\ overdue \subseteq Rows
  /\ replacer \in [Replacers -> ReplacerState]
  /\ speedups \in 0..MaxSpeedups /\ faults \in 0..MaxFaults

\* A published message is never dropped from its request: whatever replaces
\* it, concurrently or not, and wherever a transaction fails or the process
\* dies, its nonce has a row that the request still counts.
NonceKeepsARow ==
  \A n \in Nonces : (\E i \in Rows : row[i].nonce = n) => LiveRows(n) # {}

\* An entry of watchingMessages belongs to a goroutine that still runs and
\* will remove it; otherwise checkMessage would take the message for watched
\* for ever.
EntryHasWatcher ==
  \A i \in Rows : watching[i] # NoWatcher =>
    /\ watcher[watching[i]].id = i
    /\ watcher[watching[i]].pc \in {"wait", "save", "exit"}

\* What a receipt was recorded for stays recorded and counted: a replacement
\* that overlaps the landing of the message does not delete its row.
RecordedIsPermanent ==
  [][\A i \in Rows : Live(i) /\ row[i].onChain =>
       row'[i].state = "live" /\ row'[i].onChain]_vars

\* The row of a nonce is exchanged for another one.
OneForOne(n) ==
  \E old \in LiveRows(n), new \in Rows \ LiveRows(n) :
    LiveRows(n)' = (LiveRows(n) \ {old}) \cup {new}

\* Once published, the rows that a request counts for a nonce are exchanged one
\* for one, whoever replaces them and wherever it fails.  Only two late writers
\* add one, and the sectors of the message then count twice: a watcher that
\* saves the row after a replacement deleted it, and a replacement whose DELETE
\* came after that of another.
ExchangedOneForOne ==
  [][\A n \in Nonces :
       \/ LiveRows(n)' = LiveRows(n) \/ OneForOne(n)
       \/ LiveRows(n) = {} /\ \E i \in Rows : LiveRows(n)' = {i}
       \/ \E w \in AllWatchers : WatchSave(w) /\ ~Live(watcher[w].id)
       \/ \E p \in Replacers, new \in Rows : TxCommit(p, new) /\ ~replacer[p].deleted]_vars

\* Every row a request counts for nonce n is on chain.
Recorded(n) == LiveRows(n) # {} /\ \A i \in LiveRows(n) : row[i].onChain

\* Once a message landed, every row its request counts for it is eventually on
\* chain, for good, however often its watcher was cancelled, failed or died:
\* the request can finish.  The checker looks at pending requests only, so this
\* is owed to a request that does not leave pending for good while one of those
\* rows is not recorded.
LandedIsRecorded ==
  \A n \in Nonces :
    <>[](n \in pending \/ Recorded(n)) => (n \in landed ~> []Recorded(n))

-----------------------------------------------------------------------------
(* The inductive invariant behind the safety properties *)

\* A call of replaceMessage works on a row that was published; only a speedup
\* goes on to wait, for a row that was published too.
ReplacersSound ==
  /\ \A p \in Replacers : replacer[p].pc \in {"find", "delete", "push", "commit"} =>
       replacer[p].id \in Rows /\ row[replacer[p].id].state # "free"
  /\ \A p \in Replacers : replacer[p].pc = "commit" /\ replacer[p].deleted =>
       ~row[replacer[p].id].onChain
  /\ \A p \in Replacers : replacer[p].pc \in {"after", "waiting"} =>
       /\ p \in Speedups
       /\ replacer[p].next \in Rows /\ row[replacer[p].next].state # "free"

\* A busy watcher works on a published row; a speedup's own watcher runs only
\* while the speedup waits for itself.
WatchersSound ==
  /\ \A w \in AllWatchers : watcher[w].pc # "idle" =>
       watcher[w].id \in Rows /\ row[watcher[w].id].state # "free"
  /\ \A w \in AllWatchers : watcher[w].pc = "save" =>
       row[watcher[w].id].nonce \in landed
  /\ \A p \in Speedups : watcher[p].pc # "idle" =>
       replacer[p].pc = "waiting" /\ replacer[p].waits = p

\* The lists of ids still to be handled were read from the table.
ListsSound ==
  \A i \in toWatch \cup toSpeedup \cup overdue : row[i].state # "free"

\* What a transaction deleted is live until it commits: nobody else gets it.
DeletedIsLive ==
  \A p \in Replacers : replacer[p].pc \in {"push", "commit"} /\ replacer[p].deleted =>
    Live(replacer[p].id)

RecordedLanded == \A i \in Rows : row[i].onChain => row[i].nonce \in landed

\* Only one transaction at a time has deleted a row.
OneDeleter ==
  \A p, q \in Replacers :
    /\ {replacer[p].pc, replacer[q].pc} \subseteq {"push", "commit"}
    /\ replacer[p].id = replacer[q].id
    /\ replacer[p].deleted /\ replacer[q].deleted
    => p = q

TrackingInv ==
  /\ TrackingTypeOK
  /\ NonceKeepsARow
  /\ EntryHasWatcher
  /\ ReplacersSound
  /\ WatchersSound
  /\ ListsSound
  /\ RecordedLanded
  /\ OneDeleter
  /\ DeletedIsLive

-----------------------------------------------------------------------------
(* Refinement *)

Life == INSTANCE MessageLife WITH
  Messages <- Nonces,
  counted <- {n \in Nonces : LiveRows(n) # {}},
  recorded <- {n \in Nonces : \E i \in LiveRows(n) : row[i].onChain}

\* Replacements, overlapping transactions, upserts and restarts are invisible
\* to whoever counts nonces: none is dropped, and none loses its receipt.
TrackingImplementsLife == Life!LifeSpec

-----------------------------------------------------------------------------
(* What the documentation says and the code does not do *)

\* README.md:136 "succeeded_sectors ... Number of sectors successfully
\* renewed": AfterFind counts the sectors of a message that landed once.
SucceededSectorsExact ==
  \A n \in Nonces : Cardinality({i \in LiveRows(n) : row[i].onChain}) <= 1

=============================================================================
