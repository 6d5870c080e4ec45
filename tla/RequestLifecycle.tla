--------------------------- MODULE RequestLifecycle ---------------------------
(***************************************************************************)
(* The life of a renewal request: the requests and messages tables, the    *)
(* processor loop and its processRequest goroutines, the message checker   *)
(* loop and its checkMessage goroutines, the HTTP handlers that create and *)
(* update a request, and a crash of the service at any point.              *)
(*                                                                         *)
(* Every goroutine works on a copy of a row that it read earlier, and      *)
(* gorm's Save writes the whole copy back.  The copies are therefore part  *)
(* of the state: they are what makes one writer overwrite another.         *)
(***************************************************************************)
EXTENDS Naturals, FiniteSets

CONSTANTS
  Requests,    \* request ids
  Msgs,        \* messages the node can be asked to publish
  NoReq,       \* no request: a message not published yet, an idle goroutine
  Workers,     \* slots for processRequest goroutines
  Checkers,    \* slots for checkMessage goroutines
  Patchers,    \* slots for PATCH handlers
  Limits,      \* values of basefee_limit a client sends; 0 stands for null too
  BaseFees,    \* values of the network's base fee
  DryRuns,     \* values of dry_run a client sends
  MaxParams,   \* bound: messages planned by one call of extend
  MaxPatches,  \* bound: PATCH calls
  MaxFaults    \* bound: crashes, lost replies, failed saves, waits and ChainHead
               \* calls, together

ASSUME ConstantsAssumption ==
  /\ NoReq \notin Requests
  /\ Limits \subseteq Nat /\ 0 \in Limits
  /\ BaseFees \subseteq Nat
  /\ DryRuns \subseteq BOOLEAN
  /\ MaxParams \in Nat /\ MaxPatches \in Nat /\ MaxFaults \in Nat

VARIABLES
  db,          \* the requests table: one row per request id
  msg,         \* per message: who it was published for, its row, its receipt
  basefee,     \* the network's base fee
  found,       \* rows the processor read in this tick and has not dispatched
  processing,  \* processingRequests
  worker,      \* the processRequest goroutines
  pendingRows, \* rows the checker read in this tick, without their messages
  foundPending,\* the same with their messages, not dispatched yet
  checking,    \* checkingRequests
  checker,     \* the checkMessage goroutines
  watching,    \* messages with a watchMessage goroutine
  patcher,     \* the PATCH handlers
  patches,     \* PATCH calls so far
  faults       \* faults so far

tables == <<db, msg>>
processorVars == <<found, processing, worker>>
checkerLists == <<pendingRows, foundPending>>
checkerVars == <<checkerLists, checking, checker, watching>>
patchVars == <<patcher, patches>>
vars == <<tables, basefee, processorVars, checkerVars, patchVars, faults>>

-----------------------------------------------------------------------------
(* The rows *)

FinishedStatus == {"success", "failed", "partfailed"}
Status == {"absent", "created", "pending"} \cup FinishedStatus
Receipts == {"pending", "ok", "failed"}

\* The columns of Request that a goroutine decides on or writes.  err is
\* "Error is not empty"; every param counts as one sector in published.
Row == [status : Status, limit : Nat, dryRun : BOOLEAN, err : BOOLEAN,
        published : Nat]
NoRow == [status |-> "absent", limit |-> 0, dryRun |-> FALSE, err |-> FALSE,
          published |-> 0]

\* req: the request it was published for.  linked: it has a row with that
\* request_id.  receipt: OnChain and ExitCode as stored.
MsgState == [req : Requests \cup {NoReq}, linked : BOOLEAN, receipt : Receipts]
Unpublished == [req |-> NoReq, linked |-> FALSE, receipt |-> "pending"]

Finished(row) == row.status \in FinishedStatus

\* What Preload(clause.Associations) returns for request r.
Linked(r) == {m \in Msgs : msg[m].req = r /\ msg[m].linked}
View(r) == [m \in Linked(r) |-> msg[m].receipt]
NoView == [m \in {} |-> "pending"]

IdleWorker == [pc |-> "idle", id |-> NoReq, row |-> NoRow, todo |-> 0,
               sent |-> {}, published |-> 0, err |-> FALSE]
IdleChecker == [pc |-> "idle", id |-> NoReq, row |-> NoRow, view |-> NoView]
IdlePatcher == [pc |-> "idle", id |-> NoReq, row |-> NoRow, limit |-> 0]

-----------------------------------------------------------------------------
(* HTTP handlers *)

\* POST /requests
CreateRequest(r) ==
  /\ db[r].status = "absent"
  /\ \E l \in Limits, d \in DryRuns :
       db' = [db EXCEPT ![r] = [NoRow EXCEPT !.status = "created",
                                             !.limit = l, !.dryRun = d]]
  /\ UNCHANGED <<msg, basefee, processorVars, checkerVars, patchVars, faults>>

\* PATCH /requests/{id}: read the row, refuse a finished one ...
UpdateRead(p, r) ==
  /\ patcher[p].pc = "idle"
  /\ patches < MaxPatches
  /\ db[r].status # "absent"
  /\ ~Finished(db[r])
  /\ \E l \in Limits :
       patcher' = [patcher EXCEPT ![p] = [pc |-> "save", id |-> r,
                                          row |-> db[r], limit |-> l]]
  /\ patches' = patches + 1
  /\ UNCHANGED <<tables, basefee, processorVars, checkerVars, faults>>

\* ... and write the whole row back with the new limit.
PatchedRow(p) == [patcher[p].row EXCEPT !.limit = patcher[p].limit]

UpdateSave(p) ==
  /\ patcher[p].pc = "save"
  /\ db' = [db EXCEPT ![patcher[p].id] = PatchedRow(p)]
  /\ patcher' = [patcher EXCEPT ![p] = IdlePatcher]
  /\ UNCHANGED <<msg, basefee, processorVars, checkerVars, patches, faults>>

UpdateFails(p) ==
  /\ patcher[p].pc = "save"
  /\ patcher' = [patcher EXCEPT ![p] = IdlePatcher]
  /\ UNCHANGED <<tables, basefee, processorVars, checkerVars, patches, faults>>

-----------------------------------------------------------------------------
(* The processor loop *)

ProcessorTick ==
  /\ found = {}
  /\ found' = {[id |-> r, row |-> db[r]] :
                 r \in {q \in Requests : db[q].status = "created"}}
  /\ UNCHANGED <<tables, basefee, processing, worker, checkerVars, patchVars,
                 faults>>

\* Mutant: the loop does not ask whether the request is being processed.
InFlightUnchecked(r) == FALSE

InFlight(r) == r \in processing

ProcessorSkip(s) ==
  /\ s \in found
  /\ InFlight(s.id)
  /\ found' = found \ {s}
  /\ UNCHANGED <<tables, basefee, processing, worker, checkerVars, patchVars,
                 faults>>

\* The goroutine gets the copy of the row read by the tick.
ProcessorLaunch(s, w) ==
  /\ s \in found
  /\ ~InFlight(s.id)
  /\ worker[w].pc = "idle"
  /\ found' = found \ {s}
  /\ processing' = processing \cup {s.id}
  /\ worker' = [worker EXCEPT ![w] = [IdleWorker EXCEPT !.pc = "basefee",
                                        !.id = s.id, !.row = s.row]]
  /\ UNCHANGED <<tables, basefee, checkerVars, patchVars, faults>>

-----------------------------------------------------------------------------
(* processRequest, with the publishing loop of extend *)

Moved(w, state) ==
  /\ worker' = [worker EXCEPT ![w] = state]
  /\ UNCHANGED <<found, processing>>

LimitAllows(row) == row.limit = 0 \/ basefee <= row.limit

\* Above the limit the request stays as it is.
CheckBasefee(w) ==
  /\ worker[w].pc = "basefee"
  /\ Moved(w, [worker[w] EXCEPT
                 !.pc = IF LimitAllows(worker[w].row) THEN "extend" ELSE "done"])
  /\ UNCHANGED <<tables, basefee, checkerVars, patchVars, faults>>

\* ChainHead fails; asked only when there is a limit.
BasefeeUnknown(w) ==
  /\ worker[w].pc = "basefee"
  /\ worker[w].row.limit # 0
  /\ faults < MaxFaults
  /\ faults' = faults + 1
  /\ Moved(w, [worker[w] EXCEPT !.pc = "done"])
  /\ UNCHANGED <<tables, basefee, checkerVars, patchVars>>

\* extend up to its publishing loop: an error, nothing to extend, or params.
PlanExtend(w) ==
  /\ worker[w].pc = "extend"
  /\ \E e \in BOOLEAN, n \in 0..MaxParams :
       /\ e => n = 0
       /\ Moved(w, [worker[w] EXCEPT !.pc = "params", !.err = e, !.todo = n])
  /\ UNCHANGED <<tables, basefee, checkerVars, patchVars, faults>>

\* Counting, encoding or MpoolPushMessage fails: noted in errMsgs.
ParamFails(w) ==
  /\ worker[w].pc = "params" /\ worker[w].todo > 0
  /\ Moved(w, [worker[w] EXCEPT !.todo = @ - 1, !.err = TRUE])
  /\ UNCHANGED <<tables, basefee, checkerVars, patchVars, faults>>

\* Mutant: the loop over params does not advance after a dry run.
BuiltDryRunAgain(w) == [worker[w] EXCEPT !.published = @ + 1]

BuiltDryRun(w) == [worker[w] EXCEPT !.todo = @ - 1, !.published = @ + 1]

DryRunParam(w) ==
  /\ worker[w].pc = "params" /\ worker[w].todo > 0
  /\ worker[w].row.dryRun
  /\ Moved(w, BuiltDryRun(w))
  /\ UNCHANGED <<tables, basefee, checkerVars, patchVars, faults>>

\* Mutant: no "continue" after building the dry run.
PublishesAlways(w) == TRUE

Publishes(w) == ~worker[w].row.dryRun

\* MpoolPushMessage succeeds.  The row that db.Create(msg) then makes, or
\* fails to make, has no request_id: Preload finds it only once it is linked.
PushMessage(w, m) ==
  /\ worker[w].pc = "params" /\ worker[w].todo > 0
  /\ Publishes(w)
  /\ msg[m].req = NoReq
  /\ msg' = [msg EXCEPT ![m].req = worker[w].id]
  /\ Moved(w, [worker[w] EXCEPT !.todo = @ - 1, !.published = @ + 1,
                                !.sent = @ \cup {m}])
  /\ UNCHANGED <<db, basefee, checkerVars, patchVars, faults>>

\* The node has the message, and the call returns an error: for extend the
\* param failed, and nobody has the message's cid.
PushReplyLost(w, m) ==
  /\ worker[w].pc = "params" /\ worker[w].todo > 0
  /\ Publishes(w)
  /\ msg[m].req = NoReq
  /\ faults < MaxFaults
  /\ faults' = faults + 1
  /\ msg' = [msg EXCEPT ![m].req = worker[w].id]
  /\ Moved(w, [worker[w] EXCEPT !.todo = @ - 1, !.err = TRUE])
  /\ UNCHANGED <<db, basefee, checkerVars, patchVars>>

\* Mutant: a run that published nothing counts as one only if it failed.
NothingPublishedAndFailed(w) == worker[w].published = 0 /\ worker[w].err

NothingPublished(w) == worker[w].published = 0

\* The row processRequest saves.
ProcessedRow(w) ==
  LET row == worker[w].row  err == worker[w].err
      status == IF NothingPublished(w)
                THEN IF err THEN "failed" ELSE "success"
                ELSE IF ~row.dryRun THEN "pending"
                ELSE IF err THEN "partfailed" ELSE "success"
  IN [row EXCEPT !.status = status, !.err = @ \/ err,
                 !.published = IF NothingPublished(w) THEN @
                               ELSE worker[w].published]

\* Mutant: messages are attached only when extend returned no error.
LinkMessagesUnlessError(w) ==
  [m \in Msgs |-> IF m \in worker[w].sent /\ ~worker[w].err
                  THEN [msg[m] EXCEPT !.linked = TRUE] ELSE msg[m]]

\* Mutant: the association is replaced instead of appended to.
ReplaceMessages(w) ==
  [m \in Msgs |-> IF msg[m].req = worker[w].id
                  THEN [msg[m] EXCEPT !.linked = m \in worker[w].sent]
                  ELSE msg[m]]

\* Saving the association creates missing rows and sets request_id; it
\* never detaches the messages of an earlier run.
LinkMessages(w) ==
  [m \in Msgs |-> IF m \in worker[w].sent
                  THEN [msg[m] EXCEPT !.linked = TRUE] ELSE msg[m]]

SaveProcessed(w) ==
  /\ worker[w].pc = "params" /\ worker[w].todo = 0
  /\ db' = [db EXCEPT ![worker[w].id] = ProcessedRow(w)]
  /\ msg' = LinkMessages(w)
  /\ Moved(w, [worker[w] EXCEPT !.pc = "done"])
  /\ UNCHANGED <<basefee, checkerVars, patchVars, faults>>

\* The transaction of Save fails; the error is only logged.
SaveProcessedFails(w) ==
  /\ worker[w].pc = "params" /\ worker[w].todo = 0
  /\ faults < MaxFaults
  /\ faults' = faults + 1
  /\ Moved(w, [worker[w] EXCEPT !.pc = "done"])
  /\ UNCHANGED <<tables, basefee, checkerVars, patchVars>>

\* Mutant: the deferred Delete is missing.
NeverReleased(r) == processing

Released(r) == processing \ {r}

\* The deferred processingRequests.Delete.
FinishWorker(w) ==
  /\ worker[w].pc = "done"
  /\ processing' = Released(worker[w].id)
  /\ worker' = [worker EXCEPT ![w] = IdleWorker]
  /\ UNCHANGED <<tables, basefee, found, checkerVars, patchVars, faults>>

WorkerStep(w) ==
  \/ CheckBasefee(w)
  \/ BasefeeUnknown(w)
  \/ PlanExtend(w)
  \/ ParamFails(w)
  \/ DryRunParam(w)
  \/ \E m \in Msgs : PushMessage(w, m) \/ PushReplyLost(w, m)
  \/ SaveProcessed(w)
  \/ SaveProcessedFails(w)
  \/ FinishWorker(w)

-----------------------------------------------------------------------------
(* The message checker loop and checkMessage *)

\* Mutant: the checker takes failed requests up again.
ToCheckOrRetry(r) == db[r].status \in {"pending", "failed"}

ToCheck(r) == db[r].status = "pending"

\* Preload makes two queries: the pending rows ...
CheckerTick ==
  /\ pendingRows = {} /\ foundPending = {}
  /\ pendingRows' = {[id |-> r, row |-> db[r]] :
                       r \in {q \in Requests : ToCheck(q)}}
  /\ UNCHANGED <<tables, basefee, processorVars, foundPending, checking,
                 checker, watching, patchVars, faults>>

\* ... and later the messages linked to them by then.
CheckerPreload ==
  /\ pendingRows # {}
  /\ pendingRows' = {}
  /\ foundPending' = {[id |-> s.id, row |-> s.row, view |-> View(s.id)] :
                        s \in pendingRows}
  /\ UNCHANGED <<tables, basefee, processorVars, checking, checker, watching,
                 patchVars, faults>>

CheckerSkip(s) ==
  /\ s \in foundPending
  /\ s.id \in checking
  /\ foundPending' = foundPending \ {s}
  /\ UNCHANGED <<tables, basefee, processorVars, pendingRows, checking, checker,
                 watching, patchVars, faults>>

CheckerLaunch(s, c) ==
  /\ s \in foundPending
  /\ s.id \notin checking
  /\ checker[c].pc = "idle"
  /\ foundPending' = foundPending \ {s}
  /\ checking' = checking \cup {s.id}
  /\ checker' = [checker EXCEPT ![c] = [pc |-> "check", id |-> s.id,
                                        row |-> s.row, view |-> s.view]]
  /\ UNCHANGED <<tables, basefee, processorVars, pendingRows, watching,
                 patchVars, faults>>

\* Mutant: one message on chain is taken for all.
SomeOnChain(view) == \E m \in DOMAIN view : view[m] # "pending"

AllOnChain(view) == \A m \in DOMAIN view : view[m] # "pending"

\* Some message of the copy is not on chain: watch each of those.
CheckWatch(c) ==
  /\ checker[c].pc = "check"
  /\ ~AllOnChain(checker[c].view)
  /\ watching' = watching \cup
       {m \in DOMAIN checker[c].view : checker[c].view[m] = "pending"}
  /\ checker' = [checker EXCEPT ![c].pc = "done"]
  /\ UNCHANGED <<tables, basefee, processorVars, checkerLists, checking,
                 patchVars, faults>>

\* Mutant: the verdict looks at the messages only, not at the stored error.
CheckedRowByMessages(c) ==
  LET view == checker[c].view
      failures == {m \in DOMAIN view : view[m] = "failed"}
  IN [checker[c].row EXCEPT
        !.status = IF failures = {} THEN "success"
                   ELSE IF failures = DOMAIN view THEN "failed"
                   ELSE "partfailed",
        !.err = @ \/ failures # {}]

\* The row checkMessage saves when every message is on chain.
CheckedRow(c) ==
  LET row == checker[c].row
      failures == {m \in DOMAIN checker[c].view : checker[c].view[m] = "failed"}
      status == IF failures = {}
                THEN IF row.err THEN "partfailed" ELSE "success"
                ELSE IF failures = DOMAIN checker[c].view THEN "failed"
                     ELSE "partfailed"
  IN [row EXCEPT !.status = status, !.err = @ \/ failures # {}]

CheckSave(c) ==
  /\ checker[c].pc = "check"
  /\ AllOnChain(checker[c].view)
  /\ db' = [db EXCEPT ![checker[c].id] = CheckedRow(c)]
  /\ checker' = [checker EXCEPT ![c].pc = "done"]
  /\ UNCHANGED <<msg, basefee, processorVars, checkerLists, checking, watching,
                 patchVars, faults>>

CheckSaveFails(c) ==
  /\ checker[c].pc = "check"
  /\ AllOnChain(checker[c].view)
  /\ faults < MaxFaults
  /\ faults' = faults + 1
  /\ checker' = [checker EXCEPT ![c].pc = "done"]
  /\ UNCHANGED <<tables, basefee, processorVars, checkerLists, checking,
                 watching, patchVars>>

FinishChecker(c) ==
  /\ checker[c].pc = "done"
  /\ checking' = checking \ {checker[c].id}
  /\ checker' = [checker EXCEPT ![c] = IdleChecker]
  /\ UNCHANGED <<tables, basefee, processorVars, checkerLists, watching,
                 patchVars, faults>>

CheckerStep(c) ==
  \/ CheckWatch(c)
  \/ CheckSave(c)
  \/ CheckSaveFails(c)
  \/ FinishChecker(c)

\* watchMessage as the checker relies on it (MessageTracking has its steps):
\* the receipt is a fact of the chain, the same for every watcher.
ReceiptOf(m) == IF msg[m].receipt = "pending" THEN {"ok", "failed"}
                ELSE {msg[m].receipt}

WatchRecords(m) ==
  /\ m \in watching
  /\ \E e \in ReceiptOf(m) : msg' = [msg EXCEPT ![m].receipt = e]
  /\ watching' = watching \ {m}
  /\ UNCHANGED <<db, basefee, processorVars, checkerLists, checking, checker,
                 patchVars, faults>>

WatchFails(m) ==
  /\ m \in watching
  /\ faults < MaxFaults
  /\ faults' = faults + 1
  /\ watching' = watching \ {m}
  /\ UNCHANGED <<tables, basefee, processorVars, checkerLists, checking,
                 checker, patchVars>>

-----------------------------------------------------------------------------
(* The environment *)

BasefeeMoves ==
  /\ basefee' \in BaseFees
  /\ UNCHANGED <<tables, processorVars, checkerVars, patchVars, faults>>

\* The process dies and NewService starts again: only the tables remain.
CrashRestart ==
  /\ faults < MaxFaults
  /\ faults' = faults + 1
  /\ found' = {} /\ processing' = {}
  /\ worker' = [w \in Workers |-> IdleWorker]
  /\ pendingRows' = {} /\ foundPending' = {}
  /\ checking' = {} /\ watching' = {}
  /\ checker' = [c \in Checkers |-> IdleChecker]
  /\ patcher' = [p \in Patchers |-> IdlePatcher]
  /\ UNCHANGED <<tables, basefee, patches>>

-----------------------------------------------------------------------------
Init ==
  /\ db = [r \in Requests |-> NoRow]
  /\ msg = [m \in Msgs |-> Unpublished]
  /\ basefee \in BaseFees
  /\ found = {} /\ processing = {}
  /\ worker = [w \in Workers |-> IdleWorker]
  /\ pendingRows = {} /\ foundPending = {}
  /\ checking = {} /\ watching = {}
  /\ checker = [c \in Checkers |-> IdleChecker]
  /\ patcher = [p \in Patchers |-> IdlePatcher]
  /\ patches = 0
  /\ faults = 0

Next ==
  \/ \E r \in Requests : CreateRequest(r)
  \/ \E p \in Patchers, r \in Requests : UpdateRead(p, r)
  \/ \E p \in Patchers : UpdateSave(p) \/ UpdateFails(p)
  \/ ProcessorTick
  \/ \E s \in found : ProcessorSkip(s)
  \/ \E s \in found, w \in Workers : ProcessorLaunch(s, w)
  \/ \E w \in Workers : WorkerStep(w)
  \/ CheckerTick
  \/ CheckerPreload
  \/ \E s \in foundPending : CheckerSkip(s)
  \/ \E s \in foundPending, c \in Checkers : CheckerLaunch(s, c)
  \/ \E c \in Checkers : CheckerStep(c)
  \/ \E m \in Msgs : WatchRecords(m) \/ WatchFails(m)
  \/ BasefeeMoves
  \/ CrashRestart

Spec == Init /\ [][Next]_vars

\* The tickers fire, goroutines are scheduled, handlers return, and a message
\* that is waited for gets its receipt.  Clients, the base fee and faults owe
\* nothing.
Fairness ==
  /\ WF_vars(ProcessorTick)
  /\ WF_vars(\E s \in found : ProcessorSkip(s)
                \/ \E w \in Workers : ProcessorLaunch(s, w))
  /\ \A w \in Workers : WF_vars(WorkerStep(w))
  /\ WF_vars(CheckerTick)
  /\ WF_vars(CheckerPreload)
  /\ WF_vars(\E s \in foundPending : CheckerSkip(s)
                \/ \E c \in Checkers : CheckerLaunch(s, c))
  /\ \A c \in Checkers : WF_vars(CheckerStep(c))
  /\ \A m \in Msgs : WF_vars(WatchRecords(m))
  /\ \A p \in Patchers : WF_vars(UpdateSave(p) \/ UpdateFails(p))

FairSpec == Spec /\ Fairness

-----------------------------------------------------------------------------
(* Properties *)

WorkerState == [pc : {"idle", "basefee", "extend", "params", "done"},
                id : Requests \cup {NoReq}, row : Row, todo : 0..MaxParams,
                sent : SUBSET Msgs, published : 0..MaxParams, err : BOOLEAN]
Views == UNION {[S -> Receipts] : S \in SUBSET Msgs}
CheckerState == [pc : {"idle", "check", "done"}, id : Requests \cup {NoReq},
                 row : Row, view : Views]
PatcherState == [pc : {"idle", "save"}, id : Requests \cup {NoReq}, row : Row,
                 limit : Nat]

\* Every variable holds a value of its kind; a goroutine's counters stay
\* within what one call of extend plans.
TypeOK ==
  /\ db \in [Requests -> Row]
  /\ msg \in [Msgs -> MsgState]
  /\ basefee \in BaseFees
  /\ found \subseteq [id : Requests, row : Row]
  /\ processing \subseteq Requests
  /\ worker \in [Workers -> WorkerState]
  /\ pendingRows \subseteq [id : Requests, row : Row]
  /\ foundPending \subseteq [id : Requests, row : Row, view : Views]
  /\ checking \subseteq Requests
  /\ checker \in [Checkers -> CheckerState]
  /\ watching \subseteq Msgs
  /\ patcher \in [Patchers -> PatcherState]
  /\ patches \in 0..MaxPatches
  /\ faults \in 0..MaxFaults

BusyWorkers == {w \in Workers : worker[w].pc # "idle"}
BusyCheckers == {c \in Checkers : checker[c].pc # "idle"}

\* processingRequests and checkingRequests do their job: no request is ever
\* worked on by two processRequest goroutines, nor by two checkMessage
\* goroutines, although the loops dispatch rows read before earlier
\* goroutines saved and left.
OneGoroutinePerRequest ==
  /\ \A v, w \in BusyWorkers : worker[v].id = worker[w].id => v = w
  /\ \A b, c \in BusyCheckers : checker[b].id = checker[c].id => b = c

HasMessages(r) == \E m \in Msgs : msg[m].req = r /\ msg[m].linked

\* A pending request has a message to wait for: checkMessage would call a
\* request without messages a success at once.
PendingHasMessages ==
  \A r \in Requests : db[r].status = "pending" => HasMessages(r)

\* No message is published for a dry run, on any path that reprocesses it.
DryRunNeverPublishes ==
  \A m \in Msgs : msg[m].req # NoReq => ~db[msg[m].req].dryRun

\* Without faults no published message is forgotten: it is linked to its
\* request, or the goroutine that published it still runs and will link it,
\* even if the row was overwritten or the request processed twice.
PublishedIsTracked ==
  faults = 0 =>
    \A m \in Msgs : msg[m].req # NoReq =>
      \/ msg[m].linked
      \/ \E w \in BusyWorkers : m \in worker[w].sent

\* Messages published for request r that no request counts and nobody will
\* link: no row that Preload finds, no goroutine that still has them.
Forgotten(r) ==
  {m \in Msgs : /\ msg[m].req = r /\ ~msg[m].linked
                /\ \A w \in Workers :
                     m \in worker[w].sent => worker[w].pc # "params"}

\* Each fault (a crash between MpoolPushMessage and Save, a Save that fails, a
\* lost reply) costs a request at most the messages of one run of extend,
\* though the request is still created and is processed, and its sectors
\* published, again.
ForgottenBounded ==
  \A r \in Requests : Cardinality(Forgotten(r)) <= faults * MaxParams

\* What row says was published for request r is linked to r.  A dry run
\* reports what it would have published.
Backed(r, row) == ~row.dryRun => row.published <= Cardinality(Linked(r))

\* published_sectors never overstates what was published for the request: when
\* two runs overlap or a copy is saved late it may report too little (see
\* PublishedSectorsExact), but never more than its messages account for.
PublishedNotOverstated == \A r \in Requests : Backed(r, db[r])

\* This very step saves request r from a copy of the row that is out of date:
\* somebody else has saved the row since the goroutine's copy was read.
StaleSave(r) ==
  \/ \E w \in Workers :
       SaveProcessed(w) /\ worker[w].id = r /\ worker[w].row # db[r]
  \/ \E c \in Checkers :
       CheckSave(c) /\ checker[c].id = r /\ checker[c].row # db[r]
  \/ \E p \in Patchers :
       UpdateSave(p) /\ patcher[p].id = r /\ patcher[p].row # db[r]

LegalMoves == {<<"absent", "created">>}
              \cup ({"created"} \X ({"pending"} \cup FinishedStatus))
              \cup ({"pending"} \X FinishedStatus)

\* The status of a request only moves forward, created to pending to
\* finished, except in a step that itself saves an out-of-date copy:
\* overlapping whole-row saves are the only source of an illegal move.
IllegalOnlyByStaleSave ==
  [][\A r \in Requests :
       \/ db'[r].status = db[r].status
       \/ <<db[r].status, db'[r].status>> \in LegalMoves
       \/ StaleSave(r)]_vars

\* The messages of request r whose success is recorded.
Succeeded(r) == {m \in Linked(r) : msg[m].receipt = "ok"}

\* A request becomes a success in two ways only, whatever the age of the
\* copies it is decided on.  Either a run of extend without an error
\* published nothing (or was dry), or checkMessage saw messages, every one of
\* them linked to the request and on chain with exit code Ok, and the
\* successful messages cover what the saved row says was published.  What
\* another run linked after the messages were read is not weighed.
SuccessIsEarned ==
  [][\A r \in Requests :
       db[r].status # "success" /\ db'[r].status = "success" =>
         \/ \E w \in Workers :
              /\ SaveProcessed(w) /\ worker[w].id = r
              /\ ~worker[w].err /\ worker[w].sent = {}
         \/ \E c \in Checkers :
              /\ CheckSave(c) /\ checker[c].id = r
              /\ DOMAIN checker[c].view # {}
              /\ DOMAIN checker[c].view \subseteq Succeeded(r)
              /\ db'[r].published <= Cardinality(Succeeded(r))]_vars

\* An error stored for a request is lost, and a request with one becomes a
\* success, only in a step that saves an out-of-date copy: checkMessage and
\* PATCH carry on the error of a run of extend that failed in part.
ErrorIsKept ==
  [][\A r \in Requests :
       db[r].err =>
         \/ db'[r].err /\ db'[r].status # "success"
         \/ StaleSave(r)]_vars

\* A linked message stays linked and a stored receipt stays as it is,
\* through reprocessing, overwrites of the request and restarts.
ReceiptsArePermanent ==
  [][\A m \in Msgs :
       msg[m].linked =>
         /\ msg'[m].linked
         /\ msg[m].receipt # "pending" => msg'[m].receipt = msg[m].receipt]_vars

\* Once clients stop patching and faults stop, a request whose limit the base
\* fee respects from some time on finishes and stays finished: neither the
\* maps of running goroutines nor a lost update strands it.
FinishedForGood ==
  \A r \in Requests :
    <>[]LimitAllows(db[r]) => <>[](db[r].status = "absent" \/ Finished(db[r]))

-----------------------------------------------------------------------------
(* The inductive invariant behind the safety properties *)

RowSound(row) ==
  /\ row.status \in {"absent", "created", "success"} => ~row.err
  /\ row.status = "pending" => ~row.dryRun

\* A copy may be out of date, but it is the copy of a request that exists,
\* that never becomes or stops being a dry run, and whose messages stay.
CopySound(r, row) ==
  /\ r \in Requests
  /\ RowSound(row)
  /\ row.status # "absent" /\ db[r].status # "absent"
  /\ row.dryRun = db[r].dryRun
  /\ row.status = "pending" => HasMessages(r)

\* A copy of the messages of r has some, and messages linked to r only; a
\* receipt in it is the stored one, once there is one.
ViewSound(r, v) ==
  /\ DOMAIN v # {}
  /\ \A m \in DOMAIN v :
       /\ msg[m].req = r /\ msg[m].linked
       /\ v[m] # "pending" => v[m] = msg[m].receipt

WorkerSound(w) ==
  /\ CopySound(worker[w].id, worker[w].row)
  /\ worker[w].row.status = "created"
  /\ \A m \in worker[w].sent : msg[m].req = worker[w].id
  /\ worker[w].pc \in {"basefee", "extend"} =>
       worker[w].sent = {}
  /\ ~worker[w].row.dryRun /\ worker[w].published # 0 => worker[w].sent # {}
  /\ worker[w].pc = "done" /\ faults = 0 =>
       \A m \in worker[w].sent : msg[m].linked

CheckerSound(c) ==
  /\ CopySound(checker[c].id, checker[c].row)
  /\ checker[c].row.status = "pending"
  /\ ViewSound(checker[c].id, checker[c].view)

TablesSound ==
  /\ \A r \in Requests : RowSound(db[r])
  /\ \A m \in Msgs : msg[m].req # NoReq =>
       db[msg[m].req].status # "absent" /\ ~db[msg[m].req].dryRun

CopiesSound ==
  /\ \A s \in found : CopySound(s.id, s.row) /\ s.row.status = "created"
  /\ \A w \in BusyWorkers : WorkerSound(w)
  /\ \A s \in pendingRows : CopySound(s.id, s.row) /\ s.row.status = "pending"
  /\ \A s \in foundPending : /\ CopySound(s.id, s.row)
                             /\ s.row.status = "pending"
                             /\ ViewSound(s.id, s.view)
  /\ \A c \in BusyCheckers : CheckerSound(c)
  /\ \A p \in Patchers : patcher[p].pc = "save" =>
       CopySound(patcher[p].id, patcher[p].row) /\ ~Finished(patcher[p].row)

\* Only messages that a request counts are watched.
WatchingSound == \A m \in watching : msg[m].linked

\* The two maps hold exactly the requests being worked on.
MapsExact ==
  /\ \A w \in BusyWorkers : worker[w].id \in processing
  /\ \A c \in BusyCheckers : checker[c].id \in checking

\* A run of extend publishes no more messages than it planned.
CountersBounded ==
  \A w \in Workers :
    /\ worker[w].todo + worker[w].published <= MaxParams
    /\ worker[w].pc \in {"basefee", "extend"} => worker[w].published = 0

IInv ==
  /\ TypeOK
  /\ CountersBounded
  /\ OneGoroutinePerRequest
  /\ PendingHasMessages
  /\ PublishedIsTracked
  /\ TablesSound
  /\ CopiesSound
  /\ WatchingSound
  /\ MapsExact

\* What a goroutine counts as published it holds, and will link.
SentReported ==
  \A w \in Workers :
    /\ IsFiniteSet(worker[w].sent)
    /\ ~worker[w].row.dryRun => worker[w].published <= Cardinality(worker[w].sent)

\* Every copy of a row reports only what is linked, like the row itself, and
\* a copy read together with messages only what those account for.
ReportInv ==
  /\ SentReported
  /\ \A r \in Requests : IsFiniteSet(Linked(r)) /\ Backed(r, db[r])
  /\ \A s \in found \cup pendingRows : Backed(s.id, s.row)
  /\ \A s \in foundPending : s.row.published <= Cardinality(DOMAIN s.view)
  /\ \A w \in BusyWorkers : Backed(worker[w].id, worker[w].row)
  /\ \A c \in BusyCheckers :
       checker[c].row.published <= Cardinality(DOMAIN checker[c].view)
  /\ \A p \in Patchers :
       patcher[p].pc = "save" => Backed(patcher[p].id, patcher[p].row)

-----------------------------------------------------------------------------
(* Refinement *)

Life == INSTANCE MessageLife WITH
  Messages <- Msgs,
  counted <- {m \in Msgs : msg[m].linked},
  recorded <- {m \in Msgs : msg[m].receipt # "pending"}

\* Requests are processed twice, overwritten and restarted; what they count
\* only grows, and a receipt is recorded only for a message they count.
LifecycleImplementsLife == Life!LifeSpec

-----------------------------------------------------------------------------
(* What the documentation says and the code does not do *)

\* README.md:243 "Only not started requests can be updated": a PATCH is
\* accepted only for a request still in status created.
OnlyNotStartedUpdated ==
  \A p \in Patchers :
    patcher[p].pc = "save" => patcher[p].row.status = "created"

\* README.md:135 "published_sectors ... Number of sectors actually published
\* on-chain": a pending request that no goroutine processes reports what was
\* published for it.
PublishedSectorsExact ==
  \A r \in Requests : db[r].status = "pending" /\ r \notin processing =>
    db[r].published = Cardinality({m \in Msgs : msg[m].req = r})

\* README.md:97 "Only push messages when the network basefee is below this
\* value": a message is published only then.
PushedBelowLimit ==
  [][\A m \in Msgs :
       msg[m].req = NoReq /\ msg'[m].req # NoReq =>
         LET limit == db[msg'[m].req].limit
         IN limit = 0 \/ basefee < limit]_vars

=============================================================================
