----------------------- MODULE RequestLifecycle_proofs ------------------------
(***************************************************************************)
(* Proofs of the safety properties of RequestLifecycle, for any number of  *)
(* requests, messages, goroutines, patches and faults.                     *)
(***************************************************************************)
EXTENDS RequestLifecycle, TLAPS, FiniteSetTheorems

TypeInv == TypeOK /\ CountersBounded

\* The initial rows and the idle goroutines have their types.
LEMMA InitialTypes ==
  /\ NoRow \in Row
  /\ Unpublished \in MsgState
  /\ IdleWorker \in WorkerState
  /\ IdleChecker \in CheckerState
  /\ IdlePatcher \in PatcherState
<1>1. NoRow \in Row
  BY DEF NoRow, Row, Status
<1>2. Unpublished \in MsgState
  BY DEF Unpublished, MsgState, Receipts
<1>3. IdleWorker \in WorkerState
  BY <1>1, ConstantsAssumption DEF IdleWorker, WorkerState
<1>4. NoView \in Views
  <2>1. NoView \in [{} -> Receipts]
    BY DEF NoView
  <2>2. {} \in SUBSET Msgs
    OBVIOUS
  <2> QED BY <2>1, <2>2 DEF Views
<1>5. IdleChecker \in CheckerState
  BY <1>1, <1>4 DEF IdleChecker, CheckerState
<1>6. IdlePatcher \in PatcherState
  BY <1>1 DEF IdlePatcher, PatcherState
<1> QED BY <1>1, <1>2, <1>3, <1>5, <1>6

\* The initial state has the types.
LEMMA TypeInit == Init => TypeInv
<1> SUFFICES ASSUME Init PROVE TypeInv
  OBVIOUS
<1>1. TypeOK
  BY InitialTypes, ConstantsAssumption DEF Init, TypeOK
<1>2. CountersBounded
  BY ConstantsAssumption DEF Init, CountersBounded, IdleWorker
<1> QED BY <1>1, <1>2 DEF TypeInv

\* What the steps of a goroutine make of its state.
LEMMA WorkerMoves ==
  ASSUME NEW s \in WorkerState
  PROVE  /\ [s EXCEPT !.pc = "done"] \in WorkerState
         /\ \A e \in BOOLEAN, n \in 0..MaxParams :
              [s EXCEPT !.pc = "params", !.err = e, !.todo = n] \in WorkerState
         /\ s.todo > 0 =>
              /\ [s EXCEPT !.todo = @ - 1, !.err = TRUE] \in WorkerState
              /\ s.todo + s.published <= MaxParams =>
                   [s EXCEPT !.todo = @ - 1, !.published = @ + 1] \in WorkerState
              /\ s.todo + s.published <= MaxParams => \A m \in Msgs :
                   [s EXCEPT !.todo = @ - 1, !.published = @ + 1,
                             !.sent = @ \cup {m}] \in WorkerState
<1> USE ConstantsAssumption
<1>1. [s EXCEPT !.pc = "done"] \in WorkerState
  BY DEF WorkerState
<1>2. ASSUME NEW e \in BOOLEAN, NEW n \in 0..MaxParams
      PROVE  [s EXCEPT !.pc = "params", !.err = e, !.todo = n] \in WorkerState
  BY DEF WorkerState
<1>3. ASSUME s.todo > 0
      PROVE  [s EXCEPT !.todo = @ - 1, !.err = TRUE] \in WorkerState
  <2>1. s.todo - 1 \in 0..MaxParams
    BY <1>3 DEF WorkerState
  <2> QED BY <2>1 DEF WorkerState
<1>4. ASSUME s.todo > 0, s.todo + s.published <= MaxParams
      PROVE  s.todo - 1 \in 0..MaxParams /\ s.published + 1 \in 0..MaxParams
  BY <1>4 DEF WorkerState
<1>5. ASSUME s.todo > 0, s.todo + s.published <= MaxParams
      PROVE  [s EXCEPT !.todo = @ - 1, !.published = @ + 1] \in WorkerState
  BY <1>4, <1>5 DEF WorkerState
<1>6. ASSUME s.todo > 0, s.todo + s.published <= MaxParams, NEW m \in Msgs
      PROVE  [s EXCEPT !.todo = @ - 1, !.published = @ + 1,
                       !.sent = @ \cup {m}] \in WorkerState
  BY <1>4, <1>6 DEF WorkerState
<1> QED BY <1>1, <1>2, <1>3, <1>5, <1>6

\* The rows that processRequest and checkMessage save.
LEMMA SavedRows ==
  ASSUME TypeOK
  PROVE  /\ \A w \in Workers : ProcessedRow(w) \in Row
         /\ \A c \in Checkers : CheckedRow(c) \in Row
<1>1. ASSUME NEW row \in Row, NEW e \in BOOLEAN, NEW n \in Nat,
             NEW st \in Status
      PROVE  /\ [row EXCEPT !.status = st, !.err = @ \/ e, !.published = n] \in Row
             /\ [row EXCEPT !.status = st, !.err = @ \/ e] \in Row
  BY DEF Row
<1>2. ASSUME NEW w \in Workers PROVE ProcessedRow(w) \in Row
  <2>1. worker[w].row \in Row /\ worker[w].err \in BOOLEAN
        /\ worker[w].published \in Nat
    BY ConstantsAssumption DEF TypeOK, WorkerState
  <2>2. worker[w].row.published \in Nat
    BY <2>1 DEF Row
  <2> QED BY <1>1, <2>1, <2>2 DEF ProcessedRow, Status, FinishedStatus
<1>3. ASSUME NEW c \in Checkers PROVE CheckedRow(c) \in Row
  <2>1. checker[c].row \in Row
    BY DEF TypeOK, CheckerState
  <2> QED BY <1>1, <2>1 DEF CheckedRow, Status, FinishedStatus
<1> QED BY <1>2, <1>3

\* Every step keeps the types.
LEMMA TypeStep == TypeInv /\ [Next]_vars => TypeInv'
<1> SUFFICES ASSUME TypeInv, [Next]_vars PROVE TypeInv'
  OBVIOUS
<1> USE ConstantsAssumption DEF TypeInv, TypeOK, CountersBounded, tables,
        processorVars, checkerLists, checkerVars, patchVars
<1>1. ASSUME NEW r \in Requests, CreateRequest(r) PROVE TypeInv'
  <2>1. PICK l \in Limits, d \in DryRuns :
          db' = [db EXCEPT ![r] = [NoRow EXCEPT !.status = "created",
                                                !.limit = l, !.dryRun = d]]
    BY <1>1 DEF CreateRequest
  <2>2. [NoRow EXCEPT !.status = "created", !.limit = l, !.dryRun = d] \in Row
    BY DEF NoRow, Row, Status
  <2>3. db' \in [Requests -> Row]
    BY <2>1, <2>2
  <2> QED BY <1>1, <2>3 DEF CreateRequest
<1>2. ASSUME NEW p \in Patchers, NEW r \in Requests, UpdateRead(p, r)
      PROVE  TypeInv'
  BY <1>2 DEF UpdateRead, PatcherState
<1>3. ASSUME NEW p \in Patchers, UpdateSave(p) PROVE TypeInv'
  BY ZenonT(40), <1>3, InitialTypes DEF UpdateSave, PatchedRow, PatcherState, Row
<1>4. ASSUME NEW p \in Patchers, UpdateFails(p) PROVE TypeInv'
  BY <1>4, InitialTypes DEF UpdateFails
<1>5. CASE ProcessorTick
  BY <1>5 DEF ProcessorTick
<1>6. ASSUME NEW s \in found, ProcessorSkip(s) PROVE TypeInv'
  BY <1>6 DEF ProcessorSkip
<1>7. ASSUME NEW s \in found, NEW w \in Workers, ProcessorLaunch(s, w)
      PROVE  TypeInv'
  <2> DEFINE new == [IdleWorker EXCEPT !.pc = "basefee", !.id = s.id, !.row = s.row]
  <2>1. new \in WorkerState /\ new.todo = 0 /\ new.published = 0
    BY InitialTypes DEF WorkerState, IdleWorker
  <2>2. worker' = [worker EXCEPT ![w] = new] /\ s.id \in Requests
    BY <1>7 DEF ProcessorLaunch
  <2> HIDE DEF new
  <2>3. worker' \in [Workers -> WorkerState]
    BY <2>1, <2>2
  <2>4. CountersBounded'
    BY <2>1, <2>2
  <2> QED BY <1>7, <2>2, <2>3, <2>4 DEF ProcessorLaunch
<1>8. ASSUME NEW w \in Workers, CheckBasefee(w) PROVE TypeInv'
  BY <1>8 DEF CheckBasefee, Moved, WorkerState
<1>9. ASSUME NEW w \in Workers, BasefeeUnknown(w) PROVE TypeInv'
  BY <1>9 DEF BasefeeUnknown, Moved, WorkerState
<1>10. ASSUME NEW w \in Workers, PlanExtend(w) PROVE TypeInv'
  <2>1. PICK e \in BOOLEAN, n \in 0..MaxParams :
          worker' = [worker EXCEPT ![w] =
                       [worker[w] EXCEPT !.pc = "params", !.err = e, !.todo = n]]
    BY <1>10 DEF PlanExtend, Moved
  <2>2. worker[w].published = 0
    BY <1>10 DEF PlanExtend
  <2> DEFINE new == [worker[w] EXCEPT !.pc = "params", !.err = e, !.todo = n]
  <2>3. worker[w] \in WorkerState
    OBVIOUS
  <2>4. new \in WorkerState
    BY <2>3, WorkerMoves
  <2>5. new.todo + new.published <= MaxParams /\ new.pc = "params"
    BY <2>2, <2>3 DEF WorkerState
  <2> HIDE DEF new
  <2> QED BY <1>10, <2>1, <2>4, <2>5 DEF PlanExtend, Moved, new
<1>11. ASSUME NEW w \in Workers, ParamFails(w) PROVE TypeInv'
  <2> DEFINE new == [worker[w] EXCEPT !.todo = @ - 1, !.err = TRUE]
  <2>0. worker[w] \in WorkerState /\ worker[w].pc = "params" /\ worker[w].todo > 0
    BY <1>11 DEF ParamFails
  <2>1. new \in WorkerState
    BY <2>0, WorkerMoves
  <2>3. new.todo + new.published <= MaxParams /\ new.pc = "params"
    BY <2>0 DEF WorkerState
  <2>2. worker' = [worker EXCEPT ![w] = new]
    BY <1>11 DEF ParamFails, Moved
  <2> HIDE DEF new
  <2> QED BY <1>11, <2>1, <2>2, <2>3 DEF ParamFails, Moved
<1>12. ASSUME NEW w \in Workers, DryRunParam(w) PROVE TypeInv'
  <2>0. worker[w] \in WorkerState /\ worker[w].pc = "params" /\ worker[w].todo > 0
    BY <1>12 DEF DryRunParam
  <2>1. BuiltDryRun(w) \in WorkerState
    BY <2>0, WorkerMoves DEF BuiltDryRun
  <2>2. BuiltDryRun(w).todo + BuiltDryRun(w).published <= MaxParams
        /\ BuiltDryRun(w).pc = "params"
    BY <2>0 DEF BuiltDryRun, WorkerState
  <2> QED BY <1>12, <2>1, <2>2 DEF DryRunParam, Moved
<1>13. ASSUME NEW w \in Workers, NEW m \in Msgs, PushMessage(w, m)
       PROVE  TypeInv'
  <2> DEFINE new == [worker[w] EXCEPT !.todo = @ - 1, !.published = @ + 1,
                                      !.sent = @ \cup {m}]
  <2>0. worker[w] \in WorkerState /\ worker[w].pc = "params" /\ worker[w].todo > 0
    BY <1>13 DEF PushMessage
  <2>1. new \in WorkerState
    BY <2>0, WorkerMoves
  <2>5. new.todo + new.published <= MaxParams /\ new.pc = "params"
    BY <2>0 DEF WorkerState
  <2>2. worker' = [worker EXCEPT ![w] = new]
    BY <1>13 DEF PushMessage, Moved
  <2>3. worker[w].id \in Requests \cup {NoReq}
    BY DEF WorkerState
  <2>4. msg' \in [Msgs -> MsgState]
    BY <1>13, <2>3 DEF PushMessage, MsgState
  <2> HIDE DEF new
  <2> QED BY <1>13, <2>1, <2>2, <2>4, <2>5 DEF PushMessage, Moved
<1>14. ASSUME NEW w \in Workers, SaveProcessed(w) PROVE TypeInv'
  <2>1. ProcessedRow(w) \in Row
    BY SavedRows
  <2>2. LinkMessages(w) \in [Msgs -> MsgState]
    BY DEF LinkMessages, MsgState
  <2> DEFINE new == [worker[w] EXCEPT !.pc = "done"]
  <2>3. new \in WorkerState /\ new.todo + new.published <= MaxParams
        /\ new.pc = "done"
    BY DEF WorkerState
  <2>4. worker' = [worker EXCEPT ![w] = new]
    BY <1>14 DEF SaveProcessed, Moved
  <2> HIDE DEF new
  <2> QED BY <1>14, <2>1, <2>2, <2>3, <2>4 DEF SaveProcessed, Moved
<1>15. ASSUME NEW w \in Workers, SaveProcessedFails(w) PROVE TypeInv'
  BY <1>15 DEF SaveProcessedFails, Moved, WorkerState
<1>16. ASSUME NEW w \in Workers, FinishWorker(w) PROVE TypeInv'
  BY <1>16, InitialTypes DEF FinishWorker, Released, IdleWorker
<1>17. CASE CheckerTick
  BY <1>17 DEF CheckerTick
<1>30. CASE CheckerPreload
  <2>1. ASSUME NEW r \in Requests PROVE View(r) \in Views
    <3>1. Linked(r) \in SUBSET Msgs
      BY DEF Linked
    <3>2. View(r) \in [Linked(r) -> Receipts]
      BY <3>1 DEF View, MsgState
    <3> QED BY <3>1, <3>2 DEF Views
  <2>2. ASSUME NEW s \in pendingRows
        PROVE  [id |-> s.id, row |-> s.row, view |-> View(s.id)]
                 \in [id : Requests, row : Row, view : Views]
    BY <2>1
  <2> QED BY <1>30, <2>2 DEF CheckerPreload
<1>18. ASSUME NEW s \in foundPending, CheckerSkip(s) PROVE TypeInv'
  BY <1>18 DEF CheckerSkip
<1>19. ASSUME NEW s \in foundPending, NEW c \in Checkers, CheckerLaunch(s, c)
       PROVE  TypeInv'
  BY <1>19 DEF CheckerLaunch, CheckerState
<1>20. ASSUME NEW c \in Checkers, CheckWatch(c) PROVE TypeInv'
  <2>1. DOMAIN checker[c].view \subseteq Msgs
    BY DEF CheckerState, Views
  <2>2. [checker[c] EXCEPT !.pc = "done"] \in CheckerState
    BY DEF CheckerState
  <2> QED BY <1>20, <2>1, <2>2 DEF CheckWatch
<1>21. ASSUME NEW c \in Checkers, CheckSave(c) PROVE TypeInv'
  <2>1. CheckedRow(c) \in Row
    BY SavedRows
  <2>2. [checker[c] EXCEPT !.pc = "done"] \in CheckerState
    BY DEF CheckerState
  <2> QED BY <1>21, <2>1, <2>2 DEF CheckSave
<1>22. ASSUME NEW c \in Checkers, CheckSaveFails(c) PROVE TypeInv'
  BY <1>22 DEF CheckSaveFails, CheckerState
<1>23. ASSUME NEW c \in Checkers, FinishChecker(c) PROVE TypeInv'
  BY <1>23, InitialTypes DEF FinishChecker
<1>24. ASSUME NEW m \in Msgs, WatchRecords(m) PROVE TypeInv'
  BY <1>24 DEF WatchRecords, ReceiptOf, MsgState, Receipts
<1>25. ASSUME NEW m \in Msgs, WatchFails(m) PROVE TypeInv'
  BY <1>25 DEF WatchFails
<1>26. CASE BasefeeMoves
  BY <1>26 DEF BasefeeMoves
<1>27. CASE CrashRestart
  BY <1>27, InitialTypes DEF CrashRestart, IdleWorker
<1>28. CASE UNCHANGED vars
  BY <1>28 DEF vars
<1>29. ASSUME NEW w \in Workers, NEW m \in Msgs, PushReplyLost(w, m)
       PROVE  TypeInv'
  <2> DEFINE new == [worker[w] EXCEPT !.todo = @ - 1, !.err = TRUE]
  <2>0. worker[w] \in WorkerState /\ worker[w].pc = "params" /\ worker[w].todo > 0
    BY <1>29 DEF PushReplyLost
  <2>1. new \in WorkerState
    BY <2>0, WorkerMoves
  <2>2. new.todo + new.published <= MaxParams /\ new.pc = "params"
    BY <2>0 DEF WorkerState
  <2>3. worker' = [worker EXCEPT ![w] = new]
    BY <1>29 DEF PushReplyLost, Moved
  <2>4. msg' \in [Msgs -> MsgState]
    BY <1>29, <2>0 DEF PushReplyLost, MsgState, WorkerState
  <2>5. worker' \in [Workers -> WorkerState]
    BY <2>1, <2>3
  <2>6. CountersBounded'
    BY <2>2, <2>3
  <2>7. faults' \in 0..MaxFaults
    BY <1>29 DEF PushReplyLost
  <2> HIDE DEF new
  <2> QED BY <1>29, <2>4, <2>5, <2>6, <2>7 DEF PushReplyLost, Moved
<1> QED BY <1>1, <1>2, <1>3, <1>4, <1>5, <1>6, <1>7, <1>8, <1>9, <1>10, <1>11, <1>29,
           <1>12, <1>13, <1>14, <1>15, <1>16, <1>17, <1>18, <1>19, <1>20,
           <1>21, <1>22, <1>23, <1>24, <1>25, <1>26, <1>27, <1>28, <1>30
        DEF Next, WorkerStep, CheckerStep

-----------------------------------------------------------------------------
(* Which actions change what, and what no action undoes *)

Frame ==
  /\ \/ UNCHANGED db
     \/ \E r \in Requests : CreateRequest(r)
     \/ \E p \in Patchers : UpdateSave(p)
     \/ \E w \in Workers : SaveProcessed(w)
     \/ \E c \in Checkers : CheckSave(c)
  /\ \/ UNCHANGED msg
     \/ \E w \in Workers, m \in Msgs : PushMessage(w, m) \/ PushReplyLost(w, m)
     \/ \E w \in Workers : SaveProcessed(w)
     \/ \E m \in Msgs : WatchRecords(m)
  /\ found' \subseteq found \/ ProcessorTick
  /\ \/ UNCHANGED <<worker, processing>>
     \/ \E s \in found, w \in Workers : ProcessorLaunch(s, w)
     \/ \E w \in Workers : WorkerStep(w)
     \/ CrashRestart
  /\ pendingRows' \subseteq pendingRows \/ CheckerTick
  /\ foundPending' \subseteq foundPending \/ CheckerPreload
  /\ \/ UNCHANGED <<checker, checking>>
     \/ \E s \in foundPending, c \in Checkers : CheckerLaunch(s, c)
     \/ \E c \in Checkers : CheckerStep(c)
     \/ CrashRestart
  /\ \/ UNCHANGED patcher
     \/ \E p \in Patchers, r \in Requests : UpdateRead(p, r)
     \/ \E p \in Patchers : UpdateSave(p) \/ UpdateFails(p)
     \/ CrashRestart
  /\ UNCHANGED faults \/ faults' = faults + 1

\* Every step is one of the actions that Frame lists with what it may change.
LEMMA StepFrame == [Next]_vars => Frame
<1> SUFFICES ASSUME [Next]_vars PROVE Frame
  OBVIOUS
<1> USE DEF Frame, tables, processorVars, checkerLists, checkerVars, patchVars
<1>1. CASE \E r \in Requests : CreateRequest(r)
  BY <1>1 DEF CreateRequest
<1>2. CASE \E p \in Patchers, r \in Requests : UpdateRead(p, r)
  BY <1>2 DEF UpdateRead
<1>3. CASE \E p \in Patchers : UpdateSave(p) \/ UpdateFails(p)
  BY <1>3 DEF UpdateSave, UpdateFails
<1>4. CASE ProcessorTick
  BY <1>4 DEF ProcessorTick
<1>5. CASE \E s \in found : ProcessorSkip(s)
  BY <1>5 DEF ProcessorSkip
<1>6. CASE \E s \in found, w \in Workers : ProcessorLaunch(s, w)
  BY <1>6 DEF ProcessorLaunch
<1>7. CASE \E w \in Workers : WorkerStep(w)
  BY ZenonT(40), <1>7 DEF WorkerStep, CheckBasefee, BasefeeUnknown, PlanExtend, ParamFails,
              DryRunParam, PushMessage, PushReplyLost, SaveProcessed, SaveProcessedFails,
              FinishWorker, Moved
<1>8. CASE CheckerTick \/ CheckerPreload
  BY <1>8 DEF CheckerTick, CheckerPreload
<1>9. CASE \E s \in foundPending : CheckerSkip(s)
  BY <1>9 DEF CheckerSkip
<1>10. CASE \E s \in foundPending, c \in Checkers : CheckerLaunch(s, c)
  BY <1>10 DEF CheckerLaunch
<1>11. CASE \E c \in Checkers : CheckerStep(c)
  BY <1>11 DEF CheckerStep, CheckWatch, CheckSave, CheckSaveFails, FinishChecker
<1>12. CASE \E m \in Msgs : WatchRecords(m) \/ WatchFails(m)
  BY <1>12 DEF WatchRecords, WatchFails
<1>13. CASE BasefeeMoves
  BY <1>13 DEF BasefeeMoves
<1>14. CASE CrashRestart
  BY <1>14 DEF CrashRestart
<1>15. CASE UNCHANGED vars
  BY <1>15 DEF vars
<1> QED
  BY <1>1, <1>2, <1>3, <1>4, <1>5, <1>6, <1>7, <1>8, <1>9, <1>10, <1>11, <1>12, <1>13, <1>14, <1>15 DEF Next

\* processRequest decides a created request; it calls it pending only when
\* messages were published, and a success only without an error.
LEMMA ProcessedRowFacts ==
  ASSUME TypeOK, NEW w \in Workers, worker[w].row.status = "created",
         RowSound(worker[w].row)
  PROVE  /\ ProcessedRow(w).status \in {"pending"} \cup FinishedStatus
         /\ ProcessedRow(w).dryRun = worker[w].row.dryRun
         /\ ProcessedRow(w).status = "pending" =>
              ~worker[w].row.dryRun /\ worker[w].published # 0
         /\ RowSound(ProcessedRow(w))
<1> DEFINE row == worker[w].row  err == worker[w].err
<1>1. row \in Row /\ err \in BOOLEAN /\ worker[w].published \in Nat
  BY ConstantsAssumption DEF TypeOK, WorkerState
<1>2. row.err = FALSE /\ row.dryRun \in BOOLEAN
  BY <1>1 DEF RowSound, Row
<1>3. /\ ProcessedRow(w).dryRun = row.dryRun
      /\ ProcessedRow(w).err = err
      /\ ProcessedRow(w).status =
           IF worker[w].published = 0 THEN IF err THEN "failed" ELSE "success"
           ELSE IF ~row.dryRun THEN "pending"
           ELSE IF err THEN "partfailed" ELSE "success"
  BY <1>1, <1>2 DEF ProcessedRow, NothingPublished, Row
<1> HIDE DEF row, err
<1> QED BY <1>1, <1>2, <1>3 DEF RowSound, FinishedStatus, row, err

\* checkMessage finishes a request; it is a success only when neither the
\* stored error nor a message says otherwise.
LEMMA CheckedRowFacts ==
  ASSUME TypeOK, NEW c \in Checkers
  PROVE  /\ CheckedRow(c).status \in FinishedStatus
         /\ CheckedRow(c).dryRun = checker[c].row.dryRun
         /\ CheckedRow(c).status = "success" =>
              \A m \in DOMAIN checker[c].view : checker[c].view[m] # "failed"
         /\ RowSound(CheckedRow(c))
<1> DEFINE row == checker[c].row
           failures == {m \in DOMAIN checker[c].view : checker[c].view[m] = "failed"}
<1>1. row \in Row
  BY DEF TypeOK, CheckerState
<1>2. /\ CheckedRow(c).dryRun = row.dryRun
      /\ CheckedRow(c).err = (row.err \/ failures # {})
      /\ CheckedRow(c).status =
           IF failures = {} THEN IF row.err THEN "partfailed" ELSE "success"
           ELSE IF failures = DOMAIN checker[c].view THEN "failed"
                ELSE "partfailed"
  BY <1>1 DEF CheckedRow, Row
<1>3. CheckedRow(c).status = "success" => failures = {} /\ ~row.err
  BY <1>2
<1>4. CheckedRow(c).status \in FinishedStatus
  BY <1>2 DEF FinishedStatus
<1>5. RowSound(CheckedRow(c))
  BY <1>2, <1>3, <1>4 DEF RowSound, FinishedStatus
<1> QED BY <1>2, <1>3, <1>4, <1>5

\* Requests stay, and stay dry runs or not.
RequestsStay ==
  \A r \in Requests : db[r].status # "absent" =>
    db'[r].status # "absent" /\ db'[r].dryRun = db[r].dryRun

\* Messages keep their request and their link, and receipts stay once stored.
MessagesStay ==
  \A m \in Msgs :
    /\ msg[m].req # NoReq => msg'[m].req = msg[m].req
    /\ msg[m].linked => msg'[m].linked
    /\ msg[m].receipt # "pending" => msg'[m].receipt = msg[m].receipt

\* No step unpublishes or unlinks a message, or changes its receipt.
LEMMA MessagesStayStep ==
  ASSUME TypeOK, Frame
  PROVE  MessagesStay
<1> USE DEF TypeOK, MessagesStay
<1>1. CASE UNCHANGED msg
  BY <1>1
<1>2. ASSUME NEW w \in Workers, NEW m \in Msgs, PushMessage(w, m) \/ PushReplyLost(w, m)
      PROVE  MessagesStay
  BY <1>2 DEF PushMessage, PushReplyLost, MsgState
<1>3. ASSUME NEW w \in Workers, SaveProcessed(w) PROVE MessagesStay
  BY <1>3 DEF SaveProcessed, LinkMessages, MsgState
<1>4. ASSUME NEW m \in Msgs, WatchRecords(m) PROVE MessagesStay
  BY <1>4 DEF WatchRecords, ReceiptOf, MsgState
<1> QED BY <1>1, <1>2, <1>3, <1>4 DEF Frame

\* No step removes a request or changes whether it is a dry run.
LEMMA RequestsStayStep ==
  ASSUME TypeOK, CopiesSound, Frame
  PROVE  RequestsStay
<1> USE DEF TypeOK, RequestsStay
<1>1. CASE UNCHANGED db
  BY <1>1
<1>2. ASSUME NEW r \in Requests, CreateRequest(r) PROVE RequestsStay
  BY <1>2 DEF CreateRequest
<1>3. ASSUME NEW p \in Patchers, UpdateSave(p) PROVE RequestsStay
  <2>1. CopySound(patcher[p].id, patcher[p].row)
    BY <1>3 DEF CopiesSound, UpdateSave
  <2>2. /\ PatchedRow(p).status = patcher[p].row.status
        /\ PatchedRow(p).dryRun = patcher[p].row.dryRun
    BY DEF PatchedRow, PatcherState, Row
  <2> QED BY <1>3, <2>1, <2>2 DEF UpdateSave, CopySound
<1>4. ASSUME NEW w \in Workers, SaveProcessed(w) PROVE RequestsStay
  <2>1. WorkerSound(w)
    BY <1>4 DEF CopiesSound, SaveProcessed, BusyWorkers
  <2>2. /\ ProcessedRow(w).status # "absent"
        /\ ProcessedRow(w).dryRun = worker[w].row.dryRun
    BY <2>1, ProcessedRowFacts DEF WorkerSound, CopySound, FinishedStatus
  <2> QED BY <1>4, <2>1, <2>2 DEF SaveProcessed, WorkerSound, CopySound
<1>5. ASSUME NEW c \in Checkers, CheckSave(c) PROVE RequestsStay
  <2>1. CheckerSound(c)
    BY <1>5 DEF CopiesSound, CheckSave, BusyCheckers
  <2>2. /\ CheckedRow(c).status # "absent"
        /\ CheckedRow(c).dryRun = checker[c].row.dryRun
    BY CheckedRowFacts DEF FinishedStatus
  <2> QED BY <1>5, <2>1, <2>2 DEF CheckSave, CheckerSound, CopySound
<1> QED BY <1>1, <1>2, <1>3, <1>4, <1>5 DEF Frame

-----------------------------------------------------------------------------
(* One goroutine per request *)

MapsInv == MapsExact /\ OneGoroutinePerRequest

\* Until it leaves, a goroutine keeps its request, its copy of the row and the
\* messages it published, and changes no other goroutine.
OwnStep(w) ==
  /\ worker[w].pc # "idle" /\ worker'[w].pc # "idle" /\ processing' = processing
  /\ \A v \in Workers : v # w => worker'[v] = worker[v]
  /\ worker'[w].id = worker[w].id /\ worker'[w].row = worker[w].row
  /\ worker[w].sent \subseteq worker'[w].sent

\* A goroutine keeps its request and its copy of the row while it runs.
LEMMA WorkerStepKeeps ==
  ASSUME TypeOK, NEW w \in Workers, WorkerStep(w), ~FinishWorker(w)
  PROVE  OwnStep(w)
<1> USE DEF TypeOK, OwnStep, WorkerState, Moved
<1>1. CASE CheckBasefee(w)
  BY <1>1 DEF CheckBasefee
<1>2. CASE BasefeeUnknown(w)
  BY <1>2 DEF BasefeeUnknown
<1>3. CASE PlanExtend(w)
  BY <1>3 DEF PlanExtend
<1>4. CASE ParamFails(w)
  BY <1>4 DEF ParamFails
<1>5. CASE DryRunParam(w)
  BY <1>5 DEF DryRunParam, BuiltDryRun
<1>6. CASE \E m \in Msgs : PushMessage(w, m)
  BY <1>6 DEF PushMessage
<1>9. CASE \E m \in Msgs : PushReplyLost(w, m)
  BY <1>9 DEF PushReplyLost
<1>7. CASE SaveProcessed(w)
  BY <1>7 DEF SaveProcessed
<1>8. CASE SaveProcessedFails(w)
  BY <1>8 DEF SaveProcessedFails
<1> QED
  BY <1>1, <1>2, <1>3, <1>4, <1>5, <1>6, <1>7, <1>8, <1>9 DEF WorkerStep

\* The maps hold the requests being worked on after every step.
LEMMA MapsStep ==
  ASSUME TypeOK, MapsInv, Frame
  PROVE  MapsInv'
<1> USE DEF TypeOK, MapsInv, MapsExact, OneGoroutinePerRequest, BusyWorkers,
        BusyCheckers
<1>1. /\ \A w \in BusyWorkers' : worker'[w].id \in processing'
      /\ \A v, w \in BusyWorkers' : worker'[v].id = worker'[w].id => v = w
  <2>1. CASE UNCHANGED <<worker, processing>>
    BY <2>1
  <2>2. ASSUME NEW s \in found, NEW w \in Workers, ProcessorLaunch(s, w)
        PROVE  <1>1!:
    BY <2>2 DEF ProcessorLaunch, InFlight, IdleWorker
  <2>3. ASSUME NEW w \in Workers, FinishWorker(w) PROVE <1>1!:
    BY <2>3 DEF FinishWorker, Released, IdleWorker
  <2>4. ASSUME NEW w \in Workers, WorkerStep(w), ~FinishWorker(w) PROVE <1>1!:
    <3>1. /\ worker[w].pc # "idle" /\ processing' = processing
          /\ \A v \in Workers : v # w => worker'[v] = worker[v]
          /\ worker'[w].id = worker[w].id
      BY <2>4, WorkerStepKeeps DEF OwnStep
    <3> QED BY <3>1
  <2>5. CASE CrashRestart
    BY <2>5 DEF CrashRestart, IdleWorker
  <2> QED BY <2>1, <2>2, <2>3, <2>4, <2>5 DEF Frame
<1>2. /\ \A c \in BusyCheckers' : checker'[c].id \in checking'
      /\ \A b, c \in BusyCheckers' : checker'[b].id = checker'[c].id => b = c
  <2>1. CASE UNCHANGED <<checker, checking>>
    BY <2>1
  <2>2. ASSUME NEW s \in foundPending, NEW c \in Checkers, CheckerLaunch(s, c)
        PROVE  <1>2!:
    BY <2>2 DEF CheckerLaunch
  <2>3. ASSUME NEW c \in Checkers, CheckerStep(c) PROVE <1>2!:
    BY <2>3 DEF CheckerStep, CheckWatch, CheckSave, CheckSaveFails,
                FinishChecker, IdleChecker, CheckerState, checkerVars
  <2>4. CASE CrashRestart
    BY <2>4 DEF CrashRestart, IdleChecker
  <2> QED BY <2>1, <2>2, <2>3, <2>4 DEF Frame
<1> QED BY <1>1, <1>2

-----------------------------------------------------------------------------
(* The copies stay copies of existing requests *)

\* Copy row of request r is still sound in the next state.
StaysSound(r, row) ==
  /\ r \in Requests
  /\ RowSound(row)
  /\ row.status # "absent" /\ db'[r].status # "absent"
  /\ row.dryRun = db'[r].dryRun
  /\ row.status = "pending" => \E m \in Msgs : msg'[m].req = r /\ msg'[m].linked

\* A sound copy stays sound while requests and messages stay.
LEMMA CopyStays ==
  ASSUME RequestsStay, MessagesStay, NEW r, NEW row, CopySound(r, row)
  PROVE  StaysSound(r, row)
BY ConstantsAssumption
DEF RequestsStay, MessagesStay, CopySound, HasMessages, StaysSound

\* Whatever is saved, the rows of both tables stay sound.
LEMMA TablesStep ==
  ASSUME TypeOK, TypeOK', TablesSound, CopiesSound, RequestsStay, Frame
  PROVE  TablesSound'
<1> USE DEF TypeOK
<1>1. ASSUME NEW q \in Requests PROVE RowSound(db'[q])
  <2>0. RowSound(db[q])
    BY DEF TablesSound
  <2>1. CASE UNCHANGED db
    BY <2>0, <2>1
  <2>2. ASSUME NEW r \in Requests, CreateRequest(r) PROVE RowSound(db'[q])
    BY <2>0, <2>2 DEF CreateRequest, RowSound, NoRow
  <2>3. ASSUME NEW p \in Patchers, UpdateSave(p) PROVE RowSound(db'[q])
    <3>1. RowSound(patcher[p].row)
      BY <2>3 DEF CopiesSound, UpdateSave, CopySound
    <3>2. RowSound(PatchedRow(p))
      BY <3>1 DEF PatchedRow, RowSound, PatcherState, Row
    <3> QED BY <2>0, <2>3, <3>2 DEF UpdateSave
  <2>4. ASSUME NEW w \in Workers, SaveProcessed(w) PROVE RowSound(db'[q])
    <3>1. WorkerSound(w)
      BY <2>4 DEF CopiesSound, SaveProcessed, BusyWorkers
    <3>2. RowSound(ProcessedRow(w))
      BY <3>1, ProcessedRowFacts DEF WorkerSound, CopySound
    <3> QED BY <2>0, <2>4, <3>2 DEF SaveProcessed
  <2>5. ASSUME NEW c \in Checkers, CheckSave(c) PROVE RowSound(db'[q])
    BY <2>0, <2>5, CheckedRowFacts DEF CheckSave
  <2> QED BY <2>1, <2>2, <2>3, <2>4, <2>5 DEF Frame
<1>2. ASSUME NEW m \in Msgs, msg'[m].req # NoReq
      PROVE  db'[msg'[m].req].status # "absent" /\ ~db'[msg'[m].req].dryRun
  <2>1. CASE msg'[m].req = msg[m].req
    <3>1. msg[m].req \in Requests
      BY <1>2, <2>1 DEF MsgState
    <3> QED BY <1>2, <2>1, <3>1 DEF TablesSound, RequestsStay
  <2>2. ASSUME NEW w \in Workers, PushMessage(w, m) \/ PushReplyLost(w, m)
        PROVE  db'[msg'[m].req].status # "absent" /\ ~db'[msg'[m].req].dryRun
    <3>1. WorkerSound(w) /\ ~worker[w].row.dryRun
      BY <2>2 DEF PushMessage, PushReplyLost, Publishes, CopiesSound, BusyWorkers
    <3>2. msg'[m].req = worker[w].id
      BY <2>2 DEF PushMessage, PushReplyLost, MsgState
    <3> QED BY <3>1, <3>2 DEF WorkerSound, CopySound, RequestsStay
  <2>3. \/ msg'[m].req = msg[m].req
        \/ \E w \in Workers : PushMessage(w, m) \/ PushReplyLost(w, m)
    <3>1. CASE UNCHANGED msg
      BY <3>1
    <3>2. ASSUME NEW w \in Workers, NEW n \in Msgs,
                 PushMessage(w, n) \/ PushReplyLost(w, n), n # m
          PROVE  msg'[m].req = msg[m].req
      BY <3>2 DEF PushMessage, PushReplyLost, MsgState
    <3>3. ASSUME NEW w \in Workers, SaveProcessed(w)
          PROVE  msg'[m].req = msg[m].req
      BY <3>3 DEF SaveProcessed, LinkMessages, MsgState
    <3>4. ASSUME NEW n \in Msgs, WatchRecords(n)
          PROVE  msg'[m].req = msg[m].req
      BY <3>4 DEF WatchRecords, MsgState
    <3> QED BY <3>1, <3>2, <3>3, <3>4 DEF Frame
  <2> QED BY <2>1, <2>2, <2>3
<1> QED BY <1>1, <1>2 DEF TablesSound

\* The rows that the processor loop read are sound copies.
LEMMA FoundStep ==
  ASSUME TypeOK, TablesSound, CopiesSound, RequestsStay, MessagesStay, Frame
  PROVE  \A s \in found' : StaysSound(s.id, s.row) /\ s.row.status = "created"
<1>1. CASE found' \subseteq found
  BY <1>1, CopyStays DEF CopiesSound
<1>2. CASE ProcessorTick
  BY <1>2 DEF ProcessorTick, tables, StaysSound, TablesSound
<1> QED BY <1>1, <1>2 DEF Frame

\* Copy v of the messages of request r is still sound in the next state.
ViewStays(r, v) ==
  /\ DOMAIN v # {}
  /\ \A m \in DOMAIN v :
       /\ msg'[m].req = r /\ msg'[m].linked
       /\ v[m] # "pending" => v[m] = msg'[m].receipt

\* A sound copy of messages stays sound while messages stay.
LEMMA ViewsStay ==
  ASSUME TypeOK, MessagesStay, NEW r \in Requests, NEW v \in Views, ViewSound(r, v)
  PROVE  ViewStays(r, v)
<1>1. DOMAIN v \subseteq Msgs
  BY DEF Views
<1> QED BY <1>1, ConstantsAssumption DEF ViewSound, ViewStays, MessagesStay

\* The rows that the checker loop read first are sound copies.
LEMMA PendingRowsStep ==
  ASSUME TypeOK, TablesSound, PendingHasMessages, CopiesSound, RequestsStay,
         MessagesStay, Frame
  PROVE  \A s \in pendingRows' : StaysSound(s.id, s.row) /\ s.row.status = "pending"
<1>1. CASE pendingRows' \subseteq pendingRows
  BY <1>1, CopyStays DEF CopiesSound
<1>2. CASE CheckerTick
  <2> TAKE s \in pendingRows'
  <2>1. PICK r \in Requests : db[r].status = "pending" /\ s = [id |-> r, row |-> db[r]]
    BY <1>2 DEF CheckerTick, ToCheck
  <2>2. UNCHANGED <<db, msg>>
    BY <1>2 DEF CheckerTick, tables
  <2> QED BY <2>1, <2>2
          DEF StaysSound, TablesSound, PendingHasMessages, HasMessages
<1> QED BY <1>1, <1>2 DEF Frame

\* The rows that the checker loop has completed with messages are sound
\* copies, and so are the copies of the messages.
LEMMA FoundPendingStep ==
  ASSUME TypeOK, CopiesSound, RequestsStay, MessagesStay, Frame
  PROVE  \A s \in foundPending' :
           /\ StaysSound(s.id, s.row) /\ s.row.status = "pending"
           /\ ViewStays(s.id, s.view)
<1>1. CASE foundPending' \subseteq foundPending
  <2> TAKE s \in foundPending'
  <2>1. s.id \in Requests /\ s.view \in Views
    BY <1>1 DEF TypeOK
  <2>2. /\ CopySound(s.id, s.row) /\ s.row.status = "pending"
        /\ ViewSound(s.id, s.view)
    BY <1>1 DEF CopiesSound
  <2> QED BY <2>1, <2>2, CopyStays, ViewsStay
<1>2. CASE CheckerPreload
  <2> TAKE s \in foundPending'
  <2>1. PICK t \in pendingRows :
          s = [id |-> t.id, row |-> t.row, view |-> View(t.id)]
    BY <1>2 DEF CheckerPreload
  <2>2. CopySound(s.id, s.row) /\ s.row.status = "pending"
    BY <2>1 DEF CopiesSound
  <2>3. s.view = [m \in Linked(s.id) |-> msg[m].receipt]
    BY <2>1 DEF View
  <2>4. UNCHANGED <<db, msg>>
    BY <1>2 DEF CheckerPreload, tables
  <2>5. ViewStays(s.id, s.view)
    BY <2>2, <2>3, <2>4 DEF ViewStays, CopySound, HasMessages, Linked
  <2> QED BY <2>2, <2>5, CopyStays
<1> QED BY <1>1, <1>2 DEF Frame

\* Each processRequest goroutine holds a sound copy.
LEMMA WorkersStep ==
  ASSUME TypeOK, TypeOK', CountersBounded, CopiesSound, RequestsStay,
         MessagesStay, Frame
  PROVE  \A w \in BusyWorkers' : WorkerSound(w)'
<1> USE DEF TypeOK
<1>0. ASSUME NEW r, NEW row, StaysSound(r, row)
      PROVE  CopySound(r, row)'
  BY <1>0 DEF StaysSound, CopySound, HasMessages
<1>1. faults' = 0 => faults = 0
  BY DEF Frame
<1>2. ASSUME NEW w \in Workers, WorkerSound(w)
      PROVE  /\ StaysSound(worker[w].id, worker[w].row)
             /\ worker[w].sent \subseteq Msgs
             /\ \A m \in worker[w].sent :
                  /\ msg'[m].req = worker[w].id
                  /\ msg[m].linked => msg'[m].linked
  <2>1. worker[w].sent \subseteq Msgs
    BY DEF WorkerState
  <2>2. StaysSound(worker[w].id, worker[w].row)
    BY <1>2, CopyStays DEF WorkerSound
  <2>3. worker[w].id # NoReq
    BY <1>2, ConstantsAssumption DEF WorkerSound, CopySound
  <2> QED BY <1>2, <2>1, <2>2, <2>3 DEF WorkerSound, MessagesStay
<1>3. ASSUME NEW w \in Workers, worker[w].pc # "idle", worker'[w] = worker[w]
      PROVE  WorkerSound(w)'
  <2>1. WorkerSound(w)
    BY <1>3 DEF CopiesSound, BusyWorkers
  <2> QED BY <1>1, <1>2, <1>3, <2>1 DEF WorkerSound, StaysSound, CopySound, HasMessages
<1>4. CASE UNCHANGED <<worker, processing>>
  BY <1>3, <1>4 DEF BusyWorkers
<1>5. ASSUME NEW s \in found, NEW w \in Workers, ProcessorLaunch(s, w)
      PROVE  \A v \in BusyWorkers' : WorkerSound(v)'
  <2>1. StaysSound(s.id, s.row) /\ s.row.status = "created"
    BY CopyStays DEF CopiesSound
  <2>2. /\ worker'[w] = [IdleWorker EXCEPT !.pc = "basefee", !.id = s.id,
                                           !.row = s.row]
        /\ \A v \in Workers : v # w => worker'[v] = worker[v]
    BY <1>5 DEF ProcessorLaunch
  <2>3. WorkerSound(w)'
    BY <2>1, <2>2 DEF IdleWorker, WorkerSound, StaysSound, CopySound, HasMessages
  <2> QED BY <1>3, <2>2, <2>3 DEF BusyWorkers
<1>6. ASSUME NEW w \in Workers, FinishWorker(w)
      PROVE  \A v \in BusyWorkers' : WorkerSound(v)'
  BY <1>3, <1>6 DEF FinishWorker, IdleWorker, BusyWorkers
<1>7. ASSUME NEW w \in Workers, WorkerStep(w), ~FinishWorker(w)
      PROVE  \A v \in BusyWorkers' : WorkerSound(v)'
  <2>1. OwnStep(w)
    BY <1>7, WorkerStepKeeps
  <2>2. WorkerSound(w)
    BY <2>1 DEF OwnStep, CopiesSound, BusyWorkers
  <2>3. worker[w] \in WorkerState /\ msg \in [Msgs -> MsgState]
    OBVIOUS
  <2> DEFINE Own == /\ \A m \in worker'[w].sent : msg'[m].req = worker[w].id
                    /\ worker'[w].pc \in {"basefee", "extend"} =>
                         worker'[w].sent = {}
                    /\ ~worker[w].row.dryRun /\ worker'[w].published # 0 =>
                         worker'[w].sent # {}
                    /\ worker'[w].pc = "done" /\ faults' = 0 =>
                         \A m \in worker'[w].sent : msg'[m].linked
  <2>4. ASSUME CheckBasefee(w) PROVE Own
    BY <1>2, <2>2, <2>4 DEF CheckBasefee, Moved, WorkerSound, WorkerState, CountersBounded
  <2>5. ASSUME BasefeeUnknown(w) PROVE Own
    BY <1>2, <2>2, <2>5 DEF BasefeeUnknown, Moved, WorkerSound, WorkerState, CountersBounded
  <2>6. ASSUME PlanExtend(w) PROVE Own
    BY <1>2, <2>2, <2>6 DEF PlanExtend, Moved, WorkerSound, WorkerState, CountersBounded
  <2>7. ASSUME ParamFails(w) PROVE Own
    BY <1>2, <2>2, <2>7 DEF ParamFails, Moved, WorkerSound, WorkerState, CountersBounded
  <2>8. ASSUME DryRunParam(w) PROVE Own
    <3>1. worker[w].row.dryRun /\ worker[w].pc = "params"
      BY <2>8 DEF DryRunParam
    <3>2. worker'[w].sent = worker[w].sent /\ worker'[w].pc = "params"
      BY <2>8, <3>1, <2>3 DEF DryRunParam, BuiltDryRun, Moved, WorkerState
    <3> QED BY <1>2, <2>2, <3>1, <3>2
  <2>9. ASSUME NEW m \in Msgs, PushMessage(w, m) PROVE Own
    <3>1. /\ worker'[w].sent = worker[w].sent \cup {m}
          /\ worker'[w].pc = "params"
      BY <2>9, <2>3 DEF PushMessage, Moved, WorkerState
    <3>2. msg'[m].req = worker[w].id
      BY <2>9, <2>3 DEF PushMessage, MsgState
    <3> QED BY <1>2, <2>2, <3>1, <3>2
  <2>14. ASSUME NEW m \in Msgs, PushReplyLost(w, m) PROVE Own
    <3>1. /\ worker'[w].sent = worker[w].sent
          /\ worker'[w].published = worker[w].published
          /\ worker'[w].pc = "params"
      BY <2>14, <2>3 DEF PushReplyLost, Moved, WorkerState
    <3> QED BY <1>2, <2>2, <3>1 DEF WorkerSound
  <2>10. ASSUME SaveProcessed(w) PROVE Own
    <3>1. /\ worker'[w].sent = worker[w].sent
          /\ worker'[w].published = worker[w].published
          /\ worker'[w].pc = "done"
      BY <2>10, <2>3 DEF SaveProcessed, Moved, WorkerState
    <3>2. \A m \in worker[w].sent : msg'[m].linked
      BY <1>2, <2>2, <2>3, <2>10 DEF SaveProcessed, LinkMessages, MsgState
    <3> QED BY <1>2, <2>2, <3>1, <3>2 DEF WorkerSound
  <2>11. ASSUME SaveProcessedFails(w) PROVE Own
    <3>1. /\ worker'[w].sent = worker[w].sent
          /\ worker'[w].published = worker[w].published
          /\ worker'[w].pc = "done"
      BY <2>11, <2>3 DEF SaveProcessedFails, Moved, WorkerState
    <3>2. faults' # 0
      BY <2>11 DEF SaveProcessedFails
    <3> QED BY <1>2, <2>2, <3>1, <3>2 DEF WorkerSound
  <2>12. Own
    BY <1>7, <2>4, <2>5, <2>6, <2>7, <2>8, <2>9, <2>10, <2>11, <2>14 DEF WorkerStep
  <2>13. WorkerSound(w)'
    BY <1>2, <2>1, <2>2, <2>12
    DEF OwnStep, WorkerSound, StaysSound, CopySound, HasMessages
  <2> QED BY <1>3, <2>1, <2>13 DEF OwnStep, BusyWorkers
<1>8. CASE CrashRestart
  BY <1>8 DEF CrashRestart, BusyWorkers, IdleWorker
<1> QED BY <1>4, <1>5, <1>6, <1>7, <1>8 DEF Frame

\* Each checkMessage goroutine holds a sound copy.
LEMMA CheckersStep ==
  ASSUME TypeOK, TypeOK', CopiesSound, RequestsStay, MessagesStay, Frame
  PROVE  \A c \in BusyCheckers' : CheckerSound(c)'
<1> USE DEF TypeOK
<1>2. ASSUME NEW c \in Checkers, checker[c].pc # "idle",
             checker'[c].id = checker[c].id, checker'[c].row = checker[c].row,
             checker'[c].view = checker[c].view
      PROVE  CheckerSound(c)'
  <2>1. CheckerSound(c)
    BY <1>2 DEF CopiesSound, BusyCheckers
  <2>2. StaysSound(checker[c].id, checker[c].row)
    BY <2>1, CopyStays DEF CheckerSound
  <2>3. checker[c].id \in Requests /\ checker[c].view \in Views
    BY <2>1 DEF CheckerSound, CopySound, CheckerState
  <2>4. ViewStays(checker[c].id, checker[c].view)
    BY <2>1, <2>3, ViewsStay DEF CheckerSound
  <2> QED BY <1>2, <2>1, <2>2, <2>4
          DEF CheckerSound, StaysSound, CopySound, HasMessages, ViewSound, ViewStays
<1>3. CASE UNCHANGED <<checker, checking>>
  BY <1>2, <1>3 DEF BusyCheckers
<1>4. ASSUME NEW s \in foundPending, NEW c \in Checkers, CheckerLaunch(s, c)
      PROVE  \A b \in BusyCheckers' : CheckerSound(b)'
  <2>1. StaysSound(s.id, s.row) /\ s.row.status = "pending"
    BY CopyStays DEF CopiesSound
  <2>2. ViewStays(s.id, s.view)
    BY ViewsStay DEF CopiesSound
  <2>3. /\ checker'[c] = [pc |-> "check", id |-> s.id, row |-> s.row,
                          view |-> s.view]
        /\ \A b \in Checkers : b # c => checker'[b] = checker[b]
    BY <1>4 DEF CheckerLaunch
  <2>4. CheckerSound(c)'
    BY <2>1, <2>2, <2>3
    DEF CheckerSound, StaysSound, CopySound, HasMessages, ViewSound, ViewStays
  <2> QED BY <1>2, <2>3, <2>4 DEF BusyCheckers
<1>5. ASSUME NEW c \in Checkers, CheckerStep(c)
      PROVE  \A b \in BusyCheckers' : CheckerSound(b)'
  <2>1. /\ checker[c].pc # "idle"
        /\ \A b \in Checkers : b # c => checker'[b] = checker[b]
        /\ \/ checker'[c].pc = "idle"
           \/ /\ checker'[c].id = checker[c].id
              /\ checker'[c].row = checker[c].row
              /\ checker'[c].view = checker[c].view
    BY <1>5 DEF CheckerStep, CheckWatch, CheckSave, CheckSaveFails,
                FinishChecker, IdleChecker, CheckerState
  <2> QED BY <1>2, <2>1 DEF BusyCheckers
<1>6. CASE CrashRestart
  BY <1>6 DEF CrashRestart, BusyCheckers, IdleChecker
<1> QED BY <1>3, <1>4, <1>5, <1>6 DEF Frame

\* Each PATCH handler holds a sound copy of a request not finished.
LEMMA PatchersStep ==
  ASSUME TypeOK, TypeOK', TablesSound, PendingHasMessages, CopiesSound,
         RequestsStay, MessagesStay, Frame
  PROVE  \A p \in Patchers : patcher'[p].pc = "save" =>
           /\ StaysSound(patcher'[p].id, patcher'[p].row)
           /\ ~Finished(patcher'[p].row)
<1> USE DEF TypeOK
<1>1. ASSUME NEW p \in Patchers, patcher'[p] = patcher[p], patcher[p].pc = "save"
      PROVE  StaysSound(patcher'[p].id, patcher'[p].row) /\ ~Finished(patcher'[p].row)
  BY <1>1, CopyStays DEF CopiesSound, Finished
<1>2. CASE UNCHANGED patcher
  BY <1>1, <1>2
<1>3. ASSUME NEW p \in Patchers, NEW r \in Requests, UpdateRead(p, r)
      PROVE  \A q \in Patchers : patcher'[q].pc = "save" =>
               StaysSound(patcher'[q].id, patcher'[q].row) /\ ~Finished(patcher'[q].row)
  <2>1. CopySound(r, db[r]) /\ ~Finished(db[r])
    BY <1>3 DEF UpdateRead, CopySound, TablesSound, PendingHasMessages
  <2>2. StaysSound(r, db[r])
    BY <2>1, CopyStays
  <2>3. /\ patcher'[p].id = r /\ patcher'[p].row = db[r]
        /\ \A q \in Patchers : q # p => patcher'[q] = patcher[q]
    BY <1>3 DEF UpdateRead
  <2> QED BY <1>1, <2>1, <2>2, <2>3
<1>4. ASSUME NEW p \in Patchers, UpdateSave(p) \/ UpdateFails(p)
      PROVE  \A q \in Patchers : patcher'[q].pc = "save" =>
               StaysSound(patcher'[q].id, patcher'[q].row) /\ ~Finished(patcher'[q].row)
  BY <1>1, <1>4 DEF UpdateSave, UpdateFails, IdlePatcher
<1>5. CASE CrashRestart
  BY <1>5 DEF CrashRestart, IdlePatcher
<1> QED BY <1>2, <1>3, <1>4, <1>5 DEF Frame

\* All copies together stay sound.
LEMMA CopiesStep ==
  ASSUME TypeOK, TypeOK', CountersBounded, TablesSound, PendingHasMessages,
         CopiesSound, RequestsStay, MessagesStay, Frame
  PROVE  CopiesSound'
<1>1. ASSUME NEW r, NEW row, StaysSound(r, row)
      PROVE  CopySound(r, row)'
  BY <1>1 DEF StaysSound, CopySound, HasMessages
<1>2. \A s \in found' : CopySound(s.id, s.row)' /\ s.row.status = "created"
  BY <1>1, FoundStep
<1>3. \A s \in foundPending' : /\ CopySound(s.id, s.row)' /\ ViewSound(s.id, s.view)'
                               /\ s.row.status = "pending"
  BY <1>1, FoundPendingStep DEF ViewSound, ViewStays
<1>5. \A s \in pendingRows' : CopySound(s.id, s.row)' /\ s.row.status = "pending"
  BY <1>1, PendingRowsStep
<1>4. \A p \in Patchers : patcher'[p].pc = "save" =>
        CopySound(patcher[p].id, patcher[p].row)' /\ ~Finished(patcher'[p].row)
  BY PatchersStep DEF StaysSound, CopySound, HasMessages
<1> QED BY <1>2, <1>3, <1>4, <1>5, WorkersStep, CheckersStep DEF CopiesSound, Finished

-----------------------------------------------------------------------------
(* Pending requests have messages, and published messages are tracked *)

\* No save makes a request pending that has no message.
LEMMA PendingStep ==
  ASSUME TypeOK, PendingHasMessages, CopiesSound, RequestsStay, MessagesStay,
         Frame
  PROVE  PendingHasMessages'
<1> USE DEF TypeOK
<1> SUFFICES ASSUME NEW q \in Requests, db'[q].status = "pending"
             PROVE  \E m \in Msgs : msg'[m].req = q /\ msg'[m].linked
  BY DEF PendingHasMessages, HasMessages
<1>1. CASE db'[q] = db[q]
  <2>1. PICK m \in Msgs : msg[m].req = q /\ msg[m].linked
    BY <1>1 DEF PendingHasMessages, HasMessages
  <2> QED BY <2>1, ConstantsAssumption DEF MessagesStay
<1>2. ASSUME NEW r \in Requests, CreateRequest(r) PROVE db'[q] = db[q]
  BY <1>2 DEF CreateRequest, NoRow
<1>3. ASSUME NEW p \in Patchers, UpdateSave(p), db'[q] # db[q]
      PROVE  \E m \in Msgs : msg'[m].req = q /\ msg'[m].linked
  <2>1. StaysSound(patcher[p].id, patcher[p].row)
    BY <1>3, CopyStays DEF UpdateSave, CopiesSound
  <2>2. patcher[p].id = q /\ db'[q] = PatchedRow(p)
    BY <1>3 DEF UpdateSave
  <2>3. patcher[p].row.status = "pending"
    BY <2>2 DEF PatchedRow, PatcherState, Row
  <2> QED BY <2>1, <2>2, <2>3 DEF StaysSound
<1>4. ASSUME NEW w \in Workers, SaveProcessed(w), db'[q] # db[q]
      PROVE  \E m \in Msgs : msg'[m].req = q /\ msg'[m].linked
  <2>1. WorkerSound(w)
    BY <1>4 DEF CopiesSound, SaveProcessed, BusyWorkers
  <2>2. worker[w].id = q /\ ProcessedRow(w).status = "pending"
    BY <1>4 DEF SaveProcessed
  <2>3. worker[w].sent # {}
    BY <2>1, <2>2, ProcessedRowFacts DEF WorkerSound, CopySound
  <2>4. PICK m \in worker[w].sent : TRUE
    BY <2>3
  <2>5. m \in Msgs
    BY <2>4 DEF WorkerState
  <2>6. msg'[m].req = q /\ msg'[m].linked
    BY <1>4, <2>1, <2>2, <2>5 DEF SaveProcessed, LinkMessages, MsgState, WorkerSound
  <2> QED BY <2>5, <2>6
<1>5. ASSUME NEW c \in Checkers, CheckSave(c) PROVE db'[q] = db[q]
  BY <1>5, CheckedRowFacts DEF CheckSave, FinishedStatus
<1> QED BY <1>1, <1>2, <1>3, <1>4, <1>5 DEF Frame

\* Without faults a published message is linked, or its publisher still runs.
LEMMA TrackedStep ==
  ASSUME TypeOK, PublishedIsTracked, CopiesSound, MessagesStay, Frame
  PROVE  PublishedIsTracked'
<1> USE DEF TypeOK
<1> SUFFICES ASSUME faults' = 0, NEW m \in Msgs, msg'[m].req # NoReq
             PROVE  \/ msg'[m].linked
                    \/ \E w \in Workers : worker'[w].pc # "idle"
                                        /\ m \in worker'[w].sent
  BY DEF PublishedIsTracked, BusyWorkers
<1>1. faults = 0
  BY DEF Frame
<1>2. ASSUME NEW w \in Workers, worker[w].pc # "idle", m \in worker[w].sent
      PROVE  \/ msg'[m].linked
             \/ worker'[w].pc # "idle" /\ m \in worker'[w].sent
  <2>1. CASE UNCHANGED <<worker, processing>>
    BY <1>2, <2>1
  <2>2. ASSUME NEW s \in found, NEW v \in Workers, ProcessorLaunch(s, v)
        PROVE  worker'[w].pc # "idle" /\ m \in worker'[w].sent
    BY <1>2, <2>2 DEF ProcessorLaunch
  <2>3. ASSUME NEW v \in Workers, WorkerStep(v), v # w
        PROVE  worker'[w].pc # "idle" /\ m \in worker'[w].sent
    BY <1>2, <2>3 DEF WorkerStep, CheckBasefee, BasefeeUnknown, PlanExtend,
       ParamFails, DryRunParam, PushMessage, PushReplyLost, SaveProcessed,
       SaveProcessedFails, FinishWorker, Moved
  <2>4. ASSUME FinishWorker(w) PROVE msg'[m].linked
    BY <1>1, <1>2, <2>4
    DEF FinishWorker, CopiesSound, BusyWorkers, WorkerSound, MessagesStay
  <2>5. ASSUME WorkerStep(w), ~FinishWorker(w)
        PROVE  worker'[w].pc # "idle" /\ m \in worker'[w].sent
    BY <1>2, <2>5, WorkerStepKeeps DEF OwnStep
  <2>6. CASE CrashRestart
    BY <1>1, <2>6 DEF CrashRestart
  <2> QED BY <2>1, <2>2, <2>3, <2>4, <2>5, <2>6 DEF Frame
<1>3. CASE msg[m].req # NoReq
  BY <1>1, <1>2, <1>3 DEF PublishedIsTracked, BusyWorkers, MessagesStay
<1>4. CASE msg[m].req = NoReq
  <2>1. PICK w \in Workers : PushMessage(w, m)
    <3>1. ASSUME NEW w \in Workers, NEW n \in Msgs, PushMessage(w, n), n # m
          PROVE  msg'[m].req = msg[m].req
      BY <3>1 DEF PushMessage
    <3>4. ASSUME NEW w \in Workers, NEW n \in Msgs, PushReplyLost(w, n) PROVE FALSE
      BY <1>1, <3>4 DEF PushReplyLost
    <3>2. ASSUME NEW w \in Workers, SaveProcessed(w)
          PROVE  msg'[m].req = msg[m].req
      BY <3>2 DEF SaveProcessed, LinkMessages, MsgState
    <3>3. ASSUME NEW n \in Msgs, WatchRecords(n)
          PROVE  msg'[m].req = msg[m].req
      BY <3>3 DEF WatchRecords, MsgState
    <3> QED BY <1>4, <3>1, <3>2, <3>3, <3>4 DEF Frame
  <2> QED BY <2>1 DEF PushMessage, Moved, WorkerState
<1> QED BY <1>3, <1>4

\* Only linked messages are watched: checkMessage takes them from its copy.
LEMMA WatchingStep ==
  ASSUME TypeOK, WatchingSound, CopiesSound, MessagesStay, [Next]_vars
  PROVE  WatchingSound'
<1> USE DEF TypeOK
<1>1. ASSUME NEW m \in Msgs, m \in watching PROVE msg'[m].linked
  BY <1>1 DEF WatchingSound, MessagesStay
<1>2. CASE watching' \subseteq watching
  BY <1>1, <1>2 DEF WatchingSound
<1>3. ASSUME NEW c \in Checkers, CheckWatch(c) PROVE WatchingSound'
  <2>1. ViewSound(checker[c].id, checker[c].view) /\ DOMAIN checker[c].view \subseteq Msgs
    <3>1. c \in BusyCheckers
      BY <1>3 DEF CheckWatch, BusyCheckers
    <3>2. checker[c].view \in Views
      BY DEF CheckerState
    <3> QED BY <3>1, <3>2 DEF CopiesSound, CheckerSound, Views
  <2>2. \A m \in watching' : m \in watching \/ m \in DOMAIN checker[c].view
    BY <1>3 DEF CheckWatch
  <2>3. ASSUME NEW m \in DOMAIN checker[c].view PROVE msg'[m].linked
    BY <2>1 DEF ViewSound, MessagesStay
  <2> QED BY <1>1, <2>2, <2>3 DEF WatchingSound
<1>4. watching' \subseteq watching \/ \E c \in Checkers : CheckWatch(c)
  BY DEF Next, vars, CreateRequest, UpdateRead, UpdateSave, UpdateFails, ProcessorTick,
         ProcessorSkip, ProcessorLaunch, WorkerStep, CheckBasefee, BasefeeUnknown,
         PlanExtend, ParamFails, DryRunParam, PushMessage, PushReplyLost,
         SaveProcessed, SaveProcessedFails, FinishWorker, CheckerTick, CheckerPreload, CheckerSkip,
         CheckerLaunch, CheckerStep, CheckSave, CheckSaveFails, FinishChecker,
         WatchRecords, WatchFails, BasefeeMoves, CrashRestart, checkerVars
<1> QED BY <1>2, <1>3, <1>4

-----------------------------------------------------------------------------
(* The inductive invariant *)

\* The initial state satisfies the inductive invariant ...
LEMMA InitIInv == Init => IInv
<1> SUFFICES ASSUME Init PROVE IInv
  OBVIOUS
<1>1. TypeOK /\ CountersBounded
  BY TypeInit DEF TypeInv
<1>2. OneGoroutinePerRequest /\ MapsExact /\ CopiesSound
  BY DEF Init, OneGoroutinePerRequest, MapsExact, CopiesSound, BusyWorkers,
         BusyCheckers, IdleWorker, IdleChecker, IdlePatcher
<1>3. PendingHasMessages /\ PublishedIsTracked /\ TablesSound /\ WatchingSound
  BY DEF Init, PendingHasMessages, PublishedIsTracked, TablesSound, RowSound,
         NoRow, Unpublished, WatchingSound
<1> QED BY <1>1, <1>2, <1>3 DEF IInv

\* ... and every step preserves it.
LEMMA StepIInv == IInv /\ [Next]_vars => IInv'
<1> SUFFICES ASSUME IInv, [Next]_vars PROVE IInv'
  OBVIOUS
<1> USE DEF IInv
<1>1. Frame
  BY StepFrame
<1>2. TypeOK' /\ CountersBounded'
  BY TypeStep DEF TypeInv
<1>3. MessagesStay /\ RequestsStay
  BY <1>1, MessagesStayStep, RequestsStayStep
<1>4. OneGoroutinePerRequest' /\ MapsExact'
  BY <1>1, MapsStep DEF MapsInv
<1>5. TablesSound' /\ CopiesSound'
  BY <1>1, <1>2, <1>3, TablesStep, CopiesStep
<1>6. PendingHasMessages' /\ PublishedIsTracked'
  BY <1>1, <1>3, PendingStep, TrackedStep
<1>7. WatchingSound'
  BY <1>3, WatchingStep
<1> QED BY <1>2, <1>4, <1>5, <1>6, <1>7

\* The tables and every goroutine's copy of a row agree as IInv says, in
\* every reachable state (the read-decide-Save pattern of the whole service).
THEOREM Invariance == Spec => []IInv
  BY InitIInv, StepIInv, PTL DEF Spec

\* Every variable keeps its type (RequestLifecycle!TypeOK).
THEOREM TypeCorrect == Spec => []TypeOK
<1>1. IInv => TypeOK
  BY DEF IInv
<1> QED BY <1>1, Invariance, PTL

\* No request has two processRequest goroutines, nor two checkMessage ones
\* (the maps in runProcessor and runMessageChecker).
THEOREM OneGoroutine == Spec => []OneGoroutinePerRequest
<1>1. IInv => OneGoroutinePerRequest
  BY DEF IInv
<1> QED BY <1>1, Invariance, PTL

\* A pending request always has a message to wait for, so the verdict of
\* checkMessage is never about an empty list.
THEOREM PendingIsNeverEmpty == Spec => []PendingHasMessages
<1>1. IInv => PendingHasMessages
  BY DEF IInv
<1> QED BY <1>1, Invariance, PTL

\* No path publishes a message for a dry run (the loop over params of extend).
THEOREM DryRunIsDry == Spec => []DryRunNeverPublishes
<1>1. IInv => DryRunNeverPublishes
  BY DEF IInv, TablesSound, DryRunNeverPublishes
<1> QED BY <1>1, Invariance, PTL

\* Without faults every published message is linked to its request or about
\* to be (extend, and the Save of processRequest).
THEOREM NothingForgotten == Spec => []PublishedIsTracked
<1>1. IInv => PublishedIsTracked
  BY DEF IInv
<1> QED BY <1>1, Invariance, PTL

-----------------------------------------------------------------------------
(* What no step does *)

\* What a save of a copy that is up to date does.
LEMMA FreshSave ==
  ASSUME IInv, Frame, NEW q \in Requests, db'[q] # db[q], ~StaleSave(q)
  PROVE  \/ CreateRequest(q)
         \/ \E p \in Patchers : db'[q] = [db[q] EXCEPT !.limit = patcher[p].limit]
         \/ \E w \in Workers : /\ db'[q] = ProcessedRow(w) /\ worker[w].row = db[q]
                               /\ WorkerSound(w)
         \/ \E c \in Checkers : /\ db'[q] = CheckedRow(c) /\ checker[c].row = db[q]
                                /\ CheckerSound(c)
<1> USE DEF IInv, TypeOK
<1>1. ASSUME NEW r \in Requests, CreateRequest(r) PROVE CreateRequest(q)
  BY <1>1 DEF CreateRequest
<1>2. ASSUME NEW p \in Patchers, UpdateSave(p)
      PROVE  db'[q] = [db[q] EXCEPT !.limit = patcher[p].limit]
  <2>1. patcher[p].id = q /\ db'[q] = PatchedRow(p)
    BY <1>2 DEF UpdateSave
  <2>2. patcher[p].row = db[q]
    BY <1>2, <2>1 DEF StaleSave
  <2> QED BY <2>1, <2>2 DEF PatchedRow
<1>3. ASSUME NEW w \in Workers, SaveProcessed(w)
      PROVE  db'[q] = ProcessedRow(w) /\ worker[w].row = db[q] /\ WorkerSound(w)
  <2>1. worker[w].id = q /\ db'[q] = ProcessedRow(w) /\ w \in BusyWorkers
    BY <1>3 DEF SaveProcessed, BusyWorkers
  <2> QED BY <1>3, <2>1 DEF StaleSave, CopiesSound
<1>4. ASSUME NEW c \in Checkers, CheckSave(c)
      PROVE  db'[q] = CheckedRow(c) /\ checker[c].row = db[q] /\ CheckerSound(c)
  <2>1. checker[c].id = q /\ db'[q] = CheckedRow(c) /\ c \in BusyCheckers
    BY <1>4 DEF CheckSave, BusyCheckers
  <2> QED BY <1>4, <2>1 DEF StaleSave, CopiesSound
<1> QED BY <1>1, <1>2, <1>3, <1>4 DEF Frame

\* The save of a copy that is up to date moves the status forward.
LEMMA LegalStep ==
  ASSUME IInv, Frame, NEW q \in Requests
  PROVE  \/ db'[q].status = db[q].status
         \/ <<db[q].status, db'[q].status>> \in LegalMoves
         \/ StaleSave(q)
<1> SUFFICES ASSUME db'[q].status # db[q].status, ~StaleSave(q)
             PROVE  <<db[q].status, db'[q].status>> \in LegalMoves
  OBVIOUS
<1>0. db[q] \in Row /\ TypeOK
  BY DEF IInv, TypeOK
<1>1. CASE CreateRequest(q)
  <2>1. db[q].status = "absent" /\ db'[q].status = "created"
    BY <1>0, <1>1 DEF CreateRequest, NoRow, TypeOK
  <2> QED BY <2>1 DEF LegalMoves
<1>2. ASSUME NEW p \in Patchers, db'[q] = [db[q] EXCEPT !.limit = patcher[p].limit]
      PROVE  FALSE
  BY <1>0, <1>2 DEF Row
<1>3. ASSUME NEW w \in Workers, db'[q] = ProcessedRow(w), worker[w].row = db[q],
             WorkerSound(w)
      PROVE  <<db[q].status, db'[q].status>> \in LegalMoves
  <2>1. db[q].status = "created" /\ db'[q].status \in {"pending"} \cup FinishedStatus
    BY <1>0, <1>3, ProcessedRowFacts DEF WorkerSound, CopySound
  <2> QED BY <2>1 DEF LegalMoves
<1>4. ASSUME NEW c \in Checkers, db'[q] = CheckedRow(c), checker[c].row = db[q],
             CheckerSound(c)
      PROVE  <<db[q].status, db'[q].status>> \in LegalMoves
  <2>1. db[q].status = "pending" /\ db'[q].status \in FinishedStatus
    BY <1>0, <1>4, CheckedRowFacts DEF CheckerSound
  <2> QED BY <2>1 DEF LegalMoves
<1> QED BY <1>1, <1>2, <1>3, <1>4, FreshSave

\* The status of a request moves forward, except in a step that itself saves a
\* copy that is out of date (the Saves of processRequest, checkMessage, update).
THEOREM IllegalMovesNeedStaleCopies == Spec => IllegalOnlyByStaleSave
<1>1. IInv /\ [Next]_vars =>
        [\A r \in Requests :
           \/ db'[r].status = db[r].status
           \/ <<db[r].status, db'[r].status>> \in LegalMoves
           \/ StaleSave(r)]_vars
  BY StepFrame, LegalStep
<1> QED BY <1>1, Invariance, PTL DEF Spec, IllegalOnlyByStaleSave

\* The save of a copy that is up to date keeps an error and never makes a
\* success of a request that has one.
LEMMA ErrorStep ==
  ASSUME IInv, Frame, NEW q \in Requests, db[q].err
  PROVE  (db'[q].err /\ db'[q].status # "success") \/ StaleSave(q)
<1> SUFFICES ASSUME ~StaleSave(q) PROVE db'[q].err /\ db'[q].status # "success"
  OBVIOUS
<1>0. db[q] \in Row /\ TypeOK /\ RowSound(db[q])
  BY DEF IInv, TypeOK, TablesSound
<1>1. db[q].status # "success" /\ db[q].status # "absent" /\ db[q].status # "created"
  BY <1>0 DEF RowSound
<1>2. CASE db'[q] = db[q]
  BY <1>1, <1>2
<1>3. CASE CreateRequest(q)
  BY <1>1, <1>3 DEF CreateRequest
<1>4. ASSUME NEW p \in Patchers, db'[q] = [db[q] EXCEPT !.limit = patcher[p].limit]
      PROVE  db'[q].err /\ db'[q].status # "success"
  BY <1>0, <1>1, <1>4 DEF Row
<1>5. ASSUME NEW w \in Workers, worker[w].row = db[q], WorkerSound(w) PROVE FALSE
  BY <1>1, <1>5 DEF WorkerSound
<1>6. ASSUME NEW c \in Checkers, db'[q] = CheckedRow(c), checker[c].row = db[q]
      PROVE  db'[q].err /\ db'[q].status # "success"
  <2>1. RowSound(CheckedRow(c))
    BY <1>0, CheckedRowFacts
  <2>2. CheckedRow(c).err
    BY <1>0, <1>6 DEF CheckedRow, Row
  <2> QED BY <1>6, <2>1, <2>2 DEF RowSound
<1> QED BY <1>2, <1>3, <1>4, <1>5, <1>6, FreshSave

\* An error is lost only in a step that saves a copy that is out of date (the
\* verdict of checkMessage, service.go:844-866, and the Save of update).
THEOREM ErrorsStay == Spec => ErrorIsKept
<1>1. IInv /\ [Next]_vars =>
        [\A r \in Requests :
           db[r].err =>
             \/ db'[r].err /\ db'[r].status # "success"
             \/ StaleSave(r)]_vars
  <2>1. ASSUME IInv, [Next]_vars, NEW r \in Requests, db[r].err
        PROVE  (db'[r].err /\ db'[r].status # "success") \/ StaleSave(r)
    BY <2>1, StepFrame, ErrorStep
  <2> QED BY <2>1
<1> QED BY <1>1, Invariance, PTL DEF Spec, ErrorIsKept

\* No step detaches a message or changes a stored receipt.
THEOREM ReceiptsStay == Spec => ReceiptsArePermanent
<1>1. IInv /\ [Next]_vars =>
        [\A m \in Msgs :
           msg[m].linked =>
             /\ msg'[m].linked
             /\ msg[m].receipt # "pending" => msg'[m].receipt = msg[m].receipt]_vars
  BY StepFrame, MessagesStayStep DEF IInv, MessagesStay
<1> QED BY <1>1, Invariance, PTL DEF Spec, ReceiptsArePermanent

-----------------------------------------------------------------------------
(* What faults can cost *)

\* A goroutine has published at least as many messages as it holds.
SentCounted ==
  \A w \in Workers :
    /\ IsFiniteSet(worker[w].sent)
    /\ Cardinality(worker[w].sent) <= worker[w].published

ForgottenFinite == \A r \in Requests : IsFiniteSet(Forgotten(r))

LossInv == SentCounted /\ ForgottenFinite /\ ForgottenBounded

\* The goroutine of a request that publishes has at most MaxParams messages.
LEMMA SentStep ==
  ASSUME TypeOK, SentCounted, Frame
  PROVE  SentCounted'
<1> USE DEF TypeOK
<1>1. ASSUME NEW w \in Workers, worker'[w] = worker[w]
      PROVE  IsFiniteSet(worker'[w].sent) /\ Cardinality(worker'[w].sent) <= worker'[w].published
  BY <1>1 DEF SentCounted
<1>2. ASSUME NEW w \in Workers, worker'[w].sent = {}, worker'[w].published = 0
      PROVE  IsFiniteSet(worker'[w].sent) /\ Cardinality(worker'[w].sent) <= worker'[w].published
  BY <1>2, FS_EmptySet
<1>3. CASE UNCHANGED <<worker, processing>>
  BY <1>1, <1>3 DEF SentCounted
<1>4. ASSUME NEW s \in found, NEW w \in Workers, ProcessorLaunch(s, w) PROVE SentCounted'
  <2>1. worker'[w].sent = {} /\ worker'[w].published = 0
        /\ \A v \in Workers : v # w => worker'[v] = worker[v]
    BY <1>4 DEF ProcessorLaunch, IdleWorker
  <2> QED BY <1>1, <1>2, <2>1 DEF SentCounted
<1>5. ASSUME NEW w \in Workers, WorkerStep(w) PROVE SentCounted'
  <2>1. \A v \in Workers : v # w => worker'[v] = worker[v]
    BY <1>5 DEF WorkerStep, CheckBasefee, BasefeeUnknown, PlanExtend, ParamFails,
       DryRunParam, PushMessage, PushReplyLost, SaveProcessed, SaveProcessedFails,
       FinishWorker, Moved
  <2> DEFINE Counted == /\ IsFiniteSet(worker'[w].sent)
                        /\ Cardinality(worker'[w].sent) <= worker'[w].published
  <2>2. worker[w] \in WorkerState
    OBVIOUS
  <2>3. /\ IsFiniteSet(worker[w].sent)
        /\ Cardinality(worker[w].sent) <= worker[w].published
        /\ Cardinality(worker[w].sent) \in Nat /\ worker[w].published \in Nat
    BY <2>2, ConstantsAssumption, FS_CardinalityType DEF SentCounted, WorkerState
  <2>4. CASE FinishWorker(w)
    <3>1. worker'[w].sent = {} /\ worker'[w].published = 0
      BY <2>4 DEF FinishWorker, IdleWorker
    <3> QED BY <1>1, <1>2, <2>1, <3>1 DEF SentCounted
  <2>5. CASE \E m \in Msgs : PushMessage(w, m)
    <3>1. PICK m \in Msgs : PushMessage(w, m)
      BY <2>5
    <3>2. /\ worker'[w].sent = worker[w].sent \cup {m}
          /\ worker'[w].published = worker[w].published + 1
      BY <2>2, <3>1 DEF PushMessage, Moved, WorkerState
    <3>3. /\ IsFiniteSet(worker[w].sent \cup {m})
          /\ Cardinality(worker[w].sent \cup {m}) <= Cardinality(worker[w].sent) + 1
          /\ Cardinality(worker[w].sent \cup {m}) \in Nat
      <4>1. /\ IsFiniteSet(worker[w].sent \cup {m})
            /\ Cardinality(worker[w].sent \cup {m}) =
                 IF m \in worker[w].sent THEN Cardinality(worker[w].sent)
                 ELSE Cardinality(worker[w].sent) + 1
        BY <2>3, FS_AddElement
      <4> QED BY <2>3, <4>1
    <3>4. Counted
      BY <2>3, <3>2, <3>3
    <3> QED BY <1>1, <2>1, <3>4 DEF SentCounted
  <2>6. CASE DryRunParam(w)
    <3>1. /\ worker'[w].sent = worker[w].sent
          /\ worker'[w].published = worker[w].published + 1
      BY <2>2, <2>6 DEF DryRunParam, BuiltDryRun, Moved, WorkerState
    <3>2. Counted
      BY <2>3, <3>1
    <3> QED BY <1>1, <2>1, <3>2 DEF SentCounted
  <2>7. CASE \/ CheckBasefee(w) \/ BasefeeUnknown(w) \/ PlanExtend(w) \/ ParamFails(w)
             \/ SaveProcessed(w) \/ SaveProcessedFails(w)
             \/ \E m \in Msgs : PushReplyLost(w, m)
    <3>1. worker'[w].sent = worker[w].sent /\ worker'[w].published = worker[w].published
      <4>1. CASE CheckBasefee(w) \/ BasefeeUnknown(w)
        BY <2>2, <4>1 DEF CheckBasefee, BasefeeUnknown, Moved, WorkerState
      <4>2. CASE PlanExtend(w)
        BY <2>2, <4>2 DEF PlanExtend, Moved, WorkerState
      <4>3. CASE ParamFails(w)
        BY <2>2, <4>3 DEF ParamFails, Moved, WorkerState
      <4>4. CASE SaveProcessed(w) \/ SaveProcessedFails(w)
        BY <2>2, <4>4 DEF SaveProcessed, SaveProcessedFails, Moved, WorkerState
      <4>5. CASE \E m \in Msgs : PushReplyLost(w, m)
        BY <2>2, <4>5 DEF PushReplyLost, Moved, WorkerState
      <4> QED BY <2>7, <4>1, <4>2, <4>3, <4>4, <4>5
    <3>2. Counted
      BY <2>3, <3>1
    <3> QED BY <1>1, <2>1, <3>2 DEF SentCounted
  <2> QED BY <1>5, <2>4, <2>5, <2>6, <2>7 DEF WorkerStep
<1>6. CASE CrashRestart
  <2>1. \A w \in Workers : worker'[w].sent = {} /\ worker'[w].published = 0
    BY <1>6 DEF CrashRestart, IdleWorker
  <2> QED BY <1>2, <2>1 DEF SentCounted
<1> QED BY <1>3, <1>4, <1>5, <1>6 DEF Frame

\* Only a fault makes a request forget messages, and the messages are those of
\* one goroutine.
LEMMA ForgottenGrows ==
  ASSUME IInv, SentCounted, [Next]_vars, Frame, MessagesStay, NEW r \in Requests
  PROVE  \/ Forgotten(r)' \subseteq Forgotten(r)
         \/ /\ faults' = faults + 1
            /\ \E w \in Workers : Forgotten(r)' \subseteq Forgotten(r) \cup worker[w].sent
         \/ /\ faults' = faults + 1 /\ MaxParams > 0
            /\ \E m \in Msgs : Forgotten(r)' \subseteq Forgotten(r) \cup {m}
<1> USE DEF IInv, TypeOK
<1> DEFINE New == Forgotten(r)' \ Forgotten(r)
<1>1. ASSUME NEW m \in New
      PROVE  /\ m \in Msgs /\ msg'[m].req = r /\ ~msg'[m].linked /\ ~msg[m].linked
             /\ \A w \in Workers : m \in worker'[w].sent => worker'[w].pc # "params"
             /\ msg[m].req # r =>
                  \E w \in Workers : PushMessage(w, m) \/ PushReplyLost(w, m)
             /\ msg[m].req = r =>
                  \E w \in Workers : m \in worker[w].sent /\ worker[w].pc = "params"
  <2>1. /\ m \in Msgs /\ msg'[m].req = r /\ ~msg'[m].linked
        /\ \A w \in Workers : m \in worker'[w].sent => worker'[w].pc # "params"
    BY <1>1 DEF Forgotten
  <2>2. ~msg[m].linked
    BY <2>1 DEF MessagesStay, MsgState
  <2>3. ASSUME msg[m].req # r
        PROVE  \E w \in Workers : PushMessage(w, m) \/ PushReplyLost(w, m)
    <3>1. ASSUME NEW w \in Workers, NEW n \in Msgs, n # m,
                 PushMessage(w, n) \/ PushReplyLost(w, n)
          PROVE  msg'[m].req = msg[m].req
      BY <2>1, <3>1 DEF PushMessage, PushReplyLost
    <3>2. ASSUME NEW w \in Workers, SaveProcessed(w)
          PROVE  msg'[m].req = msg[m].req
      BY <2>1, <3>2 DEF SaveProcessed, LinkMessages, MsgState
    <3>3. ASSUME NEW n \in Msgs, WatchRecords(n)
          PROVE  msg'[m].req = msg[m].req
      BY <2>1, <3>3 DEF WatchRecords, MsgState
    <3> QED BY <2>1, <2>3, <3>1, <3>2, <3>3 DEF Frame
  <2>4. ASSUME msg[m].req = r
        PROVE  \E w \in Workers : m \in worker[w].sent /\ worker[w].pc = "params"
    BY <1>1, <2>1, <2>2, <2>4 DEF Forgotten
  <2> QED BY <2>1, <2>2, <2>3, <2>4
<1>2. CASE New = {}
  BY <1>2
<1>3. ASSUME NEW m \in New, msg[m].req # r
      PROVE  /\ faults' = faults + 1 /\ MaxParams > 0
             /\ Forgotten(r)' \subseteq Forgotten(r) \cup {m}
  <2>1. PICK w \in Workers : PushMessage(w, m) \/ PushReplyLost(w, m)
    BY <1>1, <1>3
  <2>2. ~PushMessage(w, m)
    <3>1. ASSUME PushMessage(w, m)
          PROVE  m \in worker'[w].sent /\ worker'[w].pc = "params"
      BY <3>1 DEF PushMessage, Moved, WorkerState
    <3> QED BY <1>1, <3>1
  <2>3. PushReplyLost(w, m)
    BY <2>1, <2>2
  <2>4. /\ worker'[w].sent = worker[w].sent /\ worker'[w].pc = "params" /\ worker[w].pc = "params"
        /\ \A v \in Workers : v # w => worker'[v] = worker[v]
        /\ \A n \in Msgs : n # m => msg'[n] = msg[n]
        /\ faults' = faults + 1 /\ worker[w].todo > 0
    BY <2>3 DEF PushReplyLost, Moved, WorkerState
  <2>5. MaxParams > 0
    BY <2>4, ConstantsAssumption DEF WorkerState
  <2>6. Forgotten(r)' \subseteq Forgotten(r) \cup {m}
    BY <2>4 DEF Forgotten
  <2> QED BY <2>4, <2>5, <2>6
<1>4. ASSUME NEW m \in New, \A n \in New : msg[n].req = r
      PROVE  /\ faults' = faults + 1
             /\ \E w \in Workers : Forgotten(r)' \subseteq Forgotten(r) \cup worker[w].sent
  <2>1. PICK w \in Workers : m \in worker[w].sent /\ worker[w].pc = "params"
    BY <1>1, <1>4
  <2>2. ASSUME NEW v \in Workers, NEW n \in New, n \in worker[v].sent, worker[v].pc = "params"
        PROVE  v = w
    <3>1. WorkerSound(v) /\ WorkerSound(w)
      BY <2>1, <2>2 DEF CopiesSound, BusyWorkers
    <3>2. worker[v].id = r /\ worker[w].id = r
      BY <1>4, <2>1, <2>2, <3>1 DEF WorkerSound
    <3> QED BY <2>1, <2>2, <3>2 DEF OneGoroutinePerRequest, BusyWorkers
  <2>3. New \subseteq worker[w].sent
    BY <1>1, <1>4, <2>2
  <2>4. worker'[w] # worker[w]
    BY <1>1, <2>1
  <2>5. SaveProcessedFails(w) \/ CrashRestart
    <3>1. ASSUME NEW s \in found, NEW v \in Workers, ProcessorLaunch(s, v)
          PROVE  FALSE
      BY <2>1, <2>4, <3>1 DEF ProcessorLaunch
    <3>2. ASSUME NEW v \in Workers, WorkerStep(v) PROVE SaveProcessedFails(w)
      <4>1. v = w
        BY <2>4, <3>2 DEF WorkerStep, CheckBasefee, BasefeeUnknown, PlanExtend,
           ParamFails, DryRunParam, PushMessage, PushReplyLost, SaveProcessed,
           SaveProcessedFails, FinishWorker, Moved
      <4>2. ASSUME SaveProcessed(w) PROVE FALSE
        <5>1. msg'[m].linked
          BY <1>1, <2>1, <4>2 DEF SaveProcessed, LinkMessages, MsgState
        <5> QED BY <1>1, <5>1
      <4>3. ASSUME ParamFails(w) \/ DryRunParam(w)
                   \/ \E n \in Msgs : PushMessage(w, n) \/ PushReplyLost(w, n)
            PROVE  m \in worker'[w].sent /\ worker'[w].pc = "params"
        <5>1. worker[w] \in WorkerState
          OBVIOUS
        <5>2. CASE ParamFails(w)
          BY <2>1, <5>1, <5>2 DEF ParamFails, Moved, WorkerState
        <5>3. CASE DryRunParam(w)
          BY <2>1, <5>1, <5>3 DEF DryRunParam, BuiltDryRun, Moved, WorkerState
        <5>4. ASSUME NEW n \in Msgs, PushMessage(w, n)
              PROVE  m \in worker'[w].sent /\ worker'[w].pc = "params"
          BY <2>1, <5>1, <5>4 DEF PushMessage, Moved, WorkerState
        <5>5. ASSUME NEW n \in Msgs, PushReplyLost(w, n)
              PROVE  m \in worker'[w].sent /\ worker'[w].pc = "params"
          BY <2>1, <5>1, <5>5 DEF PushReplyLost, Moved, WorkerState
        <5> QED BY <4>3, <5>2, <5>3, <5>4, <5>5
      <4>4. ASSUME CheckBasefee(w) \/ BasefeeUnknown(w) \/ PlanExtend(w) \/ FinishWorker(w)
            PROVE  FALSE
        BY <2>1, <4>4 DEF CheckBasefee, BasefeeUnknown, PlanExtend, FinishWorker
      <4> QED BY <1>1, <3>2, <4>1, <4>2, <4>3, <4>4 DEF WorkerStep
    <3>3. CASE UNCHANGED <<worker, processing>>
      BY <2>4, <3>3
    <3> QED BY <3>1, <3>2, <3>3 DEF Frame
  <2>6. faults' = faults + 1
    BY <2>5 DEF SaveProcessedFails, CrashRestart
  <2> QED BY <2>3, <2>6
<1>5. CASE \E m \in New : msg[m].req # r
  <2>1. PICK m \in New : msg[m].req # r
    BY <1>5
  <2> QED BY <1>1, <1>3, <2>1
<1>6. CASE New # {} /\ \A m \in New : msg[m].req = r
  <2>1. PICK m \in New : TRUE
    BY <1>6
  <2> QED BY <1>4, <1>6, <2>1
<1> QED BY <1>2, <1>5, <1>6

\* Each fault costs a request one run's messages at most.
LEMMA LossStep == IInv /\ LossInv /\ [Next]_vars => LossInv'
<1> SUFFICES ASSUME IInv, LossInv, [Next]_vars PROVE LossInv'
  OBVIOUS
<1>1. Frame /\ MessagesStay
  BY StepFrame, MessagesStayStep DEF IInv
<1>2. SentCounted'
  BY <1>1, SentStep DEF IInv, LossInv
<1>3. ASSUME NEW r \in Requests
      PROVE  IsFiniteSet(Forgotten(r)') /\ Cardinality(Forgotten(r)') <= faults' * MaxParams
  <2> DEFINE old == Forgotten(r)  new == Forgotten(r)'
  <2>1. /\ IsFiniteSet(old) /\ Cardinality(old) \in Nat
        /\ Cardinality(old) <= faults * MaxParams
    BY FS_CardinalityType DEF LossInv, ForgottenFinite, ForgottenBounded
  <2>2. faults \in Nat /\ faults' \in Nat /\ MaxParams \in Nat /\ faults <= faults'
    BY <1>1, ConstantsAssumption DEF Frame, IInv, TypeOK
  <2>3. ASSUME NEW X, IsFiniteSet(X), Cardinality(X) <= MaxParams, faults' = faults + 1,
               new \subseteq old \cup X
        PROVE  IsFiniteSet(new) /\ Cardinality(new) <= faults' * MaxParams
    <3> HIDE DEF old, new
    <3>1. /\ IsFiniteSet(old \cup X)
          /\ Cardinality(old \cup X) = Cardinality(old) + Cardinality(X) - Cardinality(old \cap X)
      BY <2>1, <2>3, FS_Union
    <3>2. IsFiniteSet(old \cap X)
      BY <2>1, FS_Subset
    <3>3. Cardinality(old \cap X) \in Nat /\ Cardinality(X) \in Nat
          /\ Cardinality(old \cup X) \in Nat
      BY <2>3, <3>1, <3>2, FS_CardinalityType
    <3>4. IsFiniteSet(new) /\ Cardinality(new) <= Cardinality(old \cup X)
      BY <2>3, <3>1, FS_Subset
    <3>5. Cardinality(new) \in Nat
      BY <3>4, FS_CardinalityType
    <3>6. (faults + 1) * MaxParams = faults * MaxParams + MaxParams
      BY <2>2
    <3>7. faults * MaxParams \in Nat
      BY <2>2
    <3> QED BY <2>1, <2>2, <2>3, <3>1, <3>3, <3>4, <3>5, <3>6, <3>7
  <2>4. CASE new \subseteq old
    <3>1. IsFiniteSet(new) /\ Cardinality(new) <= Cardinality(old)
      BY <2>1, <2>4, FS_Subset
    <3>2. faults * MaxParams <= faults' * MaxParams /\ faults * MaxParams \in Nat
          /\ faults' * MaxParams \in Nat
      <4>1. faults' = faults \/ faults' = faults + 1
        BY <1>1 DEF Frame
      <4>2. (faults + 1) * MaxParams = faults * MaxParams + MaxParams
        BY <2>2
      <4>3. faults * MaxParams \in Nat
        BY <2>2
      <4>4. CASE faults' = faults
        BY <2>2, <4>3, <4>4
      <4>5. CASE faults' = faults + 1
        BY <2>2, <4>2, <4>3, <4>5
      <4> QED BY <4>1, <4>4, <4>5
    <3>3. Cardinality(new) \in Nat
      BY <3>1, FS_CardinalityType
    <3> QED BY <2>1, <3>1, <3>2, <3>3
  <2>5. ASSUME faults' = faults + 1, NEW w \in Workers, new \subseteq old \cup worker[w].sent
        PROVE  IsFiniteSet(new) /\ Cardinality(new) <= faults' * MaxParams
    <3>1. worker[w].published <= MaxParams /\ worker[w].published \in Nat
      BY ConstantsAssumption DEF IInv, TypeOK, WorkerState
    <3>2. IsFiniteSet(worker[w].sent) /\ Cardinality(worker[w].sent) <= worker[w].published
      BY DEF LossInv, SentCounted
    <3>3. Cardinality(worker[w].sent) \in Nat
      BY <3>2, FS_CardinalityType
    <3>4. Cardinality(worker[w].sent) <= MaxParams
      BY <2>2, <3>1, <3>2, <3>3
    <3> QED BY <2>3, <2>5, <3>2, <3>4
  <2>6. ASSUME faults' = faults + 1, MaxParams > 0, NEW m \in Msgs, new \subseteq old \cup {m}
        PROVE  IsFiniteSet(new) /\ Cardinality(new) <= faults' * MaxParams
    <3>1. IsFiniteSet({m}) /\ Cardinality({m}) = 1
      BY FS_Singleton
    <3>2. Cardinality({m}) <= MaxParams
      BY <2>2, <2>6, <3>1
    <3> QED BY <2>3, <2>6, <3>1, <3>2
  <2> QED BY <1>1, <2>4, <2>5, <2>6, ForgottenGrows DEF LossInv
<1>4. ForgottenFinite' /\ ForgottenBounded'
  BY <1>3 DEF ForgottenFinite, ForgottenBounded
<1> QED BY <1>2, <1>4 DEF LossInv

\* A crash, a failed save or a lost reply costs a request at most the messages
\* of one run of extend, for any number of requests, goroutines and faults.
THEOREM LossIsBounded == Spec => []ForgottenBounded
<1>1. Init => LossInv
  <2> SUFFICES ASSUME Init PROVE LossInv
    OBVIOUS
  <2>1. SentCounted
    <3>1. \A w \in Workers : worker[w].sent = {} /\ worker[w].published = 0
      BY DEF Init, IdleWorker
    <3> QED BY <3>1, FS_EmptySet DEF SentCounted
  <2>2. ASSUME NEW r \in Requests PROVE Forgotten(r) = {}
    BY ConstantsAssumption DEF Init, Forgotten, Unpublished
  <2>3. faults * MaxParams = 0
    BY ConstantsAssumption DEF Init
  <2>4. ForgottenFinite /\ ForgottenBounded
    BY <2>2, <2>3, FS_EmptySet DEF ForgottenFinite, ForgottenBounded
  <2> QED BY <2>1, <2>4 DEF LossInv
<1>2. LossInv => ForgottenBounded
  BY DEF LossInv
<1> QED BY <1>1, <1>2, LossStep, Invariance, PTL DEF Spec

-----------------------------------------------------------------------------
(* What a request reports as published *)

\* What row says was published for r is linked to r after the step.
LinkedNext(r) == {m \in Msgs : msg'[m].req = r /\ msg'[m].linked}
StaysBacked(r, row) == ~row.dryRun => row.published <= Cardinality(LinkedNext(r))

\* The messages linked to a request only grow, and stay finitely many.
LEMMA LinkedGrows ==
  ASSUME TypeOK, SentReported, MessagesStay, Frame, NEW r \in Requests,
         IsFiniteSet(Linked(r))
  PROVE  /\ Linked(r) \subseteq LinkedNext(r) /\ IsFiniteSet(LinkedNext(r))
         /\ Cardinality(Linked(r)) <= Cardinality(LinkedNext(r))
         /\ Cardinality(Linked(r)) \in Nat /\ Cardinality(LinkedNext(r)) \in Nat
<1> USE DEF TypeOK
<1>1. Linked(r) \subseteq LinkedNext(r)
  BY ConstantsAssumption DEF Linked, LinkedNext, MessagesStay
<1>2. IsFiniteSet(LinkedNext(r))
  <2>1. ASSUME LinkedNext(r) \subseteq Linked(r) PROVE IsFiniteSet(LinkedNext(r))
    BY <2>1, FS_Subset
  <2>2. CASE UNCHANGED msg
    BY <2>1, <2>2 DEF Linked, LinkedNext
  <2>3. ASSUME NEW w \in Workers, NEW m \in Msgs, PushMessage(w, m) \/ PushReplyLost(w, m)
        PROVE  LinkedNext(r) \subseteq Linked(r) \cup {m}
    BY <2>3 DEF PushMessage, PushReplyLost, Linked, LinkedNext, MsgState
  <2>4. ASSUME NEW w \in Workers, SaveProcessed(w)
        PROVE  LinkedNext(r) \subseteq Linked(r) \cup worker[w].sent
    BY <2>4 DEF SaveProcessed, LinkMessages, Linked, LinkedNext, MsgState
  <2>5. ASSUME NEW m \in Msgs, WatchRecords(m) PROVE LinkedNext(r) \subseteq Linked(r)
    BY <2>5 DEF WatchRecords, Linked, LinkedNext, MsgState
  <2>6. ASSUME NEW X, IsFiniteSet(X), LinkedNext(r) \subseteq Linked(r) \cup X
        PROVE  IsFiniteSet(LinkedNext(r))
    BY <2>6, FS_Union, FS_Subset
  <2>7. \A m \in Msgs : IsFiniteSet({m})
    BY FS_Singleton
  <2> QED BY <2>1, <2>2, <2>3, <2>4, <2>5, <2>6, <2>7 DEF Frame, SentReported
<1>3. Cardinality(Linked(r)) <= Cardinality(LinkedNext(r))
  BY <1>1, <1>2, FS_Subset
<1> QED BY <1>1, <1>2, <1>3, FS_CardinalityType

\* A backed copy stays backed, since messages are never unlinked.
LEMMA BackedStays ==
  ASSUME TypeOK, SentReported, MessagesStay, Frame, NEW r \in Requests,
         IsFiniteSet(Linked(r)), NEW row \in Row, Backed(r, row)
  PROVE  StaysBacked(r, row)
<1>1. row.published \in Nat
  BY DEF Row
<1> QED BY <1>1, LinkedGrows DEF Backed, StaysBacked

\* A run that is not dry holds as many messages as it reports.
LEMMA SentReportedStep ==
  ASSUME TypeOK, TypeOK', CountersBounded, CopiesSound, SentReported, Frame
  PROVE  SentReported'
<1> USE DEF TypeOK
<1> DEFINE Reported(w) ==
      /\ IsFiniteSet(worker'[w].sent)
      /\ ~worker'[w].row.dryRun => worker'[w].published <= Cardinality(worker'[w].sent)
<1>1. ASSUME NEW w \in Workers, worker'[w].sent = worker[w].sent,
             worker'[w].row = worker[w].row,
             worker'[w].published = worker[w].published \/ worker[w].row.dryRun
      PROVE  Reported(w)
  BY <1>1 DEF SentReported
<1>2. ASSUME NEW w \in Workers, worker'[w].sent = {}, worker'[w].published = 0
      PROVE  Reported(w)
  BY <1>2, FS_EmptySet
<1>3. ASSUME NEW w \in Workers, NEW m \in Msgs, PushMessage(w, m) PROVE Reported(w)
  <2>1. worker[w] \in WorkerState
    OBVIOUS
  <2>2. WorkerSound(w)
    BY <1>3 DEF PushMessage, CopiesSound, BusyWorkers
  <2>3. m \notin worker[w].sent
    BY <1>3, <2>2, ConstantsAssumption DEF PushMessage, WorkerSound, CopySound
  <2>4. /\ IsFiniteSet(worker[w].sent \cup {m})
        /\ Cardinality(worker[w].sent \cup {m}) = Cardinality(worker[w].sent) + 1
    BY <2>3, FS_AddElement DEF SentReported
  <2>5. Cardinality(worker[w].sent) \in Nat /\ worker[w].published \in Nat
    BY <2>1, ConstantsAssumption, FS_CardinalityType DEF SentReported, WorkerState
  <2>6. ~worker[w].row.dryRun => worker[w].published <= Cardinality(worker[w].sent)
    BY DEF SentReported
  <2>7. /\ worker'[w].sent = worker[w].sent \cup {m}
        /\ worker'[w].row = worker[w].row
        /\ worker'[w].published = worker[w].published + 1
    BY <1>3, <2>1 DEF PushMessage, Moved, WorkerState
  <2> QED BY <2>4, <2>5, <2>6, <2>7
<1>4. CASE UNCHANGED <<worker, processing>>
  BY <1>1, <1>4 DEF SentReported
<1>5. ASSUME NEW s \in found, NEW w \in Workers, ProcessorLaunch(s, w)
      PROVE  SentReported'
  <2>1. worker'[w].sent = {} /\ worker'[w].published = 0
        /\ \A v \in Workers : v # w => worker'[v] = worker[v]
    BY <1>5 DEF ProcessorLaunch, IdleWorker
  <2> QED BY <1>1, <1>2, <2>1 DEF SentReported
<1>6. ASSUME NEW w \in Workers, WorkerStep(w) PROVE SentReported'
  <2>1. \A v \in Workers : v # w => worker'[v] = worker[v]
    BY <1>6 DEF WorkerStep, CheckBasefee, BasefeeUnknown, PlanExtend, ParamFails,
       DryRunParam, PushMessage, PushReplyLost, SaveProcessed, SaveProcessedFails,
       FinishWorker, Moved
  <2>2. worker[w] \in WorkerState
    OBVIOUS
  <2>3. ASSUME FinishWorker(w) PROVE Reported(w)
    <3>1. worker'[w].sent = {} /\ worker'[w].published = 0
      BY <2>3 DEF FinishWorker, IdleWorker
    <3> QED BY <1>2, <3>1
  <2>4. ASSUME DryRunParam(w) PROVE Reported(w)
    BY <1>1, <2>2, <2>4 DEF DryRunParam, BuiltDryRun, Moved, WorkerState
  <2>5. ASSUME \/ CheckBasefee(w) \/ BasefeeUnknown(w) \/ PlanExtend(w) \/ ParamFails(w)
               \/ SaveProcessed(w) \/ SaveProcessedFails(w)
               \/ \E m \in Msgs : PushReplyLost(w, m)
        PROVE  /\ worker'[w].sent = worker[w].sent /\ worker'[w].row = worker[w].row
               /\ worker'[w].published = worker[w].published
    <3>1. CASE CheckBasefee(w) \/ BasefeeUnknown(w)
      BY <2>2, <3>1 DEF CheckBasefee, BasefeeUnknown, Moved, WorkerState
    <3>2. CASE PlanExtend(w)
      BY <2>2, <3>2 DEF PlanExtend, Moved, WorkerState
    <3>3. CASE ParamFails(w)
      BY <2>2, <3>3 DEF ParamFails, Moved, WorkerState
    <3>4. CASE SaveProcessed(w) \/ SaveProcessedFails(w)
      BY <2>2, <3>4 DEF SaveProcessed, SaveProcessedFails, Moved, WorkerState
    <3>5. CASE \E m \in Msgs : PushReplyLost(w, m)
      BY <2>2, <3>5 DEF PushReplyLost, Moved, WorkerState
    <3> QED BY <2>5, <3>1, <3>2, <3>3, <3>4, <3>5
  <2>6. Reported(w)
    <3> HIDE DEF Reported
    <3> QED BY <1>1, <1>3, <1>6, <2>3, <2>4, <2>5 DEF WorkerStep
  <2> QED BY <1>1, <2>1, <2>6 DEF SentReported
<1>7. CASE CrashRestart
  <2>1. \A w \in Workers : worker'[w].sent = {} /\ worker'[w].published = 0
    BY <1>7 DEF CrashRestart, IdleWorker
  <2> QED BY <1>2, <2>1 DEF SentReported
<1> QED BY <1>4, <1>5, <1>6, <1>7 DEF Frame

\* What checkMessage saw of the messages of a request is linked to it.
LEMMA SeenIsLinked ==
  ASSUME TypeOK, CopiesSound, ReportInv, NEW c \in BusyCheckers
  PROVE  /\ checker[c].id \in Requests
         /\ DOMAIN checker[c].view \subseteq Linked(checker[c].id)
         /\ Backed(checker[c].id, checker[c].row)
<1> DEFINE seen == DOMAIN checker[c].view  linked == Linked(checker[c].id)
<1>1. CheckerSound(c) /\ checker[c] \in CheckerState
  BY DEF CopiesSound, TypeOK, BusyCheckers
<1>2. checker[c].id \in Requests
  BY <1>1 DEF CheckerSound, CopySound
<1>3. seen \subseteq linked
  <2>1. seen \subseteq Msgs
    BY <1>1 DEF CheckerState, Views
  <2> QED BY <1>1, <2>1 DEF CheckerSound, ViewSound, Linked
<1>4. IsFiniteSet(linked) /\ checker[c].row.published <= Cardinality(seen)
  BY <1>2 DEF ReportInv
<1>5. checker[c].row.published \in Nat
  BY <1>1 DEF CheckerState, Row
<1> HIDE DEF seen, linked
<1>6. /\ Cardinality(seen) <= Cardinality(linked)
      /\ Cardinality(seen) \in Nat /\ Cardinality(linked) \in Nat
  BY <1>3, <1>4, FS_Subset, FS_CardinalityType
<1>7. checker[c].row.published <= Cardinality(linked)
  BY <1>4, <1>5, <1>6
<1> QED BY <1>2, <1>3, <1>7 DEF Backed, seen, linked

\* Whoever saves a row, what it reports is linked.
LEMMA BackedRows ==
  ASSUME TypeOK, CopiesSound, ReportInv, MessagesStay, Frame, NEW r \in Requests
  PROVE  StaysBacked(r, db'[r])
<1> USE DEF TypeOK
<1>1. \A row \in Row : Backed(r, row) => StaysBacked(r, row)
  BY BackedStays DEF ReportInv
<1>2. CASE db'[r] = db[r]
  BY <1>1, <1>2 DEF ReportInv
<1>3. ASSUME NEW q \in Requests, CreateRequest(q), db'[r] # db[r]
      PROVE  StaysBacked(r, db'[r])
  <2>1. db'[r].published = 0
    BY <1>3 DEF CreateRequest, NoRow
  <2> QED BY <2>1, LinkedGrows DEF ReportInv, StaysBacked
<1>4. ASSUME NEW p \in Patchers, UpdateSave(p), db'[r] # db[r]
      PROVE  StaysBacked(r, db'[r])
  <2>1. patcher[p].id = r /\ db'[r] = PatchedRow(p) /\ patcher[p].pc = "save"
    BY <1>4 DEF UpdateSave
  <2>2. /\ PatchedRow(p).dryRun = patcher[p].row.dryRun
        /\ PatchedRow(p).published = patcher[p].row.published
        /\ patcher[p].row \in Row
    BY DEF PatchedRow, PatcherState, Row
  <2>3. StaysBacked(r, patcher[p].row)
    BY <1>1, <2>1, <2>2 DEF ReportInv
  <2> QED BY <2>1, <2>2, <2>3 DEF StaysBacked
<1>5. ASSUME NEW w \in Workers, SaveProcessed(w), db'[r] # db[r]
      PROVE  StaysBacked(r, db'[r])
  <2>1. worker[w] \in WorkerState /\ worker[w].row \in Row
    BY DEF WorkerState
  <2>2. WorkerSound(w) /\ w \in BusyWorkers
    BY <1>5 DEF CopiesSound, SaveProcessed, BusyWorkers
  <2>3. worker[w].id = r /\ db'[r] = ProcessedRow(w)
    BY <1>5 DEF SaveProcessed
  <2>4. /\ ProcessedRow(w).dryRun = worker[w].row.dryRun
        /\ \/ ProcessedRow(w).published = worker[w].row.published
           \/ ProcessedRow(w).published = worker[w].published
    BY <2>1 DEF ProcessedRow, NothingPublished, Row
  <2>5. StaysBacked(r, worker[w].row)
    BY <1>1, <2>1, <2>2, <2>3 DEF ReportInv
  <2>6. worker[w].sent \subseteq LinkedNext(r)
    BY <1>5, <2>1, <2>2, <2>3 DEF SaveProcessed, LinkMessages, MsgState, WorkerSound,
       WorkerState, LinkedNext
  <2>7. /\ IsFiniteSet(LinkedNext(r)) /\ Cardinality(LinkedNext(r)) \in Nat
    BY LinkedGrows DEF ReportInv
  <2>8. Cardinality(worker[w].sent) <= Cardinality(LinkedNext(r))
        /\ IsFiniteSet(worker[w].sent)
    BY <2>6, <2>7, FS_Subset
  <2>9. Cardinality(worker[w].sent) \in Nat /\ worker[w].published \in Nat
    BY <2>1, <2>8, FS_CardinalityType, ConstantsAssumption DEF WorkerState
  <2>10. ~worker[w].row.dryRun => worker[w].published <= Cardinality(LinkedNext(r))
    BY <2>7, <2>8, <2>9 DEF ReportInv, SentReported
  <2> QED BY <2>3, <2>4, <2>5, <2>10 DEF StaysBacked
<1>6. ASSUME NEW c \in Checkers, CheckSave(c), db'[r] # db[r]
      PROVE  StaysBacked(r, db'[r])
  <2>1. checker[c].id = r /\ db'[r] = CheckedRow(c) /\ c \in BusyCheckers
    BY <1>6 DEF CheckSave, BusyCheckers
  <2>2. /\ CheckedRow(c).dryRun = checker[c].row.dryRun
        /\ CheckedRow(c).published = checker[c].row.published
        /\ checker[c].row \in Row
    BY DEF CheckedRow, CheckerState, Row
  <2>3. StaysBacked(r, checker[c].row)
    BY <1>1, <2>1, <2>2, SeenIsLinked
  <2> QED BY <2>1, <2>2, <2>3 DEF StaysBacked
<1> QED BY <1>2, <1>3, <1>4, <1>5, <1>6 DEF Frame

\* Every copy that a step makes, keeps or saves is backed.
LEMMA ReportStep == IInv /\ IInv' /\ ReportInv /\ [Next]_vars => ReportInv'
<1> SUFFICES ASSUME IInv, IInv', ReportInv, [Next]_vars PROVE ReportInv'
  OBVIOUS
<1> USE DEF TypeOK
<1>1. /\ TypeOK /\ TypeOK' /\ CountersBounded /\ CopiesSound /\ CopiesSound'
      /\ SentReported
  BY DEF IInv, ReportInv
<1>2. Frame /\ MessagesStay
  BY <1>1, StepFrame, MessagesStayStep
<1>3. ASSUME NEW r \in Requests, NEW row \in Row, Backed(r, row)
      PROVE  StaysBacked(r, row)
  BY <1>1, <1>2, <1>3, BackedStays DEF ReportInv
<1>4. ASSUME NEW r \in Requests PROVE IsFiniteSet(LinkedNext(r)) /\ StaysBacked(r, db'[r])
  BY <1>1, <1>2, BackedRows, LinkedGrows DEF ReportInv
<1>5. \A r \in Requests : StaysBacked(r, db[r])
  BY <1>1, <1>3 DEF ReportInv
<1>6. \A s \in found' : StaysBacked(s.id, s.row)
  <2>1. CASE found' \subseteq found
    BY <1>1, <1>3, <2>1 DEF ReportInv
  <2>2. CASE ProcessorTick
    BY <1>5, <2>2 DEF ProcessorTick
  <2> QED BY <1>2, <2>1, <2>2 DEF Frame
<1>7. \A s \in pendingRows' : StaysBacked(s.id, s.row)
  <2>1. CASE pendingRows' \subseteq pendingRows
    BY <1>1, <1>3, <2>1 DEF ReportInv
  <2>2. CASE CheckerTick
    BY <1>5, <2>2 DEF CheckerTick
  <2> QED BY <1>2, <2>1, <2>2 DEF Frame
<1>16. \A s \in foundPending' : s.row.published <= Cardinality(DOMAIN s.view)
  <2>1. CASE foundPending' \subseteq foundPending
    BY <2>1 DEF ReportInv
  <2>2. CASE CheckerPreload
    <3> TAKE s \in foundPending'
    <3>1. PICK t \in pendingRows :
            s = [id |-> t.id, row |-> t.row, view |-> View(t.id)]
      BY <2>2 DEF CheckerPreload
    <3>2. ~t.row.dryRun
      BY <1>1 DEF CopiesSound, CopySound, RowSound
    <3>3. t.row.published <= Cardinality(Linked(t.id))
      BY <3>2 DEF ReportInv, Backed
    <3>4. DOMAIN s.view = Linked(t.id) /\ s.row = t.row
      BY <3>1 DEF View
    <3> QED BY <3>3, <3>4
  <2> QED BY <1>2, <2>1, <2>2 DEF Frame
<1>8. \A w \in BusyWorkers' : StaysBacked(worker'[w].id, worker'[w].row)
  <2>1. ASSUME NEW w \in Workers, worker[w].pc # "idle",
               worker'[w].id = worker[w].id, worker'[w].row = worker[w].row
        PROVE  StaysBacked(worker'[w].id, worker'[w].row)
    <3>1. w \in BusyWorkers /\ worker[w].id \in Requests /\ worker[w].row \in Row
      BY <1>1, <2>1 DEF BusyWorkers, CopiesSound, WorkerSound, CopySound, WorkerState
    <3> QED BY <1>3, <2>1, <3>1 DEF ReportInv
  <2>2. CASE UNCHANGED <<worker, processing>>
    BY <2>1, <2>2 DEF BusyWorkers
  <2>3. ASSUME NEW s \in found, NEW w \in Workers, ProcessorLaunch(s, w)
        PROVE  \A v \in BusyWorkers' : StaysBacked(worker'[v].id, worker'[v].row)
    <3>1. /\ worker'[w].id = s.id /\ worker'[w].row = s.row
          /\ \A v \in Workers : v # w => worker'[v] = worker[v]
      BY <1>1, <2>3 DEF ProcessorLaunch, IdleWorker
    <3>2. StaysBacked(s.id, s.row)
      BY <1>1, <1>3 DEF ReportInv
    <3> QED BY <2>1, <3>1, <3>2 DEF BusyWorkers
  <2>4. ASSUME NEW w \in Workers, FinishWorker(w)
        PROVE  \A v \in BusyWorkers' : StaysBacked(worker'[v].id, worker'[v].row)
    <3>1. /\ worker'[w].pc = "idle"
          /\ \A v \in Workers : v # w => worker'[v] = worker[v]
      BY <1>1, <2>4 DEF FinishWorker, IdleWorker
    <3> QED BY <2>1, <3>1 DEF BusyWorkers
  <2>5. ASSUME NEW w \in Workers, WorkerStep(w), ~FinishWorker(w)
        PROVE  \A v \in BusyWorkers' : StaysBacked(worker'[v].id, worker'[v].row)
    <3>1. OwnStep(w)
      BY <1>1, <2>5, WorkerStepKeeps
    <3> QED BY <2>1, <3>1 DEF OwnStep, BusyWorkers
  <2>6. CASE CrashRestart
    BY <2>6 DEF CrashRestart, BusyWorkers, IdleWorker
  <2> QED BY <1>2, <2>2, <2>3, <2>4, <2>5, <2>6 DEF Frame
<1>9. \A c \in BusyCheckers' :
        checker'[c].row.published <= Cardinality(DOMAIN checker'[c].view)
  <2>1. CASE UNCHANGED <<checker, checking>>
    BY <2>1 DEF ReportInv, BusyCheckers
  <2>2. ASSUME NEW s \in foundPending, NEW c \in Checkers, CheckerLaunch(s, c)
        PROVE  <1>9!:
    <3>1. /\ checker'[c].row = s.row /\ checker'[c].view = s.view
          /\ \A b \in Checkers : b # c => checker'[b] = checker[b]
      BY <1>1, <2>2 DEF CheckerLaunch
    <3>2. s.row.published <= Cardinality(DOMAIN s.view)
      BY DEF ReportInv
    <3> QED BY <3>1, <3>2 DEF ReportInv, BusyCheckers
  <2>3. ASSUME NEW c \in Checkers, CheckerStep(c) PROVE <1>9!:
    <3>1. /\ checker[c].pc # "idle"
          /\ \A b \in Checkers : b # c => checker'[b] = checker[b]
          /\ \/ checker'[c].pc = "idle"
             \/ /\ checker'[c].row = checker[c].row
                /\ checker'[c].view = checker[c].view
      BY <1>1, <2>3 DEF CheckerStep, CheckWatch, CheckSave, CheckSaveFails,
                  FinishChecker, IdleChecker, CheckerState
    <3> QED BY <3>1 DEF ReportInv, BusyCheckers
  <2>4. CASE CrashRestart
    BY <2>4 DEF CrashRestart, BusyCheckers, IdleChecker
  <2> QED BY <1>2, <2>1, <2>2, <2>3, <2>4 DEF Frame
<1>10. \A p \in Patchers : patcher'[p].pc = "save" =>
         StaysBacked(patcher'[p].id, patcher'[p].row)
  <2>1. ASSUME NEW p \in Patchers, patcher'[p] = patcher[p], patcher[p].pc = "save"
        PROVE  StaysBacked(patcher'[p].id, patcher'[p].row)
    <3>1. patcher[p].id \in Requests /\ patcher[p].row \in Row
      BY <1>1, <2>1 DEF CopiesSound, CopySound, PatcherState
    <3> QED BY <1>3, <2>1, <3>1 DEF ReportInv
  <2>2. CASE UNCHANGED patcher
    BY <2>1, <2>2
  <2>3. ASSUME NEW p \in Patchers, NEW r \in Requests, UpdateRead(p, r)
        PROVE  \A q \in Patchers : patcher'[q].pc = "save" =>
                 StaysBacked(patcher'[q].id, patcher'[q].row)
    <3>1. /\ patcher'[p].id = r /\ patcher'[p].row = db[r]
          /\ \A q \in Patchers : q # p => patcher'[q] = patcher[q]
      BY <1>1, <2>3 DEF UpdateRead
    <3> QED BY <1>5, <2>1, <3>1
  <2>4. ASSUME NEW p \in Patchers, UpdateSave(p) \/ UpdateFails(p)
        PROVE  \A q \in Patchers : patcher'[q].pc = "save" =>
                 StaysBacked(patcher'[q].id, patcher'[q].row)
    <3>1. /\ patcher'[p].pc = "idle"
          /\ \A q \in Patchers : q # p => patcher'[q] = patcher[q]
      BY <1>1, <2>4 DEF UpdateSave, UpdateFails, IdlePatcher
    <3> QED BY <2>1, <3>1
  <2>5. CASE CrashRestart
    BY <2>5 DEF CrashRestart, IdlePatcher
  <2> QED BY <1>2, <2>2, <2>3, <2>4, <2>5 DEF Frame
<1>11. SentReported'
  BY <1>1, <1>2, SentReportedStep
<1>12. ASSUME NEW r, NEW row, StaysBacked(r, row)
       PROVE  Backed(r, row)'
  BY <1>12 DEF StaysBacked, LinkedNext, Backed, Linked
<1>13. \A r \in Requests : IsFiniteSet(Linked(r))' /\ Backed(r, db[r])'
  BY <1>4, <1>12 DEF LinkedNext, Linked, StaysBacked, Backed
<1>14. \A s \in (found \cup pendingRows)' : Backed(s.id, s.row)'
  BY <1>6, <1>7, <1>12
<1>15. /\ \A w \in BusyWorkers' : Backed(worker[w].id, worker[w].row)'
       /\ \A p \in Patchers :
            patcher'[p].pc = "save" => Backed(patcher[p].id, patcher[p].row)'
  BY <1>8, <1>10 DEF StaysBacked, LinkedNext, Backed, Linked
<1> QED BY <1>9, <1>11, <1>13, <1>14, <1>15, <1>16 DEF ReportInv

\* At the start nothing is reported.
LEMMA ReportInit == Init => ReportInv
<1> SUFFICES ASSUME Init PROVE ReportInv
  OBVIOUS
<1>1. SentReported
  <2>1. \A w \in Workers : worker[w].sent = {} /\ worker[w].published = 0
    BY DEF Init, IdleWorker
  <2> QED BY <2>1, FS_EmptySet DEF SentReported
<1>2. ASSUME NEW r \in Requests PROVE Linked(r) = {} /\ db[r].published = 0
  BY DEF Init, Linked, Unpublished, NoRow
<1>3. \A r \in Requests : IsFiniteSet(Linked(r)) /\ Backed(r, db[r])
  BY <1>2, FS_EmptySet DEF Backed
<1>4. /\ found \cup pendingRows = {} /\ foundPending = {}
      /\ BusyWorkers = {} /\ BusyCheckers = {}
      /\ \A p \in Patchers : patcher[p].pc # "save"
  BY DEF Init, BusyWorkers, BusyCheckers, IdleWorker, IdleChecker, IdlePatcher
<1> QED BY <1>1, <1>3, <1>4 DEF ReportInv

\* Every copy of a row reports only what is linked, in every reachable state.
LEMMA ReportInvariance == Spec => []ReportInv
  BY ReportInit, ReportStep, Invariance, PTL DEF Spec

\* No request reports more sectors as published than its messages account for,
\* whatever runs overlap, copies are saved late, or faults come in between
\* (service.go:246-293).
THEOREM NothingOverstated == Spec => []PublishedNotOverstated
<1>1. ReportInv => PublishedNotOverstated
  BY DEF ReportInv, PublishedNotOverstated
<1> QED BY <1>1, ReportInvariance, PTL

-----------------------------------------------------------------------------
(* Successes are earned *)

\* processRequest makes a success of a run that published nothing.
LEMMA ProcessedSuccess ==
  ASSUME IInv, SentCounted, NEW w \in Workers, SaveProcessed(w),
         ProcessedRow(w).status = "success"
  PROVE  ~worker[w].err /\ worker[w].sent = {}
<1> USE DEF IInv, TypeOK
<1>1. worker[w] \in WorkerState /\ worker[w].row \in Row /\ WorkerSound(w)
  BY DEF CopiesSound, SaveProcessed, BusyWorkers, WorkerState
<1>2. /\ ~worker[w].err
      /\ worker[w].published = 0 \/ worker[w].row.dryRun
  BY <1>1 DEF ProcessedRow, NothingPublished, Row
<1>3. ASSUME worker[w].row.dryRun, NEW m \in worker[w].sent PROVE FALSE
  <2>1. m \in Msgs /\ msg[m].req = worker[w].id /\ worker[w].id \in Requests
    BY <1>1 DEF WorkerSound, WorkerState, CopySound
  <2>2. msg[m].req # NoReq
    BY <2>1, ConstantsAssumption
  <2> QED BY <1>1, <1>3, <2>1, <2>2 DEF TablesSound, WorkerSound, CopySound
<1>4. ASSUME worker[w].published = 0 PROVE worker[w].sent = {}
  <2>1. IsFiniteSet(worker[w].sent) /\ Cardinality(worker[w].sent) <= 0
    BY <1>4 DEF SentCounted
  <2>2. Cardinality(worker[w].sent) = 0
    BY <2>1, FS_CardinalityType
  <2> QED BY <2>1, <2>2, FS_EmptySet
<1> QED BY <1>2, <1>3, <1>4

\* checkMessage makes a success of messages that all succeeded, and that
\* account for what it saves as published.
LEMMA CheckedSuccess ==
  ASSUME IInv, ReportInv, NEW c \in Checkers, CheckSave(c),
         CheckedRow(c).status = "success"
  PROVE  /\ DOMAIN checker[c].view # {}
         /\ DOMAIN checker[c].view \subseteq Succeeded(checker[c].id)
         /\ CheckedRow(c).published <= Cardinality(Succeeded(checker[c].id))
<1> DEFINE seen == DOMAIN checker[c].view  ok == Succeeded(checker[c].id)
<1> USE DEF IInv, TypeOK
<1>1. /\ c \in BusyCheckers /\ CheckerSound(c) /\ AllOnChain(checker[c].view)
      /\ checker[c] \in CheckerState
  BY DEF CopiesSound, CheckSave, BusyCheckers
<1>2. checker[c].id \in Requests /\ seen \subseteq Linked(checker[c].id)
  BY <1>1, SeenIsLinked
<1>3. seen # {}
  BY <1>1 DEF CheckerSound, ViewSound
<1>4. seen \subseteq ok
  <2>1. ASSUME NEW m \in seen PROVE msg[m].receipt = "ok"
    <3>1. checker[c].view[m] \in Receipts
      BY <1>1 DEF CheckerState, Views
    <3>2. checker[c].view[m] # "pending" /\ checker[c].view[m] # "failed"
      BY <1>1, CheckedRowFacts DEF AllOnChain
    <3>3. checker[c].view[m] = msg[m].receipt
      BY <1>1, <3>2 DEF CheckerSound, ViewSound
    <3> QED BY <3>1, <3>2, <3>3 DEF Receipts
  <2> QED BY <1>2, <2>1 DEF Succeeded
<1>5. IsFiniteSet(ok)
  <2>1. IsFiniteSet(Linked(checker[c].id)) /\ ok \subseteq Linked(checker[c].id)
    BY <1>2 DEF ReportInv, Succeeded
  <2> QED BY ONLY <2>1, FS_Subset
<1>6. /\ CheckedRow(c).published = checker[c].row.published
      /\ checker[c].row.published \in Nat
  BY <1>1 DEF CheckedRow, CheckerState, Row
<1>7. checker[c].row.published <= Cardinality(seen)
  BY <1>1 DEF ReportInv
<1> HIDE DEF seen, ok
<1>8. /\ Cardinality(seen) <= Cardinality(ok)
      /\ Cardinality(seen) \in Nat /\ Cardinality(ok) \in Nat
  BY <1>4, <1>5, FS_Subset, FS_CardinalityType
<1>9. CheckedRow(c).published <= Cardinality(ok)
  BY <1>6, <1>7, <1>8
<1> QED BY <1>3, <1>4, <1>9 DEF seen, ok

Earned(q) ==
  \/ \E w \in Workers :
       /\ SaveProcessed(w) /\ worker[w].id = q
       /\ ~worker[w].err /\ worker[w].sent = {}
  \/ \E c \in Checkers :
       /\ CheckSave(c) /\ checker[c].id = q
       /\ DOMAIN checker[c].view # {}
       /\ DOMAIN checker[c].view \subseteq Succeeded(q)
       /\ db'[q].published <= Cardinality(Succeeded(q))

\* Nothing else makes a success.
LEMMA EarnedStep ==
  ASSUME IInv, SentCounted, ReportInv, Frame, NEW q \in Requests,
         db[q].status # "success", db'[q].status = "success"
  PROVE  Earned(q)
<1> USE DEF IInv, TypeOK
<1>1. ASSUME NEW r \in Requests, CreateRequest(r) PROVE FALSE
  BY <1>1 DEF CreateRequest, NoRow
<1>2. ASSUME NEW p \in Patchers, UpdateSave(p) PROVE FALSE
  <2>1. /\ patcher[p].id = q /\ db'[q] = PatchedRow(p)
        /\ ~Finished(patcher[p].row)
    BY <1>2 DEF UpdateSave, CopiesSound
  <2> QED BY <2>1 DEF PatchedRow, PatcherState, Row, Finished, FinishedStatus
<1>3. ASSUME NEW w \in Workers, SaveProcessed(w) PROVE Earned(q)
  <2>1. worker[w].id = q /\ db'[q] = ProcessedRow(w)
    BY <1>3 DEF SaveProcessed
  <2> QED BY <1>3, <2>1, ProcessedSuccess DEF Earned
<1>4. ASSUME NEW c \in Checkers, CheckSave(c) PROVE Earned(q)
  <2>1. checker[c].id = q /\ db'[q] = CheckedRow(c)
    BY <1>4 DEF CheckSave
  <2> QED BY <1>4, <2>1, CheckedSuccess DEF Earned
<1> QED BY <1>1, <1>2, <1>3, <1>4 DEF Frame

\* A success is earned by the goroutine that saves it, whatever the age of its
\* copies: its run published nothing and had no error, or the messages it saw
\* are linked, succeeded and cover what the row reports (service.go:259-290
\* and 844-866).
THEOREM SuccessesAreEarned == Spec => SuccessIsEarned
<1>1. Spec => []SentCounted
  <2>1. Init => SentCounted
    <3>1. Init => \A w \in Workers : worker[w].sent = {} /\ worker[w].published = 0
      BY DEF Init, IdleWorker
    <3> QED BY <3>1, FS_EmptySet DEF SentCounted
  <2>2. IInv /\ SentCounted /\ [Next]_vars => SentCounted'
    BY StepFrame, SentStep DEF IInv
  <2> QED BY <2>1, <2>2, Invariance, PTL DEF Spec
<1>2. IInv /\ SentCounted /\ ReportInv /\ [Next]_vars =>
        [\A r \in Requests :
           db[r].status # "success" /\ db'[r].status = "success" =>
             \/ \E w \in Workers :
                  /\ SaveProcessed(w) /\ worker[w].id = r
                  /\ ~worker[w].err /\ worker[w].sent = {}
             \/ \E c \in Checkers :
                  /\ CheckSave(c) /\ checker[c].id = r
                  /\ DOMAIN checker[c].view # {}
                  /\ DOMAIN checker[c].view \subseteq Succeeded(r)
                  /\ db'[r].published <= Cardinality(Succeeded(r))]_vars
  BY StepFrame, EarnedStep DEF Earned
<1> QED BY <1>1, <1>2, Invariance, ReportInvariance, PTL DEF Spec, SuccessIsEarned

-----------------------------------------------------------------------------
(* Refinement *)

\* A step of the service is a step of MessageLife, or none.
LEMMA LifeStep ==
  ASSUME IInv, [Next]_vars
  PROVE  [Life!LifeNext]_(Life!lifeVars)
<1> USE DEF IInv, TypeOK
<1> DEFINE C == {m \in Msgs : msg[m].linked}
           R == {m \in Msgs : msg[m].receipt # "pending"}
<1>1. Frame
  BY StepFrame
<1>2. CASE C' = C /\ R' = R
  BY <1>2 DEF Life!lifeVars
<1>3. CASE UNCHANGED msg
  BY <1>2, <1>3
<1>4. ASSUME NEW w \in Workers, NEW m \in Msgs, PushMessage(w, m) \/ PushReplyLost(w, m)
      PROVE  C' = C /\ R' = R
  <2>1. \A n \in Msgs : msg'[n].linked = msg[n].linked /\ msg'[n].receipt = msg[n].receipt
    BY <1>4 DEF PushMessage, PushReplyLost, MsgState
  <2> QED BY <2>1
<1>5. ASSUME NEW w \in Workers, SaveProcessed(w) PROVE Life!LifeNext
  <2>1. \A n \in Msgs : /\ msg'[n].receipt = msg[n].receipt
                        /\ msg'[n].linked <=> msg[n].linked \/ n \in worker[w].sent
    BY <1>5 DEF SaveProcessed, LinkMessages, MsgState
  <2>2. worker[w].sent \in SUBSET Msgs
    BY DEF WorkerState
  <2>3. C' = C \cup worker[w].sent /\ R' = R
    BY <2>1, <2>2
  <2> QED BY <2>2, <2>3 DEF Life!LifeNext, Life!Count
<1>6. ASSUME NEW m \in Msgs, WatchRecords(m) PROVE Life!LifeNext
  <2>1. m \in C
    BY <1>6 DEF WatchRecords, WatchingSound
  <2>2. PICK e \in {"ok", "failed"} : msg' = [msg EXCEPT ![m].receipt = e]
    BY <1>6 DEF WatchRecords, ReceiptOf, MsgState, Receipts
  <2>3. /\ \A n \in Msgs : msg'[n].linked = msg[n].linked
        /\ \A n \in Msgs \ {m} : msg'[n].receipt = msg[n].receipt
        /\ msg'[m].receipt = e
    BY <2>2 DEF MsgState
  <2>4. C' = C /\ R' = R \cup {m}
    BY <2>3
  <2> QED BY <2>1, <2>4 DEF Life!LifeNext, Life!Record
<1> QED BY <1>1, <1>2, <1>3, <1>4, <1>5, <1>6 DEF Frame

\* The requests and messages tables keep the promise of MessageLife.
THEOREM LifecycleRefinesLife == Spec => LifecycleImplementsLife
<1>1. Init => Life!LifeInit
  BY DEF Init, Unpublished, Life!LifeInit
<1>2. IInv /\ [Next]_vars => [Life!LifeNext]_(Life!lifeVars)
  BY LifeStep
<1> QED BY <1>1, <1>2, Invariance, PTL DEF Spec, Life!LifeSpec, LifecycleImplementsLife

=============================================================================
