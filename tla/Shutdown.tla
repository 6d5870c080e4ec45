-------------------------------- MODULE Shutdown --------------------------------
(***************************************************************************)
(* How the service stops: the signal, the API server, Service.Shutdown with *)
(* its WaitGroup, and what the four loops and the goroutines they start do *)
(* meanwhile, in particular the speedup worker between its unbuffered      *)
(* channel, its semaphore and the watchers its goroutines wait for.        *)
(*                                                                         *)
(* Only what blocks or ends a goroutine is kept.  What the goroutines do   *)
(* to the tables is the subject of RequestLifecycle and MessageTracking.   *)
(***************************************************************************)
EXTENDS Naturals, FiniteSets

CONSTANTS
  Messages,   \* ids of the messages table: keys of watchingMessages
  Watchers,   \* slots for the watchMessage goroutines of checkMessage
  Slots,      \* slots for the goroutines of the speedup worker
  Handlers,   \* slots for the speedup handler and the goroutine it leaves
  Batches,    \* values of --batch-speedup
  MaxQueue,   \* bound: messages of one speedup call
  NoWatcher

ASSUME ShutdownAssumption ==
  /\ Batches \subseteq Nat
  /\ IsFiniteSet(Slots)
  /\ \A b \in Batches : b <= Cardinality(Slots)
  /\ Watchers \cap Slots = {} /\ NoWatcher \notin Watchers \cup Slots
  /\ MaxQueue \in Nat

VARIABLES
  main,      \* MonitorShutdown and runCmd
  done,      \* the context of the service is done
  toCancel,  \* keys Range has still to visit; it holds the read lock
  sender,    \* per handler: is it running, how many messages are to be sent
  loop,      \* the four loops of NewService
  overdue,   \* messages the pending checker has still to replace
  batch,     \* --batch-speedup
  sem,       \* entries in the channel sem
  slot,      \* the goroutines of the speedup worker
  watching,  \* watchingMessages
  watcher    \* the watchMessage goroutines and their cancelCh

stopVars == <<main, done, toCancel>>
speedVars == <<sender, sem, slot>>
watchVars == <<watching, watcher>>
vars == <<stopVars, speedVars, loop, overdue, batch, watchVars>>

\* "tickers" stands for runProcessor and runMessageChecker: they wait for their
\* ticks and the context, and never for the goroutines they start.
Loops == {"tickers", "pending", "speedup"}

\* A speedup may run watchMessage itself, in a slot of its own.
AllWatchers == Watchers \cup Slots

IdleWatcher == [pc |-> "idle", id |-> NoWatcher, closed |-> FALSE]

\* on: the watcher whose cancelCh the goroutine waits for; closed: that channel
\* is closed.
IdleSlot == [pc |-> "idle", id |-> NoWatcher, on |-> NoWatcher, closed |-> FALSE]

LoopAt(l, pc) == loop' = [loop EXCEPT ![l] = pc]

-----------------------------------------------------------------------------
(* Channels: cancelCh of a watchMessage *)

\* wm.Cancel for the watches of W: whoever waits on their channels sees it.
Closed(W) == [w \in AllWatchers |->
  IF w \in W THEN [watcher[w] EXCEPT !.closed = TRUE] ELSE watcher[w]]

Woken(W) == [p \in Slots |->
  IF slot[p].on \in W THEN [slot[p] EXCEPT !.closed = TRUE] ELSE slot[p]]

Cancel(W) == watcher' = Closed(W) /\ slot' = Woken(W)

\* The watcher the map has for message m, if any.
Watched(m) == {watching[m]} \ {NoWatcher}

\* Range holds the read lock while it calls f; Set and Delete wait for it.
MapUnlocked == main # "range"

-----------------------------------------------------------------------------
(* MonitorShutdown, runCmd and Shutdown *)

\* The first SIGTERM or SIGINT; later ones are not read.
Signal ==
  /\ main = "run"
  /\ main' = "api"
  /\ UNCHANGED <<done, toCancel, speedVars, loop, overdue, batch, watchVars>>

\* srv.Shutdown returns when no handler is running; Shutdown's Range begins.
ApiStopped ==
  /\ main = "api"
  /\ \A h \in Handlers : ~sender[h].running
  /\ main' = "range"
  /\ toCancel' = {m \in Messages : watching[m] # NoWatcher}
  /\ UNCHANGED <<done, speedVars, loop, overdue, batch, watchVars>>

CancelWatch(m) ==
  /\ m \in toCancel
  /\ Cancel(Watched(m))
  /\ toCancel' = toCancel \ {m}
  /\ UNCHANGED <<main, done, sender, sem, loop, overdue, batch, watching>>

CancelContext ==
  /\ main = "range" /\ toCancel = {}
  /\ main' = "wait"
  /\ done' = TRUE
  /\ UNCHANGED <<toCancel, speedVars, loop, overdue, batch, watchVars>>

\* wg.Wait returns, MonitorShutdown closes its channel and runCmd returns:
\* whatever goroutine is left dies.
Exit ==
  /\ main = "wait"
  /\ \A l \in Loops : loop[l] = "stopped"
  /\ main' = "exited"
  /\ sender' = [h \in Handlers |-> [running |-> FALSE, left |-> 0]]
  /\ slot' = [p \in Slots |-> IdleSlot] /\ sem' = 0
  /\ watching' = [m \in Messages |-> NoWatcher]
  /\ watcher' = [w \in AllWatchers |-> IdleWatcher]
  /\ UNCHANGED <<done, toCancel, loop, overdue, batch>>

\* The context given to NewService has an end of its own.
ParentDone ==
  /\ main # "exited" /\ ~done
  /\ done' = TRUE
  /\ UNCHANGED <<main, toCancel, speedVars, loop, overdue, batch, watchVars>>

\* Select finds the context done.
LoopStops(l) ==
  /\ loop[l] = "select"
  /\ done
  /\ LoopAt(l, "stopped")
  /\ UNCHANGED <<stopVars, speedVars, overdue, batch, watchVars>>

-----------------------------------------------------------------------------
(* The message checker, checkMessage and watchMessage *)

Started(w, m) == [watcher EXCEPT ![w] = [pc |-> "enter", id |-> m, closed |-> FALSE]]

\* watchingMessages does not have the message: go watchMessage.  A checkMessage
\* goroutine may outlive the loop that started it, by any time.
StartWatch(m, w) ==
  /\ main # "exited"
  /\ watching[m] = NoWatcher
  /\ w \in Watchers /\ watcher[w].pc = "idle"
  /\ watcher' = Started(w, m)
  /\ UNCHANGED <<stopVars, speedVars, loop, overdue, batch, watching>>

WatcherIs(w, state) ==
  /\ watcher' = [watcher EXCEPT ![w] = state]
  /\ UNCHANGED <<stopVars, speedVars, loop, overdue, batch>>

\* The row is gone, or the message is being watched.
WatchDeclined(w) ==
  /\ watcher[w].pc = "enter"
  /\ WatcherIs(w, IdleWatcher)
  /\ UNCHANGED watching

WatchAccepted(w) ==
  /\ watcher[w].pc = "enter"
  /\ watching[watcher[w].id] = NoWatcher
  /\ WatcherIs(w, [watcher[w] EXCEPT !.pc = "set"])
  /\ UNCHANGED watching

\* watchingMessages.Set
WatchSet(w) ==
  /\ watcher[w].pc = "set"
  /\ MapUnlocked
  /\ watching' = [watching EXCEPT ![watcher[w].id] = w]
  /\ WatcherIs(w, [watcher[w] EXCEPT !.pc = "wait"])

\* A receipt, or an error of StateWaitMsg.
WatchReturns(w) ==
  /\ watcher[w].pc = "wait"
  /\ WatcherIs(w, [watcher[w] EXCEPT !.pc = "close"])
  /\ UNCHANGED watching

\* Mutant: watchMessage listens to its own channel only.
OnlyOwnChannel(w) == watcher[w].closed

Interrupted(w) == done \/ watcher[w].closed

WatchInterrupted(w) ==
  /\ watcher[w].pc = "wait"
  /\ Interrupted(w)
  /\ WatcherIs(w, [watcher[w] EXCEPT !.pc = "close"])
  /\ UNCHANGED watching

\* Mutant: no deferred wm.Cancel.
WatchLeavesOpen(w) ==
  /\ watcher[w].pc = "close"
  /\ WatcherIs(w, [watcher[w] EXCEPT !.pc = "delete"])
  /\ UNCHANGED watching

\* The deferred calls: wm.Cancel ...
WatchClose(w) ==
  /\ watcher[w].pc = "close"
  /\ watcher' = [Closed({w}) EXCEPT ![w].pc = "delete"]
  /\ slot' = Woken({w})
  /\ UNCHANGED <<stopVars, sender, sem, loop, overdue, batch, watching>>

\* ... and watchingMessages.Delete, whoever set the entry.
WatchDelete(w) ==
  /\ watcher[w].pc = "delete"
  /\ MapUnlocked
  /\ watching' = [watching EXCEPT ![watcher[w].id] = NoWatcher]
  /\ WatcherIs(w, IdleWatcher)

WatcherStep(w) ==
  \/ WatchDeclined(w) \/ WatchAccepted(w) \/ WatchSet(w)
  \/ WatchInterrupted(w) \/ WatchClose(w) \/ WatchDelete(w)

-----------------------------------------------------------------------------
(* The pending checker: it replaces messages itself, one after the other *)

PendingTick ==
  /\ loop["pending"] = "select"
  /\ LoopAt("pending", "replace")
  /\ \E late \in SUBSET {m \in Messages : watching[m] # NoWatcher} :
       late # {} /\ overdue' = late
  /\ UNCHANGED <<stopVars, speedVars, batch, watchVars>>

\* Replaced, and the old watch cancelled; or an error.  The last one ends the
\* tick.
PendingReplace(m) ==
  /\ m \in overdue
  /\ overdue' = overdue \ {m}
  /\ IF overdue = {m} THEN LoopAt("pending", "select") ELSE UNCHANGED loop
  /\ \/ ~done /\ Cancel(Watched(m))
     \/ UNCHANGED <<watcher, slot>>
  /\ UNCHANGED <<stopVars, sender, sem, batch, watching>>

-----------------------------------------------------------------------------
(* Speedups: the handler, its goroutine, the worker and its goroutines *)

\* The server accepts no connection once it is shut down.
SpeedupCalled(h) ==
  /\ main = "run"
  /\ ~sender[h].running /\ sender[h].left = 0
  /\ sender' = [sender EXCEPT ![h].running = TRUE]
  /\ UNCHANGED <<stopVars, sem, slot, loop, overdue, batch, watchVars>>

\* The handler returns and leaves a goroutine that sends n messages.
SpeedupRequest(h, n) ==
  /\ sender[h].running
  /\ sender' = [sender EXCEPT ![h] = [running |-> FALSE, left |-> n]]
  /\ UNCHANGED <<stopVars, sem, slot, loop, overdue, batch, watchVars>>

\* The channel is unbuffered: a message is sent when the worker receives it.
Receive(h) ==
  /\ loop["speedup"] = "select"
  /\ sender[h].left > 0
  /\ sender' = [sender EXCEPT ![h].left = @ - 1]
  /\ LoopAt("speedup", "acquire")
  /\ UNCHANGED <<stopVars, sem, slot, overdue, batch, watchVars>>

\* Mutant: the goroutine is started whether there is room or not.
RoomForAll == TRUE

Room == sem < batch

\* sem <- struct{}{}, outside of any select; then the goroutine is started.
Spawn(p, m) ==
  /\ loop["speedup"] = "acquire"
  /\ Room
  /\ slot[p].pc = "idle"
  /\ sem' = sem + 1
  /\ slot' = [slot EXCEPT ![p] = [IdleSlot EXCEPT !.pc = "replace", !.id = m]]
  /\ LoopAt("speedup", "select")
  /\ UNCHANGED <<stopVars, sender, overdue, batch, watchVars>>

\* Mutant: the deferred <-sem is missing.
NothingReturned == sem

Returned == sem - 1

Released(p) ==
  /\ slot' = [slot EXCEPT ![p] = IdleSlot]
  /\ sem' = Returned
  /\ UNCHANGED <<stopVars, sender, loop, overdue, batch, watchVars>>

\* replaceMessage or the lookup of the replacement fails; in Wait, the row was
\* replaced meanwhile.
SlotFails(p) == slot[p].pc \in {"replace", "follow"} /\ Released(p)
SlotRowGone(p) == slot[p].pc = "wait" /\ Released(p)

\* replaceMessage committed, and cancelled the watch of the old message.
SlotReplaced(p, new) ==
  /\ slot[p].pc = "replace" /\ ~done
  /\ new # slot[p].id
  /\ watcher' = Closed(Watched(slot[p].id))
  /\ slot' = [Woken(Watched(slot[p].id)) EXCEPT
                ![p] = [IdleSlot EXCEPT !.pc = "follow", !.id = new]]
  /\ UNCHANGED <<stopVars, sender, sem, loop, overdue, batch, watching>>

\* The replacement has a watcher: wm.Wait().
SlotFollows(p) ==
  /\ slot[p].pc = "follow"
  /\ \E w \in Watched(slot[p].id) :
       slot' = [slot EXCEPT ![p] = [IdleSlot EXCEPT !.pc = "wait", !.on = w,
                                                    !.closed = watcher[w].closed]]
  /\ UNCHANGED <<stopVars, sender, sem, loop, overdue, batch, watchVars>>

\* It has not: watchMessage.
SlotWatches(p) ==
  /\ slot[p].pc = "follow"
  /\ Watched(slot[p].id) = {}
  /\ slot' = [slot EXCEPT ![p] = [IdleSlot EXCEPT !.pc = "self"]]
  /\ watcher' = Started(p, slot[p].id)
  /\ UNCHANGED <<stopVars, sender, sem, loop, overdue, batch, watching>>

SlotEnds(p) ==
  /\ \/ slot[p].pc = "wait" /\ slot[p].closed
     \/ slot[p].pc = "self" /\ watcher[p].pc = "idle"
  /\ Released(p)

SlotStep(p) ==
  \/ SlotFails(p) \/ \E new \in Messages : SlotReplaced(p, new)
  \/ SlotFollows(p) \/ SlotWatches(p) \/ SlotEnds(p)

-----------------------------------------------------------------------------
Init ==
  /\ main = "run" /\ done = FALSE /\ toCancel = {}
  /\ sender = [h \in Handlers |-> [running |-> FALSE, left |-> 0]]
  /\ loop = [l \in Loops |-> "select"]
  /\ overdue = {}
  /\ batch \in Batches /\ sem = 0
  /\ slot = [p \in Slots |-> IdleSlot]
  /\ watching = [m \in Messages |-> NoWatcher]
  /\ watcher = [w \in AllWatchers |-> IdleWatcher]

Next ==
  \/ Signal \/ ApiStopped \/ CancelContext \/ Exit \/ ParentDone
  \/ \E m \in Messages : CancelWatch(m)
  \/ \E l \in Loops : LoopStops(l)
  \/ \E m \in Messages, w \in Watchers : StartWatch(m, w)
  \/ \E w \in AllWatchers : WatcherStep(w) \/ WatchReturns(w)
  \/ PendingTick
  \/ \E m \in Messages : PendingReplace(m)
  \/ \E h \in Handlers : SpeedupCalled(h) \/ Receive(h)
  \/ \E h \in Handlers, n \in 0..MaxQueue : SpeedupRequest(h, n)
  \/ \E p \in Slots, m \in Messages : Spawn(p, m)
  \/ \E p \in Slots : SlotStep(p) \/ SlotRowGone(p)

Spec == Init /\ [][Next]_vars

\* Goroutines are scheduled, handlers return, and so do calls to the node and
\* to the database.  A select takes a ready case at random, so it does not
\* prefer another for ever; senders of a channel are served in order.  Nobody
\* has to call, to tick or to send a signal, and no message has to land.
Fairness ==
  /\ WF_vars(ApiStopped \/ CancelContext \/ Exit \/ \E m \in Messages : CancelWatch(m))
  /\ WF_vars(LoopStops("tickers")) /\ SF_vars(LoopStops("pending"))
  /\ SF_vars(LoopStops("speedup"))
  /\ WF_vars(\E m \in Messages : PendingReplace(m))
  /\ \A w \in AllWatchers : WF_vars(WatcherStep(w))
  /\ \A h \in Handlers : WF_vars(\E n \in 0..MaxQueue : SpeedupRequest(h, n))
  /\ \A h \in Handlers : SF_vars(Receive(h))
  /\ WF_vars(\E p \in Slots, m \in Messages : Spawn(p, m))
  /\ \A p \in Slots : WF_vars(SlotStep(p))

FairSpec == Spec /\ Fairness

-----------------------------------------------------------------------------
(* Properties *)

WatcherState == [pc : {"idle", "enter", "set", "wait", "close", "delete"},
                 id : Messages \cup {NoWatcher}, closed : BOOLEAN]
SlotState == [pc : {"idle", "replace", "follow", "wait", "self"},
              id : Messages \cup {NoWatcher}, on : AllWatchers \cup {NoWatcher},
              closed : BOOLEAN]
\* Every variable holds a value of its kind; the speedup worker never has more
\* goroutines at work than --batch-speedup allows.
ShutdownTypeOK ==
  /\ main \in {"run", "api", "range", "wait", "exited"}
  /\ done \in BOOLEAN /\ toCancel \subseteq Messages
  /\ sender \in [Handlers -> [running : BOOLEAN, left : 0..MaxQueue]]
  /\ loop \in [Loops -> {"select", "replace", "acquire", "stopped"}]
  /\ overdue \subseteq Messages
  /\ batch \in Batches /\ sem \in 0..batch
  /\ slot \in [Slots -> SlotState]
  /\ watching \in [Messages -> AllWatchers \cup {NoWatcher}]
  /\ watcher \in [AllWatchers -> WatcherState]

\* Wait (service.go:68-87) does not know the context: it ends when the watch it
\* waits for ends.  No goroutine waits for a watch that already ended without
\* its channel being closed, whatever the map was overwritten with meanwhile.
WaiterWillWake ==
  \A p \in Slots : slot[p].pc = "wait" /\ ~slot[p].closed =>
    watcher[slot[p].on].pc \in {"wait", "close"}

BusySlots == {p \in Slots : slot[p].pc # "idle"}

\* The worker does not listen to the context while it waits for the semaphore
\* (service.go:806): it waits only while a goroutine of its own is at work and
\* will make room, or because --batch-speedup is 0.
BlockedByItsOwn ==
  loop["speedup"] = "acquire" => Room \/ BusySlots # {} \/ batch = 0

\* After a signal the process ends: no goroutine that Shutdown waits for, and
\* none that those wait for, is stuck.  The only exception is a batch of 0, with
\* which the first speedup blocks the worker for good.
ShutdownEnds ==
  main # "run" ~> (main = "exited" \/ (batch = 0 /\ loop["speedup"] = "acquire"))

\* While the service runs, and messages keep landing, every message of a
\* speedup call is taken by the worker, however many calls there are and
\* however small the batch, as long as it is not 0.
SpeedupsServed ==
  (batch # 0 /\ \A w \in AllWatchers : []<>(watcher[w].pc # "wait")) =>
    \A h \in Handlers : sender[h].left # 0 ~> (sender[h].left = 0 \/ done)

-----------------------------------------------------------------------------
(* The inductive invariant behind the safety properties *)

\* An entry of the map belongs to a watch that has not left yet.
EntriesOwned ==
  \A m \in Messages : watching[m] # NoWatcher =>
    /\ watcher[watching[m]].id = m
    /\ watcher[watching[m]].pc \in {"wait", "close", "delete"}

WatchesSound ==
  \A w \in AllWatchers :
    /\ watcher[w].pc # "idle" => watcher[w].id \in Messages
    /\ watcher[w].pc = "delete" => watcher[w].closed

\* The watch a speedup runs itself does not outlive its goroutine.
SlotsSound ==
  \A p \in Slots :
    /\ slot[p].pc \in {"replace", "follow"} => slot[p].id \in Messages
    /\ slot[p].pc = "wait" => slot[p].on \in AllWatchers
    /\ watcher[p].pc # "idle" => slot[p].pc = "self"

\* The semaphore counts the goroutines of the worker.
SemaphoreExact == sem = Cardinality(BusySlots)

ShutdownInv ==
  /\ ShutdownTypeOK
  /\ EntriesOwned
  /\ WatchesSound
  /\ SlotsSound
  /\ WaiterWillWake
  /\ SemaphoreExact

=============================================================================
