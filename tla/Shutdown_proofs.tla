---------------------------- MODULE Shutdown_proofs ----------------------------
(***************************************************************************)
(* Proofs of the safety properties of Shutdown, for any number of messages, *)
(* watchers, speedups and handlers and any value of --batch-speedup.        *)
(***************************************************************************)
EXTENDS Shutdown, TLAPS, FiniteSetTheorems

\* Slots and watchers that move by one field keep their types.
LEMMA RecordMoves ==
  /\ IdleWatcher \in WatcherState /\ IdleSlot \in SlotState
  /\ \A s \in WatcherState :
       /\ [s EXCEPT !.closed = TRUE] \in WatcherState
       /\ \A pc \in {"idle", "enter", "set", "wait", "close", "delete"} :
            [s EXCEPT !.pc = pc] \in WatcherState
  /\ \A s \in SlotState :
       /\ [s EXCEPT !.closed = TRUE] \in SlotState
       /\ [s EXCEPT !.pc = "self"] \in SlotState
       /\ \A w \in AllWatchers, c \in BOOLEAN :
            [s EXCEPT !.pc = "wait", !.on = w, !.closed = c] \in SlotState
  /\ \A m \in Messages :
       /\ [pc |-> "enter", id |-> m, closed |-> FALSE] \in WatcherState
       /\ \A pc \in {"replace", "follow"} :
            [IdleSlot EXCEPT !.pc = pc, !.id = m] \in SlotState
BY DEF IdleWatcher, IdleSlot, WatcherState, SlotState

\* Closing channels changes nothing but the two fields closed.
LEMMA ClosingIsAll ==
  ASSUME ShutdownTypeOK, NEW W
  PROVE  /\ Closed(W) \in [AllWatchers -> WatcherState]
         /\ Woken(W) \in [Slots -> SlotState]
         /\ \A w \in AllWatchers :
              /\ Closed(W)[w].pc = watcher[w].pc
              /\ Closed(W)[w].id = watcher[w].id
              /\ watcher[w].closed => Closed(W)[w].closed
              /\ w \in W => Closed(W)[w].closed
         /\ \A p \in Slots :
              /\ Woken(W)[p].pc = slot[p].pc
              /\ Woken(W)[p].id = slot[p].id
              /\ Woken(W)[p].on = slot[p].on
              /\ ~Woken(W)[p].closed => ~slot[p].closed /\ slot[p].on \notin W
<1>1. ASSUME NEW w \in AllWatchers
      PROVE  /\ watcher[w] \in WatcherState
             /\ Closed(W)[w] = IF w \in W THEN [watcher[w] EXCEPT !.closed = TRUE]
                               ELSE watcher[w]
  BY DEF Closed, ShutdownTypeOK
<1>2. ASSUME NEW p \in Slots
      PROVE  /\ slot[p] \in SlotState
             /\ Woken(W)[p] = IF slot[p].on \in W THEN [slot[p] EXCEPT !.closed = TRUE]
                              ELSE slot[p]
  BY DEF Woken, ShutdownTypeOK
<1>3. Closed(W) \in [AllWatchers -> WatcherState]
  BY <1>1, RecordMoves DEF Closed
<1>4. Woken(W) \in [Slots -> SlotState]
  BY <1>2, RecordMoves DEF Woken
<1>5. ASSUME NEW w \in AllWatchers
      PROVE  /\ Closed(W)[w].pc = watcher[w].pc
             /\ Closed(W)[w].id = watcher[w].id
             /\ watcher[w].closed => Closed(W)[w].closed
             /\ w \in W => Closed(W)[w].closed
  <2>1. CASE w \in W
    <3>1. Closed(W)[w] = [watcher[w] EXCEPT !.closed = TRUE] /\ watcher[w] \in WatcherState
      BY <1>1, <2>1
    <3> QED BY <3>1, <2>1 DEF WatcherState
  <2>2. CASE w \notin W
    <3>1. Closed(W)[w] = watcher[w]
      BY <1>1, <2>2
    <3> QED BY <3>1, <2>2
  <2> QED BY <2>1, <2>2
<1>6. ASSUME NEW p \in Slots
      PROVE  /\ Woken(W)[p].pc = slot[p].pc
             /\ Woken(W)[p].id = slot[p].id
             /\ Woken(W)[p].on = slot[p].on
             /\ ~Woken(W)[p].closed => ~slot[p].closed /\ slot[p].on \notin W
  <2>1. CASE slot[p].on \in W
    <3>1. Woken(W)[p] = [slot[p] EXCEPT !.closed = TRUE] /\ slot[p] \in SlotState
      BY <1>2, <2>1
    <3> QED BY <3>1 DEF SlotState
  <2>2. CASE slot[p].on \notin W
    <3>1. Woken(W)[p] = slot[p]
      BY <1>2, <2>2
    <3> QED BY <3>1, <2>2
  <2> QED BY <2>1, <2>2
<1> QED BY <1>3, <1>4, <1>5, <1>6

-----------------------------------------------------------------------------
(* The semaphore *)

\* There is always a free slot where the semaphore has room, and the channel is
\* empty only when no goroutine of the worker is left.
LEMMA BusyIsFinite ==
  /\ IsFiniteSet(BusySlots)
  /\ Cardinality(BusySlots) \in Nat
  /\ (Cardinality(BusySlots) = 0) <=> (BusySlots = {})
<1>1. BusySlots \subseteq Slots
  BY DEF BusySlots
<1>2. IsFiniteSet(BusySlots)
  BY <1>1, ShutdownAssumption, FS_Subset
<1> QED BY <1>2, FS_CardinalityType, FS_EmptySet

\* A goroutine that starts adds one to the goroutines at work.
LEMMA OneMoreBusy ==
  ASSUME NEW p \in Slots, slot[p].pc = "idle", slot'[p].pc # "idle",
         \A q \in Slots \ {p} : slot'[q].pc = slot[q].pc
  PROVE  Cardinality(BusySlots') = Cardinality(BusySlots) + 1
<1>1. BusySlots' = BusySlots \cup {p} /\ p \notin BusySlots
  BY DEF BusySlots
<1> QED BY <1>1, BusyIsFinite, FS_AddElement

\* One that ends takes one away.
LEMMA OneLessBusy ==
  ASSUME NEW p \in Slots, slot[p].pc # "idle", slot'[p].pc = "idle",
         \A q \in Slots \ {p} : slot'[q].pc = slot[q].pc
  PROVE  /\ Cardinality(BusySlots') = Cardinality(BusySlots) - 1
         /\ Cardinality(BusySlots) > 0
<1>1. BusySlots' = BusySlots \ {p} /\ p \in BusySlots
  BY DEF BusySlots
<1>2. Cardinality(BusySlots \ {p}) = Cardinality(BusySlots) - 1
  BY <1>1, BusyIsFinite, FS_RemoveElement
<1>3. Cardinality(BusySlots) > 0
  BY <1>1, BusyIsFinite
<1> QED BY <1>1, <1>2, <1>3

\* Any other step leaves the number alone.
LEMMA AsManyBusy ==
  ASSUME \A p \in Slots : slot'[p].pc = "idle" <=> slot[p].pc = "idle"
  PROVE  Cardinality(BusySlots') = Cardinality(BusySlots)
<1>1. BusySlots' = BusySlots
  BY DEF BusySlots
<1> QED BY <1>1

-----------------------------------------------------------------------------
(* The inductive invariant *)

\* What ShutdownInv says besides the types.
Sound == EntriesOwned /\ WatchesSound /\ SlotsSound /\ WaiterWillWake /\ SemaphoreExact

\* The initial state is sound.
LEMMA ShutdownInit == Init => ShutdownInv
<1> SUFFICES ASSUME Init PROVE ShutdownInv
  OBVIOUS
<1> USE ShutdownAssumption
<1>1. ShutdownTypeOK
  <2>1. slot \in [Slots -> SlotState] /\ watcher \in [AllWatchers -> WatcherState]
    BY RecordMoves DEF Init
  <2>2. batch \in Batches /\ sem \in 0..batch
    BY DEF Init
  <2>3. sender \in [Handlers -> [running : BOOLEAN, left : 0..MaxQueue]]
    BY DEF Init
  <2> QED BY <2>1, <2>2, <2>3 DEF Init, ShutdownTypeOK
<1>2. EntriesOwned /\ WatchesSound /\ SlotsSound /\ WaiterWillWake
  BY DEF Init, EntriesOwned, WatchesSound, SlotsSound, WaiterWillWake, IdleSlot, IdleWatcher,
         AllWatchers
<1>3. SemaphoreExact
  <2>1. BusySlots = {} /\ sem = 0
    BY DEF Init, BusySlots, IdleSlot
  <2> QED BY <2>1, FS_EmptySet DEF SemaphoreExact
<1> QED BY <1>1, <1>2, <1>3 DEF ShutdownInv

\* Only the watches, the goroutines of the speedup worker and the semaphore
\* matter for it.
LEMMA SoundAbout ==
  ASSUME Sound, UNCHANGED <<watchVars, slot, sem>>
  PROVE  Sound'
BY DEF Sound, EntriesOwned, WatchesSound, SlotsSound, WaiterWillWake, SemaphoreExact,
       BusySlots, watchVars

\* Steps that touch none of these keep the types.
LEMMA QuietSteps ==
  ASSUME ShutdownTypeOK,
         \/ Signal \/ ApiStopped \/ CancelContext \/ ParentDone
         \/ \E l \in Loops : LoopStops(l)
         \/ PendingTick
         \/ \E h \in Handlers : SpeedupCalled(h) \/ Receive(h)
         \/ \E h \in Handlers, n \in 0..MaxQueue : SpeedupRequest(h, n)
  PROVE  ShutdownTypeOK' /\ UNCHANGED <<watchVars, slot, sem>>
<1> USE ShutdownAssumption DEF ShutdownTypeOK, stopVars, speedVars, watchVars
<1>1. CASE Signal
  BY <1>1 DEF Signal
<1>2. CASE ApiStopped
  BY <1>2 DEF ApiStopped
<1>3. CASE CancelContext
  BY <1>3 DEF CancelContext
<1>4. CASE ParentDone
  BY <1>4 DEF ParentDone
<1>5. ASSUME NEW l \in Loops, LoopStops(l)
      PROVE  ShutdownTypeOK' /\ UNCHANGED <<watchVars, slot, sem>>
  BY <1>5 DEF LoopStops, LoopAt
<1>6. CASE PendingTick
  BY <1>6 DEF PendingTick, LoopAt
<1>7. ASSUME NEW h \in Handlers, SpeedupCalled(h)
      PROVE  ShutdownTypeOK' /\ UNCHANGED <<watchVars, slot, sem>>
  <2>1. [sender[h] EXCEPT !.running = TRUE] \in [running : BOOLEAN, left : 0..MaxQueue]
    OBVIOUS
  <2>2. sender' = [sender EXCEPT ![h] = [sender[h] EXCEPT !.running = TRUE]]
    BY <1>7 DEF SpeedupCalled
  <2>3. sender' \in [Handlers -> [running : BOOLEAN, left : 0..MaxQueue]]
    BY <2>1, <2>2
  <2> QED BY <1>7, <2>3 DEF SpeedupCalled
<1>8. ASSUME NEW h \in Handlers, Receive(h)
       PROVE  ShutdownTypeOK' /\ UNCHANGED <<watchVars, slot, sem>>
  <2>1. [sender[h] EXCEPT !.left = @ - 1] \in [running : BOOLEAN, left : 0..MaxQueue]
    BY <1>8 DEF Receive
  <2>2. sender' = [sender EXCEPT ![h] = [sender[h] EXCEPT !.left = @ - 1]]
    BY <1>8 DEF Receive
  <2>3. sender' \in [Handlers -> [running : BOOLEAN, left : 0..MaxQueue]]
    BY <2>1, <2>2
  <2>4. loop' \in [Loops -> {"select", "replace", "acquire", "stopped"}]
    BY <1>8 DEF Receive, LoopAt
  <2> QED BY <1>8, <2>3, <2>4 DEF Receive
<1>9. ASSUME NEW h \in Handlers, NEW n \in 0..MaxQueue, SpeedupRequest(h, n)
       PROVE  ShutdownTypeOK' /\ UNCHANGED <<watchVars, slot, sem>>
  BY <1>9 DEF SpeedupRequest
<1> QED BY <1>1, <1>2, <1>3, <1>4, <1>5, <1>6, <1>7, <1>8, <1>9

\* Cancelling watches wakes whoever waits for them and breaks nothing.
LEMMA CancelKeeps ==
  ASSUME ShutdownTypeOK, Sound, NEW W, Cancel(W), UNCHANGED <<watching, sem>>
  PROVE  /\ watcher' \in [AllWatchers -> WatcherState]
         /\ slot' \in [Slots -> SlotState]
         /\ Sound'
<1>1. /\ watcher' \in [AllWatchers -> WatcherState]
      /\ slot' \in [Slots -> SlotState]
  BY ClosingIsAll DEF Cancel
<1>2. \A w \in AllWatchers :
        /\ watcher'[w].pc = watcher[w].pc /\ watcher'[w].id = watcher[w].id
        /\ watcher[w].closed => watcher'[w].closed
  BY ClosingIsAll DEF Cancel
<1>3. \A p \in Slots :
        /\ slot'[p].pc = slot[p].pc /\ slot'[p].id = slot[p].id
        /\ slot'[p].on = slot[p].on /\ (~slot'[p].closed => ~slot[p].closed)
  BY ClosingIsAll DEF Cancel
<1> USE DEF Sound
<1>4. EntriesOwned'
  <2>1. \A m \in Messages : watching[m] \in AllWatchers \cup {NoWatcher}
    BY DEF ShutdownTypeOK
  <2> QED BY <1>2, <2>1 DEF EntriesOwned
<1>5. WatchesSound' /\ SlotsSound'
  BY <1>2, <1>3 DEF WatchesSound, SlotsSound, AllWatchers
<1>6. WaiterWillWake'
  BY <1>2, <1>3 DEF WaiterWillWake, SlotsSound
<1>7. SemaphoreExact'
  BY <1>3, AsManyBusy DEF SemaphoreExact
<1> QED BY <1>1, <1>4, <1>5, <1>6, <1>7

\* A watcher that moves by itself, without leaving the map.
LEMMA WatcherMoves ==
  ASSUME ShutdownTypeOK, Sound, NEW w \in AllWatchers, NEW s \in WatcherState,
         WatcherIs(w, s), UNCHANGED watching,
         s.pc \in {"enter", "set"} => watcher[w].pc \in {"enter", "set"},
         s.pc # "idle" => s.id = watcher[w].id /\ watcher[w].pc # "idle",
         s.pc # "delete",
         watcher[w].pc \in {"wait", "close"} => s.pc \in {"wait", "close"},
         watcher[w].pc = "delete" => s.pc = "delete"
  PROVE  ShutdownTypeOK' /\ Sound'
<1>1. watcher' \in [AllWatchers -> WatcherState]
  BY DEF WatcherIs, ShutdownTypeOK
<1>2. UNCHANGED <<main, done, toCancel, sender, sem, slot, loop, overdue, batch>>
  BY DEF WatcherIs, stopVars, speedVars
<1>3. watcher'[w] = s /\ \A v \in AllWatchers \ {w} : watcher'[v] = watcher[v]
  BY DEF WatcherIs, ShutdownTypeOK
<1>4. ShutdownTypeOK'
  BY <1>1, <1>2 DEF ShutdownTypeOK
<1> USE DEF Sound
<1>5. EntriesOwned'
  <2>1. \A m \in Messages : watching[m] \in AllWatchers \cup {NoWatcher}
    BY DEF ShutdownTypeOK
  <2> QED BY <1>3, <2>1 DEF EntriesOwned
<1>6. WatchesSound' /\ SlotsSound'
  BY <1>2, <1>3 DEF WatchesSound, SlotsSound, AllWatchers
<1>7. WaiterWillWake'
  BY <1>2, <1>3 DEF WaiterWillWake, SlotsSound
<1>8. SemaphoreExact'
  BY <1>2, AsManyBusy DEF SemaphoreExact
<1> QED BY <1>4, <1>5, <1>6, <1>7, <1>8

\* The other steps of the watchers.
LEMMA WatcherSteps ==
  ASSUME ShutdownTypeOK, Sound, NEW w \in AllWatchers, WatcherStep(w) \/ WatchReturns(w)
  PROVE  ShutdownTypeOK' /\ Sound'
<1> DEFINE s == watcher[w]
<1>1. s \in WatcherState
  BY DEF ShutdownTypeOK
<1>2. CASE WatchDeclined(w)
  BY <1>2, WatcherMoves, RecordMoves DEF WatchDeclined, IdleWatcher
<1>3. CASE WatchAccepted(w)
  <2>1. /\ [s EXCEPT !.pc = "set"] \in WatcherState
        /\ [s EXCEPT !.pc = "set"].pc = "set" /\ [s EXCEPT !.pc = "set"].id = s.id
    BY <1>1 DEF WatcherState
  <2> QED BY <1>3, <2>1, WatcherMoves DEF WatchAccepted
<1>4. CASE WatchReturns(w) \/ WatchInterrupted(w)
  <2>1. /\ [s EXCEPT !.pc = "close"] \in WatcherState
        /\ [s EXCEPT !.pc = "close"].pc = "close" /\ [s EXCEPT !.pc = "close"].id = s.id
    BY <1>1 DEF WatcherState
  <2> QED BY <1>4, <2>1, WatcherMoves DEF WatchReturns, WatchInterrupted
<1>5. CASE WatchSet(w)
  <2>1. /\ [s EXCEPT !.pc = "wait"] \in WatcherState
        /\ [s EXCEPT !.pc = "wait"].pc = "wait" /\ [s EXCEPT !.pc = "wait"].id = s.id
    BY <1>1 DEF WatcherState
  <2>2. /\ watcher' \in [AllWatchers -> WatcherState]
        /\ watcher'[w] = [s EXCEPT !.pc = "wait"]
        /\ \A v \in AllWatchers \ {w} : watcher'[v] = watcher[v]
    BY <1>5, <2>1 DEF WatchSet, WatcherIs, ShutdownTypeOK
  <2>3. UNCHANGED <<main, done, toCancel, sender, sem, slot, loop, overdue, batch>>
    BY <1>5 DEF WatchSet, WatcherIs, stopVars, speedVars
  <2>4. s.pc = "set" /\ s.id \in Messages
    BY <1>5 DEF WatchSet, Sound, WatchesSound
  <2>5. watching' = [watching EXCEPT ![s.id] = w]
    BY <1>5 DEF WatchSet
  <2>6. ShutdownTypeOK'
    BY <2>2, <2>3, <2>5 DEF ShutdownTypeOK
  <2>7. EntriesOwned'
    <3>1. \A m \in Messages : watching[m] \in AllWatchers \cup {NoWatcher}
      BY DEF ShutdownTypeOK
    <3>2. watching \in [Messages -> AllWatchers \cup {NoWatcher}]
      BY DEF ShutdownTypeOK
    <3>3. watching'[s.id] = w /\ \A m \in Messages \ {s.id} : watching'[m] = watching[m]
      BY <2>4, <2>5, <3>2
    <3>4. watcher'[w].id = s.id /\ watcher'[w].pc = "wait"
      BY <2>1, <2>2
    <3>5. ASSUME NEW m \in Messages \ {s.id}, watching[m] # NoWatcher
          PROVE  /\ watcher'[watching[m]].id = m
                 /\ watcher'[watching[m]].pc \in {"wait", "close", "delete"}
      <4>1. watcher[watching[m]].id = m /\ watcher[watching[m]].pc \in {"wait", "close", "delete"}
        BY <3>5 DEF Sound, EntriesOwned
      <4>2. watching[m] \in AllWatchers \ {w}
        BY <2>4, <3>1, <3>5, <4>1
      <4> QED BY <2>2, <4>1, <4>2
    <3> QED BY <3>3, <3>4, <3>5 DEF EntriesOwned
  <2>8. WatchesSound' /\ SlotsSound'
    <3>1. watcher'[w].pc = "wait" /\ watcher'[w].id = s.id
      BY <2>1, <2>2
    <3>2. WatchesSound'
      BY <2>2, <2>4, <3>1 DEF Sound, WatchesSound
    <3>3. SlotsSound'
      BY <2>2, <2>3, <2>4, <3>1 DEF Sound, SlotsSound, AllWatchers
    <3> QED BY <3>2, <3>3
  <2>9. WaiterWillWake'
    BY <2>1, <2>2, <2>3, <2>4 DEF Sound, WaiterWillWake, SlotsSound
  <2>10. SemaphoreExact'
    BY <2>3, AsManyBusy DEF Sound, SemaphoreExact
  <2> QED BY <2>6, <2>7, <2>8, <2>9, <2>10 DEF Sound
<1>6. CASE WatchClose(w)
  <2>1. /\ watcher' = [Closed({w}) EXCEPT ![w].pc = "delete"] /\ slot' = Woken({w})
        /\ UNCHANGED <<main, done, toCancel, sender, sem, loop, overdue, batch, watching>>
    BY <1>6 DEF WatchClose, stopVars
  <2>2. /\ watcher' \in [AllWatchers -> WatcherState]
        /\ watcher'[w].pc = "delete" /\ watcher'[w].id = s.id /\ watcher'[w].closed
        /\ \A v \in AllWatchers \ {w} :
             /\ watcher'[v].pc = watcher[v].pc /\ watcher'[v].id = watcher[v].id
             /\ watcher[v].closed => watcher'[v].closed
    <3>1. Closed({w}) \in [AllWatchers -> WatcherState] /\ Closed({w})[w] \in WatcherState
      BY ClosingIsAll
    <3>2. watcher' = [Closed({w}) EXCEPT ![w] = [Closed({w})[w] EXCEPT !.pc = "delete"]]
      BY <2>1
    <3>3. [Closed({w})[w] EXCEPT !.pc = "delete"] \in WatcherState
      BY <3>1, RecordMoves
    <3>4. Closed({w})[w].closed /\ Closed({w})[w].id = s.id
      BY ClosingIsAll
    <3>5. watcher'[w].pc = "delete" /\ watcher'[w].id = s.id /\ watcher'[w].closed
      BY <3>1, <3>2, <3>4 DEF WatcherState
    <3>6. \A v \in AllWatchers \ {w} : watcher'[v] = Closed({w})[v]
      BY <3>1, <3>2
    <3>7. watcher' \in [AllWatchers -> WatcherState]
      BY <3>1, <3>2, <3>3
    <3> QED BY <3>5, <3>6, <3>7, ClosingIsAll
  <2>3. /\ slot' \in [Slots -> SlotState]
        /\ \A p \in Slots :
             /\ slot'[p].pc = slot[p].pc /\ slot'[p].id = slot[p].id
             /\ slot'[p].on = slot[p].on
             /\ ~slot'[p].closed => ~slot[p].closed /\ slot[p].on # w
    BY <2>1, ClosingIsAll
  <2>4. s.pc = "close"
    BY <1>6 DEF WatchClose
  <2>5. ShutdownTypeOK'
    BY <2>1, <2>2, <2>3 DEF ShutdownTypeOK
  <2>6. EntriesOwned'
    <3>1. \A m \in Messages : watching[m] \in AllWatchers \cup {NoWatcher}
      BY DEF ShutdownTypeOK
    <3>2. ASSUME NEW m \in Messages, watching[m] # NoWatcher
          PROVE  /\ watcher'[watching[m]].id = m
                 /\ watcher'[watching[m]].pc \in {"wait", "close", "delete"}
      <4>1. watcher[watching[m]].id = m /\ watcher[watching[m]].pc \in {"wait", "close", "delete"}
        BY <3>2 DEF Sound, EntriesOwned
      <4>2. CASE watching[m] = w
        BY <2>2, <4>1, <4>2
      <4>3. CASE watching[m] # w
        BY <2>2, <3>1, <3>2, <4>1, <4>3
      <4> QED BY <4>2, <4>3
    <3> QED BY <2>1, <3>2 DEF EntriesOwned
  <2>7. WatchesSound' /\ SlotsSound'
    BY <2>2, <2>3, <2>4 DEF Sound, WatchesSound, SlotsSound, AllWatchers
  <2>8. WaiterWillWake'
    BY <2>2, <2>3 DEF Sound, WaiterWillWake, SlotsSound
  <2>9. SemaphoreExact'
    BY <2>1, <2>3, AsManyBusy DEF Sound, SemaphoreExact
  <2> QED BY <2>5, <2>6, <2>7, <2>8, <2>9 DEF Sound
<1>7. CASE WatchDelete(w)
  <2>1. /\ watcher' \in [AllWatchers -> WatcherState]
        /\ watcher'[w] = IdleWatcher
        /\ \A v \in AllWatchers \ {w} : watcher'[v] = watcher[v]
    BY <1>7, RecordMoves DEF WatchDelete, WatcherIs, ShutdownTypeOK
  <2>2. UNCHANGED <<main, done, toCancel, sender, sem, slot, loop, overdue, batch>>
    BY <1>7 DEF WatchDelete, WatcherIs, stopVars, speedVars
  <2>3. s.pc = "delete" /\ s.id \in Messages
    BY <1>7 DEF WatchDelete, Sound, WatchesSound
  <2>4. watching' = [watching EXCEPT ![s.id] = NoWatcher]
    BY <1>7 DEF WatchDelete
  <2>5. ShutdownTypeOK'
    BY <2>1, <2>2, <2>4 DEF ShutdownTypeOK
  <2>6. EntriesOwned'
    <3>1. \A m \in Messages : watching[m] \in AllWatchers \cup {NoWatcher}
      BY DEF ShutdownTypeOK
    <3>2. watching'[s.id] = NoWatcher /\ \A m \in Messages \ {s.id} : watching'[m] = watching[m]
      BY <2>3, <2>4 DEF ShutdownTypeOK
    <3>3. \A m \in Messages \ {s.id} : watching[m] # NoWatcher => watching[m] # w
      BY DEF Sound, EntriesOwned
    <3> QED BY <2>1, <3>1, <3>2, <3>3 DEF Sound, EntriesOwned
  <2>7. WatchesSound' /\ SlotsSound'
    BY <2>1, <2>2 DEF Sound, WatchesSound, SlotsSound, IdleWatcher, AllWatchers
  <2>8. WaiterWillWake'
    BY <2>1, <2>2, <2>3 DEF Sound, WaiterWillWake, SlotsSound
  <2>9. SemaphoreExact'
    BY <2>2, AsManyBusy DEF Sound, SemaphoreExact
  <2> QED BY <2>5, <2>6, <2>7, <2>8, <2>9 DEF Sound
<1> QED BY <1>2, <1>3, <1>4, <1>5, <1>6, <1>7 DEF WatcherStep

\* A watcher starts only where none is running, so nobody waits for its channel.
LEMMA WatcherStarts ==
  ASSUME ShutdownTypeOK, Sound, NEW w \in AllWatchers, NEW m \in Messages,
         watcher[w].pc = "idle", watcher' = Started(w, m), UNCHANGED watching
  PROVE  /\ watcher' \in [AllWatchers -> WatcherState]
         /\ watcher'[w].pc = "enter" /\ watcher'[w].id = m
         /\ \A v \in AllWatchers \ {w} : watcher'[v] = watcher[v]
         /\ EntriesOwned' /\ WatchesSound'
         /\ UNCHANGED slot => WaiterWillWake'
<1>1. watcher \in [AllWatchers -> WatcherState]
  BY DEF ShutdownTypeOK
<1>2. [pc |-> "enter", id |-> m, closed |-> FALSE] \in WatcherState
  BY RecordMoves
<1>3. /\ watcher' \in [AllWatchers -> WatcherState]
      /\ watcher'[w].pc = "enter" /\ watcher'[w].id = m
      /\ \A v \in AllWatchers \ {w} : watcher'[v] = watcher[v]
  BY <1>1, <1>2 DEF Started
<1>4. EntriesOwned'
  <2>1. \A n \in Messages : watching[n] \in AllWatchers \cup {NoWatcher}
    BY DEF ShutdownTypeOK
  <2> QED BY <1>3, <2>1 DEF Sound, EntriesOwned
<1>5. WatchesSound'
  BY <1>3 DEF Sound, WatchesSound
<1>6. UNCHANGED slot => WaiterWillWake'
  BY <1>3 DEF Sound, WaiterWillWake, SlotsSound
<1> QED BY <1>3, <1>4, <1>5, <1>6

\* Who is watching a message is a watcher, and closes its channel before it
\* stops waiting.
LEMMA WatchedIsAtWork ==
  ASSUME ShutdownTypeOK, Sound, NEW m \in Messages, NEW w \in Watched(m)
  PROVE  w \in AllWatchers /\ (watcher[w].pc \in {"wait", "close"} \/ watcher[w].closed)
<1>1. w = watching[m] /\ w # NoWatcher /\ w \in AllWatchers
  BY DEF Watched, ShutdownTypeOK
<1> QED BY <1>1 DEF Sound, EntriesOwned, WatchesSound

\* Steps that start a watcher or a goroutine of the worker, or move or end one.
LEMMA StartSteps ==
  ASSUME ShutdownTypeOK, Sound,
         \/ \E m \in Messages, w \in Watchers : StartWatch(m, w)
         \/ \E p \in Slots, m \in Messages : Spawn(p, m)
  PROVE  ShutdownTypeOK' /\ Sound'
<1>1. ASSUME NEW m \in Messages, NEW w \in Watchers, StartWatch(m, w)
      PROVE  ShutdownTypeOK' /\ Sound'
  <2>1. w \in AllWatchers /\ watcher[w].pc = "idle" /\ watcher' = Started(w, m)
        /\ UNCHANGED <<main, done, toCancel, sender, sem, slot, loop, overdue, batch, watching>>
    BY <1>1 DEF StartWatch, AllWatchers, stopVars, speedVars
  <2>2. /\ watcher' \in [AllWatchers -> WatcherState]
        /\ \A v \in AllWatchers \ {w} : watcher'[v] = watcher[v]
        /\ EntriesOwned' /\ WatchesSound' /\ WaiterWillWake'
    BY <2>1, WatcherStarts
  <2>3. ShutdownTypeOK'
    BY <2>1, <2>2 DEF ShutdownTypeOK
  <2>4. SlotsSound'
    BY <2>1, <2>2, ShutdownAssumption DEF Sound, SlotsSound, AllWatchers
  <2>5. SemaphoreExact'
    BY <2>1, AsManyBusy DEF Sound, SemaphoreExact
  <2> QED BY <2>2, <2>3, <2>4, <2>5 DEF Sound
<1>2. ASSUME NEW p \in Slots, NEW m \in Messages, Spawn(p, m)
      PROVE  ShutdownTypeOK' /\ Sound'
  <2> DEFINE s == [IdleSlot EXCEPT !.pc = "replace", !.id = m]
  <2>1. /\ sem < batch /\ slot[p].pc = "idle" /\ sem' = sem + 1
        /\ slot' = [slot EXCEPT ![p] = s]
        /\ loop' = [loop EXCEPT !["speedup"] = "select"]
        /\ UNCHANGED <<main, done, toCancel, sender, overdue, batch, watching, watcher>>
    BY <1>2 DEF Spawn, Room, LoopAt, stopVars, watchVars
  <2>2. s \in SlotState
    BY RecordMoves
  <2>3. s.pc = "replace" /\ s.id = m
    BY DEF IdleSlot
  <2> HIDE DEF s
  <2>4. /\ slot' \in [Slots -> SlotState] /\ slot'[p] = s
        /\ \A q \in Slots \ {p} : slot'[q] = slot[q]
    BY <2>1, <2>2 DEF ShutdownTypeOK
  <2>5. ShutdownTypeOK'
    <3>1. batch \in Nat /\ sem' \in 0..batch'
      BY <2>1, ShutdownAssumption DEF ShutdownTypeOK
    <3>2. loop' \in [Loops -> {"select", "replace", "acquire", "stopped"}]
      BY <2>1 DEF ShutdownTypeOK
    <3> QED BY <2>1, <2>4, <3>1, <3>2 DEF ShutdownTypeOK
  <2>6. EntriesOwned' /\ WatchesSound'
    BY <2>1 DEF Sound, EntriesOwned, WatchesSound
  <2>7. SlotsSound'
    BY <2>1, <2>3, <2>4 DEF Sound, SlotsSound
  <2>8. WaiterWillWake'
    BY <2>1, <2>3, <2>4 DEF Sound, WaiterWillWake
  <2>9. SemaphoreExact'
    <3>1. Cardinality(BusySlots') = Cardinality(BusySlots) + 1
      BY <2>1, <2>3, <2>4, OneMoreBusy
    <3> QED BY <2>1, <3>1 DEF Sound, SemaphoreExact
  <2> QED BY <2>5, <2>6, <2>7, <2>8, <2>9 DEF Sound
<1> QED BY <1>1, <1>2

\* Steps that cancel a watch, and the end of the process.
LEMMA StopSteps ==
  ASSUME ShutdownTypeOK, Sound,
         \/ Exit
         \/ \E m \in Messages : CancelWatch(m) \/ PendingReplace(m)
  PROVE  ShutdownTypeOK' /\ Sound'
<1>1. CASE Exit
  <2>1. /\ slot' = [p \in Slots |-> IdleSlot] /\ sem' = 0
        /\ watching' = [m \in Messages |-> NoWatcher]
        /\ watcher' = [w \in AllWatchers |-> IdleWatcher]
        /\ sender' = [h \in Handlers |-> [running |-> FALSE, left |-> 0]]
        /\ main' = "exited"
        /\ UNCHANGED <<done, toCancel, loop, overdue, batch>>
    BY <1>1 DEF Exit
  <2>2. slot' \in [Slots -> SlotState] /\ watcher' \in [AllWatchers -> WatcherState]
    BY <2>1, RecordMoves
  <2>3. ShutdownTypeOK'
    <3>1. batch \in Nat /\ sem' \in 0..batch'
      BY <2>1, ShutdownAssumption DEF ShutdownTypeOK
    <3>2. sender' \in [Handlers -> [running : BOOLEAN, left : 0..MaxQueue]]
      BY <2>1, ShutdownAssumption
    <3> QED BY <2>1, <2>2, <3>1, <3>2 DEF ShutdownTypeOK
  <2>4. EntriesOwned' /\ WatchesSound' /\ SlotsSound' /\ WaiterWillWake'
    BY <2>1 DEF EntriesOwned, WatchesSound, SlotsSound, WaiterWillWake, IdleSlot,
                IdleWatcher, AllWatchers
  <2>5. SemaphoreExact'
    <3>1. BusySlots' = {}
      BY <2>1 DEF BusySlots, IdleSlot
    <3> QED BY <2>1, <3>1, FS_EmptySet DEF SemaphoreExact
  <2> QED BY <2>3, <2>4, <2>5 DEF Sound
<1>2. ASSUME NEW m \in Messages, CancelWatch(m)
      PROVE  ShutdownTypeOK' /\ Sound'
  <2>1. /\ Cancel(Watched(m)) /\ toCancel' = toCancel \ {m}
        /\ UNCHANGED <<main, done, sender, sem, loop, overdue, batch, watching>>
    BY <1>2 DEF CancelWatch
  <2>2. /\ watcher' \in [AllWatchers -> WatcherState] /\ slot' \in [Slots -> SlotState]
        /\ Sound'
    BY <2>1, CancelKeeps
  <2> QED BY <2>1, <2>2 DEF ShutdownTypeOK
<1>3. ASSUME NEW m \in Messages, PendingReplace(m)
      PROVE  ShutdownTypeOK' /\ Sound'
  <2>1. /\ overdue' = overdue \ {m}
        /\ UNCHANGED <<main, done, toCancel, sender, sem, batch, watching>>
        /\ Cancel(Watched(m)) \/ UNCHANGED <<watcher, slot>>
    BY <1>3 DEF PendingReplace, stopVars
  <2>2. loop' \in [Loops -> {"select", "replace", "acquire", "stopped"}]
    BY <1>3 DEF PendingReplace, LoopAt, ShutdownTypeOK
  <2>3. CASE Cancel(Watched(m))
    <3>1. /\ watcher' \in [AllWatchers -> WatcherState] /\ slot' \in [Slots -> SlotState]
          /\ Sound'
      BY <2>1, <2>3, CancelKeeps
    <3> QED BY <2>1, <2>2, <3>1 DEF ShutdownTypeOK
  <2>4. CASE UNCHANGED <<watcher, slot>>
    <3>1. Sound'
      BY <2>1, <2>4, SoundAbout DEF watchVars
    <3> QED BY <2>1, <2>2, <2>4, <3>1 DEF ShutdownTypeOK
  <2> QED BY <2>1, <2>3, <2>4
<1> QED BY <1>1, <1>2, <1>3

\* A goroutine of the worker that ends makes room.
LEMMA ReleaseStep ==
  ASSUME ShutdownTypeOK, Sound, NEW p \in Slots, slot[p].pc # "idle",
         watcher[p].pc = "idle", Released(p)
  PROVE  ShutdownTypeOK' /\ Sound'
<1>1. /\ slot' = [slot EXCEPT ![p] = IdleSlot] /\ sem' = sem - 1
      /\ UNCHANGED <<main, done, toCancel, sender, loop, overdue, batch, watching, watcher>>
  BY DEF Released, Returned, stopVars, watchVars
<1>2. /\ slot' \in [Slots -> SlotState] /\ slot'[p] = IdleSlot
      /\ \A q \in Slots \ {p} : slot'[q] = slot[q]
  BY <1>1, RecordMoves DEF ShutdownTypeOK
<1>3. IdleSlot.pc = "idle"
  BY DEF IdleSlot
<1>4. /\ Cardinality(BusySlots') = Cardinality(BusySlots) - 1
      /\ Cardinality(BusySlots) > 0
  BY <1>2, <1>3, OneLessBusy
<1>5. SemaphoreExact'
  BY <1>1, <1>4 DEF Sound, SemaphoreExact
<1>6. ShutdownTypeOK'
  <2>1. sem > 0
    BY <1>4 DEF Sound, SemaphoreExact
  <2>2. batch \in Nat /\ sem' \in 0..batch'
    BY <1>1, <2>1, ShutdownAssumption DEF ShutdownTypeOK
  <2> QED BY <1>1, <1>2, <2>2 DEF ShutdownTypeOK
<1>7. EntriesOwned' /\ WatchesSound'
  BY <1>1 DEF Sound, EntriesOwned, WatchesSound
<1>8. SlotsSound' /\ WaiterWillWake'
  BY <1>1, <1>2, <1>3 DEF Sound, SlotsSound, WaiterWillWake
<1> QED BY <1>5, <1>6, <1>7, <1>8 DEF Sound

\* The other steps of a goroutine of the worker.
LEMMA SlotSteps ==
  ASSUME ShutdownTypeOK, Sound, NEW p \in Slots, SlotStep(p) \/ SlotRowGone(p)
  PROVE  ShutdownTypeOK' /\ Sound'
<1> DEFINE s == slot[p]
<1>1. p \in AllWatchers
  BY DEF AllWatchers
<1>2. s \in SlotState
  BY DEF ShutdownTypeOK
<1>3. CASE SlotFails(p) \/ SlotRowGone(p) \/ SlotEnds(p)
  <2>1. s.pc # "idle" /\ watcher[p].pc = "idle" /\ Released(p)
    BY <1>3 DEF SlotFails, SlotRowGone, SlotEnds, Sound, SlotsSound
  <2> QED BY <2>1, ReleaseStep
<1>4. ASSUME NEW new \in Messages, SlotReplaced(p, new) PROVE ShutdownTypeOK' /\ Sound'
  <2> DEFINE W == Watched(s.id)
             t == [IdleSlot EXCEPT !.pc = "follow", !.id = new]
  <2>1. /\ s.pc = "replace"
        /\ watcher' = Closed(W) /\ slot' = [Woken(W) EXCEPT ![p] = t]
        /\ UNCHANGED <<main, done, toCancel, sender, sem, loop, overdue, batch, watching>>
    BY <1>4 DEF SlotReplaced, stopVars
  <2>2. t \in SlotState /\ t.pc = "follow" /\ t.id = new
    <3>1. t.pc = "follow" /\ t.id = new
      BY DEF IdleSlot
    <3> QED BY <3>1, RecordMoves
  <2> HIDE DEF t
  <2>3. /\ watcher' \in [AllWatchers -> WatcherState]
        /\ \A w \in AllWatchers :
             /\ watcher'[w].pc = watcher[w].pc /\ watcher'[w].id = watcher[w].id
             /\ watcher[w].closed => watcher'[w].closed
    BY <2>1, ClosingIsAll
  <2>4. /\ Woken(W) \in [Slots -> SlotState]
        /\ \A q \in Slots :
             /\ Woken(W)[q].pc = slot[q].pc /\ Woken(W)[q].id = slot[q].id
             /\ Woken(W)[q].on = slot[q].on /\ (~Woken(W)[q].closed => ~slot[q].closed)
    BY ClosingIsAll
  <2>5. /\ slot' \in [Slots -> SlotState] /\ slot'[p] = t
        /\ \A q \in Slots \ {p} : slot'[q] = Woken(W)[q]
    BY <2>1, <2>2, <2>4
  <2>6. \A q \in Slots \ {p} :
             /\ slot'[q].pc = slot[q].pc /\ slot'[q].id = slot[q].id
             /\ slot'[q].on = slot[q].on /\ (~slot'[q].closed => ~slot[q].closed)
    BY <2>4, <2>5
  <2>7. ShutdownTypeOK'
    BY <2>1, <2>3, <2>5 DEF ShutdownTypeOK
  <2>8. EntriesOwned'
    <3>1. \A m \in Messages : watching[m] \in AllWatchers \cup {NoWatcher}
      BY DEF ShutdownTypeOK
    <3> QED BY <2>1, <2>3, <3>1 DEF Sound, EntriesOwned
  <2>9. WatchesSound'
    BY <2>3 DEF Sound, WatchesSound
  <2>10. SlotsSound'
    BY <2>1, <2>2, <2>3, <2>5, <2>6 DEF Sound, SlotsSound, AllWatchers
  <2>11. WaiterWillWake'
    BY <2>2, <2>3, <2>5, <2>6 DEF Sound, WaiterWillWake, SlotsSound
  <2>12. SemaphoreExact'
    <3>1. \A q \in Slots : slot'[q].pc = "idle" <=> slot[q].pc = "idle"
      BY <2>1, <2>2, <2>5, <2>6
    <3> QED BY <2>1, <3>1, AsManyBusy DEF Sound, SemaphoreExact
  <2> QED BY <2>7, <2>8, <2>9, <2>10, <2>11, <2>12 DEF Sound
<1>5. CASE SlotFollows(p)
  <2>1. PICK w \in Watched(s.id) :
          /\ s.pc = "follow"
          /\ slot' = [slot EXCEPT ![p] = [IdleSlot EXCEPT !.pc = "wait", !.on = w,
                                                   !.closed = watcher[w].closed]]
          /\ UNCHANGED <<main, done, toCancel, sender, sem, loop, overdue, batch,
                         watching, watcher>>
    BY <1>5 DEF SlotFollows, stopVars, watchVars
  <2> DEFINE t == [IdleSlot EXCEPT !.pc = "wait", !.on = w, !.closed = watcher[w].closed]
  <2>2. s.id \in Messages
    BY <2>1 DEF Sound, SlotsSound
  <2>3. w \in AllWatchers /\ (watcher[w].pc \in {"wait", "close"} \/ watcher[w].closed)
    BY <2>1, <2>2, WatchedIsAtWork
  <2>4. watcher[w].closed \in BOOLEAN
    BY <2>3 DEF ShutdownTypeOK, WatcherState
  <2>5. t \in SlotState
    BY <2>3, <2>4, RecordMoves
  <2>6. t.pc = "wait" /\ t.on = w /\ t.closed = watcher[w].closed
    BY DEF IdleSlot
  <2>7. slot' = [slot EXCEPT ![p] = t]
    BY <2>1
  <2> HIDE DEF t
  <2>8. /\ slot' \in [Slots -> SlotState] /\ slot'[p] = t
        /\ \A q \in Slots \ {p} : slot'[q] = slot[q]
    BY <2>5, <2>7 DEF ShutdownTypeOK
  <2>9. ShutdownTypeOK'
    BY <2>1, <2>8 DEF ShutdownTypeOK
  <2>10. EntriesOwned' /\ WatchesSound'
    BY <2>1 DEF Sound, EntriesOwned, WatchesSound
  <2>11. SlotsSound'
    BY <2>1, <2>2, <2>3, <2>6, <2>8 DEF Sound, SlotsSound
  <2>12. WaiterWillWake'
    BY <2>1, <2>3, <2>6, <2>8 DEF Sound, WaiterWillWake
  <2>13. SemaphoreExact'
    <3>1. \A q \in Slots : slot'[q].pc = "idle" <=> slot[q].pc = "idle"
      BY <2>1, <2>6, <2>8
    <3> QED BY <2>1, <3>1, AsManyBusy DEF Sound, SemaphoreExact
  <2> QED BY <2>9, <2>10, <2>11, <2>12, <2>13 DEF Sound
<1>6. CASE SlotWatches(p)
  <2> DEFINE t == [IdleSlot EXCEPT !.pc = "self"]
  <2>1. /\ s.pc = "follow" /\ slot' = [slot EXCEPT ![p] = t]
        /\ watcher' = Started(p, s.id)
        /\ UNCHANGED <<main, done, toCancel, sender, sem, loop, overdue, batch, watching>>
    BY <1>6 DEF SlotWatches, stopVars
  <2>2. s.id \in Messages /\ watcher[p].pc = "idle"
    BY <2>1 DEF Sound, SlotsSound
  <2>3. t \in SlotState
    BY RecordMoves
  <2>4. t.pc = "self"
    BY DEF IdleSlot
  <2> HIDE DEF t
  <2>5. /\ watcher' \in [AllWatchers -> WatcherState]
        /\ watcher'[p].pc = "enter" /\ watcher'[p].id = s.id
        /\ \A v \in AllWatchers \ {p} : watcher'[v] = watcher[v]
        /\ EntriesOwned' /\ WatchesSound'
    BY <1>1, <2>1, <2>2, WatcherStarts
  <2>6. /\ slot' \in [Slots -> SlotState] /\ slot'[p] = t
        /\ \A q \in Slots \ {p} : slot'[q] = slot[q]
    BY <2>1, <2>3 DEF ShutdownTypeOK
  <2>7. ShutdownTypeOK'
    BY <2>1, <2>5, <2>6 DEF ShutdownTypeOK
  <2>8. SlotsSound'
    BY <2>1, <2>2, <2>4, <2>5, <2>6 DEF Sound, SlotsSound, AllWatchers
  <2>9. WaiterWillWake'
    BY <2>1, <2>2, <2>4, <2>5, <2>6 DEF Sound, WaiterWillWake, SlotsSound
  <2>10. SemaphoreExact'
    <3>1. \A q \in Slots : slot'[q].pc = "idle" <=> slot[q].pc = "idle"
      BY <2>1, <2>4, <2>6
    <3> QED BY <2>1, <3>1, AsManyBusy DEF Sound, SemaphoreExact
  <2> QED BY <2>5, <2>7, <2>8, <2>9, <2>10 DEF Sound
<1> QED BY <1>3, <1>4, <1>5, <1>6 DEF SlotStep

-----------------------------------------------------------------------------
(* The theorems *)

\* The invariant is inductive.
LEMMA ShutdownStep == ShutdownInv /\ [Next]_vars => ShutdownInv'
<1> SUFFICES ASSUME ShutdownTypeOK, Sound, [Next]_vars
             PROVE  ShutdownTypeOK' /\ Sound'
  BY DEF ShutdownInv, Sound
<1>1. CASE UNCHANGED vars
  <2>1. UNCHANGED <<watchVars, slot, sem>>
    BY <1>1 DEF vars, speedVars, watchVars
  <2>2. Sound'
    BY <2>1, SoundAbout
  <2>3. ShutdownTypeOK'
    BY <1>1 DEF ShutdownTypeOK, vars, stopVars, speedVars, watchVars
  <2> QED BY <2>2, <2>3
<1>2. CASE \/ Signal \/ ApiStopped \/ CancelContext \/ ParentDone
           \/ \E l \in Loops : LoopStops(l)
           \/ PendingTick
           \/ \E h \in Handlers : SpeedupCalled(h) \/ Receive(h)
           \/ \E h \in Handlers, n \in 0..MaxQueue : SpeedupRequest(h, n)
  <2>1. ShutdownTypeOK' /\ UNCHANGED <<watchVars, slot, sem>>
    BY <1>2, QuietSteps
  <2> QED BY <2>1, SoundAbout
<1>3. CASE \/ Exit
           \/ \E m \in Messages : CancelWatch(m) \/ PendingReplace(m)
  BY <1>3, StopSteps
<1>4. CASE \/ \E m \in Messages, w \in Watchers : StartWatch(m, w)
           \/ \E p \in Slots, m \in Messages : Spawn(p, m)
  BY <1>4, StartSteps
<1>5. ASSUME NEW w \in AllWatchers, WatcherStep(w) \/ WatchReturns(w)
      PROVE  ShutdownTypeOK' /\ Sound'
  BY <1>5, WatcherSteps
<1>6. ASSUME NEW p \in Slots, SlotStep(p) \/ SlotRowGone(p)
      PROVE  ShutdownTypeOK' /\ Sound'
  BY <1>6, SlotSteps
<1> QED BY <1>1, <1>2, <1>3, <1>4, <1>5, <1>6 DEF Next

\* While the service runs and while it stops, nobody waits for a watch that
\* ended unnoticed, and the semaphore is exact.
THEOREM ShutdownCorrect == Spec => []ShutdownInv
<1>1. Init => ShutdownInv
  BY ShutdownInit
<1>2. ShutdownInv /\ [Next]_vars => ShutdownInv'
  BY ShutdownStep
<1> QED BY <1>1, <1>2, PTL DEF Spec

\* Every variable keeps its kind, and the speedup worker its limit.
THEOREM ShutdownTypes == Spec => []ShutdownTypeOK
<1>1. ShutdownInv => ShutdownTypeOK
  BY DEF ShutdownInv
<1> QED BY <1>1, ShutdownCorrect, PTL

\* Wait (service.go:68-87) never waits for a watch that has ended.
THEOREM NobodyWaitsForTheDead == Spec => []WaiterWillWake
<1>1. ShutdownInv => WaiterWillWake
  BY DEF ShutdownInv
<1> QED BY <1>1, ShutdownCorrect, PTL

\* The speedup worker (service.go:806) is held up by its own goroutines only.
THEOREM WorkerBlockedByItsOwn == Spec => []BlockedByItsOwn
<1>1. ShutdownInv => BlockedByItsOwn
  <2> SUFFICES ASSUME ShutdownInv, ~Room, BusySlots = {}
               PROVE  batch = 0
    BY DEF BlockedByItsOwn
  <2>1. sem = 0
    BY BusyIsFinite DEF ShutdownInv, SemaphoreExact
  <2>2. batch \in Nat
    BY ShutdownAssumption DEF ShutdownInv, ShutdownTypeOK
  <2> QED BY <2>1, <2>2 DEF Room
<1> QED BY <1>1, ShutdownCorrect, PTL

=============================================================================
