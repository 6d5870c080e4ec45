------------------------ MODULE MessageTracking_proofs ------------------------
(***************************************************************************)
(* Proofs of the safety properties of MessageTracking, for any number of   *)
(* messages, nonces, goroutines, speedups and faults.                      *)
(***************************************************************************)
EXTENDS MessageTracking, TLAPS

\* What the rest of the system changes, and the rows that it has to record.
USE DEF outside, Unrecorded

\* The initial values have their types.
LEMMA InitialTypes ==
  /\ FreeRow \in Row
  /\ IdleWatcher \in WatcherState
  /\ IdleReplacer \in ReplacerState
<1>1. FreeRow \in Row
  BY DEF FreeRow, Row
<1>2. IdleWatcher \in WatcherState
  BY DEF IdleWatcher, WatcherState
<1>3. IdleReplacer \in ReplacerState
  BY DEF IdleReplacer, ReplacerState
<1> QED BY <1>1, <1>2, <1>3

\* What the commit of a replacement makes of the table.
LEMMA Committed ==
  ASSUME TrackingTypeOK, ReplacersSound, NEW p \in Replacers, NEW new \in Rows,
         replacer[p].pc = "commit", row[new].state = "free",
         row' = CommittedRows(p, new)
  PROVE  /\ replacer[p].id \in Rows /\ replacer[p].id # new
         /\ row[replacer[p].id].nonce \in Nonces
         /\ row' \in [Rows -> Row]
         /\ row'[new].state = "live" /\ ~row'[new].onChain
         /\ row'[new].nonce = row[replacer[p].id].nonce
         /\ row'[replacer[p].id].nonce = row[replacer[p].id].nonce
         /\ row'[replacer[p].id].onChain = row[replacer[p].id].onChain
         /\ row'[replacer[p].id].state # "free"
         /\ row'[replacer[p].id].state =
              IF replacer[p].deleted THEN "deleted" ELSE row[replacer[p].id].state
         /\ \A j \in Rows : j # new /\ j # replacer[p].id => row'[j] = row[j]
<1> DEFINE old == replacer[p].id
           fresh == [state |-> "live", nonce |-> row[old].nonce, onChain |-> FALSE]
           stays == IF replacer[p].deleted THEN "deleted" ELSE row[old].state
<1>1. /\ old \in Rows /\ old # new
      /\ row[old].nonce \in Nonces /\ row[old].state # "free"
  BY DEF ReplacersSound, TrackingTypeOK
<1>2. row' = [row EXCEPT ![old].state = stays, ![new] = fresh]
  BY DEF CommittedRows
<1>3. stays \in {"free", "live", "deleted"}
  BY <1>1 DEF TrackingTypeOK, Row
<1>4. fresh \in Row
  BY <1>1 DEF Row
<1> DEFINE kept == [row[old] EXCEPT !.state = stays]
<1>5. /\ kept \in Row /\ kept.nonce = row[old].nonce
      /\ kept.onChain = row[old].onChain /\ kept.state = stays
  <2> HIDE DEF stays
  <2> QED BY <1>1, <1>3 DEF TrackingTypeOK, Row
<1>6. row' = [j \in Rows |-> IF j = new THEN fresh
                           ELSE IF j = old THEN kept ELSE row[j]]
  <2> HIDE DEF stays, fresh
  <2> QED BY <1>1, <1>2 DEF TrackingTypeOK
<1> HIDE DEF kept
<1>7. row' \in [Rows -> Row]
  <2> HIDE DEF stays, fresh
  <2> QED BY <1>4, <1>5, <1>6 DEF TrackingTypeOK
<1>8. /\ row'[new] = fresh /\ row'[old] = kept
      /\ \A j \in Rows \ {old, new} : row'[j] = row[j]
  <2> HIDE DEF stays, fresh
  <2> QED BY <1>1, <1>6
<1> QED BY <1>1, <1>5, <1>7, <1>8

\* What the steps of a watcher make of the goroutines.
LEMMA WatcherMoves ==
  ASSUME TrackingTypeOK, NEW w \in AllWatchers
  PROVE  /\ \A pc \in {"has", "set", "wait", "save", "exit"} :
              [watcher EXCEPT ![w].pc = pc] \in [AllWatchers -> WatcherState]
         /\ [watcher EXCEPT ![w] = IdleWatcher] \in [AllWatchers -> WatcherState]
         /\ \A i \in Rows : Started(w, i) \in [AllWatchers -> WatcherState]
<1> USE DEF TrackingTypeOK
<1>1. ASSUME NEW pc \in {"has", "set", "wait", "save", "exit"}
      PROVE  [watcher EXCEPT ![w].pc = pc] \in [AllWatchers -> WatcherState]
  BY <1>1 DEF WatcherState
<1>2. [watcher EXCEPT ![w] = IdleWatcher] \in [AllWatchers -> WatcherState]
  BY InitialTypes
<1>3. ASSUME NEW i \in Rows
      PROVE  Started(w, i) \in [AllWatchers -> WatcherState]
  <2>1. [pc |-> "read", id |-> i, cancelled |-> FALSE] \in WatcherState
    BY DEF WatcherState
  <2> QED BY <2>1 DEF Started
<1> QED BY <1>1, <1>2, <1>3

\* What the steps of replaceMessage make of its calls.
LEMMA ReplacerMoves ==
  ASSUME TrackingTypeOK, NEW p \in Replacers
  PROVE  /\ \A pc \in {"delete", "commit"} :
              [replacer EXCEPT ![p].pc = pc] \in [Replacers -> ReplacerState]
         /\ [replacer EXCEPT ![p] = IdleReplacer] \in [Replacers -> ReplacerState]
         /\ \A i \in Rows : Loaded(p, i) \in [Replacers -> ReplacerState]
         /\ \A b \in BOOLEAN :
              [replacer EXCEPT ![p].pc = "push", ![p].deleted = b]
                \in [Replacers -> ReplacerState]
         /\ \A new \in Rows :
              [replacer EXCEPT ![p] = Following(new)]
                \in [Replacers -> ReplacerState]
         /\ \A w \in AllWatchers :
              [replacer EXCEPT ![p].pc = "waiting", ![p].waits = w]
                \in [Replacers -> ReplacerState]
<1> USE DEF TrackingTypeOK
<1>1. ASSUME NEW pc \in {"delete", "commit"}
      PROVE  [replacer EXCEPT ![p].pc = pc] \in [Replacers -> ReplacerState]
  <2>1. replacer[p] \in ReplacerState
    OBVIOUS
  <2>2. [replacer[p] EXCEPT !.pc = pc] \in ReplacerState
    BY <1>1, <2>1 DEF ReplacerState
  <2>3. [replacer EXCEPT ![p].pc = pc]
          = [replacer EXCEPT ![p] = [replacer[p] EXCEPT !.pc = pc]]
    OBVIOUS
  <2> QED BY <2>2, <2>3
<1>2. [replacer EXCEPT ![p] = IdleReplacer] \in [Replacers -> ReplacerState]
  BY InitialTypes
<1>3. ASSUME NEW i \in Rows
      PROVE  Loaded(p, i) \in [Replacers -> ReplacerState]
  <2>1. [IdleReplacer EXCEPT !.pc = "find", !.id = i] \in ReplacerState
    BY DEF IdleReplacer, ReplacerState
  <2> QED BY <2>1 DEF Loaded
<1>4. ASSUME NEW b \in BOOLEAN
      PROVE  [replacer EXCEPT ![p].pc = "push", ![p].deleted = b]
               \in [Replacers -> ReplacerState]
  <2> DEFINE s == [replacer[p] EXCEPT !.pc = "push", !.deleted = b]
  <2>1. replacer[p] \in ReplacerState
    OBVIOUS
  <2>2. s \in ReplacerState
    BY <2>1 DEF ReplacerState
  <2>3. [replacer EXCEPT ![p].pc = "push", ![p].deleted = b]
          = [replacer EXCEPT ![p] = s]
    OBVIOUS
  <2> HIDE DEF s
  <2> QED BY <2>2, <2>3
<1>5. ASSUME NEW new \in Rows
      PROVE  [replacer EXCEPT ![p] = Following(new)]
               \in [Replacers -> ReplacerState]
  <2>1. Following(new) \in ReplacerState
    BY DEF Following, IdleReplacer, ReplacerState
  <2> QED BY <2>1
<1>6. ASSUME NEW w \in AllWatchers
      PROVE  [replacer EXCEPT ![p].pc = "waiting", ![p].waits = w]
               \in [Replacers -> ReplacerState]
  <2> DEFINE s == [replacer[p] EXCEPT !.pc = "waiting", !.waits = w]
  <2>1. replacer[p] \in ReplacerState
    OBVIOUS
  <2>2. s \in ReplacerState
    BY <1>6, <2>1 DEF ReplacerState
  <2>3. [replacer EXCEPT ![p].pc = "waiting", ![p].waits = w]
          = [replacer EXCEPT ![p] = s]
    OBVIOUS
  <2> HIDE DEF s
  <2> QED BY <2>2, <2>3
<1> QED BY <1>1, <1>2, <1>3, <1>4, <1>5, <1>6

\* Every step keeps the types.
LEMMA TypeStep ==
  ASSUME TrackingTypeOK, ReplacersSound, WatchersSound, EntryHasWatcher,
         [Next]_vars
  PROVE  TrackingTypeOK'
<1> USE TrackingAssumption DEF watchVars, replaceVars
<1>1. ASSUME NEW n \in Nonces, NEW i \in Rows, Publish(n, i)
      PROVE  TrackingTypeOK'
  <2>1. [state |-> "live", nonce |-> n, onChain |-> FALSE] \in Row
    BY DEF Row
  <2> QED BY <1>1, <2>1 DEF Publish, TrackingTypeOK
<1>2. ASSUME NEW n \in Nonces, Land(n) \/ RequestMoves(n)
      PROVE  TrackingTypeOK'
  BY <1>2 DEF Land, RequestMoves, TrackingTypeOK
<1>3. CASE CheckTick
  BY <1>3 DEF CheckTick, TrackingTypeOK
<1>4. ASSUME NEW i \in Rows, StillWatching(i)
      PROVE  TrackingTypeOK'
  BY <1>4 DEF StillWatching, TrackingTypeOK
<1>5. ASSUME NEW i \in Rows, NEW w \in Watchers, StartWatch(i, w)
      PROVE  TrackingTypeOK'
  <2>1. watcher' \in [AllWatchers -> WatcherState]
    BY <1>5, WatcherMoves DEF StartWatch, AllWatchers
  <2> QED BY <1>5, <2>1 DEF StartWatch, TrackingTypeOK
<1>6. ASSUME NEW w \in AllWatchers, WatchRead(w)
      PROVE  TrackingTypeOK'
  <2>1. watcher' \in {[watcher EXCEPT ![w].pc = "has"],
                    [watcher EXCEPT ![w] = IdleWatcher]}
    BY <1>6 DEF WatchRead, WatcherAt, WatcherGone
  <2>2. watcher' \in [AllWatchers -> WatcherState]
    BY ZenonT(40), <2>1, WatcherMoves
  <2> QED BY <1>6, <2>2 DEF WatchRead, TrackingTypeOK
<1>7. ASSUME NEW w \in AllWatchers, WatchHas(w)
      PROVE  TrackingTypeOK'
  <2>1. watcher' \in {[watcher EXCEPT ![w].pc = "set"],
                    [watcher EXCEPT ![w] = IdleWatcher]}
    BY <1>7 DEF WatchHas, WatcherAt, WatcherGone
  <2>2. watcher' \in [AllWatchers -> WatcherState]
    BY ZenonT(40), <2>1, WatcherMoves
  <2> QED BY <1>7, <2>2 DEF WatchHas, TrackingTypeOK
<1>8. ASSUME NEW w \in AllWatchers, WatchSet(w)
      PROVE  TrackingTypeOK'
  <2>1. watcher' \in [AllWatchers -> WatcherState]
    BY <1>8, WatcherMoves DEF WatchSet, WatcherAt
  <2> QED BY <1>8, <2>1 DEF WatchSet, TrackingTypeOK
<1>9. ASSUME NEW w \in AllWatchers, WatchReceipt(w)
      PROVE  TrackingTypeOK'
  <2>1. watcher' \in [AllWatchers -> WatcherState]
    BY <1>9, WatcherMoves DEF WatchReceipt, WatcherAt
  <2> QED BY <1>9, <2>1 DEF WatchReceipt, TrackingTypeOK
<1>10. ASSUME NEW w \in AllWatchers, WatchCancelled(w)
      PROVE  TrackingTypeOK'
  <2>1. watcher' \in [AllWatchers -> WatcherState]
    BY <1>10, WatcherMoves DEF WatchCancelled, WatcherAt
  <2> QED BY <1>10, <2>1 DEF WatchCancelled, TrackingTypeOK
<1>11. ASSUME NEW w \in AllWatchers, WatchFails(w)
      PROVE  TrackingTypeOK'
  <2>1. watcher' \in [AllWatchers -> WatcherState]
    BY <1>11, WatcherMoves DEF WatchFails, WatcherAt
  <2>2. faults' \in 0..MaxFaults
    BY <1>11 DEF WatchFails, Fault, TrackingTypeOK
  <2> QED BY <1>11, <2>1, <2>2 DEF WatchFails, TrackingTypeOK
<1>12. ASSUME NEW w \in AllWatchers, WatchSave(w)
      PROVE  TrackingTypeOK'
  <2> DEFINE i == watcher[w].id
  <2>1. watcher' \in [AllWatchers -> WatcherState]
    BY <1>12, WatcherMoves DEF WatchSave, WatcherAt
  <2>2. i \in Rows /\ row[i].nonce \in Nonces
    BY <1>12 DEF WatchSave, WatchersSound, TrackingTypeOK
  <2>3. SavedRow(i) = [state |-> "live", nonce |-> row[i].nonce,
                       onChain |-> TRUE]
    BY DEF SavedRow
  <2>4. row' = [row EXCEPT ![i] = SavedRow(i)]
    BY <1>12 DEF WatchSave
  <2> HIDE DEF i
  <2>5. /\ row' \in [Rows -> Row]
        /\ \A j \in Rows : row'[j].state # "free" => row'[j].nonce \in Nonces
    BY <2>2, <2>3, <2>4 DEF Row, TrackingTypeOK
  <2> QED BY <1>12, <2>1, <2>5 DEF WatchSave, TrackingTypeOK
<1>13. ASSUME NEW w \in AllWatchers, WatchSaveFails(w)
      PROVE  TrackingTypeOK'
  <2>1. watcher' \in [AllWatchers -> WatcherState]
    BY <1>13, WatcherMoves DEF WatchSaveFails, WatcherAt
  <2>2. faults' \in 0..MaxFaults
    BY <1>13 DEF WatchSaveFails, Fault, TrackingTypeOK
  <2> QED BY <1>13, <2>1, <2>2 DEF WatchSaveFails, TrackingTypeOK
<1>14. ASSUME NEW w \in AllWatchers, WatchExit(w)
      PROVE  TrackingTypeOK'
  <2>1. watcher' \in [AllWatchers -> WatcherState]
    BY <1>14, WatcherMoves DEF WatchExit, WatcherGone
  <2> QED BY <1>14, <2>1 DEF WatchExit, Unwatched, TrackingTypeOK
<1>15. CASE SpeedupRequest
  BY <1>15 DEF SpeedupRequest, TrackingTypeOK
<1>16. ASSUME NEW p \in Speedups, NEW i \in Rows, SpeedupWorker(p, i)
      PROVE  TrackingTypeOK'
  <2>1. replacer' \in [Replacers -> ReplacerState]
    BY <1>16, ReplacerMoves DEF SpeedupWorker, Replacers
  <2> QED BY <1>16, <2>1 DEF SpeedupWorker, TrackingTypeOK
<1>17. CASE PendingScan
  BY <1>17 DEF PendingScan, TrackingTypeOK
<1>18. ASSUME NEW i \in Rows, PendingReplace(i)
      PROVE  TrackingTypeOK'
  <2>1. replacer' \in [Replacers -> ReplacerState]
    BY <1>18, ReplacerMoves DEF PendingReplace, Replacers
  <2> QED BY <1>18, <2>1 DEF PendingReplace, TrackingTypeOK
<1>19. ASSUME NEW p \in Replacers, ReplaceFind(p)
      PROVE  TrackingTypeOK'
  <2>1. replacer' \in [Replacers -> ReplacerState]
    BY <1>19, ReplacerMoves DEF ReplaceFind, ReplacerAt
  <2> QED BY <1>19, <2>1 DEF ReplaceFind, TrackingTypeOK
<1>20. ASSUME NEW p \in Replacers, ReplaceGivesUp(p)
      PROVE  TrackingTypeOK'
  <2>1. replacer' \in [Replacers -> ReplacerState]
    BY <1>20, ReplacerMoves DEF ReplaceGivesUp, ReplacerDone
  <2> QED BY <1>20, <2>1 DEF ReplaceGivesUp, TrackingTypeOK
<1>21. ASSUME NEW p \in Replacers, TxDelete(p)
      PROVE  TrackingTypeOK'
  <2>1. replacer' \in [Replacers -> ReplacerState]
    BY <1>21, ReplacerMoves DEF TxDelete, Live
  <2> QED BY <1>21, <2>1 DEF TxDelete, TrackingTypeOK
<1>22. ASSUME NEW p \in Replacers, TxPush(p)
      PROVE  TrackingTypeOK'
  <2>1. watcher' \in [AllWatchers -> WatcherState]
    BY ZenonT(40), <1>22 DEF TxPush, Cancelled, WatcherState, TrackingTypeOK
  <2>2. replacer' \in [Replacers -> ReplacerState]
    BY <1>22, ReplacerMoves DEF TxPush, ReplacerAt
  <2> QED BY <1>22, <2>1, <2>2 DEF TxPush, TrackingTypeOK
<1>23. ASSUME NEW p \in Replacers, TxRefused(p)
      PROVE  TrackingTypeOK'
  <2>1. replacer' \in [Replacers -> ReplacerState]
    BY <1>23, ReplacerMoves DEF TxRefused, ReplacerDone
  <2> QED BY <1>23, <2>1 DEF TxRefused, TrackingTypeOK
<1>24. ASSUME NEW p \in Replacers, NEW new \in Rows, TxCommit(p, new)
      PROVE  TrackingTypeOK'
  <2>0. /\ replacer[p].pc = "commit" /\ row[new].state = "free"
        /\ row' = CommittedRows(p, new)
    BY <1>24 DEF TxCommit
  <2>4. \A j \in Rows : row[j].state # "free" => row[j].nonce \in Nonces
    BY DEF TrackingTypeOK
  <2>5. row' \in [Rows -> Row]
    BY <2>0, Committed
  <2>1. \A j \in Rows : row'[j].state # "free" => row'[j].nonce \in Nonces
    BY <2>0, <2>4, Committed
  <2>2. replacer' \in {[replacer EXCEPT ![p] = Following(new)],
                     [replacer EXCEPT ![p] = IdleReplacer]}
    BY <1>24 DEF TxCommit, ReplacerDone
  <2>3. replacer' \in [Replacers -> ReplacerState]
    <3>1. CASE replacer' = [replacer EXCEPT ![p] = Following(new)]
      BY <3>1, ReplacerMoves
    <3>2. CASE replacer' = [replacer EXCEPT ![p] = IdleReplacer]
      BY <3>2, ReplacerMoves
    <3> QED BY <2>2, <3>1, <3>2
  <2> QED BY <1>24, <2>1, <2>3, <2>5 DEF TxCommit, TrackingTypeOK
<1>25. ASSUME NEW p \in Replacers, CommitFails(p)
      PROVE  TrackingTypeOK'
  <2>1. replacer' \in [Replacers -> ReplacerState]
    BY <1>25, ReplacerMoves DEF CommitFails, ReplacerDone
  <2>2. faults' \in 0..MaxFaults
    BY <1>25 DEF CommitFails, Fault, TrackingTypeOK
  <2> QED BY <1>25, <2>1, <2>2 DEF CommitFails, TrackingTypeOK
<1>26. ASSUME NEW p \in Replacers, FollowLost(p)
      PROVE  TrackingTypeOK'
  <2>1. replacer' \in [Replacers -> ReplacerState]
    BY <1>26, ReplacerMoves DEF FollowLost, ReplacerDone
  <2> QED BY <1>26, <2>1 DEF FollowLost, TrackingTypeOK
<1>27. ASSUME NEW p \in Replacers, FollowWatcher(p)
      PROVE  TrackingTypeOK'
  <2>1. watching[replacer[p].next] \in AllWatchers
    BY <1>27 DEF FollowWatcher, ReplacersSound, TrackingTypeOK
  <2>2. replacer' \in [Replacers -> ReplacerState]
    BY <1>27, <2>1, ReplacerMoves DEF FollowWatcher
  <2> QED BY <1>27, <2>2 DEF FollowWatcher, TrackingTypeOK
<1>28. ASSUME NEW p \in Replacers, FollowItself(p)
      PROVE  TrackingTypeOK'
  <2>1. p \in AllWatchers /\ replacer[p].next \in Rows
    BY <1>28 DEF FollowItself, ReplacersSound, AllWatchers
  <2>2. watcher' \in [AllWatchers -> WatcherState]
    BY <1>28, <2>1, WatcherMoves DEF FollowItself
  <2>3. replacer' \in [Replacers -> ReplacerState]
    BY <1>28, <2>1, ReplacerMoves DEF FollowItself
  <2> QED BY <1>28, <2>2, <2>3 DEF FollowItself, TrackingTypeOK
<1>29. ASSUME NEW p \in Replacers, FollowDone(p)
      PROVE  TrackingTypeOK'
  <2>1. replacer' \in [Replacers -> ReplacerState]
    BY <1>29, ReplacerMoves DEF FollowDone, ReplacerDone
  <2> QED BY <1>29, <2>1 DEF FollowDone, TrackingTypeOK
<1>30. CASE CrashRestart
  <2>1. /\ watcher' \in [AllWatchers -> WatcherState]
        /\ replacer' \in [Replacers -> ReplacerState]
    BY <1>30, InitialTypes DEF CrashRestart
  <2>2. /\ watching' \in [Rows -> AllWatchers \cup {NoWatcher}]
        /\ faults' \in 0..MaxFaults
    BY <1>30 DEF CrashRestart, Fault, TrackingTypeOK
  <2> QED BY <1>30, <2>1, <2>2 DEF CrashRestart, TrackingTypeOK
<1>31. CASE UNCHANGED vars
  BY <1>31 DEF vars, TrackingTypeOK
<1> QED
  BY <1>1, <1>2, <1>3, <1>4, <1>5, <1>6, <1>7, <1>8, <1>9, <1>10, <1>11,
     <1>12, <1>13, <1>14, <1>15, <1>16, <1>17, <1>18, <1>19, <1>20, <1>21,
     <1>22, <1>23, <1>24, <1>25, <1>26, <1>27, <1>28, <1>29, <1>30, <1>31
  DEF Next, WatcherStep, ReplacerStep

\* Every step keeps the entries of watchingMessages with their watchers.
LEMMA EntryStep ==
  ASSUME TrackingTypeOK, EntryHasWatcher, WatchersSound, ReplacersSound,
         [Next]_vars
  PROVE  EntryHasWatcher'
<1> USE TrackingAssumption
    DEF TrackingTypeOK, EntryHasWatcher, watchVars, replaceVars, WatcherState,
        AllWatchers
<1>1. ASSUME NEW n \in Nonces, NEW i \in Rows, Publish(n, i)
      PROVE  EntryHasWatcher'
  BY <1>1 DEF Publish
<1>2. ASSUME NEW n \in Nonces, Land(n) \/ RequestMoves(n)
      PROVE  EntryHasWatcher'
  BY <1>2 DEF Land, RequestMoves
<1>3. CASE CheckTick
  BY <1>3 DEF CheckTick
<1>4. ASSUME NEW i \in Rows, StillWatching(i)
      PROVE  EntryHasWatcher'
  BY <1>4 DEF StillWatching
<1>5. ASSUME NEW i \in Rows, NEW w \in Watchers, StartWatch(i, w)
      PROVE  EntryHasWatcher'
  BY <1>5 DEF StartWatch, Started
<1>6. ASSUME NEW w \in AllWatchers, WatchRead(w)
      PROVE  EntryHasWatcher'
  BY <1>6 DEF WatchRead, WatcherAt, WatcherGone, IdleWatcher
<1>7. ASSUME NEW w \in AllWatchers, WatchHas(w)
      PROVE  EntryHasWatcher'
  BY <1>7 DEF WatchHas, WatcherAt, WatcherGone, IdleWatcher
<1>8. ASSUME NEW w \in AllWatchers, WatchSet(w)
      PROVE  EntryHasWatcher'
  BY <1>8 DEF WatchSet, WatcherAt
<1>9. ASSUME NEW w \in AllWatchers, WatchReceipt(w)
      PROVE  EntryHasWatcher'
  BY <1>9 DEF WatchReceipt, WatcherAt
<1>10. ASSUME NEW w \in AllWatchers, WatchCancelled(w)
      PROVE  EntryHasWatcher'
  BY <1>10 DEF WatchCancelled, WatcherAt
<1>11. ASSUME NEW w \in AllWatchers, WatchFails(w)
      PROVE  EntryHasWatcher'
  BY <1>11 DEF WatchFails, WatcherAt, Fault
<1>12. ASSUME NEW w \in AllWatchers, WatchSave(w)
      PROVE  EntryHasWatcher'
  BY <1>12 DEF WatchSave, WatcherAt
<1>13. ASSUME NEW w \in AllWatchers, WatchSaveFails(w)
      PROVE  EntryHasWatcher'
  BY <1>13 DEF WatchSaveFails, WatcherAt, Fault
<1>14. ASSUME NEW w \in AllWatchers, WatchExit(w)
      PROVE  EntryHasWatcher'
  BY <1>14 DEF WatchExit, WatcherGone, Unwatched, IdleWatcher
<1>15. CASE SpeedupRequest
  BY <1>15 DEF SpeedupRequest
<1>16. ASSUME NEW p \in Speedups, NEW i \in Rows, SpeedupWorker(p, i)
      PROVE  EntryHasWatcher'
  BY <1>16 DEF SpeedupWorker
<1>17. CASE PendingScan
  BY <1>17 DEF PendingScan
<1>18. ASSUME NEW i \in Rows, PendingReplace(i)
      PROVE  EntryHasWatcher'
  BY <1>18 DEF PendingReplace
<1>19. ASSUME NEW p \in Replacers, ReplaceFind(p)
      PROVE  EntryHasWatcher'
  BY <1>19 DEF ReplaceFind
<1>20. ASSUME NEW p \in Replacers, ReplaceGivesUp(p)
      PROVE  EntryHasWatcher'
  BY <1>20 DEF ReplaceGivesUp
<1>21. ASSUME NEW p \in Replacers, TxDelete(p)
      PROVE  EntryHasWatcher'
  BY <1>21 DEF TxDelete
<1>22. ASSUME NEW p \in Replacers, TxPush(p)
      PROVE  EntryHasWatcher'
  BY <1>22 DEF TxPush, Cancelled
<1>23. ASSUME NEW p \in Replacers, TxRefused(p)
      PROVE  EntryHasWatcher'
  BY <1>23 DEF TxRefused
<1>24. ASSUME NEW p \in Replacers, NEW new \in Rows, TxCommit(p, new)
      PROVE  EntryHasWatcher'
  BY <1>24 DEF TxCommit
<1>25. ASSUME NEW p \in Replacers, CommitFails(p)
      PROVE  EntryHasWatcher'
  BY <1>25 DEF CommitFails
<1>26. ASSUME NEW p \in Replacers, FollowLost(p)
      PROVE  EntryHasWatcher'
  BY <1>26 DEF FollowLost
<1>27. ASSUME NEW p \in Replacers, FollowWatcher(p)
      PROVE  EntryHasWatcher'
  BY <1>27 DEF FollowWatcher
<1>28. ASSUME NEW p \in Replacers, FollowItself(p)
      PROVE  EntryHasWatcher'
  <2>1. p \in AllWatchers /\ watcher[p].pc = "idle"
    BY <1>28 DEF FollowItself, ReplacersSound, WatchersSound
  <2>2. \A i \in Rows : watching[i] # p
    BY <2>1, TrackingAssumption
  <2> QED BY <1>28, <2>1, <2>2 DEF FollowItself, Started
<1>29. ASSUME NEW p \in Replacers, FollowDone(p)
      PROVE  EntryHasWatcher'
  BY <1>29 DEF FollowDone
<1>30. CASE CrashRestart
  BY <1>30 DEF CrashRestart
<1>31. CASE UNCHANGED vars
  BY <1>31 DEF vars
<1> QED
  BY <1>1, <1>2, <1>3, <1>4, <1>5, <1>6, <1>7, <1>8, <1>9, <1>10, <1>11,
     <1>12, <1>13, <1>14, <1>15, <1>16, <1>17, <1>18, <1>19, <1>20, <1>21,
     <1>22, <1>23, <1>24, <1>25, <1>26, <1>27, <1>28, <1>29, <1>30, <1>31
  DEF Next, WatcherStep, ReplacerStep

\* Only four actions write the table.
LEMMA RowSteps ==
  ASSUME [Next]_vars
  PROVE  \/ row' = row
         \/ \E n \in Nonces, i \in Rows : Publish(n, i)
         \/ \E w \in AllWatchers : WatchSave(w)
         \/ \E p \in Replacers, new \in Rows : TxCommit(p, new)
BY DEF Next, vars, Land, RequestMoves, CheckTick, StillWatching, StartWatch, WatcherStep,
       WatchRead, WatchHas, WatchSet, WatchReceipt, WatchCancelled, WatchFails,
       WatchSaveFails, WatchExit, SpeedupRequest, SpeedupWorker, PendingScan,
       PendingReplace, ReplacerStep, ReplaceFind, ReplaceGivesUp, TxDelete,
       TxPush, TxRefused, CommitFails, FollowLost, FollowWatcher, FollowItself,
       FollowDone, CrashRestart

\* What those actions leave of the rows that are in use.
LEMMA RowsStay ==
  ASSUME TrackingTypeOK, ReplacersSound, WatchersSound, [Next]_vars,
         NEW i \in Rows, row[i].state # "free"
  PROVE  /\ row'[i].state # "free"
         /\ row'[i].nonce = row[i].nonce
         /\ row'[i].onChain # row[i].onChain =>
              \E w \in AllWatchers : WatchSave(w) /\ watcher[w].id = i
<1>1. ASSUME NEW n \in Nonces, NEW j \in Rows, Publish(n, j)
      PROVE  row'[i] = row[i]
  BY <1>1 DEF Publish, TrackingTypeOK
<1>2. ASSUME NEW w \in AllWatchers, WatchSave(w)
      PROVE  /\ row'[i].state # "free" /\ row'[i].nonce = row[i].nonce
             /\ watcher[w].id # i => row'[i] = row[i]
  BY <1>2 DEF WatchSave, SavedRow, WatchersSound, TrackingTypeOK
<1>3. ASSUME NEW p \in Replacers, NEW new \in Rows, TxCommit(p, new)
      PROVE  /\ row'[i].state # "free" /\ row'[i].nonce = row[i].nonce
             /\ row'[i].onChain = row[i].onChain
  <2>1. /\ replacer[p].pc = "commit" /\ row[new].state = "free"
        /\ row' = CommittedRows(p, new)
    BY <1>3 DEF TxCommit
  <2>2. i # new
    BY <2>1
  <2> QED BY <2>1, <2>2, Committed
<1> QED BY RowSteps, <1>1, <1>2, <1>3

\* A nonce that has a live row keeps one: the transaction that deletes a row
\* inserts another with its nonce.
LEMMA NonceStep ==
  ASSUME TrackingTypeOK, NonceKeepsARow, ReplacersSound, WatchersSound,
         [Next]_vars
  PROVE  NonceKeepsARow'
<1> USE DEF NonceKeepsARow, LiveRows, Live
<1>1. CASE row' = row
  BY <1>1
<1>2. ASSUME NEW n \in Nonces, NEW i \in Rows, Publish(n, i)
      PROVE  NonceKeepsARow'
  BY <1>2 DEF Publish, TrackingTypeOK
<1>3. ASSUME NEW w \in AllWatchers, WatchSave(w)
      PROVE  NonceKeepsARow'
  <2>1. watcher[w].id \in Rows
    BY <1>3 DEF WatchSave, WatchersSound
  <2> QED BY <1>3, <2>1 DEF WatchSave, SavedRow, TrackingTypeOK
<1>4. ASSUME NEW p \in Replacers, NEW new \in Rows, TxCommit(p, new)
      PROVE  NonceKeepsARow'
  <2>0. /\ replacer[p].pc = "commit" /\ row[new].state = "free"
        /\ row' = CommittedRows(p, new)
    BY <1>4 DEF TxCommit
  <2> DEFINE old == replacer[p].id
  <2>1. /\ old \in Rows /\ old # new
        /\ row'[new].state = "live" /\ row'[new].nonce = row[old].nonce
        /\ row'[old].nonce = row[old].nonce
        /\ \A j \in Rows : j # new /\ j # old => row'[j] = row[j]
    <3> HIDE DEF NonceKeepsARow, LiveRows, Live
    <3> QED BY <2>0, Committed
  <2>2. row[new].state = "free"
    BY <2>0
  <2> HIDE DEF old
  <2> SUFFICES ASSUME NEW n \in Nonces, NEW i \in Rows, row'[i].nonce = n
               PROVE  \E j \in Rows : row'[j].state = "live" /\ row'[j].nonce = n
    OBVIOUS
  <2>3. CASE row[old].nonce = n
    BY <2>1, <2>3
  <2>4. CASE row[old].nonce # n
    <3>1. row[i].nonce = n /\ i # new
      BY <2>1, <2>2, <2>4
    <3>2. PICK j \in Rows : row[j].state = "live" /\ row[j].nonce = n
      BY <3>1
    <3> QED BY <2>1, <2>2, <2>4, <3>2
  <2> QED BY <2>3, <2>4
<1> QED BY RowSteps, <1>1, <1>2, <1>3, <1>4

\* What a step makes of a call of replaceMessage.
LEMMA CallSteps ==
  ASSUME TrackingTypeOK, [Next]_vars, NEW p \in Replacers
  PROVE  \/ replacer'[p] = replacer[p]
         \/ replacer'[p].pc = "idle"
         \/ /\ replacer'[p].pc = "find" /\ row' = row
            /\ replacer'[p].id \in Rows /\ Live(replacer'[p].id)
         \/ /\ replacer'[p].pc = "delete" /\ row' = row
            /\ replacer[p].pc = "find" /\ replacer'[p].id = replacer[p].id
         \/ /\ replacer'[p].pc = "push" /\ row' = row
            /\ replacer[p].pc = "delete" /\ replacer'[p].id = replacer[p].id
            /\ replacer'[p].deleted = Live(replacer[p].id)
            /\ ~Locked(replacer[p].id)
            /\ \A q \in Replacers \ {p} : replacer'[q] = replacer[q]
         \/ /\ replacer'[p].pc = "commit" /\ row' = row
            /\ replacer[p].pc = "push" /\ replacer'[p].id = replacer[p].id
            /\ replacer'[p].deleted = replacer[p].deleted
            /\ row[replacer[p].id].nonce \notin landed
         \/ /\ replacer'[p].pc = "after" /\ p \in Speedups
            /\ \E new \in Rows : /\ replacer'[p].next = new
                                 /\ TxCommit(p, new)
         \/ /\ replacer'[p].pc = "waiting" /\ row' = row
            /\ replacer[p].pc = "after" /\ replacer'[p].next = replacer[p].next
<1> USE DEF TrackingTypeOK, ReplacerState
<1>1. CASE replacer' = replacer
  BY <1>1
<1>2. ASSUME NEW q \in Speedups, NEW i \in Rows, SpeedupWorker(q, i)
      PROVE  \/ replacer'[p] = replacer[p]
             \/ /\ replacer'[p].pc = "find" /\ row' = row
                /\ replacer'[p].id \in Rows /\ Live(replacer'[p].id)
  BY <1>2 DEF SpeedupWorker, Loaded, IdleReplacer, Replacers
<1>3. ASSUME NEW i \in Rows, PendingReplace(i)
      PROVE  \/ replacer'[p] = replacer[p]
             \/ /\ replacer'[p].pc = "find" /\ row' = row
                /\ replacer'[p].id \in Rows /\ Live(replacer'[p].id)
  BY <1>3 DEF PendingReplace, Loaded, IdleReplacer, Replacers
<1>4. ASSUME NEW q \in Replacers, ReplaceFind(q)
      PROVE  \/ replacer'[p] = replacer[p]
             \/ /\ replacer'[p].pc = "delete" /\ row' = row
                /\ replacer[p].pc = "find" /\ replacer'[p].id = replacer[p].id
  BY <1>4 DEF ReplaceFind, ReplacerAt
<1>5. ASSUME NEW q \in Replacers, replacer' = [replacer EXCEPT ![q] = IdleReplacer]
      PROVE  replacer'[p] = replacer[p] \/ replacer'[p].pc = "idle"
  BY <1>5 DEF IdleReplacer
<1>6. ASSUME NEW q \in Replacers, TxDelete(q)
      PROVE  \/ replacer'[p] = replacer[p]
             \/ /\ replacer'[p].pc = "push" /\ row' = row
                /\ replacer[p].pc = "delete" /\ replacer'[p].id = replacer[p].id
                /\ replacer'[p].deleted = Live(replacer[p].id)
                /\ ~Locked(replacer[p].id)
                /\ \A r \in Replacers \ {p} : replacer'[r] = replacer[r]
  BY <1>6 DEF TxDelete
<1>7. ASSUME NEW q \in Replacers, TxPush(q)
      PROVE  \/ replacer'[p] = replacer[p]
             \/ /\ replacer'[p].pc = "commit" /\ row' = row
                /\ replacer[p].pc = "push" /\ replacer'[p].id = replacer[p].id
                /\ replacer'[p].deleted = replacer[p].deleted
                /\ row[replacer[p].id].nonce \notin landed
  BY <1>7 DEF TxPush, ReplacerAt
<1>8. ASSUME NEW q \in Replacers, NEW new \in Rows, TxCommit(q, new)
      PROVE  \/ replacer'[p] = replacer[p]
             \/ replacer'[p].pc = "idle"
             \/ /\ replacer'[p].pc = "after" /\ p \in Speedups /\ p = q
                /\ replacer'[p].next = new
  <2>1. CASE p # q
    BY <1>8, <2>1 DEF TxCommit, ReplacerDone
  <2>2. CASE p = q /\ q \in Speedups
    <3>1. Following(new).pc = "after" /\ Following(new).next = new
      BY DEF Following, IdleReplacer
    <3>2. replacer' = [replacer EXCEPT ![q] = Following(new)]
      BY <1>8, <2>2 DEF TxCommit
    <3> QED BY <2>2, <3>1, <3>2
  <2>3. CASE p = q /\ q \notin Speedups
    BY <1>8, <2>3 DEF TxCommit, ReplacerDone, IdleReplacer
  <2> QED BY <2>1, <2>2, <2>3
<1>9. ASSUME NEW q \in Replacers, FollowWatcher(q) \/ FollowItself(q)
      PROVE  \/ replacer'[p] = replacer[p]
             \/ /\ replacer'[p].pc = "waiting" /\ row' = row
                /\ replacer[p].pc = "after" /\ replacer'[p].next = replacer[p].next
  BY <1>9 DEF FollowWatcher, FollowItself
<1>10. CASE CrashRestart
  BY <1>10 DEF CrashRestart, IdleReplacer
<1>11. \/ replacer' = replacer
       \/ \E q \in Speedups, i \in Rows : SpeedupWorker(q, i)
       \/ \E i \in Rows : PendingReplace(i)
       \/ \E q \in Replacers : ReplaceFind(q)
       \/ \E q \in Replacers : replacer' = [replacer EXCEPT ![q] = IdleReplacer]
       \/ \E q \in Replacers : TxDelete(q)
       \/ \E q \in Replacers : TxPush(q)
       \/ \E q \in Replacers, new \in Rows : TxCommit(q, new)
       \/ \E q \in Replacers : FollowWatcher(q) \/ FollowItself(q)
       \/ CrashRestart
  BY DEF Next, vars, replaceVars, Publish, Land, RequestMoves, CheckTick, StillWatching,
         StartWatch, WatcherStep, WatchRead, WatchHas, WatchSet, WatchReceipt,
         WatchCancelled, WatchFails, WatchSave, WatchSaveFails, WatchExit,
         SpeedupRequest, PendingScan, ReplacerStep, ReplaceGivesUp, TxRefused,
         CommitFails, FollowLost, FollowDone, ReplacerDone
<1> QED
  BY <1>1, <1>2, <1>3, <1>4, <1>5, <1>6, <1>7, <1>8, <1>9, <1>10, <1>11

\* Every step keeps the calls of replaceMessage on published rows.
LEMMA ReplacersStep ==
  ASSUME TrackingTypeOK, ReplacersSound, WatchersSound, RecordedLanded,
         [Next]_vars
  PROVE  ReplacersSound'
<1> SUFFICES ASSUME NEW p \in Replacers
    PROVE  /\ replacer'[p].pc \in {"find", "delete", "push", "commit"} =>
                replacer'[p].id \in Rows /\ row'[replacer'[p].id].state # "free"
           /\ replacer'[p].pc = "commit" /\ replacer'[p].deleted =>
                ~row'[replacer'[p].id].onChain
           /\ replacer'[p].pc \in {"after", "waiting"} =>
                /\ p \in Speedups
                /\ replacer'[p].next \in Rows
                /\ row'[replacer'[p].next].state # "free"
  BY DEF ReplacersSound
<1>1. CASE replacer'[p] = replacer[p]
  <2>1. ASSUME replacer[p].pc = "commit", replacer[p].deleted
        PROVE  row'[replacer[p].id].onChain = row[replacer[p].id].onChain
    <3> DEFINE i == replacer[p].id
    <3>1. i \in Rows /\ row[i].state # "free"
      BY <2>1 DEF ReplacersSound
    <3>2. Locked(i)
      BY <2>1 DEF Locked
    <3>3. \A w \in AllWatchers : WatchSave(w) => watcher[w].id # i
      BY <3>2 DEF WatchSave
    <3> HIDE DEF i
    <3>4. row'[i].onChain = row[i].onChain
      BY <3>1, <3>3, RowsStay
    <3> QED BY <3>4 DEF i
  <2> QED BY <1>1, <2>1, RowsStay DEF ReplacersSound
<1>2. CASE replacer'[p].pc = "idle"
  BY <1>2
<1>3. CASE /\ replacer'[p].pc = "find" /\ row' = row
           /\ replacer'[p].id \in Rows /\ Live(replacer'[p].id)
  BY <1>3 DEF Live
<1>4. CASE /\ replacer'[p].pc \in {"delete", "push"} /\ row' = row
           /\ replacer[p].pc \in {"find", "delete"}
           /\ replacer'[p].id = replacer[p].id
  BY <1>4 DEF ReplacersSound
<1>5. CASE /\ replacer'[p].pc = "commit" /\ row' = row
           /\ replacer[p].pc = "push" /\ replacer'[p].id = replacer[p].id
           /\ row[replacer[p].id].nonce \notin landed
  BY <1>5 DEF ReplacersSound, RecordedLanded
<1>6. ASSUME NEW new \in Rows, replacer'[p].pc = "after", p \in Speedups,
             replacer'[p].next = new, TxCommit(p, new)
      PROVE  row'[new].state # "free"
  <2>1. /\ replacer[p].pc = "commit" /\ row[new].state = "free"
        /\ row' = CommittedRows(p, new)
    BY <1>6 DEF TxCommit
  <2> QED BY <2>1, Committed
<1>7. CASE /\ replacer'[p].pc = "waiting" /\ row' = row
           /\ replacer[p].pc = "after" /\ replacer'[p].next = replacer[p].next
  BY <1>7 DEF ReplacersSound
<1> QED BY CallSteps, <1>1, <1>2, <1>3, <1>4, <1>5, <1>6, <1>7

\* Two transactions never delete the same row: the second waits for the lock.
LEMMA DeleterStep ==
  ASSUME TrackingTypeOK, OneDeleter, [Next]_vars
  PROVE  OneDeleter'
<1> DEFINE Deletes(s) == s.pc \in {"push", "commit"} /\ s.deleted
<1> SUFFICES ASSUME NEW p \in Replacers, NEW q \in Replacers, p # q,
                    Deletes(replacer'[p]), Deletes(replacer'[q]),
                    replacer'[p].id = replacer'[q].id
             PROVE  FALSE
  BY DEF OneDeleter
<1>1. ASSUME NEW r \in Replacers, Deletes(replacer'[r])
      PROVE  \/ Deletes(replacer[r]) /\ replacer'[r].id = replacer[r].id
             \/ /\ replacer[r].pc = "delete" /\ replacer'[r].id = replacer[r].id
                /\ ~Locked(replacer[r].id)
                /\ \A s \in Replacers \ {r} : replacer'[s] = replacer[s]
  BY <1>1, CallSteps
<1>2. CASE Deletes(replacer[p]) /\ Deletes(replacer[q])
  BY <1>1, <1>2 DEF OneDeleter
<1>3. CASE ~Deletes(replacer[p])
  <2>1. ~Locked(replacer'[p].id) /\ replacer'[q] = replacer[q]
    BY <1>1, <1>3
  <2> QED BY <2>1 DEF Locked
<1>4. CASE ~Deletes(replacer[q])
  <2>1. ~Locked(replacer'[q].id) /\ replacer'[p] = replacer[p]
    BY <1>1, <1>4
  <2> QED BY <2>1 DEF Locked
<1> QED BY <1>2, <1>3, <1>4

\* A row that a transaction deleted is live until that transaction ends.
LEMMA DeletedStep ==
  ASSUME TrackingTypeOK, ReplacersSound, OneDeleter, DeletedIsLive, [Next]_vars
  PROVE  DeletedIsLive'
<1> DEFINE Deletes(s) == s.pc \in {"push", "commit"} /\ s.deleted
<1> SUFFICES ASSUME NEW p \in Replacers, Deletes(replacer'[p])
             PROVE  row'[replacer'[p].id].state = "live"
  BY DEF DeletedIsLive, Live
<1>1. \/ Deletes(replacer[p]) /\ replacer'[p].id = replacer[p].id
      \/ /\ row' = row /\ replacer'[p].id = replacer[p].id
         /\ replacer'[p].deleted = Live(replacer[p].id)
  BY CallSteps
<1>2. CASE /\ row' = row /\ replacer'[p].id = replacer[p].id
           /\ replacer'[p].deleted = Live(replacer[p].id)
  BY <1>2 DEF Live
<1>3. CASE Deletes(replacer[p]) /\ replacer'[p].id = replacer[p].id
  <2> DEFINE i == replacer[p].id
  <2>1. i \in Rows /\ row[i].state = "live"
    BY <1>3 DEF ReplacersSound, DeletedIsLive, Live
  <2>2. ASSUME NEW n \in Nonces, NEW j \in Rows, Publish(n, j)
        PROVE  row'[i] = row[i]
    BY <2>1, <2>2 DEF Publish, TrackingTypeOK
  <2>3. ASSUME NEW w \in AllWatchers, WatchSave(w)
        PROVE  row'[i].state = "live"
    BY <2>1, <2>3 DEF WatchSave, SavedRow, TrackingTypeOK
  <2>4. ASSUME NEW q \in Replacers, NEW new \in Rows, TxCommit(q, new)
        PROVE  row'[i].state = "live"
    <3>1. /\ replacer[q].pc = "commit" /\ row[new].state = "free"
          /\ row' = CommittedRows(q, new)
      BY <2>4 DEF TxCommit
    <3>2. i # new
      BY <2>1, <3>1
    <3>3. CASE replacer[q].id # i
      BY <2>1, <3>1, <3>2, <3>3, Committed
    <3>4. CASE replacer[q].id = i /\ ~replacer[q].deleted
      BY <2>1, <3>1, <3>4, Committed
    <3>5. ~(replacer[q].id = i /\ replacer[q].deleted)
      <4> SUFFICES ASSUME replacer[q].id = i, replacer[q].deleted PROVE FALSE
        OBVIOUS
      <4>1. p = q
        BY <1>3, <3>1 DEF OneDeleter
      <4>2. replacer'[p].pc \in {"idle", "after"}
        <5>1. Following(new).pc = "after" /\ IdleReplacer.pc = "idle"
          BY DEF Following, IdleReplacer
        <5>2. \/ replacer' = [replacer EXCEPT ![q] = Following(new)]
              \/ replacer' = [replacer EXCEPT ![q] = IdleReplacer]
          BY <2>4 DEF TxCommit, ReplacerDone
        <5> QED BY <4>1, <5>1, <5>2 DEF TrackingTypeOK
      <4> QED BY <4>2
    <3> QED BY <3>3, <3>4, <3>5
  <2>5. row'[i].state = "live"
    BY RowSteps, <2>1, <2>2, <2>3, <2>4
  <2> QED BY <1>3, <2>5
<1> QED BY <1>1, <1>2, <1>3

\* What landed stays landed.
LEMMA LandedGrows ==
  ASSUME [Next]_vars
  PROVE  landed \subseteq landed'
BY DEF Next, vars, Publish, Land, RequestMoves, CheckTick, StillWatching, StartWatch,
       WatcherStep, WatchRead, WatchHas, WatchSet, WatchReceipt,
       WatchCancelled, WatchFails, WatchSave, WatchSaveFails, WatchExit,
       SpeedupRequest, SpeedupWorker, PendingScan, PendingReplace,
       ReplacerStep, ReplaceFind, ReplaceGivesUp, TxDelete, TxPush, TxRefused,
       TxCommit, CommitFails, FollowLost, FollowWatcher, FollowItself,
       FollowDone, CrashRestart

\* What is recorded as on chain has landed.
LEMMA RecordedStep ==
  ASSUME TrackingTypeOK, ReplacersSound, WatchersSound, RecordedLanded,
         [Next]_vars
  PROVE  RecordedLanded'
<1>1. landed \subseteq landed'
  BY LandedGrows
<1>2. CASE row' = row
  BY <1>1, <1>2 DEF RecordedLanded
<1>3. ASSUME NEW n \in Nonces, NEW i \in Rows, Publish(n, i)
      PROVE  RecordedLanded'
  BY <1>1, <1>3 DEF Publish, RecordedLanded, TrackingTypeOK
<1>4. ASSUME NEW w \in AllWatchers, WatchSave(w)
      PROVE  RecordedLanded'
  <2>1. watcher[w].id \in Rows /\ row[watcher[w].id].nonce \in landed
    BY <1>4 DEF WatchSave, WatchersSound
  <2> QED BY <1>1, <1>4, <2>1 DEF WatchSave, SavedRow, RecordedLanded,
                                  TrackingTypeOK
<1>5. ASSUME NEW p \in Replacers, NEW new \in Rows, TxCommit(p, new)
      PROVE  RecordedLanded'
  <2>1. /\ replacer[p].pc = "commit" /\ row[new].state = "free"
        /\ row' = CommittedRows(p, new)
    BY <1>5 DEF TxCommit
  <2>2. ASSUME NEW i \in Rows, row'[i].onChain
        PROVE  row[i].onChain /\ row'[i].nonce = row[i].nonce
    BY <2>1, <2>2, Committed
  <2> QED BY <1>1, <2>2 DEF RecordedLanded
<1> QED BY RowSteps, <1>2, <1>3, <1>4, <1>5

\* A call that waits goes on waiting until it sees what it waits for.
LEMMA WaitSteps ==
  ASSUME TrackingTypeOK, [Next]_vars, NEW p \in Replacers,
         replacer[p].pc = "waiting"
  PROVE  replacer'[p] = replacer[p] \/ FollowDone(p) \/ CrashRestart
<1> USE DEF TrackingTypeOK
<1>1. CASE replacer' = replacer
  BY <1>1
<1>2. ASSUME NEW q \in Replacers, ReplacerStep(q)
      PROVE  replacer'[p] = replacer[p] \/ FollowDone(p)
  BY <1>2 DEF ReplacerStep, ReplaceFind, ReplaceGivesUp, TxDelete, TxPush,
              TxRefused, TxCommit, CommitFails, FollowLost, FollowWatcher,
              FollowItself, FollowDone, ReplacerDone, ReplacerAt
<1>3. ASSUME NEW q \in Speedups, NEW i \in Rows, SpeedupWorker(q, i)
      PROVE  replacer'[p] = replacer[p]
  BY <1>3 DEF SpeedupWorker, Loaded
<1>4. ASSUME NEW i \in Rows, PendingReplace(i)
      PROVE  replacer'[p] = replacer[p]
  BY <1>4 DEF PendingReplace, Loaded
<1> QED
  BY <1>1, <1>2, <1>3, <1>4
  DEF Next, vars, replaceVars, Publish, Land, RequestMoves, CheckTick, StillWatching,
      StartWatch, WatcherStep, WatchRead, WatchHas, WatchSet, WatchReceipt,
      WatchCancelled, WatchFails, WatchSave, WatchSaveFails, WatchExit,
      SpeedupRequest, PendingScan

\* What a step makes of a watchMessage goroutine.
LEMMA GoroutineSteps ==
  ASSUME TrackingTypeOK, ReplacersSound, ListsSound, [Next]_vars,
         NEW w \in AllWatchers
  PROVE  \/ watcher'[w].pc = watcher[w].pc /\ watcher'[w].id = watcher[w].id
         \/ watcher'[w].pc = "idle"
         \/ /\ watcher'[w].pc = "read" /\ row' = row
            /\ watcher'[w].id \in Rows /\ row[watcher'[w].id].state # "free"
            /\ w \in Speedups =>
                 replacer'[w].pc = "waiting" /\ replacer'[w].waits = w
         \/ /\ watcher[w].pc # "idle" /\ watcher'[w].id = watcher[w].id
            /\ \/ watcher'[w].pc # "save"
               \/ row' = row /\ row[watcher[w].id].nonce \in landed
<1> USE DEF TrackingTypeOK, WatcherState
<1>1. CASE watcher' = watcher
  BY <1>1
<1>2. ASSUME NEW i \in Rows, NEW v \in Watchers, StartWatch(i, v)
      PROVE  \/ watcher'[w] = watcher[w]
             \/ /\ watcher'[w].pc = "read" /\ row' = row
                /\ watcher'[w].id \in Rows /\ row[watcher'[w].id].state # "free"
                /\ w \notin Speedups
  BY <1>2, TrackingAssumption DEF StartWatch, Started, ListsSound
<1>3. ASSUME NEW v \in AllWatchers, WatcherStep(v)
      PROVE  \/ watcher'[w] = watcher[w]
             \/ watcher'[w].pc = "idle"
             \/ /\ watcher[w].pc # "idle" /\ watcher'[w].id = watcher[w].id
                /\ \/ watcher'[w].pc # "save"
                   \/ row' = row /\ row[watcher[w].id].nonce \in landed
  <2>1. CASE WatchRead(v) \/ WatchHas(v) \/ WatchExit(v)
    BY <2>1 DEF WatchRead, WatchHas, WatchExit, WatcherAt, WatcherGone,
                IdleWatcher
  <2>2. CASE WatchReceipt(v)
    BY <2>2 DEF WatchReceipt, WatcherAt
  <2>3. CASE WatchSet(v) \/ WatchCancelled(v) \/ WatchFails(v)
    BY <2>3 DEF WatchSet, WatchCancelled, WatchFails, WatcherAt
  <2>4. CASE WatchSave(v) \/ WatchSaveFails(v)
    BY <2>4 DEF WatchSave, WatchSaveFails, WatcherAt
  <2> QED BY <1>3, <2>1, <2>2, <2>3, <2>4 DEF WatcherStep
<1>4. ASSUME NEW p \in Replacers, TxPush(p)
      PROVE  watcher'[w].pc = watcher[w].pc /\ watcher'[w].id = watcher[w].id
  BY <1>4 DEF TxPush, Cancelled
<1>5. ASSUME NEW p \in Replacers, FollowItself(p)
      PROVE  \/ watcher'[w] = watcher[w]
             \/ /\ watcher'[w].pc = "read" /\ row' = row
                /\ watcher'[w].id \in Rows /\ row[watcher'[w].id].state # "free"
                /\ replacer'[w].pc = "waiting" /\ replacer'[w].waits = w
  <2>1. replacer[p].next \in Rows
    BY <1>5 DEF FollowItself, ReplacersSound
  <2>2. CASE w # p
    BY <1>5, <2>2 DEF FollowItself, Started
  <2>3. CASE w = p
    <3>1. replacer'[w].pc = "waiting" /\ replacer'[w].waits = w
      BY <1>5, <2>3 DEF FollowItself, ReplacerState
    <3>2. watcher'[w] = [pc |-> "read", id |-> replacer[p].next,
                         cancelled |-> FALSE]
      BY <1>5, <2>3 DEF FollowItself, Started
    <3> QED BY <1>5, <2>1, <3>1, <3>2 DEF FollowItself, Live
  <2> QED BY <2>2, <2>3
<1>6. CASE CrashRestart
  BY <1>6 DEF CrashRestart, IdleWatcher
<1>7. \/ watcher' = watcher
      \/ \E i \in Rows, v \in Watchers : StartWatch(i, v)
      \/ \E v \in AllWatchers : WatcherStep(v)
      \/ \E p \in Replacers : TxPush(p) \/ FollowItself(p)
      \/ CrashRestart
  BY DEF Next, vars, watchVars, Publish, Land, RequestMoves, CheckTick, StillWatching,
         SpeedupRequest, SpeedupWorker, PendingScan, PendingReplace,
         ReplacerStep, ReplaceFind, ReplaceGivesUp, TxDelete, TxRefused,
         TxCommit, CommitFails, FollowLost, FollowWatcher, FollowDone
<1> QED BY <1>1, <1>2, <1>3, <1>4, <1>5, <1>6, <1>7

\* Every step keeps the watchers on published rows, and the ones that are about
\* to record a receipt on rows that landed.
LEMMA WatchersStep ==
  ASSUME TrackingTypeOK, ReplacersSound, WatchersSound, ListsSound, [Next]_vars
  PROVE  WatchersSound'
<1>1. ASSUME NEW w \in AllWatchers, watcher'[w].pc # "idle"
      PROVE  /\ watcher'[w].id \in Rows
             /\ row'[watcher'[w].id].state # "free"
             /\ watcher'[w].pc = "save" => row'[watcher'[w].id].nonce \in landed'
  <2>1. CASE watcher'[w].pc = watcher[w].pc /\ watcher'[w].id = watcher[w].id
    BY <1>1, <2>1, RowsStay, LandedGrows DEF WatchersSound
  <2>2. CASE /\ watcher'[w].pc = "read" /\ row' = row
             /\ watcher'[w].id \in Rows /\ row[watcher'[w].id].state # "free"
    BY <2>2
  <2>3. CASE /\ watcher[w].pc # "idle" /\ watcher'[w].id = watcher[w].id
             /\ \/ watcher'[w].pc # "save"
                \/ row' = row /\ row[watcher[w].id].nonce \in landed
    BY <2>3, RowsStay, LandedGrows DEF WatchersSound
  <2> QED BY <1>1, <2>1, <2>2, <2>3, GoroutineSteps
<1>2. ASSUME NEW p \in Speedups, watcher'[p].pc # "idle"
      PROVE  replacer'[p].pc = "waiting" /\ replacer'[p].waits = p
  <2>1. p \in AllWatchers /\ p \in Replacers
    BY DEF AllWatchers, Replacers
  <2>2. CASE watcher[p].pc = "idle"
    BY <1>2, <2>1, <2>2, GoroutineSteps
  <2>3. CASE watcher[p].pc # "idle"
    <3>1. replacer[p].pc = "waiting" /\ replacer[p].waits = p
      BY <2>3 DEF WatchersSound
    <3>2. ~FollowDone(p)
      BY <2>3, <3>1 DEF FollowDone
    <3>3. ~CrashRestart
      BY <1>2, <2>1 DEF CrashRestart, IdleWatcher
    <3> QED BY <2>1, <3>1, <3>2, <3>3, WaitSteps
  <2> QED BY <2>2, <2>3
<1> QED BY <1>1, <1>2 DEF WatchersSound

\* Every step keeps the ids still to be handled on published rows.
LEMMA ListsStep ==
  ASSUME TrackingTypeOK, EntryHasWatcher, ReplacersSound, WatchersSound,
         ListsSound, [Next]_vars
  PROVE  ListsSound'
<1> DEFINE Lists == toWatch \cup toSpeedup \cup overdue
<1>1. ASSUME NEW i \in Rows, watching[i] # NoWatcher
      PROVE  row[i].state # "free"
  <2>1. watching[i] \in AllWatchers
    BY <1>1 DEF TrackingTypeOK
  <2> QED BY <1>1, <2>1 DEF EntryHasWatcher, WatchersSound
<1>2. CASE CheckTick \/ SpeedupRequest \/ PendingScan
  BY <1>1, <1>2 DEF CheckTick, SpeedupRequest, PendingScan, ListsSound, Live,
                    watchVars, replaceVars
<1>3. CASE Lists' \subseteq Lists
  BY <1>3, RowsStay DEF ListsSound, TrackingTypeOK
<1>4. Lists' \subseteq Lists \/ CheckTick \/ SpeedupRequest \/ PendingScan
  BY DEF Next, vars, watchVars, replaceVars, Publish, Land, RequestMoves, StillWatching,
         StartWatch, WatcherStep, WatchRead, WatchHas, WatchSet, WatchReceipt,
         WatchCancelled, WatchFails, WatchSave, WatchSaveFails, WatchExit,
         SpeedupWorker, PendingReplace, ReplacerStep, ReplaceFind,
         ReplaceGivesUp, TxDelete, TxPush, TxRefused, TxCommit, CommitFails,
         FollowLost, FollowWatcher, FollowItself, FollowDone, CrashRestart
<1> QED BY <1>2, <1>3, <1>4

\* The initial state satisfies the invariant.
LEMMA InitInv == Init => TrackingInv
<1> SUFFICES ASSUME Init PROVE TrackingInv
  OBVIOUS
<1> USE InitialTypes DEF Init
<1>1. TrackingTypeOK
  BY TrackingAssumption DEF TrackingTypeOK, FreeRow
<1>2. NonceKeepsARow
  BY TrackingAssumption DEF NonceKeepsARow, FreeRow
<1>3. EntryHasWatcher
  BY DEF EntryHasWatcher
<1>4. ReplacersSound /\ OneDeleter
  BY DEF ReplacersSound, OneDeleter, IdleReplacer
<1>5. DeletedIsLive
  BY DEF DeletedIsLive, IdleReplacer
<1>6. WatchersSound
  BY DEF WatchersSound, IdleWatcher, AllWatchers
<1>7. ListsSound /\ RecordedLanded
  BY DEF ListsSound, RecordedLanded, FreeRow
<1> QED BY <1>1, <1>2, <1>3, <1>4, <1>5, <1>6, <1>7 DEF TrackingInv

\* The inductive invariant holds in every state of every run.
THEOREM Tracking == Spec => []TrackingInv
<1>1. TrackingInv /\ [Next]_vars => TrackingInv'
  BY TypeStep, EntryStep, NonceStep, ReplacersStep, WatchersStep, ListsStep,
     RecordedStep, DeleterStep, DeletedStep
  DEF TrackingInv
<1> QED BY InitInv, <1>1, PTL DEF Spec

\* Every variable of the tracking always holds a value of its kind.
THEOREM TrackingTypes == Spec => []TrackingTypeOK
<1>1. TrackingInv => TrackingTypeOK
  BY DEF TrackingInv
<1> QED BY Tracking, <1>1, PTL

\* The transaction of replaceMessage never drops a published nonce from its
\* request, whatever runs beside it and wherever it fails.
THEOREM NoNonceIsDropped == Spec => []NonceKeepsARow
<1>1. TrackingInv => NonceKeepsARow
  BY DEF TrackingInv
<1> QED BY Tracking, <1>1, PTL

\* An entry of watchingMessages always has a watchMessage that will remove it,
\* although two watchers of a row can overwrite each other's entry.
THEOREM NoOrphanEntry == Spec => []EntryHasWatcher
<1>1. TrackingInv => EntryHasWatcher
  BY DEF TrackingInv
<1> QED BY Tracking, <1>1, PTL

\* A receipt that watchMessage recorded is not lost to a replacement.
THEOREM ReceiptsOutliveReplacements == Spec => RecordedIsPermanent
<1> DEFINE Kept == \A i \in Rows : Live(i) /\ row[i].onChain =>
                     row'[i].state = "live" /\ row'[i].onChain
<1>1. TrackingInv /\ [Next]_vars => Kept
  <2> SUFFICES ASSUME TrackingInv, [Next]_vars, NEW i \in Rows,
                      row[i].state = "live", row[i].onChain
               PROVE  row'[i].state = "live" /\ row'[i].onChain
    BY DEF Live
  <2> USE DEF TrackingInv
  <2>1. CASE row' = row
    BY <2>1
  <2>2. ASSUME NEW n \in Nonces, NEW j \in Rows, Publish(n, j)
        PROVE  row'[i] = row[i]
    BY <2>2 DEF Publish, TrackingTypeOK
  <2>3. ASSUME NEW w \in AllWatchers, WatchSave(w)
        PROVE  row'[i].state = "live" /\ row'[i].onChain
    BY <2>3 DEF WatchSave, SavedRow, TrackingTypeOK
  <2>4. ASSUME NEW p \in Replacers, NEW new \in Rows, TxCommit(p, new)
        PROVE  row'[i].state = "live" /\ row'[i].onChain
    <3>1. /\ replacer[p].pc = "commit" /\ row[new].state = "free"
          /\ row' = CommittedRows(p, new)
      BY <2>4 DEF TxCommit
    <3>2. i = replacer[p].id => ~replacer[p].deleted
      BY <3>1 DEF ReplacersSound
    <3> HIDE DEF TrackingInv
    <3>3. TrackingTypeOK /\ ReplacersSound
      BY DEF TrackingInv
    <3> QED BY <3>1, <3>2, <3>3, Committed
  <2> QED BY RowSteps, <2>1, <2>2, <2>3, <2>4
<1>2. TrackingInv /\ [Next]_vars => [Kept]_vars
  BY <1>1
<1> QED BY Tracking, <1>2, PTL DEF Spec, RecordedIsPermanent

\* A replacement exchanges a row of its nonce for a new one, and only a watcher
\* that saves a deleted row or a replacement whose DELETE found none makes the
\* sectors of a message count twice (service.go:923, 1068).
THEOREM ReplacedOneForOne == Spec => ExchangedOneForOne
<1> DEFINE Exchanged ==
      \A n \in Nonces :
        \/ LiveRows(n)' = LiveRows(n) \/ OneForOne(n)
        \/ LiveRows(n) = {} /\ \E i \in Rows : LiveRows(n)' = {i}
        \/ \E w \in AllWatchers : WatchSave(w) /\ ~Live(watcher[w].id)
        \/ \E p \in Replacers, new \in Rows : TxCommit(p, new) /\ ~replacer[p].deleted
<1>1. TrackingInv /\ [Next]_vars => Exchanged
  <2> SUFFICES ASSUME TrackingInv, [Next]_vars, NEW n \in Nonces,
                      ~(\E w \in AllWatchers : WatchSave(w) /\ ~Live(watcher[w].id)),
                      ~(\E p \in Replacers, new \in Rows :
                          TxCommit(p, new) /\ ~replacer[p].deleted)
               PROVE  \/ LiveRows(n)' = LiveRows(n) \/ OneForOne(n)
                      \/ LiveRows(n) = {} /\ \E i \in Rows : LiveRows(n)' = {i}
    OBVIOUS
  <2>1. /\ TrackingTypeOK /\ ReplacersSound /\ WatchersSound
        /\ NonceKeepsARow /\ DeletedIsLive
    BY DEF TrackingInv
  <2>2. LiveRows(n)' = {i \in Rows : row'[i].state = "live" /\ row'[i].nonce = n}
    BY DEF LiveRows, Live
  <2>3. LiveRows(n) = {i \in Rows : row[i].state = "live" /\ row[i].nonce = n}
    BY DEF LiveRows, Live
  <2>4. CASE row' = row
    BY <2>2, <2>3, <2>4
  <2>5. ASSUME NEW m \in Nonces, NEW i \in Rows, Publish(m, i)
        PROVE  \/ LiveRows(n)' = LiveRows(n)
               \/ LiveRows(n) = {} /\ LiveRows(n)' = {i}
    <3>1. /\ \A j \in Rows : row[j].nonce # m
          /\ row[i].state = "free"
          /\ \A j \in Rows : j # i => row'[j] = row[j]
          /\ row'[i].state = "live" /\ row'[i].nonce = m
      BY <2>1, <2>5 DEF Publish, TrackingTypeOK
    <3>2. CASE n = m
      BY <2>2, <2>3, <3>1, <3>2
    <3>3. CASE n # m
      BY <2>2, <2>3, <3>1, <3>3
    <3> QED BY <3>2, <3>3
  <2>6. ASSUME NEW w \in AllWatchers, WatchSave(w)
        PROVE  LiveRows(n)' = LiveRows(n)
    <3>1. row[watcher[w].id].state = "live"
      BY <2>6 DEF Live
    <3>2. watcher[w].id \in Rows
      BY <2>1, <2>6 DEF WatchSave, WatchersSound
    <3>3. \A i \in Rows : row'[i].state = row[i].state /\ row'[i].nonce = row[i].nonce
      BY <2>1, <2>6, <3>1, <3>2 DEF WatchSave, SavedRow, TrackingTypeOK
    <3> QED BY <2>2, <2>3, <3>3
  <2>7. ASSUME NEW p \in Replacers, NEW new \in Rows, TxCommit(p, new)
        PROVE  LiveRows(n)' = LiveRows(n) \/ OneForOne(n)
    <3> DEFINE old == replacer[p].id
    <3>1. /\ replacer[p].pc = "commit" /\ row[new].state = "free"
          /\ row' = CommittedRows(p, new) /\ replacer[p].deleted
      BY <2>7 DEF TxCommit
    <3>2. /\ old \in Rows /\ old # new
          /\ row'[new].state = "live" /\ row'[new].nonce = row[old].nonce
          /\ row'[old].state = "deleted"
          /\ \A j \in Rows : j # new /\ j # old => row'[j] = row[j]
      BY <2>1, <3>1, Committed
    <3>3. row[old].state = "live"
      BY <2>1, <3>1 DEF DeletedIsLive, Live
    <3> HIDE DEF old
    <3>4. CASE row[old].nonce = n
      <4>1. old \in LiveRows(n) /\ new \in Rows \ LiveRows(n)
        BY <2>3, <3>1, <3>2, <3>3, <3>4
      <4>2. LiveRows(n)' = (LiveRows(n) \ {old}) \cup {new}
        BY <2>2, <2>3, <3>1, <3>2, <3>4
      <4> QED BY <4>1, <4>2 DEF OneForOne
    <3>5. CASE row[old].nonce # n
      BY <2>2, <2>3, <3>1, <3>2, <3>5
    <3> QED BY <3>4, <3>5
  <2> QED BY RowSteps, <2>4, <2>5, <2>6, <2>7
<1>2. TrackingInv /\ [Next]_vars => [Exchanged]_vars
  BY <1>1
<1> QED BY Tracking, <1>2, PTL DEF Spec, ExchangedOneForOne

\* Every step of the tracking counts a nonce, records one, or is invisible to
\* whoever counts nonces.  NonceKeepsARow makes the counted nonces those that
\* have a row of any state, which a replacement does not change.
LEMMA LifeStep ==
  ASSUME TrackingInv, [Next]_vars
  PROVE  [Life!LifeNext]_(Life!lifeVars)
<1> DEFINE C == {n \in Nonces : LiveRows(n) # {}}
           R == {n \in Nonces : \E i \in LiveRows(n) : row[i].onChain}
<1>1. TrackingTypeOK /\ NonceKeepsARow /\ ReplacersSound /\ WatchersSound
  BY DEF TrackingInv
<1>2. NonceKeepsARow'
  BY <1>1, NonceStep
<1>3. /\ C = {n \in Nonces : \E i \in Rows : row[i].nonce = n}
      /\ C' = {n \in Nonces : \E i \in Rows : row'[i].nonce = n}
  BY <1>1, <1>2 DEF NonceKeepsARow, LiveRows
<1>4. /\ R = {n \in Nonces : \E i \in Rows : /\ row[i].state = "live"
                                             /\ row[i].nonce = n /\ row[i].onChain}
      /\ R' = {n \in Nonces : \E i \in Rows : /\ row'[i].state = "live"
                                              /\ row'[i].nonce = n /\ row'[i].onChain}
  BY DEF LiveRows, Live
<1> HIDE DEF C, R
<1>5. CASE row' = row
  <2>1. C' = C /\ R' = R
    BY <1>3, <1>4, <1>5
  <2> QED BY <2>1 DEF Life!lifeVars, C, R
<1>6. ASSUME NEW n \in Nonces, NEW i \in Rows, Publish(n, i)
      PROVE  Life!LifeNext
  <2>1. /\ \A j \in Rows \ {i} : row'[j] = row[j]
        /\ row[i].state = "free" /\ row[i].nonce \in Nonces \cup {NoNonce}
        /\ row'[i].nonce = n /\ row'[i].state = "live" /\ ~row'[i].onChain
    BY <1>1, <1>6 DEF Publish, TrackingTypeOK, Row
  <2>2. \A k \in Nonces : LiveRows(k) = LiveRows(k)' \ {i}
    BY <2>1 DEF LiveRows, Live
  <2>3. C' = C \cup {n}
    BY <1>3, <2>1, <2>2 DEF C, LiveRows, Live
  <2>4. R' = R
    BY <1>4, <2>1
  <2> QED BY <2>3, <2>4 DEF Life!LifeNext, Life!Count, C, R
<1>7. ASSUME NEW w \in AllWatchers, WatchSave(w)
      PROVE  Life!LifeNext
  <2> DEFINE i == watcher[w].id
             n == row[i].nonce
  <2>1. /\ i \in Rows /\ n \in Nonces
        /\ \A j \in Rows \ {i} : row'[j] = row[j]
        /\ row'[i].nonce = n /\ row'[i].state = "live" /\ row'[i].onChain
    BY <1>1, <1>7 DEF WatchSave, SavedRow, WatchersSound, TrackingTypeOK
  <2>2. row[i].nonce = n
    OBVIOUS
  <2> HIDE DEF i, n
  <2>3. n \in C
    BY <1>3, <2>1, <2>2
  <2>4. C' = C
    BY <1>3, <2>1, <2>2
  <2>5. R' = R \cup {n}
    BY <1>4, <2>1, <2>2
  <2> QED BY <2>1, <2>3, <2>4, <2>5 DEF Life!LifeNext, Life!Record, C, R
<1>8. ASSUME NEW p \in Replacers, NEW new \in Rows, TxCommit(p, new)
      PROVE  C' = C /\ R' = R
  <2> DEFINE old == replacer[p].id
  <2>1. /\ replacer[p].pc = "commit" /\ row[new].state = "free"
        /\ row' = CommittedRows(p, new)
    BY <1>8 DEF TxCommit
  <2>2. /\ old \in Rows /\ old # new /\ row[old].nonce \in Nonces
        /\ row'[new].state = "live" /\ ~row'[new].onChain
        /\ row'[new].nonce = row[old].nonce
        /\ row'[old].nonce = row[old].nonce
        /\ row'[old].onChain = row[old].onChain
        /\ row[old].onChain => row'[old].state = row[old].state
        /\ \A j \in Rows : j # new /\ j # old => row'[j] = row[j]
    <3>1. row[old].onChain => ~replacer[p].deleted
      BY <1>1, <2>1 DEF ReplacersSound
    <3> QED BY <1>1, <2>1, <3>1, Committed
  <2> HIDE DEF old
  <2>3. \A n \in Nonces : row[new].nonce = n => \E j \in Rows : j # new /\ row[j].nonce = n
    <3>1. \A n \in Nonces : row[new].nonce = n =>
            \E j \in Rows : row[j].state = "live" /\ row[j].nonce = n
      BY <1>1 DEF NonceKeepsARow, LiveRows, Live
    <3> QED BY <2>1, <3>1
  <2>4. C' = C
    BY <1>3, <2>2, <2>3
  <2>5. R' = R
    BY <1>4, <2>1, <2>2
  <2> QED BY <2>4, <2>5
<1> QED BY RowSteps, <1>5, <1>6, <1>7, <1>8 DEF Life!lifeVars, C, R

\* Whatever replaces a message, a nonce is counted once and for good, and its
\* receipt is recorded once and for good: MessageTracking keeps the promise of
\* MessageLife.
THEOREM TrackingRefinesLife == Spec => TrackingImplementsLife
<1>1. Init => Life!LifeInit
  BY DEF Init, FreeRow, LiveRows, Live, Life!LifeInit
<1>2. TrackingInv /\ [Next]_vars => [Life!LifeNext]_(Life!lifeVars)
  BY LifeStep
<1> QED BY <1>1, <1>2, Tracking, PTL DEF Spec, Life!LifeSpec, TrackingImplementsLife

=============================================================================
