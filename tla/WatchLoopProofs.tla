-------------------------- MODULE WatchLoopProofs --------------------------
(***************************************************************************)
(* Type correctness of WatchLoop, and that a batch of files never overlaps *)
(* a directory refresh.  Both rest on one invariant: that no path is left  *)
(* of a batch that a switch cleared (a part of the type) needs the switch  *)
(* to wait for the batch, which is what keeps the two apart.               *)
(***************************************************************************)
EXTENDS WatchLoop, TLAPS

\* The index lock, the token and the branch watcher agree on which directory
\* refresh is where; one without the token is being stopped, and one without
\* the lock has lost its heartbeat.
RefreshInv ==
    /\ \A t \in Tasks :
          dir[t] \in {"walking", "indexing", "ending"} => lock = t \/ t \in mute
    /\ dir["switch"] # "off" => token = "switch" /\ git = "reindexing"
    /\ dir["initial"] # "off" /\ token # "initial" => "initial" \in cancelled
    /\ "switch" \notin cancelled /\ token \notin cancelled
    /\ \A t \in Tasks : dir[t] = "indexing" /\ token = "none" => t \in mute

\* While a batch is in progress its watch is the one that stop_watch waits
\* for, and no directory refresh writes but one that lost its lock.
BatchInv ==
    /\ watch \in {"waiting", "batch"} /\ stop # "none" => stopped = "clear"
    /\ watch # "batch" => left = {}
    /\ watch = "batch" =>
          /\ stop # "none"
          /\ TimersRun
          /\ \A t \in Tasks :
                /\ dir[t] = "indexing" => t \in cancelled \cap mute
                /\ dir[t] \in {"locking", "walking"} => t \in cancelled

WatchInv == TypeOK /\ RefreshInv /\ BatchInv

----------------------------------------------------------------------------
(* Types.                                                                  *)

LEMMA InitInv == Init => WatchInv
<1> SUFFICES ASSUME Init PROVE WatchInv
  OBVIOUS
<1>1. CountType
  <2>1. count = [kind \in DOMAIN Bound |-> 0]
    BY DEF Init
  <2>2. \A kind \in DOMAIN Bound : Bound[kind] \in Nat
    BY BoundAssumption DEF Bound
  <2> QED BY <2>1, <2>2 DEF CountType
<1>2. dir = [t \in Tasks |-> IF t = "initial" THEN "locking" ELSE "off"]
  BY DEF Init
<1>3. TypeOK
  BY <1>1, <1>2 DEF Init, TypeOK, QueueType, LoopType, RefreshType, Tasks
<1>4. RefreshInv
  BY <1>2 DEF Init, RefreshInv, Tasks
<1>5. BatchInv
  BY DEF Init, BatchInv
<1> QED BY <1>3, <1>4, <1>5 DEF WatchInv

LEMMA CountTyped ==
    ASSUME CountType, NEW kind \in DOMAIN Bound, Count(kind) \/ UNCHANGED count
    PROVE  CountType'
<1>1. Bound \in [DOMAIN Bound -> Nat]
  BY BoundAssumption DEF Bound
<1> DEFINE limit == Bound
<1>2. CASE Count(kind)
  <2>1. limit \in [DOMAIN limit -> Nat] /\ count[kind] < limit[kind]
    BY <1>1, <1>2 DEF Count
  <2>2. count' = [count EXCEPT ![kind] = @ + 1] /\ Bound' = limit
    BY <1>2 DEF Count, Bound
  <2> HIDE DEF limit
  <2> QED BY <2>1, <2>2 DEF CountType
<1>3. CASE UNCHANGED count
  BY <1>3 DEF CountType, Bound
<1> QED BY <1>2, <1>3

\* The counters through one action.
LEMMA CountStep == CountType /\ [Next]_vars => CountType'
<1> SUFFICES ASSUME CountType, [Next]_vars PROVE CountType'
  OBVIOUS
<1>1. \/ UNCHANGED count
      \/ \E kind \in DOMAIN Bound : Count(kind)
  <2>1. {"change", "failure"} \subseteq DOMAIN Bound
    BY DEF Bound
  <2> QED
    BY <2>1 DEF Next, vars, Edit, Checkout, Deliver, WatcherFails, StartBatch,
       RefreshFile, BatchFails, BatchDone, StopSeen, LoopFails, CloseWatch,
       PollRestart, Settle, NoticeHead, WatchStopped, Refresh, TakeLock,
       LockFails, HeartbeatFails, Walk, IndexFile, SkipFiles, LastUpdate,
       End, EndFails
<1>2. CASE UNCHANGED count
  BY <1>2, CountTyped DEF Bound
<1> QED BY <1>1, <1>2, CountTyped

LEMMA TypeStep ==
    ASSUME WatchInv, [Next]_vars
    PROVE  TypeOK'
<1>0. CountType'
  BY CountStep DEF WatchInv, TypeOK
<1> SUFFICES QueueType' /\ LoopType' /\ RefreshType'
  BY <1>0 DEF TypeOK
<1> DEFINE TypesKept == QueueType' /\ LoopType' /\ RefreshType'
<1> USE DEF WatchInv, TypeOK, QueueType, LoopType, RefreshType
<1>1. ASSUME NEW p \in Paths, Edit(p) PROVE TypesKept
  BY <1>1 DEF Edit, Seen,
          disk, watcher, queue, loop, supervisor, refresh
<1>2. ASSUME NEW paths \in SUBSET Paths, Checkout(paths) PROVE TypesKept
  <2>1. headMoved' \in BOOLEAN
    BY <1>2 DEF Checkout
  <2>2. /\ stale' = Paths /\ disturbed' = TRUE
        /\ events' \in {events, events \cup paths}
        /\ UNCHANGED <<fill, queue, loop, supervisor, refresh, state, ready>>
    BY <1>2 DEF Checkout, Seen
  <2> HIDE DEF WatchInv
  <2>3. QueueType'
    BY <2>2 DEF WatchInv, queue
  <2>4. LoopType' /\ RefreshType'
    BY <2>1, <2>2 DEF WatchInv, loop, supervisor, refresh
  <2> QED BY <2>3, <2>4
<1>3. ASSUME Deliver PROVE TypesKept
  BY <1>3 DEF Deliver, Noted,
          disk, watcher, queue, loop, supervisor, refresh
<1>4. ASSUME WatcherFails PROVE TypesKept
  BY <1>4 DEF WatcherFails,
          disk, watcher, queue, loop, supervisor, refresh
<1>5. ASSUME StartBatch PROVE TypesKept
  BY <1>5 DEF StartBatch,
          disk, watcher, queue, loop, supervisor, refresh
<1>6. ASSUME RefreshFile PROVE TypesKept
  BY <1>6 DEF RefreshFile,
          disk, watcher, queue, loop, supervisor, refresh
<1>7. ASSUME BatchFails PROVE TypesKept
  BY <1>7 DEF BatchFails, Requeued,
          disk, watcher, queue, loop, supervisor, refresh
<1>8. ASSUME BatchDone PROVE TypesKept
  BY <1>8 DEF BatchDone,
          disk, watcher, queue, loop, supervisor, refresh
<1>9. ASSUME StopSeen PROVE TypesKept
  BY <1>9 DEF StopSeen,
          disk, watcher, queue, loop, supervisor, refresh
<1>10. ASSUME LoopFails PROVE TypesKept
  BY <1>10 DEF LoopFails,
          disk, watcher, queue, loop, supervisor, refresh
<1>11. ASSUME CloseWatch PROVE TypesKept
  <2>1. QueueType'
    BY <1>11 DEF CloseWatch, Restart, StartWatch,
       disk, watcher, queue, loop, supervisor, refresh
  <2>2. LoopType'
    BY <1>11 DEF CloseWatch, Restart, StartWatch,
       disk, watcher, queue, loop, supervisor, refresh
  <2>3. RefreshType'
    BY <1>11 DEF CloseWatch, Restart, StartWatch,
       disk, watcher, queue, loop, supervisor, refresh
  <2> QED BY <2>1, <2>2, <2>3
<1>12. ASSUME PollRestart PROVE TypesKept
  <2>1. QueueType'
    BY <1>12 DEF PollRestart, Restart, StartWatch,
       disk, watcher, queue, loop, supervisor, refresh
  <2>2. LoopType'
    BY <1>12 DEF PollRestart, Restart, StartWatch,
       disk, watcher, queue, loop, supervisor, refresh
  <2>3. RefreshType'
    BY <1>12 DEF PollRestart, Restart, StartWatch,
       disk, watcher, queue, loop, supervisor, refresh
  <2> QED BY <2>1, <2>2, <2>3
<1>13. ASSUME Settle PROVE TypesKept
  <2>1. QueueType'
    BY <1>13 DEF Settle, StartWatch,
       disk, watcher, queue, loop, supervisor, refresh
  <2>2. LoopType'
    BY <1>13 DEF Settle, StartWatch,
       disk, watcher, queue, loop, supervisor, refresh
  <2>3. RefreshType'
    BY <1>13 DEF Settle, StartWatch,
       disk, watcher, queue, loop, supervisor, refresh
  <2> QED BY <2>1, <2>2, <2>3
<1>14. ASSUME NoticeHead PROVE TypesKept
  <2>1. QueueType'
    BY <1>14 DEF NoticeHead, BeginReindex, BatchInv, RefreshInv, Waits, Tasks,
       disk, watcher, queue, loop, supervisor, refresh
  <2>2. LoopType'
    BY <1>14 DEF NoticeHead, BeginReindex, BatchInv, RefreshInv, Waits, Tasks,
       disk, watcher, queue, loop, supervisor, refresh
  <2>3. /\ ready' = FALSE /\ UNCHANGED <<disturbed, todo, lock, mute>>
        /\ \/ dir' = dir \/ dir' = [dir EXCEPT !["switch"] = "locking"]
        /\ \/ token' = token \/ token' = "switch"
        /\ cancelled' \subseteq cancelled \cup ({token} \ {"none"})
        /\ state' \in {state, "waiting"}
    BY <1>14 DEF NoticeHead, BeginReindex, refresh
  <2>4. RefreshType'
    BY <2>3 DEF Tasks
  <2> QED BY <2>1, <2>2, <2>4
<1>15. ASSUME WatchStopped PROVE TypesKept
  <2>1. QueueType'
    BY <1>15 DEF WatchStopped, BeginReindex, BatchInv, TimersRun, Tasks,
       disk, watcher, queue, loop, supervisor, refresh
  <2>2. LoopType'
    BY <1>15 DEF WatchStopped, BeginReindex, BatchInv, TimersRun, Tasks,
       disk, watcher, queue, loop, supervisor, refresh
  <2>3. RefreshType'
    BY <1>15 DEF WatchStopped, BeginReindex, BatchInv, TimersRun, Tasks,
       disk, watcher, queue, loop, supervisor, refresh
  <2> QED BY <2>1, <2>2, <2>3
<1>16. ASSUME NEW t \in Tasks, TakeLock(t) PROVE TypesKept
  BY <1>16 DEF TakeLock, InDir,
          disk, watcher, queue, loop, supervisor, refresh
<1>17. ASSUME NEW t \in Tasks, LockFails(t) PROVE TypesKept
  BY <1>17 DEF LockFails, InDir,
          disk, watcher, queue, loop, supervisor, refresh
<1>18. ASSUME NEW t \in Tasks, Walk(t) PROVE TypesKept
  BY <1>18 DEF Walk, InDir,
          disk, watcher, queue, loop, supervisor, refresh
<1>19. ASSUME NEW t \in Tasks, NEW p \in Paths, IndexFile(t, p) PROVE TypesKept
  BY <1>19 DEF IndexFile,
          disk, watcher, queue, loop, supervisor, refresh
<1>20. ASSUME NEW t \in Tasks, NEW paths \in SUBSET Paths, SkipFiles(t, paths)
      PROVE  TypesKept
  BY <1>20 DEF SkipFiles,
          disk, watcher, queue, loop, supervisor, refresh
<1>21. ASSUME NEW t \in Tasks, NEW status \in {"done", "cancelled", "failed"},
             LastUpdate(t, status)
      PROVE  TypesKept
  <2>1. QueueType' /\ LoopType'
    BY <1>21 DEF LastUpdate, disk, watcher, queue, loop, supervisor
  <2>2. /\ dir' = [dir EXCEPT ![t] = "ending"]
        /\ todo' = [todo EXCEPT ![t] = {}]
        /\ state' = status
        /\ disturbed' \in BOOLEAN
        /\ UNCHANGED <<token, cancelled, lock, mute, ready>>
    BY <1>21 DEF LastUpdate, InDir
  <2>3. RefreshType'
    BY <2>2
  <2> QED BY <2>1, <2>3
<1>22. ASSUME NEW t \in Tasks, End(t) PROVE TypesKept
  <2>1. QueueType'
    BY <1>22 DEF End, InDir, TokenAfter, RestartAfter,
       disk, watcher, queue, loop, supervisor, refresh
  <2>2. LoopType'
    BY <1>22 DEF End, InDir, TokenAfter, RestartAfter,
       disk, watcher, queue, loop, supervisor, refresh
  <2>3. RefreshType'
    BY <1>22 DEF End, InDir, TokenAfter, RestartAfter,
       disk, watcher, queue, loop, supervisor, refresh
  <2> QED BY <2>1, <2>2, <2>3
<1>23. ASSUME NEW t \in Tasks, HeartbeatFails(t) PROVE TypesKept
  BY <1>23 DEF HeartbeatFails,
          disk, watcher, queue, loop, supervisor, refresh
<1>24. ASSUME NEW t \in Tasks, EndFails(t) PROVE TypesKept
  BY <1>24 DEF EndFails, InDir,
          disk, watcher, queue, loop, supervisor, refresh
<1>25. CASE UNCHANGED vars
  BY <1>25 DEF vars,
          disk, watcher, queue, loop, supervisor, refresh
<1> QED BY <1>1, <1>2, <1>3, <1>4, <1>5, <1>6, <1>7, <1>8, <1>9, <1>10, <1>11,
   <1>12, <1>13, <1>14, <1>15, <1>16, <1>17, <1>18, <1>19, <1>20, <1>21, <1>22,
   <1>23, <1>24, <1>25 DEF Next, Refresh

----------------------------------------------------------------------------
(* The directory refreshes and the batch.                                  *)

LEMMA RefreshInvStep ==
    ASSUME WatchInv, [Next]_vars
    PROVE  RefreshInv'
<1> USE DEF WatchInv, RefreshInv, Tasks
<1> DEFINE LoopStep ==
        \/ \E p \in Paths : Edit(p)
        \/ \E paths \in SUBSET Paths : Checkout(paths)
        \/ Deliver \/ WatcherFails
        \/ StartBatch \/ RefreshFile \/ BatchFails \/ BatchDone
        \/ StopSeen \/ LoopFails \/ CloseWatch \/ PollRestart \/ Settle
<1>1. CASE LoopStep \/ UNCHANGED vars
  <2>1. UNCHANGED <<git, dir, token, cancelled, lock, mute>>
    BY <1>1 DEF Edit, Checkout, Deliver, WatcherFails, StartBatch, RefreshFile,
       BatchFails, BatchDone, StopSeen, LoopFails, CloseWatch, PollRestart,
       Settle, vars, supervisor, refresh
  <2> QED BY <2>1
<1>2. ASSUME BeginReindex, git \in {"polling", "stopping"},
             lock' = lock, mute' = mute
      PROVE  RefreshInv'
  <2>1. dir["switch"] = "off" /\ dir'["switch"] = "locking"
        /\ dir'["initial"] = dir["initial"]
    BY <1>2 DEF BeginReindex, TypeOK, RefreshType
  <2>2. token' = "switch" /\ git' = "reindexing"
        /\ cancelled' = (cancelled \cup {token}) \ {"switch", "none"}
    BY <1>2 DEF BeginReindex
  <2>3. token \in {"initial", "switch", "none"}
    BY DEF TypeOK, RefreshType
  <2> QED BY <1>2, <2>1, <2>2, <2>3
<1>3. CASE NoticeHead
  <2>1. CASE BeginReindex
    BY <1>2, <1>3, <2>1 DEF NoticeHead, refresh
  <2>2. CASE git' = "stopping" /\ UNCHANGED refresh
    <3>1. git = "polling" /\ UNCHANGED <<dir, token, cancelled, lock, mute>>
      BY <1>3, <2>2 DEF NoticeHead, refresh
    <3> QED BY <3>1
  <2> QED BY <1>3, <2>1, <2>2 DEF NoticeHead
<1>4. CASE WatchStopped
  BY <1>2, <1>4 DEF WatchStopped
<1>5. ASSUME NEW t \in Tasks, TakeLock(t) PROVE RefreshInv'
  BY <1>5 DEF TakeLock, InDir, LockFree, supervisor, TypeOK, RefreshType
<1>6. ASSUME NEW t \in Tasks, LockFails(t) PROVE RefreshInv'
  BY <1>6 DEF LockFails, InDir, supervisor, TypeOK, RefreshType
<1>7. ASSUME NEW t \in Tasks, Walk(t) PROVE RefreshInv'
  BY <1>7 DEF Walk, InDir, supervisor, TypeOK, RefreshType
<1>8. ASSUME NEW t \in Tasks, NEW p \in Paths, IndexFile(t,
   p) PROVE RefreshInv'
  BY <1>8 DEF IndexFile, supervisor, TypeOK, RefreshType
<1>9. ASSUME NEW t \in Tasks, NEW paths \in SUBSET Paths, SkipFiles(t, paths)
      PROVE  RefreshInv'
  BY <1>9 DEF SkipFiles, supervisor, TypeOK, RefreshType
<1>10. ASSUME NEW t \in Tasks, NEW status, LastUpdate(t,
   status) PROVE RefreshInv'
  BY <1>10 DEF LastUpdate, InDir, supervisor, TypeOK, RefreshType
<1>11. ASSUME NEW t \in Tasks, End(t) PROVE RefreshInv'
  BY <1>11 DEF End, InDir, TokenAfter, supervisor, TypeOK, RefreshType
<1>12. ASSUME NEW t \in Tasks, HeartbeatFails(t) PROVE RefreshInv'
  BY <1>12 DEF HeartbeatFails, supervisor, TypeOK, RefreshType
<1>13. ASSUME NEW t \in Tasks, EndFails(t) PROVE RefreshInv'
  BY <1>13 DEF EndFails, InDir, TypeOK, RefreshType
<1> QED BY <1>1, <1>3, <1>4, <1>5, <1>6, <1>7, <1>8, <1>9, <1>10,
          <1>11, <1>12, <1>13 DEF Next, Refresh

LEMMA BatchInvStep ==
    ASSUME WatchInv, [Next]_vars
    PROVE  BatchInv'
<1> USE DEF WatchInv, BatchInv, TimersRun
<1>1. ASSUME NEW p \in Paths, Edit(p) PROVE BatchInv'
  BY <1>1 DEF Edit,
          disk, watcher, queue, loop, supervisor, refresh
<1>2. ASSUME NEW paths \in SUBSET Paths, Checkout(paths) PROVE BatchInv'
  BY <1>2 DEF Checkout,
          disk, watcher, queue, loop, supervisor, refresh
<1>3. ASSUME Deliver PROVE BatchInv'
  BY <1>3 DEF Deliver,
          disk, watcher, queue, loop, supervisor, refresh
<1>4. ASSUME WatcherFails PROVE BatchInv'
  BY <1>4 DEF WatcherFails,
          disk, watcher, queue, loop, supervisor, refresh
<1>5. ASSUME StartBatch PROVE BatchInv'
  BY <1>5 DEF StartBatch, MayFlush, RefreshInv, Tasks, TypeOK, RefreshType,
          disk, watcher, queue, loop, supervisor, refresh
<1>6. ASSUME RefreshFile PROVE BatchInv'
  BY <1>6 DEF RefreshFile,
          disk, watcher, queue, loop, supervisor, refresh
<1>7. ASSUME BatchFails PROVE BatchInv'
  BY <1>7 DEF BatchFails,
          disk, watcher, queue, loop, supervisor, refresh
<1>8. ASSUME BatchDone PROVE BatchInv'
  BY <1>8 DEF BatchDone,
          disk, watcher, queue, loop, supervisor, refresh
<1>9. ASSUME StopSeen PROVE BatchInv'
  BY <1>9 DEF StopSeen,
          disk, watcher, queue, loop, supervisor, refresh
<1>10. ASSUME LoopFails PROVE BatchInv'
  BY <1>10 DEF LoopFails,
          disk, watcher, queue, loop, supervisor, refresh
<1>11. ASSUME CloseWatch PROVE BatchInv'
  BY <1>11 DEF CloseWatch, Restart, StartWatch,
          disk, watcher, queue, loop, supervisor, refresh
<1>12. ASSUME PollRestart PROVE BatchInv'
  BY <1>12 DEF PollRestart, Restart, StartWatch,
          disk, watcher, queue, loop, supervisor, refresh
<1>13. ASSUME Settle PROVE BatchInv'
  BY <1>13 DEF Settle, StartWatch,
          disk, watcher, queue, loop, supervisor, refresh
<1>14. CASE NoticeHead
  BY <1>14 DEF NoticeHead, BeginReindex, Waits, refresh
<1>15. CASE WatchStopped
  BY <1>15 DEF WatchStopped, BeginReindex
<1>16. ASSUME NEW t \in Tasks, TakeLock(t) PROVE BatchInv'
  BY <1>16 DEF TakeLock, InDir, TypeOK, RefreshType,
          disk, watcher, queue, loop, supervisor, refresh
<1>17. ASSUME NEW t \in Tasks, LockFails(t) PROVE BatchInv'
  BY <1>17 DEF LockFails, InDir, TypeOK, RefreshType,
          disk, watcher, queue, loop, supervisor, refresh
<1>18. ASSUME NEW t \in Tasks, Walk(t) PROVE BatchInv'
  BY <1>18 DEF Walk, InDir, TypeOK, RefreshType,
          disk, watcher, queue, loop, supervisor, refresh
<1>19. ASSUME NEW t \in Tasks, NEW p \in Paths, IndexFile(t, p) PROVE BatchInv'
  BY <1>19 DEF IndexFile, TypeOK, RefreshType,
          disk, watcher, queue, loop, supervisor, refresh
<1>20. ASSUME NEW t \in Tasks, NEW paths \in SUBSET Paths, SkipFiles(t, paths)
      PROVE  BatchInv'
  BY <1>20 DEF SkipFiles, TypeOK, RefreshType,
          disk, watcher, queue, loop, supervisor, refresh
<1>21. ASSUME NEW t \in Tasks, NEW status, LastUpdate(t,
   status) PROVE BatchInv'
  BY <1>21 DEF LastUpdate, InDir, TypeOK, RefreshType,
          disk, watcher, queue, loop, supervisor, refresh
<1>22. ASSUME NEW t \in Tasks, End(t) PROVE BatchInv'
  BY <1>22 DEF End, InDir, RefreshInv, TypeOK, RefreshType,
          disk, watcher, queue, loop, supervisor, refresh
<1>23. ASSUME NEW t \in Tasks, HeartbeatFails(t) PROVE BatchInv'
  BY <1>23 DEF HeartbeatFails, TypeOK, RefreshType,
          disk, watcher, queue, loop, supervisor, refresh
<1>24. ASSUME NEW t \in Tasks, EndFails(t) PROVE BatchInv'
  BY <1>24 DEF EndFails, InDir, RefreshInv, TypeOK, RefreshType,
          disk, watcher, queue, loop, supervisor, refresh
<1>25. CASE UNCHANGED vars
  BY <1>25 DEF vars, disk, watcher, queue, loop, supervisor, refresh
<1> QED
  BY <1>1, <1>2, <1>3, <1>4, <1>5, <1>6, <1>7, <1>8, <1>9, <1>10, <1>11, <1>12,
     <1>13, <1>14, <1>15, <1>16, <1>17, <1>18, <1>19, <1>20, <1>21, <1>22,
     <1>23, <1>24, <1>25
     DEF Next, Refresh

LEMMA WatchStep == WatchInv /\ [Next]_vars => WatchInv'
BY TypeStep, RefreshInvStep, BatchInvStep DEF WatchInv

\* The sets, events, tokens and counters of the server keep their types; that
\* what is left of a batch is in flight needs that no switch clears the sets
\* under a batch.
THEOREM WatchTypeCorrect == Spec => []TypeOK
<1>1. WatchInv => TypeOK
  BY DEF WatchInv
<1> QED BY <1>1, InitInv, WatchStep, PTL DEF Spec

\* A batch and a directory refresh never write at the same time, unless the
\* refresh was cancelled after its heartbeat raised, for any files, edits,
\* checkouts, failures of the watcher and errors of refreshes and at the lock.
THEOREM NeverOverlap == Spec => []NoOverlap
<1>1. WatchInv => NoOverlap
  BY DEF WatchInv, BatchInv, NoOverlap
<1> QED BY <1>1, InitInv, WatchStep, PTL DEF Spec

----------------------------------------------------------------------------
(* Changed files.                                                          *)

\* Until something fails or a branch is checked out the first watch goes on.
FirstWatch ==
    /\ ~headMoved /\ git = "polling" /\ fill = "running"
    /\ stop = "clear" /\ watch \in {"waiting", "batch"}
    /\ dir["switch"] = "off" /\ cancelled = {}

\* A file of the batch that was refreshed already is not on its way for being
\* in it: edited again, it is among the events or pending.
OnTheirWay ==
    \/ dir["initial"] \in {"locking", "walking"}
    \/ stale \subseteq events \cup pending \cup left \cup todo["initial"]

AccountInv == ~disturbed => FirstWatch /\ OnTheirWay

LEMMA AccountStep ==
    ASSUME WatchInv, AccountInv, [Next]_vars
    PROVE  AccountInv'
<1> SUFFICES ASSUME ~disturbed' PROVE FirstWatch' /\ OnTheirWay'
  BY DEF AccountInv
<1>0. ~disturbed
  BY DEF Next, vars, Edit, Checkout, Deliver, WatcherFails, StartBatch,
     RefreshFile, BatchFails, BatchDone, StopSeen, LoopFails, CloseWatch,
     PollRestart, Settle, NoticeHead, WatchStopped, Refresh, TakeLock,
     LockFails, HeartbeatFails, Walk, IndexFile, SkipFiles, LastUpdate,
     End, EndFails
<1> DEFINE Kept == FirstWatch' /\ OnTheirWay'
<1>a. FirstWatch /\ OnTheirWay
  BY <1>0 DEF AccountInv
<1>b. /\ left \subseteq inFlight
      /\ dir \in [Tasks -> {"off", "locking", "walking", "indexing", "ending"}]
      /\ todo \in [Tasks -> SUBSET Paths]
  BY DEF WatchInv, TypeOK, QueueType, RefreshType
<1> USE <1>a, <1>b DEF FirstWatch, OnTheirWay, Tasks
<1>1. ASSUME NEW p \in Paths, Edit(p) PROVE Kept
  BY <1>1 DEF Edit, Seen, queue, loop, supervisor, refresh
<1>2. ASSUME NEW paths \in SUBSET Paths, Checkout(paths) PROVE FALSE
  BY <1>2 DEF Checkout
<1>3. ASSUME Deliver PROVE Kept
  BY <1>3 DEF Deliver, Noted, disk, loop, supervisor, refresh
<1>4. ASSUME WatcherFails PROVE FALSE
  BY <1>4 DEF WatcherFails
<1>5. ASSUME StartBatch PROVE Kept
  BY <1>5, <1>0 DEF StartBatch, WatchInv, BatchInv, disk, watcher, supervisor,
     refresh
<1>6. ASSUME RefreshFile PROVE Kept
  BY <1>6 DEF RefreshFile, watcher, loop, supervisor, refresh
<1>7. ASSUME BatchFails PROVE Kept
  BY <1>7 DEF BatchFails, Requeued, disk, watcher, supervisor, refresh
<1>8. ASSUME BatchDone PROVE Kept
  BY <1>8 DEF BatchDone, disk, watcher, supervisor, refresh
<1>9. CASE StopSeen \/ LoopFails \/ CloseWatch \/ PollRestart \/ Settle
  BY <1>9 DEF StopSeen, LoopFails, CloseWatch, PollRestart, Settle
<1>10. CASE NoticeHead \/ WatchStopped
  BY <1>10 DEF NoticeHead, WatchStopped
<1>11. ASSUME NEW t \in Tasks, TakeLock(t) PROVE Kept
  BY <1>11 DEF TakeLock, InDir, disk, watcher, queue, loop, supervisor
<1>12. ASSUME NEW t \in Tasks, LockFails(t) PROVE FALSE
  BY <1>12 DEF LockFails
<1>13. ASSUME NEW t \in Tasks, Walk(t) PROVE Kept
  BY <1>13 DEF Walk, InDir, disk, watcher, queue, loop, supervisor
<1>14. ASSUME NEW t \in Tasks, NEW p \in Paths, IndexFile(t, p) PROVE Kept
  BY <1>14 DEF IndexFile, watcher, queue, loop, supervisor
<1>15. ASSUME NEW t \in Tasks, NEW paths \in SUBSET Paths, SkipFiles(t, paths)
       PROVE  FALSE
  BY <1>15 DEF SkipFiles
<1>16. ASSUME NEW t \in Tasks, NEW status, LastUpdate(t, status) PROVE Kept
  BY <1>16 DEF LastUpdate, InDir, disk, watcher, queue, loop, supervisor
<1>17. ASSUME NEW t \in Tasks, End(t) PROVE Kept
  BY <1>17 DEF End, InDir, disk, watcher, queue
<1>18. ASSUME NEW t \in Tasks, HeartbeatFails(t) \/ EndFails(t) PROVE FALSE
  BY <1>18 DEF HeartbeatFails, EndFails
<1>19. CASE UNCHANGED vars
  BY <1>19 DEF vars, disk, watcher, queue, loop, supervisor, refresh
<1> QED
  BY <1>1, <1>2, <1>3, <1>4, <1>5, <1>6, <1>7, <1>8, <1>9, <1>10, <1>11,
     <1>12, <1>13, <1>14, <1>15, <1>16, <1>17, <1>18, <1>19
     DEF Next, Refresh

\* As long as nothing failed and no branch was checked out no changed file is
\* forgotten, however edits, batches, failed ones too, and the initial index
\* follow each other.
THEOREM ChangesAlwaysAccounted == Spec => []Accounted
<1>1. Init => AccountInv
  <2> SUFFICES ASSUME Init PROVE AccountInv
    OBVIOUS
  <2> QED BY DEF Init, AccountInv, FirstWatch, OnTheirWay, Tasks
<1>2. WatchInv /\ AccountInv => Accounted
  BY DEF WatchInv, TypeOK, QueueType, AccountInv, OnTheirWay, Accounted
<1> QED BY <1>1, <1>2, InitInv, WatchStep, AccountStep, PTL DEF Spec
============================================================================
