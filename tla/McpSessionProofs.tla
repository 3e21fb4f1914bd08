-------------------------- MODULE McpSessionProofs --------------------------
(***************************************************************************)
(* What McpSession promises, for any files, branches, calls and bounds:    *)
(* its types, the invalidation of the cache, where a stale answer can come *)
(* from, the index once nothing is on its way, the order of a shutdown.    *)
(***************************************************************************)
EXTENDS McpSession, TLAPS

\* The gate and the watch while the branch watcher is busy.
SwitchInv ==
    /\ git = "stopping" => watch # "on"
    /\ git \in {"stopping", "reindexing"} => ~ready

\* A symbol that was put in time stays indexed because no refresh that reads
\* its file can be under way without having had it invalidated.
CacheInv ==
    \A s \in cache \ late : Live(s) /\ s.path \notin PendingPaths /\ work # "switch"

\* The calls end first, then the warm tasks, then the two watchers.
ShutdownInv ==
    /\ server # "up" => \A r \in Requests : req[r].phase = "idle"
    /\ server \in {"branches", "watch", "closed"} => warm = {}
    /\ server \in {"watch", "closed"} => git = "ended"
    /\ server = "closed" => watch = "ended"

\* The index has the symbols of p's contents, for the branch that was seen
\* last, and nothing that was read of p has yet to replace them.
Exact(p) ==
    /\ <<Current(p), last>> \in rows
    /\ \A row \in rows : row[1].path = p /\ row[2] = last => row[1] = Current(p)
    /\ \A row \in reading : row[1].path # p

\* Someone is going to read p again, or has just read what it contains, or
\* it is astray.
Tracked(p) ==
    \/ p \in events \cup pending \cup missed \cup todo \cup astray
    \/ git = "stopping"
    \/ <<Current(p), last>> \in reading
    \/ Exact(p)

ReadingInv == \A x, y \in reading : x = y

IndexInv == ReadingInv /\ (server = "up" => \A p \in Paths : Tracked(p))

SessionInv == TypeOK /\ SwitchInv /\ CacheInv /\ ShutdownInv /\ IndexInv
----------------------------------------------------------------------------
(* Types.                                                                  *)

LEMMA InitInv == Init => SessionInv
<1> SUFFICES ASSUME Init PROVE SessionInv
  OBVIOUS
<1>1. TypeOK
  <2>1. WorkType
    BY DEF Init, WorkType, None
  <2>2. req \in [Requests -> Turns]
    BY DEF Init, Turns, Idle
  <2>3. rows \subseteq Symbols \X Branches
    BY BranchAssumption, BoundAssumption DEF Init, Symbols, Current
  <2>4. version \in [Paths -> 0 .. MaxChanges]
    BY BoundAssumption DEF Init
  <2>5. changes \in 0 .. MaxChanges
    BY BoundAssumption DEF Init
  <2>6. TypeOK <=> /\ head \in Branches /\ last \in Branches
                   /\ events \subseteq Paths /\ pending \subseteq Paths
                   /\ inFlight \subseteq Paths
                   /\ watch \in {"on", "stopping", "stopped", "restarting", "ended"}
                   /\ git \in {"polling", "stopping", "reindexing", "ended"}
                   /\ ready \in BOOLEAN
                   /\ cache \subseteq Symbols /\ late \subseteq cache
                   /\ warm \subseteq [shown : SUBSET Symbols, selected : BOOLEAN]
                   /\ server \in {"up", "drain", "branches", "watch", "closed"}
                   /\ missed \subseteq Paths /\ astray \subseteq Paths
                   /\ swallowed \in BOOLEAN
    BY <2>1, <2>2, <2>3, <2>4, <2>5 DEF TypeOK
  <2> QED BY <2>6, BranchAssumption DEF Init, None
<1>2. SwitchInv /\ CacheInv
  BY DEF Init, SwitchInv, CacheInv
<1>3. ShutdownInv
  BY DEF Init, ShutdownInv, Idle
<1>4. IndexInv
  <2>1. ASSUME NEW p \in Paths PROVE Exact(p)
    BY DEF Init, Exact, Current, None
  <2> QED BY <2>1 DEF Init, IndexInv, ReadingInv, Tracked, None
<1> QED BY <1>1, <1>2, <1>3, <1>4 DEF SessionInv

\* Each step keeps the types: one case per action.
LEMMA TypeStep ==
    ASSUME TypeOK, SwitchInv, [Next]_vars
    PROVE  TypeOK'
<1> USE BoundAssumption DEF TypeOK, WorkType, None
<1>1. ASSUME NEW p \in Paths, Edit(p) PROVE TypeOK'
  BY <1>1 DEF Edit, Changes, Watching,
     workspace, refresh, handlers, tasks
<1>2. ASSUME NEW b \in Branches, NEW paths \in Differ, Checkout(b, paths) PROVE TypeOK'
  BY <1>2, DifferAssumption DEF Checkout, Changes, Watching,
     workspace, refresh, handlers, tasks
<1>3. ASSUME Deliver PROVE TypeOK'
  BY <1>3 DEF Deliver, Keep, Invalidated, Watching,
     workspace, refresh, handlers, tasks
<1>4. ASSUME StartBatch PROVE TypeOK'
  BY <1>4 DEF StartBatch, InFlightWith, Watching,
     workspace, refresh, handlers, tasks
<1>4a. ASSUME ReadBranch PROVE TypeOK'
  BY <1>4a DEF ReadBranch,
     workspace, refresh, handlers, tasks
<1>5. ASSUME ReadFile PROVE TypeOK'
  BY <1>5 DEF ReadFile, AstrayWith, Current, Symbols,
     workspace, refresh, handlers, tasks
<1>6. ASSUME WriteFile PROVE TypeOK'
  BY <1>6 DEF WriteFile, Replaced,
     workspace, refresh, handlers, tasks
<1>7. ASSUME BatchDone PROVE TypeOK'
  BY <1>7 DEF BatchDone,
     workspace, refresh, handlers, tasks
<1>8. ASSUME NoticeHead PROVE TypeOK'
  BY <1>8 DEF NoticeHead, Watching,
     workspace, refresh, handlers, tasks
<1>9. ASSUME BeginReindex PROVE TypeOK'
  BY <1>9 DEF BeginReindex, Keep, SwitchInv,
     workspace, refresh, handlers, tasks
<1>10. ASSUME EndReindex PROVE TypeOK'
  BY <1>10 DEF EndReindex, RestartAsked,
     workspace, refresh, handlers, tasks
<1>11. ASSUME RestartWatch PROVE TypeOK'
  BY <1>11 DEF RestartWatch,
     workspace, refresh, handlers, tasks
<1>12. ASSUME NEW paths \in SUBSET Paths, Lookup(paths) PROVE TypeOK'
  <2> DEFINE found == {s \in Symbols : s.path \in paths /\ Live(s)}
             task == [shown |-> found, selected |-> Cardinality(found) = 1]
  <2>1. task \in [shown : SUBSET Symbols, selected : BOOLEAN]
    OBVIOUS
  <2>2. /\ warm' = warm \cup {task}
        /\ UNCHANGED <<workspace, rows, events, refresh, tasks, cache, req, late,
                       server, missed, astray, swallowed>>
    BY <1>12 DEF Lookup
  <2> HIDE DEF task
  <2> QED BY <2>1, <2>2 DEF workspace, refresh, tasks
<1>13. ASSUME RunWarm PROVE TypeOK'
  BY <1>13 DEF RunWarm, Warmed, Put,
     workspace, refresh, handlers, tasks
<1>14. ASSUME NEW r \in Requests, NEW s \in Symbols, Call(r, s) PROVE TypeOK'
  BY <1>14 DEF Call, AnswerHit, AnswerMiss, Turn, Turns, Put,
     workspace, refresh, handlers, tasks
<1>15. ASSUME NEW r \in Requests, Wake(r) PROVE TypeOK'
  BY <1>15 DEF Wake, AnswerHit, AnswerMiss, EndCall, Idle, Turn, Turns, Put,
     workspace, refresh, handlers, tasks
<1>16. ASSUME NEW r \in Requests, Respond(r) PROVE TypeOK'
  BY <1>16 DEF Respond, EndCall, Idle, Turns,
     workspace, refresh, handlers, tasks
<1>17. ASSUME Shutdown PROVE TypeOK'
  BY <1>17 DEF Shutdown,
     workspace, refresh, handlers, tasks
<1>18. ASSUME CancelBranches PROVE TypeOK'
  BY <1>18 DEF CancelBranches, Cancelled, RestartAsked,
     workspace, refresh, handlers, tasks
<1>19. ASSUME CancelWatch PROVE TypeOK'
  BY <1>19 DEF CancelWatch,
     workspace, refresh, handlers, tasks
<1>20. ASSUME Close PROVE TypeOK'
  BY <1>20 DEF Close,
     workspace, refresh, handlers, tasks
<1>21. CASE UNCHANGED vars
  BY <1>21 DEF vars, workspace, refresh, handlers, tasks, Symbols, Turns
<1> QED
  BY <1>1, <1>2, <1>3, <1>4, <1>4a, <1>5, <1>6, <1>7, <1>8, <1>9, <1>10, <1>11, <1>12, <1>13, <1>14, <1>15, <1>16, <1>17, <1>18, <1>19, <1>20, <1>21
  DEF Next


\* While a branch switch is at work the gate is closed.
LEMMA SwitchStep ==
    ASSUME TypeOK, SwitchInv, [Next]_vars
    PROVE  SwitchInv'
<1> USE DEF SwitchInv, TypeOK, WorkType
<1>1. ASSUME NEW p \in Paths, Edit(p) PROVE SwitchInv'
  BY <1>1 DEF Edit, Changes, Watching,
     workspace, refresh, handlers, tasks
<1>2. ASSUME NEW b \in Branches, NEW paths \in Differ, Checkout(b, paths) PROVE SwitchInv'
  BY <1>2, DifferAssumption DEF Checkout, Changes, Watching,
     workspace, refresh, handlers, tasks
<1>3. ASSUME Deliver PROVE SwitchInv'
  BY <1>3 DEF Deliver, Keep, Invalidated, Watching,
     workspace, refresh, handlers, tasks
<1>4. ASSUME StartBatch PROVE SwitchInv'
  BY <1>4 DEF StartBatch, InFlightWith, Watching,
     workspace, refresh, handlers, tasks
<1>4a. ASSUME ReadBranch PROVE SwitchInv'
  BY <1>4a DEF ReadBranch,
     workspace, refresh, handlers, tasks
<1>5. ASSUME ReadFile PROVE SwitchInv'
  BY <1>5 DEF ReadFile, AstrayWith, Current, Symbols,
     workspace, refresh, handlers, tasks
<1>6. ASSUME WriteFile PROVE SwitchInv'
  BY <1>6 DEF WriteFile, Replaced,
     workspace, refresh, handlers, tasks
<1>7. ASSUME BatchDone PROVE SwitchInv'
  BY <1>7 DEF BatchDone,
     workspace, refresh, handlers, tasks
<1>8. ASSUME NoticeHead PROVE SwitchInv'
  BY <1>8 DEF NoticeHead, Watching,
     workspace, refresh, handlers, tasks
<1>9. ASSUME BeginReindex PROVE SwitchInv'
  BY <1>9 DEF BeginReindex, Keep, SwitchInv,
     workspace, refresh, handlers, tasks
<1>10. ASSUME EndReindex PROVE SwitchInv'
  BY <1>10 DEF EndReindex, RestartAsked,
     workspace, refresh, handlers, tasks
<1>11. ASSUME RestartWatch PROVE SwitchInv'
  BY <1>11 DEF RestartWatch,
     workspace, refresh, handlers, tasks
<1>12. ASSUME NEW paths \in SUBSET Paths, Lookup(paths) PROVE SwitchInv'
  BY <1>12 DEF Lookup,
     workspace, refresh, handlers, tasks
<1>13. ASSUME RunWarm PROVE SwitchInv'
  BY <1>13 DEF RunWarm, Warmed, Put,
     workspace, refresh, handlers, tasks
<1>14. ASSUME NEW r \in Requests, NEW s \in Symbols, Call(r, s) PROVE SwitchInv'
  BY <1>14 DEF Call, AnswerHit, AnswerMiss, Turn, Turns, Put,
     workspace, refresh, handlers, tasks
<1>15. ASSUME NEW r \in Requests, Wake(r) PROVE SwitchInv'
  BY <1>15 DEF Wake, AnswerHit, AnswerMiss, EndCall, Idle, Turn, Turns, Put,
     workspace, refresh, handlers, tasks
<1>16. ASSUME NEW r \in Requests, Respond(r) PROVE SwitchInv'
  BY <1>16 DEF Respond, EndCall, Idle, Turns,
     workspace, refresh, handlers, tasks
<1>17. ASSUME Shutdown PROVE SwitchInv'
  BY <1>17 DEF Shutdown,
     workspace, refresh, handlers, tasks
<1>18. ASSUME CancelBranches PROVE SwitchInv'
  BY <1>18 DEF CancelBranches, Cancelled, RestartAsked,
     workspace, refresh, handlers, tasks
<1>19. ASSUME CancelWatch PROVE SwitchInv'
  BY <1>19 DEF CancelWatch,
     workspace, refresh, handlers, tasks
<1>20. ASSUME Close PROVE SwitchInv'
  BY <1>20 DEF Close,
     workspace, refresh, handlers, tasks
<1>21. CASE UNCHANGED vars
  BY <1>21 DEF vars, workspace, refresh, handlers, tasks
<1> QED
  BY <1>1, <1>2, <1>3, <1>4, <1>4a, <1>5, <1>6, <1>7, <1>8, <1>9, <1>10, <1>11, <1>12, <1>13, <1>14, <1>15, <1>16, <1>17, <1>18, <1>19, <1>20, <1>21
  DEF Next

\* The order in which a shutdown ends the tasks.
LEMMA ShutdownStep ==
    ASSUME TypeOK, ShutdownInv, [Next]_vars
    PROVE  ShutdownInv'
<1> USE DEF ShutdownInv, TypeOK, WorkType
<1>1. ASSUME NEW p \in Paths, Edit(p) PROVE ShutdownInv'
  BY <1>1 DEF Edit, Changes, Watching,
     workspace, refresh, handlers, tasks
<1>2. ASSUME NEW b \in Branches, NEW paths \in Differ, Checkout(b, paths) PROVE ShutdownInv'
  BY <1>2, DifferAssumption DEF Checkout, Changes, Watching,
     workspace, refresh, handlers, tasks
<1>3. ASSUME Deliver PROVE ShutdownInv'
  BY <1>3 DEF Deliver, Keep, Invalidated, Watching,
     workspace, refresh, handlers, tasks
<1>4. ASSUME StartBatch PROVE ShutdownInv'
  BY <1>4 DEF StartBatch, InFlightWith, Watching,
     workspace, refresh, handlers, tasks
<1>4a. ASSUME ReadBranch PROVE ShutdownInv'
  BY <1>4a DEF ReadBranch,
     workspace, refresh, handlers, tasks
<1>5. ASSUME ReadFile PROVE ShutdownInv'
  BY <1>5 DEF ReadFile, AstrayWith, Current, Symbols,
     workspace, refresh, handlers, tasks
<1>6. ASSUME WriteFile PROVE ShutdownInv'
  BY <1>6 DEF WriteFile, Replaced,
     workspace, refresh, handlers, tasks
<1>7. ASSUME BatchDone PROVE ShutdownInv'
  BY <1>7 DEF BatchDone,
     workspace, refresh, handlers, tasks
<1>8. ASSUME NoticeHead PROVE ShutdownInv'
  BY <1>8 DEF NoticeHead, Watching,
     workspace, refresh, handlers, tasks
<1>9. ASSUME BeginReindex PROVE ShutdownInv'
  BY <1>9 DEF BeginReindex, Keep, SwitchInv,
     workspace, refresh, handlers, tasks
<1>10. ASSUME EndReindex PROVE ShutdownInv'
  BY <1>10 DEF EndReindex, RestartAsked,
     workspace, refresh, handlers, tasks
<1>11. ASSUME RestartWatch PROVE ShutdownInv'
  BY <1>11 DEF RestartWatch,
     workspace, refresh, handlers, tasks
<1>12. ASSUME NEW paths \in SUBSET Paths, Lookup(paths) PROVE ShutdownInv'
  BY <1>12 DEF Lookup,
     workspace, refresh, handlers, tasks
<1>13. ASSUME RunWarm PROVE ShutdownInv'
  BY <1>13 DEF RunWarm, Warmed, Put,
     workspace, refresh, handlers, tasks
<1>14. ASSUME NEW r \in Requests, NEW s \in Symbols, Call(r, s) PROVE ShutdownInv'
  BY <1>14 DEF Call, AnswerHit, AnswerMiss, Turn, Turns, Put,
     workspace, refresh, handlers, tasks
<1>15. ASSUME NEW r \in Requests, Wake(r) PROVE ShutdownInv'
  BY <1>15 DEF Wake, AnswerHit, AnswerMiss, EndCall, Idle, Turn, Turns, Put,
     workspace, refresh, handlers, tasks
<1>16. ASSUME NEW r \in Requests, Respond(r) PROVE ShutdownInv'
  BY <1>16 DEF Respond, EndCall, Idle, Turns,
     workspace, refresh, handlers, tasks
<1>17. ASSUME Shutdown PROVE ShutdownInv'
  BY <1>17 DEF Shutdown,
     workspace, refresh, handlers, tasks
<1>18. ASSUME CancelBranches PROVE ShutdownInv'
  BY <1>18 DEF CancelBranches, Cancelled, RestartAsked, Drained,
     workspace, refresh, handlers, tasks
<1>19. ASSUME CancelWatch PROVE ShutdownInv'
  BY <1>19 DEF CancelWatch,
     workspace, refresh, handlers, tasks
<1>20. ASSUME Close PROVE ShutdownInv'
  BY <1>20 DEF Close,
     workspace, refresh, handlers, tasks
<1>21. CASE UNCHANGED vars
  BY <1>21 DEF vars, workspace, refresh, handlers, tasks
<1> QED
  BY <1>1, <1>2, <1>3, <1>4, <1>4a, <1>5, <1>6, <1>7, <1>8, <1>9, <1>10, <1>11, <1>12, <1>13, <1>14, <1>15, <1>16, <1>17, <1>18, <1>19, <1>20, <1>21
  DEF Next

\* Putting symbols: those that come too late are marked, the others are
\* indexed and not awaited.
LEMMA PutInTime ==
    ASSUME TypeOK, SwitchInv, CacheInv, NEW symbols \in SUBSET Symbols, Put(symbols),
           UNCHANGED <<rows, pending, inFlight, work, git, ready>>
    PROVE  CacheInv'
<1> SUFFICES ASSUME NEW s \in cache' \ late'
             PROVE  Live(s) /\ s.path \notin PendingPaths /\ work # "switch"
  BY DEF CacheInv, Live, PendingPaths
<1>1. s \in cache \cup symbols /\ s \notin (late \ symbols) \cup {x \in symbols : TooLate(x)}
  BY DEF Put
<1>2. CASE s \in symbols
  <2>1. ~TooLate(s)
    BY <1>1, <1>2
  <2>2. ready => work # "switch"
    BY DEF SwitchInv, TypeOK, WorkType
  <2> QED BY <2>1, <2>2 DEF TooLate
<1>3. CASE s \notin symbols
  BY <1>1, <1>3 DEF CacheInv
<1> QED BY <1>2, <1>3

\* A call that returns or waits leaves the cache; one that answers from the
\* index puts the symbol.
LEMMA CallCaches ==
    ASSUME TypeOK, [Next]_vars,
           NEW r \in Requests, Wake(r) \/ \E s \in Symbols : Call(r, s)
    PROVE  /\ UNCHANGED <<cache, late>> \/ \E s \in Symbols : Put({s})
           /\ UNCHANGED <<rows, pending, inFlight, work, git, ready>>
<1>1. ASSUME NEW s \in Symbols, Call(r, s) 
      PROVE  /\ UNCHANGED <<cache, late>> \/ Put({s})
             /\ UNCHANGED <<rows, pending, inFlight, work, git, ready>>
  BY <1>1 DEF Call, AnswerHit, AnswerMiss, refresh, tasks
<1>2. ASSUME Wake(r), NEW s \in req[r].symbol
      PROVE  s \in Symbols
  BY <1>2 DEF TypeOK, Turns
<1>3. ASSUME Wake(r)
      PROVE  /\ UNCHANGED <<cache, late>> \/ \E s \in req[r].symbol : Put({s})
             /\ UNCHANGED <<rows, pending, inFlight, work, git, ready>>
  BY <1>3 DEF Wake, AnswerHit, AnswerMiss, EndCall, refresh, tasks
<1> QED BY <1>1, <1>2, <1>3

\* What is cached in time stays indexed.
LEMMA CacheStep ==
    ASSUME TypeOK, SwitchInv, CacheInv, [Next]_vars
    PROVE  CacheInv'
<1> USE DEF CacheInv, TypeOK, WorkType, Live, PendingPaths
<1>1. ASSUME NEW p \in Paths, Edit(p) PROVE CacheInv'
  BY <1>1 DEF Edit, Changes, Watching,
     workspace, refresh, handlers, tasks
<1>2. ASSUME NEW b \in Branches, NEW paths \in Differ, Checkout(b, paths) PROVE CacheInv'
  BY <1>2, DifferAssumption DEF Checkout, Changes, Watching,
     workspace, refresh, handlers, tasks
<1>3. ASSUME Deliver PROVE CacheInv'
  BY <1>3 DEF Deliver, Keep, Invalidated, Watching,
     workspace, refresh, handlers, tasks
<1>4. ASSUME StartBatch PROVE CacheInv'
  BY <1>4 DEF StartBatch, InFlightWith, Watching,
     workspace, refresh, handlers, tasks
<1>4a. ASSUME ReadBranch PROVE CacheInv'
  BY <1>4a DEF ReadBranch,
     workspace, refresh, handlers, tasks
<1>5. ASSUME ReadFile PROVE CacheInv'
  BY <1>5 DEF ReadFile, AstrayWith, Current, Symbols,
     workspace, refresh, handlers, tasks
<1>6. ASSUME WriteFile PROVE CacheInv'
  <2> PICK row \in reading : rows' = Replaced(row[1], row[2])
    BY <1>6 DEF WriteFile
  <2>1. UNCHANGED <<cache, late, pending, inFlight, work>>
    BY <1>6 DEF WriteFile, handlers
  <2> SUFFICES ASSUME NEW s \in cache \ late PROVE <<s, Startup>> \in rows'
    BY <2>1
  <2>2. work = "batch" /\ row[1].path \in inFlight
    BY DEF None
  <2>3. s.path # row[1].path
    BY <2>2
  <2> QED BY <2>3 DEF Replaced
<1>7. ASSUME BatchDone PROVE CacheInv'
  BY <1>7 DEF BatchDone,
     workspace, refresh, handlers, tasks
<1>8. ASSUME NoticeHead PROVE CacheInv'
  BY <1>8 DEF NoticeHead, Watching,
     workspace, refresh, handlers, tasks
<1>9. ASSUME BeginReindex PROVE CacheInv'
  BY <1>9 DEF BeginReindex, Keep, SwitchInv,
     workspace, refresh, handlers, tasks
<1>10. ASSUME EndReindex PROVE CacheInv'
  BY <1>10 DEF EndReindex, RestartAsked,
     workspace, refresh, handlers, tasks
<1>11. ASSUME RestartWatch PROVE CacheInv'
  BY <1>11 DEF RestartWatch,
     workspace, refresh, handlers, tasks
<1>12. ASSUME NEW paths \in SUBSET Paths, Lookup(paths) PROVE CacheInv'
  BY <1>12 DEF Lookup,
     workspace, refresh, handlers, tasks
<1>13. ASSUME RunWarm PROVE CacheInv'
  <2> PICK task \in warm : Put(Warmed(task))
    BY <1>13 DEF RunWarm
  <2>1. Warmed(task) \in SUBSET Symbols
    BY DEF Warmed
  <2>2. UNCHANGED <<rows, pending, inFlight, work, git, ready>>
    BY <1>13 DEF RunWarm, refresh, tasks
  <2> QED BY <2>1, <2>2, PutInTime
<1>14. ASSUME NEW r \in Requests, NEW s \in Symbols, Call(r, s) PROVE CacheInv'
  BY <1>14, CallCaches, PutInTime
<1>15. ASSUME NEW r \in Requests, Wake(r) PROVE CacheInv'
  BY <1>15, CallCaches, PutInTime
<1>16. ASSUME NEW r \in Requests, Respond(r) PROVE CacheInv'
  BY <1>16 DEF Respond, EndCall, Idle, Turns,
     workspace, refresh, handlers, tasks
<1>17. ASSUME Shutdown PROVE CacheInv'
  BY <1>17 DEF Shutdown,
     workspace, refresh, handlers, tasks
<1>18. ASSUME CancelBranches PROVE CacheInv'
  BY <1>18 DEF CancelBranches, Cancelled, RestartAsked,
     workspace, refresh, handlers, tasks
<1>19. ASSUME CancelWatch PROVE CacheInv'
  BY <1>19 DEF CancelWatch,
     workspace, refresh, handlers, tasks
<1>20. ASSUME Close PROVE CacheInv'
  BY <1>20 DEF Close,
     workspace, refresh, handlers, tasks
<1>21. CASE UNCHANGED vars
  BY <1>21 DEF vars, workspace, refresh, handlers, tasks
<1> QED
  BY <1>1, <1>2, <1>3, <1>4, <1>4a, <1>5, <1>6, <1>7, <1>8, <1>9, <1>10, <1>11, <1>12, <1>13, <1>14, <1>15, <1>16, <1>17, <1>18, <1>19, <1>20, <1>21
  DEF Next

\* At most one file is between its read and its write.
LEMMA ReadingStep ==
    ASSUME TypeOK, ReadingInv, [Next]_vars
    PROVE  ReadingInv'
<1>1. \/ UNCHANGED reading
      \/ reading' = None
      \/ \E row : reading' = {row}
  BY DEF Next, vars, workspace, refresh, Edit, Checkout, Deliver, StartBatch, ReadBranch, ReadFile,
     WriteFile, BatchDone, NoticeHead, BeginReindex, EndReindex, RestartWatch, Lookup,
     RunWarm, Call, Wake, Respond, Shutdown, CancelBranches, CancelWatch, Close
<1> QED BY <1>1 DEF ReadingInv, None

\* Every file stays tracked: one case per action, for one file.
LEMMA TrackedStep ==
    ASSUME TypeOK, SwitchInv, IndexInv, [Next]_vars, server' = "up", NEW q \in Paths
    PROVE  Tracked(q)'
<1>0. Tracked(q) /\ server = "up"
  <2>1. server = "up"
    BY DEF Next, vars, workspace, refresh, Edit, Checkout, Deliver, StartBatch, ReadBranch, ReadFile,
       WriteFile, BatchDone, NoticeHead, BeginReindex, EndReindex, RestartWatch, Lookup,
       RunWarm, Call, Wake, Respond, Shutdown, CancelBranches, CancelWatch, Close
  <2> QED BY <2>1 DEF IndexInv
<1> USE <1>0 DEF Tracked, Exact, Current, TypeOK, WorkType, None
<1>1. ASSUME NEW p \in Paths, Edit(p) PROVE Tracked(q)'
  BY <1>1 DEF Edit, Changes, Watching,
     workspace, refresh, handlers, tasks
<1>2. ASSUME NEW b \in Branches, NEW paths \in Differ, Checkout(b, paths) PROVE Tracked(q)'
  BY <1>2, DifferAssumption DEF Checkout, Changes, Watching,
     workspace, refresh, handlers, tasks
<1>3. ASSUME Deliver PROVE Tracked(q)'
  BY <1>3 DEF Deliver, Keep, Invalidated, Watching,
     workspace, refresh, handlers, tasks
<1>4. ASSUME StartBatch PROVE Tracked(q)'
  BY <1>4 DEF StartBatch, InFlightWith, Watching,
     workspace, refresh, handlers, tasks
<1>4a. ASSUME ReadBranch PROVE Tracked(q)'
  BY <1>4a DEF ReadBranch,
     workspace, refresh, handlers, tasks
<1>5. ASSUME ReadFile PROVE Tracked(q)'
  BY <1>5 DEF ReadFile, AstrayWith, Current, Symbols,
     workspace, refresh, handlers, tasks
<1>6. ASSUME WriteFile PROVE Tracked(q)'
  <2> PICK row \in reading : rows' = Replaced(row[1], row[2])
    BY <1>6 DEF WriteFile
  <2>1. reading = {row} /\ row[1] \in Symbols /\ row = <<row[1], row[2]>>
    BY DEF IndexInv, ReadingInv
  <2>2. /\ reading' = {}
        /\ UNCHANGED <<version, last, events, pending, missed, todo, astray, git>>
    BY <1>6 DEF WriteFile, workspace, tasks
  <2>3. CASE row = <<Current(q), last>>
    <3>1. /\ row \in rows'
          /\ \A x \in rows' : x[1].path = q /\ x[2] = last => x[1] = Current(q)
      BY <2>3 DEF Replaced
    <3> QED BY <2>2, <2>3, <3>1
  <2>4. CASE Exact(q)
    <3>1. row[1].path # q
      BY <2>4
    <3>2. /\ <<Current(q), last>> \in rows'
          /\ \A x \in rows' : x[1].path = q /\ x[2] = last => x[1] = Current(q)
      BY <2>4, <3>1 DEF Replaced
    <3> QED BY <2>2, <3>2
  <2>5. CASE q \in events \cup pending \cup missed \cup todo \cup astray \/ git = "stopping"
    BY <2>2, <2>5
  <2> QED BY <2>1, <2>3, <2>4, <2>5
<1>7. ASSUME BatchDone PROVE Tracked(q)'
  BY <1>7 DEF BatchDone,
     workspace, refresh, handlers, tasks
<1>8. ASSUME NoticeHead PROVE Tracked(q)'
  BY <1>8 DEF NoticeHead, Watching,
     workspace, refresh, handlers, tasks
<1>9. ASSUME BeginReindex PROVE Tracked(q)'
  BY <1>9 DEF BeginReindex, Keep, SwitchInv,
     workspace, refresh, handlers, tasks
<1>10. ASSUME EndReindex PROVE Tracked(q)'
  BY <1>10 DEF EndReindex, RestartAsked,
     workspace, refresh, handlers, tasks
<1>11. ASSUME RestartWatch PROVE Tracked(q)'
  BY <1>11 DEF RestartWatch,
     workspace, refresh, handlers, tasks
<1>12. ASSUME NEW paths \in SUBSET Paths, Lookup(paths) PROVE Tracked(q)'
  BY <1>12 DEF Lookup,
     workspace, refresh, handlers, tasks
<1>13. ASSUME RunWarm PROVE Tracked(q)'
  BY <1>13 DEF RunWarm, Put,
     workspace, refresh, handlers, tasks
<1>14. ASSUME NEW r \in Requests, NEW s \in Symbols, Call(r, s) PROVE Tracked(q)'
  BY <1>14 DEF Call, AnswerHit, AnswerMiss, Turn, Turns, Put,
     workspace, refresh, handlers, tasks
<1>15. ASSUME NEW r \in Requests, Wake(r) PROVE Tracked(q)'
  BY <1>15 DEF Wake, AnswerHit, AnswerMiss, EndCall, Idle, Turn, Turns, Put,
     workspace, refresh, handlers, tasks
<1>16. ASSUME NEW r \in Requests, Respond(r) PROVE Tracked(q)'
  BY <1>16 DEF Respond, EndCall, Idle, Turns,
     workspace, refresh, handlers, tasks
<1>17. ASSUME Shutdown \/ CancelBranches \/ CancelWatch \/ Close PROVE FALSE
  BY <1>17 DEF Shutdown, CancelBranches, CancelWatch, Close
<1>18. CASE UNCHANGED vars
  BY <1>18 DEF vars, workspace, refresh, handlers, tasks
<1> QED
  BY <1>1, <1>2, <1>3, <1>4, <1>4a, <1>5, <1>6, <1>7, <1>8, <1>9, <1>10, <1>11, <1>12, <1>13, <1>14, <1>15, <1>16, <1>17, <1>18
  DEF Next

LEMMA SessionStep == SessionInv /\ [Next]_vars => SessionInv'
<1> SUFFICES ASSUME SessionInv, [Next]_vars PROVE SessionInv'
  OBVIOUS
<1> USE DEF SessionInv
<1>1. TypeOK' /\ SwitchInv' /\ CacheInv' /\ ShutdownInv'
  BY TypeStep, SwitchStep, CacheStep, ShutdownStep
<1>2. IndexInv'
  BY ReadingStep, TrackedStep DEF IndexInv
<1> QED BY <1>1, <1>2

LEMMA SessionInvariant == Spec => []SessionInv
BY InitInv, SessionStep, PTL DEF Spec

----------------------------------------------------------------------------
(* The theorems.                                                           *)

\* Every variable of a session keeps its type: the reads in progress belong
\* to the batch or the switch that made them.
THEOREM SessionTypeCorrect == Spec => []TypeOK
<1>1. SessionInv => TypeOK
  BY DEF SessionInv
<1> QED BY <1>1, SessionInvariant, PTL

\* Once nothing is on its way to a file, the index has exactly its contents
\* on the branch that is checked out, or the file is astray.
THEOREM IndexSettles == Spec => []SettledIsExact
<1>1. ASSUME SessionInv, NEW p \in Paths, Settled(p), p \notin astray
      PROVE  ExactOf(p)
  <2>1. Tracked(p) /\ git # "stopping" /\ work # "switch" /\ head = last
    BY <1>1 DEF SessionInv, IndexInv, Settled, AnotherHead, TypeOK, WorkType
  <2>2. p \notin todo /\ <<Current(p), last>> \notin reading
    <3>1. p \notin inFlight
      BY <1>1 DEF Settled, PendingPaths
    <3>2. todo \cup {row[1].path : row \in reading} \subseteq inFlight
      BY <1>1, <2>1 DEF SessionInv, TypeOK, WorkType, None
    <3> QED BY <3>1, <3>2 DEF Current
  <2>3. Exact(p)
    BY <1>1, <2>1, <2>2 DEF Tracked, Settled, PendingPaths
  <2> DEFINE found == {x \in rows : x[1].path = p /\ x[2] = head}
  <2>4. \A x \in found : x[1] = Current(p)
    BY <2>1, <2>3 DEF Exact
  <2>5. \E x \in found : x[1] = Current(p)
    <3>1. <<Current(p), head>> \in found
      BY <2>1, <2>3 DEF Exact, Current
    <3> QED BY <3>1
  <2> HIDE DEF found
  <2>6. {row[1] : row \in found} = {Current(p)}
    BY <2>4, <2>5
  <2> QED BY <2>6 DEF found, ExactOf
<1>2. SessionInv => SettledIsExact
  BY <1>1 DEF SettledIsExact
<1> QED BY <1>2, SessionInvariant, PTL

\* A cached symbol that the index no longer has was put there late.
THEOREM CachedAlwaysIndexed == Spec => []CachedIsIndexed
<1>1. SessionInv => CachedIsIndexed
  BY DEF SessionInv, CacheInv, CachedIsIndexed
<1> QED BY <1>1, SessionInvariant, PTL

\* A closed connection has no task left that would use it.
THEOREM ClosedAlwaysQuiet == Spec => []ClosedMeansQuiet
<1>1. SessionInv => ClosedMeansQuiet
  BY DEF SessionInv, ShutdownInv, ClosedMeansQuiet, TypeOK, WorkType
<1> QED BY <1>1, SessionInvariant, PTL

\* get_symbol answers with a source that the index no longer has only if it
\* was read before a wait or cached late.
THEOREM AnswersAlwaysTraceable == Spec => AnswersTraceable
<1> DEFINE Traceable(r) ==
             \A s \in req'[r].symbol :
                 /\ s.path \notin PendingPaths
                 /\ Live(s) \/ req[r].phase = "miss" \/ s \in late
<1>1. ASSUME SessionInv, [Next]_vars, NEW r \in Requests,
             req[r].phase # "served", req'[r].phase = "served"
      PROVE  Traceable(r)
  <2> USE DEF SessionInv
  <2>1. \A s \in cache : Live(s) \/ s \in late
    BY <1>1 DEF CacheInv
  <2>2. req \in [Requests -> Turns]
    BY <1>1 DEF TypeOK
  <2>3. ASSUME NEW t \in Requests, NEW s \in Symbols, Call(t, s) PROVE Traceable(r)
    <3>1. \/ req' = [req EXCEPT ![t] = [phase |-> "served", symbol |-> {s}]]
             /\ ~PathIsPending(s) /\ (s \in cache \/ Live(s))
          \/ \E phase \in {"hit", "miss"} :
                req' = [req EXCEPT ![t] = [phase |-> phase, symbol |-> {s}]]
      BY <2>3 DEF Call, AnswerHit, AnswerMiss, Turn
    <3> QED BY <1>1, <2>1, <2>2, <3>1 DEF PathIsPending
  <2>4. ASSUME NEW t \in Requests, Wake(t) PROVE Traceable(r)
    <3> PICK s \in req[t].symbol :
          \/ /\ req' = [req EXCEPT ![t] = [phase |-> "served", symbol |-> {s}]]
             /\ ~PathIsPending(s)
             /\ req[t].phase = "miss" \/ s \in cache \/ Live(s)
          \/ req' = [req EXCEPT ![t] = Idle]
      BY <2>4 DEF Wake, AnswerHit, AnswerMiss, EndCall, Turn
    <3> QED BY <1>1, <2>1, <2>2 DEF PathIsPending, Idle
  <2>5. ASSUME NEW t \in Requests, Respond(t) PROVE FALSE
    BY <1>1, <2>2, <2>5 DEF Respond, EndCall, Idle
  <2>6. CASE UNCHANGED req
    BY <1>1, <2>6
  <2> QED
    BY <1>1, <2>3, <2>4, <2>5, <2>6
    DEF Next, vars, handlers, Edit, Checkout, Deliver, StartBatch, ReadBranch, ReadFile, WriteFile,
        BatchDone, NoticeHead, BeginReindex, EndReindex, RestartWatch, Lookup, RunWarm,
        Shutdown, CancelBranches, CancelWatch, Close
<1>2. SessionInv /\ [Next]_vars =>
        [\A r \in Requests :
            req[r].phase # "served" /\ req'[r].phase = "served" =>
            \A s \in req'[r].symbol :
                /\ s.path \notin PendingPaths
                /\ Live(s) \/ req[r].phase = "miss" \/ s \in late]_vars
  BY <1>1
<1> QED BY <1>2, SessionInvariant, PTL DEF Spec, AnswersTraceable
=============================================================================
