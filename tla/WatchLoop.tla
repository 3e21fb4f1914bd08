----------------------------- MODULE WatchLoop -----------------------------
(***************************************************************************)
(* The long-lived tasks of the MCP server in one process, as the event     *)
(* loop interleaves them: the file watcher and the loop that flushes its   *)
(* changes (CodeIndexer.start_watch, restarted by consume_watch of         *)
(* capyidx/mcp/runtime.py), the branch watcher (watch_git_head) and the    *)
(* initial index.  They share the pending and in-flight sets, the token of *)
(* the directory refresh, the index lock, _state, the events of the watch  *)
(* and the readiness gate.                                                 *)
(*                                                                         *)
(* A refresh of a file is one step here, at the moment it reads the file.  *)
(* Another process that holds the lock only delays what this one does.     *)
(***************************************************************************)
EXTENDS Integers, FiniteSetsExt

CONSTANTS
    Paths,       \* files, as numbers in the order of sorted()
    MaxChanges,  \* bound: edits and checkouts of a behaviour
    MaxFailures  \* bound: failures of the watcher and of statements on the lock

ASSUME PathAssumption == Paths \subseteq Nat
ASSUME BoundAssumption ==
    /\ MaxChanges \in Nat /\ MaxFailures \in Nat

VARIABLES
    \* the workspace and what the index has of it
    stale,      \* the paths whose rows are not those of the file
    headMoved,  \* is .git/HEAD not what watch_git_head read last?
    \* the watcher
    fill,       \* the task that feeds _pending
    events,     \* changes on their way to it
    pending,    \* _pending
    inFlight,   \* _in_flight: the batch
    left,       \* the files of the batch still to refresh
    \* the watch loop
    watch,      \* where consume_watch is
    stop,       \* _watch_stop: None, clear or set
    stopped,    \* _watch_stopped
    error,      \* is there a _watcher_error?
    restart,    \* _watch_restart
    \* the directory refreshes
    git,        \* where watch_git_head is
    woken,      \* is the event that stop_watch waits for set?
    dir,        \* where the refreshes of the two tasks are
    todo,       \* the paths that each still has to refresh
    token,      \* _directory_token
    cancelled,  \* the refreshes whose token is cancelled
    lock,       \* the refresh whose row the index lock has
    mute,       \* the refreshes whose heartbeat raised
    state,      \* _state.status
    ready,      \* _system_ready
    \* history
    count,      \* edits, switches, failures and errors at the lock so far
    disturbed   \* a checkout, a failure, a skipped file or an error at the lock?

disk == <<stale, headMoved>>
watcher == <<fill, events>>
queue == <<pending, inFlight, left>>
loop == <<watch, stop, stopped, error, restart>>
supervisor == <<git, woken>>
refresh == <<dir, todo, token, cancelled, lock, mute>>
vars == <<disk, watcher, queue, loop, supervisor, refresh, state, ready, count,
          disturbed>>

Tasks == {"initial", "switch"}

Bound == [change |-> MaxChanges, failure |-> MaxFailures]

Count(kind) ==
    /\ count[kind] < Bound[kind]
    /\ count' = [count EXCEPT ![kind] = @ + 1]

QueueType ==
    /\ stale \subseteq Paths /\ events \subseteq Paths
    /\ fill \in {"running", "failed", "none"}
    /\ pending \subseteq Paths /\ inFlight \subseteq Paths /\ left \subseteq inFlight

LoopType ==
    /\ watch \in {"waiting", "batch", "closing", "restarting", "settling", "dead"}
    /\ stop \in {"none", "clear", "set"} /\ stopped \in {"none", "clear", "set"}
    /\ error \in BOOLEAN /\ restart \in BOOLEAN
    /\ git \in {"polling", "stopping", "reindexing", "dead"}
    /\ headMoved \in BOOLEAN /\ woken \in BOOLEAN

RefreshType ==
    /\ dir \in [Tasks -> {"off", "locking", "walking", "indexing", "ending"}]
    /\ todo \in [Tasks -> SUBSET Paths]
    /\ token \in Tasks \cup {"none"} /\ cancelled \subseteq Tasks
    /\ lock \in Tasks \cup {"none"} /\ mute \subseteq Tasks
    /\ state \in {"loading", "waiting", "indexing", "done", "failed", "cancelled"}
    /\ ready \in BOOLEAN /\ disturbed \in BOOLEAN

CountType ==
    /\ count \in [DOMAIN Bound -> Nat]
    /\ \A kind \in DOMAIN Bound : count[kind] <= Bound[kind]

TypeOK == QueueType /\ LoopType /\ RefreshType /\ CountType

\* build_runtime: the watch has started, the initial index has its token.
Init ==
    /\ stale \in SUBSET Paths /\ headMoved = FALSE
    /\ fill = "running" /\ events = {}
    /\ pending = {} /\ inFlight = {} /\ left = {}
    /\ watch = "waiting" /\ stop = "clear" /\ stopped = "clear"
    /\ error = FALSE /\ restart = FALSE
    /\ git = "polling" /\ woken = FALSE
    /\ dir = [t \in Tasks |-> IF t = "initial" THEN "locking" ELSE "off"]
    /\ todo = [t \in Tasks |-> {}]
    /\ token = "initial" /\ cancelled = {} /\ lock = "none" /\ mute = {}
    /\ state = "loading" /\ ready = FALSE
    /\ count = [kind \in DOMAIN Bound |-> 0] /\ disturbed = FALSE

----------------------------------------------------------------------------
(* The workspace.                                                          *)

\* What the watcher sees of changes to a set of files.
Seen(paths) == IF fill = "running" THEN events \cup paths ELSE events

Edit(p) ==
    /\ Count("change")
    /\ stale' = stale \cup {p}
    /\ events' = Seen({p})
    /\ UNCHANGED <<headMoved, fill, queue, loop, supervisor, refresh, state,
                   ready, disturbed>>

\* git checkout changes some files; at worst no path has the tag of the
\* branch.  A second one may go back to what watch_git_head read last.
Checkout(paths) ==
    /\ Count("change")
    /\ headMoved' \in IF headMoved THEN BOOLEAN ELSE {TRUE}
    /\ stale' = Paths
    /\ events' = Seen(paths)
    /\ disturbed' = TRUE
    /\ UNCHANGED <<fill, queue, loop, supervisor, refresh, state, ready>>

----------------------------------------------------------------------------
(* The watcher task.                                                       *)

\* Mutant: a path that is being refreshed is not noted again.
NotedOnce(paths) == pending \cup (paths \ inFlight)

\* _pending after a batch of changes.
Noted(paths) == pending \cup paths

\* _fill takes a batch of changes.
Deliver ==
    /\ fill = "running" /\ events # {}
    /\ pending' = Noted(events)
    /\ events' = {}
    /\ UNCHANGED <<disk, fill, inFlight, left, loop, supervisor, refresh, state,
                   ready, count, disturbed>>

\* The watcher raises; _on_watcher_died asks for a restart.
WatcherFails ==
    /\ fill = "running"
    /\ Count("failure")
    /\ fill' = "failed" /\ events' = {}
    /\ error' = TRUE
    /\ stop' = IF stop = "none" THEN stop ELSE "set"
    /\ disturbed' = TRUE
    /\ UNCHANGED <<disk, queue, watch, stopped, restart, supervisor, refresh,
                   state, ready>>

----------------------------------------------------------------------------
(* The watch loop: start_watch in consume_watch.                           *)

\* No task that was woken is still to run: the event loop runs it before any
\* timer expires.
TimersRun == ~(git = "stopping" /\ woken)

\* A new watch: its events replace those of the one before.
StartWatch ==
    /\ watch' = "waiting"
    /\ fill' = "running" /\ events' = {}
    /\ stop' = "clear" /\ error' = FALSE

\* Mutant: the directory refresh is not asked for.
MayFlushAnyway == TRUE

\* No directory refresh is in progress.
MayFlush == token = "none" \/ token \in cancelled

\* The flush interval ends with changes pending.
StartBatch ==
    /\ watch = "waiting" /\ stop = "clear" /\ TimersRun
    /\ pending # {}
    /\ MayFlush
    /\ pending' = {} /\ inFlight' = inFlight \cup pending /\ left' = pending
    /\ watch' = "batch"
    /\ state' = "indexing"
    /\ UNCHANGED <<disk, watcher, stop, stopped, error, restart, supervisor,
                   refresh, ready, count, disturbed>>

\* refresh_files takes the first file of those left.
RefreshFile ==
    /\ watch = "batch" /\ left # {}
    /\ stale' = stale \ {Min(left)}
    /\ left' = left \ {Min(left)}
    /\ UNCHANGED <<headMoved, watcher, pending, inFlight, loop, supervisor,
                   refresh, state, ready, count, disturbed>>

\* Mutant: a failed batch is given up.
GivenUp(batch) == pending

\* _pending after a failed batch.
Requeued(batch) == pending \cup batch

\* A refresh raises: the whole batch is queued again.
BatchFails ==
    /\ watch = "batch" /\ left # {}
    /\ pending' = Requeued(inFlight)
    /\ inFlight' = {} /\ left' = {}
    /\ watch' = "waiting"
    /\ state' = "failed"
    /\ UNCHANGED <<disk, watcher, stop, stopped, error, restart, supervisor,
                   refresh, ready, count, disturbed>>

BatchDone ==
    /\ watch = "batch" /\ left = {}
    /\ inFlight' = {}
    /\ watch' = "waiting"
    /\ state' = "done"
    /\ UNCHANGED <<disk, watcher, pending, left, stop, stopped, error, restart,
                   supervisor, refresh, ready, count, disturbed>>

\* The loop wakes up to be stopped and cancels the watcher task.
StopSeen ==
    /\ watch = "waiting" /\ stop = "set"
    /\ watch' = "closing"
    /\ fill' = "none" /\ events' = {}
    /\ UNCHANGED <<disk, queue, stop, stopped, error, restart, supervisor,
                   refresh, state, ready, count, disturbed>>

\* The interval ends and _watch_stop is None: the attribute error ends
\* consume_watch.
LoopFails ==
    /\ watch = "waiting" /\ stop = "none" /\ TimersRun
    /\ watch' = "dead"
    /\ fill' = "none" /\ events' = {}
    /\ UNCHANGED <<disk, queue, stop, stopped, error, restart, supervisor,
                   refresh, state, ready, count, disturbed>>

\* wait_for_watch_restart: a switch ended, or the watcher failed.
Restart ==
    \/ /\ restart
       /\ restart' = FALSE
       /\ StartWatch
    \/ /\ ~restart /\ error
       /\ watch' = "settling" /\ error' = FALSE
       /\ UNCHANGED <<fill, events, stop, restart>>

\* start_watch ends; consume_watch asks at once for a restart.
CloseWatch ==
    /\ watch = "closing"
    /\ woken' = (woken \/ git = "stopping")
    /\ \/ Restart
       \/ /\ ~restart /\ ~error
          /\ watch' = "restarting"
          /\ UNCHANGED <<watcher, stop, error, restart>>
    /\ stopped' = IF watch' = "waiting" THEN "clear"
                  ELSE IF stopped = "none" THEN "none" ELSE "set"
    /\ UNCHANGED <<disk, queue, git, refresh, state, ready, count, disturbed>>

\* It asks again every 0.1 s.
PollRestart ==
    /\ watch = "restarting" /\ TimersRun
    /\ Restart
    /\ stopped' = IF watch' = "waiting" THEN "clear" ELSE stopped
    /\ UNCHANGED <<disk, queue, supervisor, refresh, state, ready, count,
                   disturbed>>

\* 0.25 s after a failure the watch starts again.
Settle ==
    /\ watch = "settling" /\ TimersRun
    /\ StartWatch
    /\ stopped' = "clear"
    /\ UNCHANGED <<disk, queue, restart, supervisor, refresh, state, ready,
                   count, disturbed>>

----------------------------------------------------------------------------
(* The branch watcher.                                                     *)

\* Mutant: stop_watch does not wait for the loop.
WaitsNever == FALSE

\* stop_watch waits for a loop that has not stopped yet.
Waits == stop # "none" /\ stopped = "clear"

\* _handle_branch_switch after stop_watch, down to the wait for the lock.
BeginReindex ==
    /\ stop' = "none" /\ stopped' = "none"
    /\ pending' = {} /\ inFlight' = {}
    /\ cancelled' = (cancelled \cup {token}) \ {"switch", "none"}
    /\ token' = "switch"
    /\ dir' = [dir EXCEPT !["switch"] = "locking"]
    /\ state' = IF lock = "none" THEN state ELSE "waiting"
    /\ git' = "reindexing" /\ woken' = FALSE

\* watch_git_head reads another HEAD: the gate closes and the watch stops.
NoticeHead ==
    /\ git = "polling" /\ headMoved
    /\ headMoved' = FALSE
    /\ ready' = FALSE
    /\ fill' = IF stop # "none" /\ fill = "running" THEN "none" ELSE fill
    /\ events' = IF stop # "none" THEN {} ELSE events
    /\ \/ /\ Waits
          /\ stop' = "set"
          /\ git' = "stopping" /\ woken' = FALSE
          /\ UNCHANGED <<stopped, pending, inFlight, refresh, state>>
       \/ /\ ~Waits
          /\ BeginReindex
          /\ UNCHANGED <<todo, lock, mute>>
    /\ UNCHANGED <<stale, left, watch, error, restart, count, disturbed>>

\* stop_watch drops the events of the watch that is current by now.
WatchStopped ==
    /\ git = "stopping" /\ woken
    /\ BeginReindex
    /\ UNCHANGED <<disk, watcher, left, watch, error, restart, todo, lock, mute,
                   ready, count, disturbed>>

----------------------------------------------------------------------------
(* A directory refresh t: refresh_codebase_index and its caller.           *)

InDir(t, from, to) == dir[t] = from /\ dir' = [dir EXCEPT ![t] = to]

\* Nobody holds the lock, or nobody refreshes the row of the one who does and
\* it becomes stale.
LockFree == lock \in {"none"} \cup mute \cup {t \in Tasks : dir[t] = "off"}

TakeLock(t) ==
    /\ InDir(t, "locking", "walking")
    /\ LockFree /\ lock' = t
    /\ UNCHANGED <<disk, watcher, queue, loop, supervisor, todo, token,
                   cancelled, mute, state, ready, count, disturbed>>

\* A statement on the lock raises out of the task; the token stays.
LockFails(t) ==
    /\ InDir(t, "locking", "off")
    /\ Count("failure") /\ disturbed' = TRUE
    /\ git' = IF t = "switch" THEN "dead" ELSE git
    /\ UNCHANGED <<disk, watcher, queue, loop, woken, todo, token, cancelled,
                   lock, mute, state, ready>>

\* A heartbeat raises: its task ends, the refresh goes on.
HeartbeatFails(t) ==
    /\ dir[t] \in {"walking", "indexing"} /\ t \notin mute
    /\ Count("failure") /\ disturbed' = TRUE
    /\ mute' = mute \cup {t}
    /\ UNCHANGED <<disk, watcher, queue, loop, supervisor, dir, todo, token,
                   cancelled, lock, state, ready>>

\* The walk and the plan find what is stale.
Walk(t) ==
    /\ InDir(t, "walking", "indexing")
    /\ t \notin cancelled
    /\ todo' = [todo EXCEPT ![t] = stale]
    /\ state' = "indexing"
    /\ UNCHANGED <<disk, watcher, queue, loop, supervisor, token, cancelled,
                   lock, mute, ready, count, disturbed>>

IndexFile(t, p) ==
    /\ dir[t] = "indexing" /\ p \in todo[t]
    /\ stale' = stale \ {p}
    /\ todo' = [todo EXCEPT ![t] = @ \ {p}]
    /\ UNCHANGED <<headMoved, watcher, queue, loop, supervisor, dir, token,
                   cancelled, lock, mute, state, ready, count, disturbed>>

\* An error in a batch of _index_files is a warning: what is left of the
\* batch is skipped.
SkipFiles(t, paths) ==
    /\ dir[t] = "indexing" /\ paths # {} /\ paths \subseteq todo[t]
    /\ todo' = [todo EXCEPT ![t] = @ \ paths]
    /\ disturbed' = TRUE
    /\ UNCHANGED <<disk, watcher, queue, loop, supervisor, dir, token, cancelled,
                   lock, mute, state, ready, count>>

\* The last update of the refresh: done, cancelled or failed.
LastUpdate(t, status) ==
    /\ InDir(t, dir[t], "ending")
    /\ \/ status = "done" /\ dir[t] = "indexing" /\ todo[t] = {}
       \/ status = "cancelled" /\ t \in cancelled
          /\ dir[t] \in {"walking", "indexing"}
       \/ status = "failed" /\ dir[t] \in {"walking", "indexing"}
    /\ disturbed' = (disturbed \/ status = "failed")
    /\ todo' = [todo EXCEPT ![t] = {}]
    /\ state' = status
    /\ UNCHANGED <<disk, watcher, queue, loop, supervisor, token, cancelled,
                   lock, mute, ready, count>>

\* Mutant: the token is not dropped.
TokenKept(t) == token

\* _directory_token after t.
TokenAfter(t) == IF token = t THEN "none" ELSE token

\* Mutant: the watch is restarted after a reindex that succeeded.
RestartIfDone(t) == restart \/ (t = "switch" /\ state = "done")

\* _watch_restart after t: a switch sets it whatever became of its reindex.
RestartAfter(t) == restart \/ t = "switch"

\* The lock is released and the caller goes on: the gate opens if the last
\* update of any task was "done".
End(t) ==
    /\ InDir(t, "ending", "off") /\ t \notin mute
    /\ lock' = "none"
    /\ token' = TokenAfter(t)
    /\ cancelled' = cancelled \ {t}
    /\ ready' = (ready \/ state = "done")
    /\ restart' = RestartAfter(t)
    /\ git' = IF t = "switch" THEN "polling" ELSE git
    /\ UNCHANGED <<disk, watcher, queue, watch, stop, stopped, error, woken,
                   todo, mute, state, count, disturbed>>

\* The exception of a dead heartbeat, or of unlock, leaves the caller too:
\* row and token stay, no gate opens, and the branch watcher ends.
EndFails(t) ==
    /\ InDir(t, "ending", "off")
    /\ \/ t \in mute /\ UNCHANGED count
       \/ t \notin mute /\ Count("failure")
    /\ disturbed' = TRUE
    /\ mute' = mute \ {t}
    /\ git' = IF t = "switch" THEN "dead" ELSE git
    /\ UNCHANGED <<disk, watcher, queue, loop, woken, todo, token, cancelled,
                   lock, state, ready>>

----------------------------------------------------------------------------

Refresh(t) ==
    \/ TakeLock(t) \/ LockFails(t) \/ HeartbeatFails(t)
    \/ Walk(t) \/ End(t) \/ EndFails(t)
    \/ \E p \in Paths : IndexFile(t, p)
    \/ \E paths \in SUBSET Paths : SkipFiles(t, paths)
    \/ \E status \in {"done", "cancelled", "failed"} : LastUpdate(t, status)

Next ==
    \/ \E p \in Paths : Edit(p)
    \/ \E paths \in SUBSET Paths : Checkout(paths)
    \/ Deliver \/ WatcherFails
    \/ StartBatch \/ RefreshFile \/ BatchFails \/ BatchDone
    \/ StopSeen \/ LoopFails \/ CloseWatch \/ PollRestart \/ Settle
    \/ NoticeHead \/ WatchStopped
    \/ \E t \in Tasks : Refresh(t)

Spec == Init /\ [][Next]_vars

\* What the loop of the watch does next, but for failed refreshes.
LoopGoesOn ==
    \/ StartBatch \/ RefreshFile \/ BatchDone
    \/ StopSeen \/ LoopFails \/ CloseWatch \/ PollRestart \/ Settle

\* What a directory refresh does next, but for exceptions that it has not met.
RefreshGoesOn(t) ==
    \/ TakeLock(t) \/ Walk(t) \/ End(t)
    \/ \E p \in Paths : IndexFile(t, p)
    \/ \E status \in {"done", "cancelled"} : LastUpdate(t, status)
    \/ t \in mute /\ EndFails(t)

\* The event loop runs every task that is ready, timers expire, and a refresh
\* of finitely many files ends.  Nothing is fair about the workspace and the
\* faults.
Fairness ==
    /\ WF_vars(Deliver) /\ WF_vars(LoopGoesOn)
    /\ WF_vars(NoticeHead \/ WatchStopped)
    /\ \A t \in Tasks : WF_vars(RefreshGoesOn(t))

FairSpec == Spec /\ Fairness

----------------------------------------------------------------------------
(* Properties.                                                             *)

\* A batch of files and a directory refresh, which write to one connection
\* in transactions that awaits interrupt, do not run at the same time: a
\* switch waits for the batch and a batch for the token.  Only a refresh that
\* was cancelled may come by to give up: while it waited for the lock, or one
\* whose heartbeat raised, so that a switch took the lock from it.
NoOverlap ==
    watch = "batch" =>
        \A t \in Tasks :
            /\ dir[t] = "indexing" => t \in cancelled \cap mute
            /\ dir[t] = "walking" => t \in cancelled

\* As long as nothing failed and no branch was checked out, a changed file is
\* on its way: seen by the watcher, pending, in the batch or to be walked.
\* Failed batches are part of it, edits of a file of the batch too.
Accounted ==
    ~disturbed =>
        \/ dir["initial"] \in {"locking", "walking"}
        \/ stale \subseteq events \cup pending \cup inFlight \cup todo["initial"]

\* An error at the lock, which is counted, left the token of a refresh that is
\* over.
TokenLeft == token # "none" /\ dir[token] = "off" /\ count["failure"] > 0

\* A pending path settles, so that the handlers that wait for it are right to
\* tell the client to try again, through failed batches, watcher restarts and
\* branch switches.  What keeps it pending is a token left behind by an error
\* of a statement on the lock, the end of consume_watch, or batches that fail
\* for ever, as with a file whose refresh always raises.
PendingSettles ==
    \A p \in Paths :
        \/ p \in pending ~>
              p \notin pending \cup inFlight \/ watch = "dead" \/ TokenLeft
        \/ []<><<BatchFails>>_vars

\* Each edit reaches the index, through failed batches, unless a checkout, a
\* failure of the watcher, an error at the lock or a skipped file came in
\* between.  A file whose refresh always raises keeps out itself and those
\* after it in its batches, and none of those before it.
EditsReachIndex ==
    \A p \in Paths :
        \/ p \in stale ~> p \notin stale \/ disturbed
        \/ []<><<BatchFails /\ Min(left) <= p>>_vars

\* A watch that was stopped is started again, whatever became of the reindex
\* or of the watcher, unless the branch watcher itself is gone.
WatchComesBack ==
    watch \in {"closing", "restarting", "settling"} ~>
        watch \in {"waiting", "batch"} \/ git = "dead"

\* ARCHITECTURE.md, "refreshes the complete workspace, then restarts
\* watching": consume_watch never ends.
WatchSurvives == watch # "dead"

\* ARCHITECTURE.md, "The MCP handlers reject lookup/materialization while the
\* initial index or a branch reindex is running."
GateClosed == ready => \A t \in Tasks \ cancelled : dir[t] = "off"
============================================================================
