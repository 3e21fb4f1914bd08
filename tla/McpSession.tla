----------------------------- MODULE McpSession -----------------------------
(***************************************************************************)
(* An MCP session: the handlers of capyidx/mcp/handlers.py, which read the *)
(* index and the symbol cache, interleaved by one event loop with the      *)
(* watcher, the refreshes that replace rows, the branch switch that        *)
(* empties the cache, the warm tasks that fill it, and the shutdown of     *)
(* Runtime that has to end them all before it closes the connection.       *)
(*                                                                         *)
(* Between two awaits a handler runs alone: a call that need not wait is   *)
(* one step.  A file has one symbol; its id is fresh whenever the file is  *)
(* indexed again, so an id names one source for ever.  The initial index   *)
(* is done.  How the watch loop restarts, fails and requeues is WatchLoop. *)
(***************************************************************************)
EXTENDS Integers, FiniteSets

CONSTANTS
    Paths,       \* files, as numbers in the order of sorted()
    Branches,    \* branches of the repository
    Startup,     \* the branch at startup, whose tag SymbolLookup keeps
    Differ,      \* the sets of files that a checkout may change
    Requests,    \* concurrent calls of get_symbol and get_symbol_range
    MaxChanges,  \* bound: edits and checkouts
    MaxWarm,     \* bound: warm tasks at once
    MaxCached    \* bound: symbols that fit in the cache

ASSUME PathAssumption == Paths \subseteq Nat
ASSUME BranchAssumption == Startup \in Branches
ASSUME DifferAssumption == Differ \subseteq SUBSET Paths
ASSUME BoundAssumption ==
    /\ MaxChanges \in Nat /\ MaxWarm \in Nat /\ MaxCached \in Nat

VARIABLES
    \* the workspace
    version,   \* the change that gave each file its contents
    changes,   \* edits and checkouts so far
    head,      \* the branch checked out
    \* the index
    rows,      \* the symbols with rows, each with a tag of its chunks
    \* the watcher and the refreshes
    events,    \* changes on their way to the watcher
    pending,   \* _pending
    inFlight,  \* _in_flight
    work,      \* what refreshes files: nothing, a batch or a switch
    todo,      \* the files it has yet to read
    tag,       \* the branch it has read, for the next file or for all
    reading,   \* the file it has read but not yet replaced
    watch,     \* where consume_watch is
    git,       \* where watch_git_head is
    last,      \* the branch it saw last
    ready,     \* _system_ready
    \* the handlers
    cache,     \* the symbols in _cache
    warm,      \* _warm_tasks
    req,       \* the calls
    \* Runtime.shutdown
    server,
    \* history
    late,      \* the cached symbols that were put too late
    missed,    \* files edited while nobody watched and not read since
    astray,    \* files read last for another branch than the one seen last
    swallowed  \* did a task survive its cancellation?

workspace == <<version, changes, head>>
refresh == <<pending, inFlight, work, todo, tag, reading>>
handlers == <<cache, warm, req, late>>
tasks == <<watch, git, last, ready>>
vars == <<workspace, rows, events, refresh, tasks, handlers, server, missed,
          astray, swallowed>>

Symbols == [path : Paths, version : 0 .. MaxChanges]

Current(p) == [path |-> p, version |-> version[p]]

None == {}

\* Where a call is, and with which symbols.
Turns == [phase : {"idle", "hit", "miss", "served"}, symbol : SUBSET Symbols]

\* What is being read or has yet to be read belongs to the refresh in progress.
WorkType ==
    /\ work \in {"idle", "batch", "switch"}
    /\ todo \subseteq Paths
    /\ tag \subseteq Branches /\ reading \subseteq Symbols \X Branches
    /\ work = "idle" => todo = {} /\ reading = None
    /\ work # "switch" /\ todo = {} /\ reading = None => tag = None
    /\ work = "batch" => todo \cup {row[1].path : row \in reading} \subseteq inFlight
    /\ work = "batch" => watch \in {"on", "stopping"}
    /\ work = "switch" <=> git = "reindexing"

TypeOK ==
    /\ WorkType
    /\ version \in [Paths -> 0 .. MaxChanges] /\ changes \in 0 .. MaxChanges
    /\ head \in Branches
    /\ rows \subseteq Symbols \X Branches
    /\ events \subseteq Paths /\ pending \subseteq Paths /\ inFlight \subseteq Paths
    /\ watch \in {"on", "stopping", "stopped", "restarting", "ended"}
    /\ git \in {"polling", "stopping", "reindexing", "ended"}
    /\ last \in Branches /\ ready \in BOOLEAN
    /\ cache \subseteq Symbols /\ late \subseteq cache
    /\ warm \subseteq [shown : SUBSET Symbols, selected : BOOLEAN]
    /\ req \in [Requests -> Turns]
    /\ server \in {"up", "drain", "branches", "watch", "closed"}
    /\ missed \subseteq Paths /\ astray \subseteq Paths /\ swallowed \in BOOLEAN

Idle == [phase |-> "idle", symbol |-> {}]

Init ==
    /\ version = [p \in Paths |-> 0] /\ changes = 0
    /\ head = Startup
    /\ rows = {<<Current(p), Startup>> : p \in Paths}
    /\ events = {} /\ pending = {} /\ inFlight = {}
    /\ work = "idle" /\ todo = {} /\ tag = None /\ reading = None
    /\ watch = "on" /\ git = "polling" /\ last = Startup /\ ready = TRUE
    /\ cache = {} /\ warm = {} /\ late = {}
    /\ req = [r \in Requests |-> Idle]
    /\ server = "up"
    /\ missed = {} /\ astray = {} /\ swallowed = FALSE

----------------------------------------------------------------------------
(* The workspace.                                                          *)

Watching == watch = "on"

\* New contents for some files, as the watcher sees it.
Changes(paths) ==
    /\ changes < MaxChanges /\ changes' = changes + 1
    /\ version' = [p \in Paths |-> IF p \in paths THEN changes + 1 ELSE version[p]]
    /\ events' = IF Watching THEN events \cup paths ELSE events
    /\ missed' = IF Watching THEN missed ELSE missed \cup paths

Edit(p) ==
    /\ Changes({p})
    /\ UNCHANGED <<head, rows, refresh, tasks, handlers, server, astray,
                   swallowed>>

\* git checkout changes some files, or none.
Checkout(b, paths) ==
    /\ b # head /\ head' = b
    /\ Changes(paths)
    /\ UNCHANGED <<rows, refresh, tasks, handlers, server, astray, swallowed>>

----------------------------------------------------------------------------
(* The watcher and the refresh of a batch.                                 *)

\* pending_paths
PendingPaths == pending \cup inFlight

\* Mutant: the watcher leaves the cache to the refresh.
StillCached(paths) == cache

\* The cache once the symbols of some paths are invalidated.
Invalidated(paths) == {s \in cache : s.path \notin paths}

\* The cache with what is kept of it.
Keep(kept) == cache' = kept /\ late' = late \cap kept

\* _fill takes a batch of changes.
Deliver ==
    /\ Watching /\ events # {}
    /\ pending' = pending \cup events
    /\ Keep(Invalidated(events))
    /\ events' = {}
    /\ UNCHANGED <<workspace, rows, inFlight, work, todo, tag, reading, tasks, warm,
                   req, server, missed, astray, swallowed>>

\* Mutant: a batch leaves the pending set and is nowhere.
NotInFlight(batch) == inFlight

\* _in_flight once a batch has started.
InFlightWith(batch) == inFlight \cup batch

\* The flush interval ends.
StartBatch ==
    /\ Watching /\ work = "idle" /\ pending # {}
    /\ pending' = {} /\ inFlight' = InFlightWith(pending)
    /\ work' = "batch" /\ todo' = pending
    /\ UNCHANGED <<workspace, rows, events, tag, reading, tasks, handlers, server,
                   missed, astray, swallowed>>

\* get_branch: a batch asks before each file, a switch once, after its walk.
ReadBranch ==
    /\ todo # {} /\ tag = None /\ reading = None
    /\ tag' = {head}
    /\ UNCHANGED <<workspace, rows, events, pending, inFlight, work, todo, reading,
                   tasks, handlers, server, missed, astray, swallowed>>

\* The files astray once p is read for branch b.
AstrayWith(p, b) == IF b = last THEN astray \ {p} ELSE astray \cup {p}

\* The next file is read, for the branch that was checked out before.
ReadFile ==
    /\ reading = None
    /\ \E b \in tag, p \in todo :
       /\ \A q \in todo : p <= q
       /\ todo' = todo \ {p}
       /\ reading' = {<<Current(p), b>>}
       /\ missed' = missed \ {p}
       /\ astray' = AstrayWith(p, b)
    /\ UNCHANGED <<workspace, rows, events, pending, inFlight, work, tag, tasks,
                   handlers, server, swallowed>>

\* Mutant: a refresh adds the new symbols and forgets the old ones.
OldKept(s, b) == rows \cup {<<s, b>>}

\* The rows once s replaces the symbols of its path on a branch.
Replaced(s, b) ==
    {row \in rows : row[1].path # s.path \/ row[2] # b} \cup {<<s, b>>}

\* Its rows are replaced, without an await in between.
WriteFile ==
    \E row \in reading :
        /\ rows' = Replaced(row[1], row[2])
        /\ reading' = None
        /\ tag' = IF work = "batch" THEN None ELSE tag
        /\ UNCHANGED <<workspace, events, pending, inFlight, work, todo, tasks,
                       handlers, server, missed, astray, swallowed>>

BatchDone ==
    /\ work = "batch" /\ todo = {} /\ reading = None
    /\ work' = "idle" /\ inFlight' = {}
    /\ watch' = IF watch = "stopping" THEN "stopped" ELSE watch
    /\ UNCHANGED <<workspace, rows, events, pending, todo, tag, reading, git, last,
                   ready, handlers, server, missed, astray, swallowed>>

----------------------------------------------------------------------------
(* The branch switch.                                                      *)

\* current == last is false.
AnotherHead == head # last

\* watch_git_head reads another HEAD: the gate closes, the watcher is
\* cancelled with what it has not delivered, and the loop is asked to stop.
NoticeHead ==
    /\ git = "polling" /\ AnotherHead
    /\ last' = head /\ ready' = FALSE
    /\ git' = "stopping"
    /\ missed' = missed \cup events
    /\ events' = {}
    /\ watch' = IF ~Watching THEN watch
                ELSE IF work = "batch" THEN "stopping" ELSE "stopped"
    /\ UNCHANGED <<workspace, rows, refresh, handlers, server, astray, swallowed>>

\* The loop has stopped: everything pending is dropped, every file is read.
BeginReindex ==
    /\ git = "stopping" /\ watch # "stopping"
    /\ git' = "reindexing"
    /\ pending' = {} /\ inFlight' = {}
    /\ Keep({})
    /\ work' = "switch" /\ todo' = Paths
    /\ UNCHANGED <<workspace, rows, events, tag, reading, watch, last, ready, warm,
                   req, server, missed, astray, swallowed>>

\* _watch_restart is set; a watch that runs does not look at it.
RestartAsked == IF watch = "stopped" THEN "restarting" ELSE watch

\* The gate opens and consume_watch is told to start again.
EndReindex ==
    /\ work = "switch" /\ todo = {} /\ reading = None
    /\ work' = "idle" /\ tag' = None
    /\ git' = "polling" /\ ready' = TRUE
    /\ watch' = RestartAsked
    /\ UNCHANGED <<workspace, rows, events, pending, inFlight, todo, reading, last,
                   handlers, server, missed, astray, swallowed>>

\* consume_watch looks every 0.1 s; stop_watch does not wait for that.
RestartWatch ==
    /\ watch = "restarting" /\ git # "stopping"
    /\ watch' = "on"
    /\ UNCHANGED <<workspace, rows, events, refresh, git, last, ready, handlers,
                   server, missed, astray, swallowed>>

----------------------------------------------------------------------------
(* The handlers.                                                           *)

\* What reconstruct finds: the tag is that of the branch at startup.
Live(s) == <<s, Startup>> \in rows

\* Is it too late to put s: its path was invalidated before, or the cache
\* was cleared, or s was replaced?
TooLate(s) == s.path \in PendingPaths \/ ~ready \/ ~Live(s)

\* The cache may evict anything for the symbols that are put.
Put(symbols) ==
    \E kept \in SUBSET (cache \cup symbols) :
        /\ Cardinality(kept) <= MaxCached
        /\ cache' = kept
        /\ late' = kept \cap ((late \ symbols) \cup {s \in symbols : TooLate(s)})

\* handle_symbol_lookup: the symbols of a name that several files may define;
\* a single match is read at once, and a warm task is left behind.
Lookup(paths) ==
    LET found == {s \in Symbols : s.path \in paths /\ Live(s)} IN
    /\ server = "up" /\ ready
    /\ found # {} /\ Cardinality(warm) < MaxWarm
    /\ warm' = warm \cup {[shown |-> found, selected |-> Cardinality(found) = 1]}
    /\ UNCHANGED <<workspace, rows, events, refresh, tasks, cache, req, late,
                   server, missed, astray, swallowed>>

\* What a warm task caches: the selected symbol as the call read it, the
\* others as it reads them now.
Warmed(task) == IF task.selected THEN task.shown ELSE {s \in task.shown : Live(s)}

\* _warm_cache
RunWarm ==
    \E task \in warm :
        /\ Put(Warmed(task))
        /\ warm' = warm \ {task}
        /\ UNCHANGED <<workspace, rows, events, refresh, tasks, req, server, missed,
                       astray, swallowed>>

Turn(r, phase, s) == req' = [req EXCEPT ![r] = [phase |-> phase, symbol |-> {s}]]

\* _load_symbol and the answer, for a symbol that was cached at the call.
AnswerHit(r, s) ==
    /\ s \in cache \/ Live(s)
    /\ Turn(r, "served", s)
    /\ UNCHANGED <<cache, late>>

\* The answer to a symbol that was read from the index: it is cached.
AnswerMiss(r, s) ==
    /\ Turn(r, "served", s)
    /\ Put({s})

\* The call has returned: an answer, PATH_PENDING or SYMBOL_NOT_FOUND.
EndCall(r) ==
    /\ req' = [req EXCEPT ![r] = Idle]
    /\ UNCHANGED <<cache, late>>

\* Mutant: the path is not looked at.
NeverPending(s) == FALSE

\* _path_is_pending
PathIsPending(s) == s.path \in PendingPaths

\* handle_get_symbol and handle_get_symbol_range, up to their first wait.  A
\* symbol that is neither cached nor in the index is refused at once.
Call(r, s) ==
    /\ server = "up" /\ ready
    /\ req[r].phase = "idle"
    /\ \/ s \in cache /\ ~PathIsPending(s) /\ AnswerHit(r, s)
       \/ s \notin cache /\ Live(s) /\ ~PathIsPending(s) /\ AnswerMiss(r, s)
       \/ /\ s \in cache \/ Live(s)
          /\ PathIsPending(s)
          /\ Turn(r, IF s \in cache THEN "hit" ELSE "miss", s)
          /\ UNCHANGED <<cache, late>>
    /\ UNCHANGED <<workspace, rows, events, refresh, tasks, warm, server, missed,
                   astray, swallowed>>

\* wait_for_path_ready wakes up: the path has left the sets, or time is up.
Wake(r) ==
    \E s \in req[r].symbol :
        /\ \/ req[r].phase = "hit" /\ ~PathIsPending(s) /\ AnswerHit(r, s)
           \/ req[r].phase = "miss" /\ ~PathIsPending(s) /\ AnswerMiss(r, s)
           \/ req[r].phase = "hit" /\ ~(s \in cache \/ Live(s)) /\ EndCall(r)
           \/ req[r].phase \in {"hit", "miss"} /\ PathIsPending(s) /\ EndCall(r)
        /\ UNCHANGED <<workspace, rows, events, refresh, tasks, warm, server, missed,
                       astray, swallowed>>

\* The response is sent.
Respond(r) ==
    /\ req[r].phase = "served"
    /\ EndCall(r)
    /\ UNCHANGED <<workspace, rows, events, refresh, tasks, warm, server, missed,
                   astray, swallowed>>

----------------------------------------------------------------------------
(* Runtime.shutdown.  The MCP library ends the calls first.                *)

Shutdown ==
    /\ server = "up" /\ \A r \in Requests : req[r].phase = "idle"
    /\ server' = "drain"
    /\ UNCHANGED <<workspace, rows, events, refresh, tasks, handlers, missed,
                   astray, swallowed>>

\* Mutant: the warm tasks are left to themselves.
NotDrained == TRUE

\* drain_warm_tasks has nothing left to wait for.
Drained == warm = {}

\* Mutant: stop_watch does not let itself be cancelled.
CancelledLater(where) == IF where = "stopping" THEN where ELSE "ended"

\* watch_git_head once a cancellation has reached it.
Cancelled(where) == "ended"

\* The branch watcher is cancelled.  A refresh turns the cancellation into
\* its last update, unless it strikes while the update is being sent.
CancelBranches ==
    /\ server = "drain" /\ Drained
    /\ server' = "branches"
    /\ \/ /\ git' = Cancelled(git)
          /\ work' = IF git = "reindexing" THEN "idle" ELSE work
          /\ UNCHANGED <<watch, swallowed>>
       \/ /\ git = "reindexing"
          /\ git' = "polling" /\ work' = "idle"
          /\ watch' = RestartAsked
          /\ swallowed' = TRUE
    /\ todo' = IF work = "switch" THEN {} ELSE todo
    /\ tag' = IF work = "switch" THEN None ELSE tag
    /\ reading' = IF work = "switch" THEN None ELSE reading
    /\ UNCHANGED <<workspace, rows, events, pending, inFlight, last, ready, handlers,
                   missed, astray>>

\* The watch is cancelled: amid a batch, the refresh ends and the loop goes on.
CancelWatch ==
    /\ server = "branches" /\ git = "ended"
    /\ server' = "watch"
    /\ IF work = "batch"
       THEN /\ work' = "idle" /\ todo' = {} /\ tag' = None /\ reading' = None
            /\ inFlight' = {}
            /\ swallowed' = TRUE
            /\ UNCHANGED watch
       ELSE /\ watch' = "ended"
            /\ UNCHANGED <<work, todo, tag, reading, inFlight, swallowed>>
    /\ UNCHANGED <<workspace, rows, events, pending, git, last, ready, handlers,
                   missed, astray>>

Close ==
    /\ server = "watch" /\ watch = "ended"
    /\ server' = "closed"
    /\ UNCHANGED <<workspace, rows, events, refresh, tasks, handlers, missed,
                   astray, swallowed>>

Next ==
    \/ \E p \in Paths : Edit(p)
    \/ \E b \in Branches, paths \in Differ : Checkout(b, paths)
    \/ Deliver \/ StartBatch \/ ReadBranch \/ ReadFile \/ WriteFile \/ BatchDone
    \/ NoticeHead \/ BeginReindex \/ EndReindex \/ RestartWatch
    \/ \E paths \in SUBSET Paths : Lookup(paths)
    \/ RunWarm
    \/ \E r \in Requests, s \in Symbols : Call(r, s)
    \/ \E r \in Requests : Wake(r) \/ Respond(r)
    \/ Shutdown \/ CancelBranches \/ CancelWatch \/ Close

\* The event loop runs the warm tasks and the steps of the shutdown; nobody
\* has to edit, to call or to stop the server, and no refresh has to end.
Fairness ==
    /\ WF_vars(RunWarm)
    /\ WF_vars(CancelBranches) /\ WF_vars(CancelWatch) /\ WF_vars(Close)

Spec == Init /\ [][Next]_vars /\ Fairness

----------------------------------------------------------------------------
(* Properties.                                                             *)

\* Nothing is on its way to p: no change, no refresh, no switch.
Settled(p) ==
    /\ p \notin events \cup PendingPaths \cup missed
    /\ git = "polling" /\ ~AnotherHead /\ server = "up"

\* The symbols that the index has of p, on the branch that is checked out,
\* are those of its contents and no others.
ExactOf(p) ==
    {row[1] : row \in {x \in rows : x[1].path = p /\ x[2] = head}} = {Current(p)}

\* Once nothing is on its way to a file, the index is exact of it.  Two things
\* escape: an edit while nobody watched, around a branch switch, and a file
\* astray, read for a branch that HEAD had left again before anybody looked.
SettledIsExact == \A p \in Paths : Settled(p) => p \in astray \/ ExactOf(p)

\* The invalidation of the cache is complete: a cached symbol that the index
\* no longer has was put there late, by a task that had read it before its
\* path changed or before the gate closed; whatever else is cached, lookups
\* would find.
CachedIsIndexed == \A s \in cache \ late : Live(s)

\* get_symbol answers only when the path is neither pending nor in flight,
\* and a source that the index no longer has only if it was read before a
\* wait or put into the cache late.
AnswersTraceable ==
    [][\A r \in Requests :
           req[r].phase # "served" /\ req'[r].phase = "served" =>
           \A s \in req'[r].symbol :
               /\ s.path \notin PendingPaths
               /\ Live(s) \/ req[r].phase = "miss" \/ s \in late]_vars

\* When the connection is closed no task is left that would use it.
ClosedMeansQuiet ==
    server = "closed" =>
        /\ warm = {} /\ git = "ended" /\ watch = "ended" /\ work = "idle"
        /\ \A r \in Requests : req[r].phase = "idle"

\* A shutdown comes to the end, unless a task survived its cancellation
\* amid a refresh: then it waits for that task for ever.
ShutdownEnds == server = "drain" ~> (server = "closed" \/ swallowed)

============================================================================
