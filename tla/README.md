# CapyIdx in TLA+

CapyIdx indexes the symbols of a code base into SQLite and serves them to
language-model clients over MCP. This directory models its core, the
incremental index, the tasks that keep it fresh, the way from a source file
through chunks to an answer, checks the models with TLC and proves the main
invariants with TLAPS. Paths below are relative to
`src/src/capyidx/` unless they name a document.

## Contents

1. Inventory: the system, part by part
2. Modules and how they correspond to the code
3. What the runs check, and their bounds
4. Fairness
5. Proofs
6. Where code and documents disagree
7. Plan and what is not modelled

## 1. Inventory

How a change travels: a **file watcher** sees an edit and hands the path to the
**watch loop**, which notes it as *pending* and invalidates the **symbol
cache**. After the flush interval the loop refreshes its batch of files. Each
refresh asks the **planner** what changed against the **catalog** and has the
**chunk backend** write symbols, chunks and tags. A checkout is seen by the
**branch watcher**, which stops the watch, clears pending work and cache, and
refreshes the whole workspace under the **index lock** that processes share. The
**MCP handlers** answer from cache and database, and refuse while the
**readiness gate** is closed.

| Part | State | Operations | What is hard | What makes it correct |
|---|---|---|---|---|
| Planner and catalog (`base/refresh_index.py`, `db/schema.py`) | `tag_catalog`, `global_cache` | plan a tag (compute, addTag, removeTag, delete, renew); mark an item complete; renew timestamps | several transactions per item; classification before any mark; timestamps against edits during the plan; several versions per path | a changed file is always noticed; the tables name the branches of each content; branches do not disturb each other |
| Chunk backend (`chunker/chunk_codebase_index.py`) | `symbols`, `chunks`, `chunk_tags` | compute, tag, untag, delete an item | three transactions per file; a second read of the file; rows shared by content hash | foreign keys in every crash state; rows of the contents they are filed under |
| Refresh of directories and files (`indexer/codebase_indexer.py`) | cursor, batch, progress | `refresh_dirs`, `refresh_file`, `_index_files`, batches | exception mid-batch, cancellation, crash | the index equals the disk after an undisturbed refresh |
| Walker (`walker/walk_dir.py`, `utils/disk_operations.py`) | listing cache, 30 s | walk, stat, read | stale listings | a refresh sees every file |
| Index lock (`IndexLock`, `_wait_for_db_index`, `_lock_heartbeat`) | rows of `indexing_lock`, `_directory_token` | check, steal, insert, heartbeat, unlock | statements of two processes interleaved, slow holders, crashes, statements that raise | one refresh at a time; no lock held by nobody |
| Watch loop, branch switch, readiness (`indexer/codebase_indexer.py`) | `_pending`, `_in_flight`, `_watch_*` events, `_state`, `_system_ready` | `start_watch`, `stop_watch`, `wait_for_watch_restart`, `watch_git_head` | four tasks sharing fields across awaits; failed batches; watcher and lock failures; HEAD compared only when nothing else is awaited | no edit is forgotten; refreshes do not overlap; the watch comes back; the gate is closed during refreshes |
| Symbol cache (`mcp/cache.py`) | map, LRU order, index by path, bytes | get, put, clear, invalidate a path | three structures kept in step by hand; replacement and eviction | exact index and byte count; nothing of an invalidated path |
| File watchers (`watcher/file_watcher.py`) | observer, queue, snapshots | watch | debounce, failure | delivers every change while it runs |
| MCP runtime (`mcp/runtime.py`, `server.py`) | tasks, connection | build, shutdown | cancellations that a refresh turns into a status; shutdown against running tasks | the connection closes last, and closes |
| MCP handlers (`mcp/handlers.py`, `tools.py`) | warm tasks, waiting calls | `symbol_lookup`, `get_symbol`, `get_symbol_range` | a symbol read before an await and cached after it; truncation and ranges counted in lines | a stale source has a known origin; a client that reads on gets all of a symbol |
| Lookup (`retrieval/`), public API (`api.py`) | tags of the start | find, reconstruct, resolve | tags of another branch; pieces put together in order; limits | finds what the branch has and nothing else; code comes whole and in order |
| Chunker (`chunker/*.py`) | none | walk the tree, collapse classes, split functions, pack text | a token budget with boundaries at statements, lines and characters | nothing of a symbol is lost or repeated; every symbol can be inserted |
| Other backends (`fts/`, `codesnippet/`, `lance_db/`), embeddings, tokens, paths, ignore rules, Tree-sitter tables, database files | little or none | pure functions and adapters | - | - |

`PROJECT.json` lists each part with its status, and under *hazards* what can go
wrong in it, at the line, with the properties that would notice.

## 2. Modules

```
RefreshPlan <--- IndexRefresh <--- IndexQuiet <--- IndexRefreshProofs
                 IndexRefresh                                MCIndexRefresh
SymbolStore <~~~ SymbolCache  <--- SymbolCacheProofs         MCSymbolCache
                 IndexLock    <--- IndexLockProofs           MCIndexLock
                 WatchLoop    <--- WatchLoopProofs           MCWatchLoop
                 McpSession   <--- McpSessionProofs          MCMcpSession
Texts <--- SymbolLookup <--- Retrieval
                                  Retrieval <--- RetrievalProofs
Texts <--- Chunker, Retrieval <--- RetrievedSource           MCRetrieval
           RetrievedSource, RetrievalProofs <--- ChunkerProofs <--- KeptSourceProofs
```
(`<---` EXTENDS, `<~~~` refines)

**RefreshPlan** is the planner as operators over the tables: what
`get_add_remove_for_tag` finds new, changed, gone or merely touched, and how
`get_compute_delete_add_remove` sorts it by `global_cache`. Keys are SHA-256
hashes, modelled as an injective constructor. There is one directory and one
artifact, so a tag is its branch.

**IndexRefresh** runs the plan against the tables, one refresh at a time, with
one action per transaction. `pc` walks discovered, statted, timed (the time of
the plan is taken *before* the plan reads), batch, next, then per item: read,
wipe, symbols, chunks, mark the catalog, mark `global_cache`. In between, files
are edited, the branch changes, a batch aborts with an exception
(`AbortBatch`), and the refresh is cancelled or dies (`Interrupt`). The symbol
tree of a file is one row, and so are its chunks: the properties ask only whose
rows they are and which text they were cut from. The reads of one plan happen
at one moment, as do the walk and the read of the branch; the reread of the
chunker, which is later, is a read of its own. **IndexQuiet** has the
inductive invariants of the refreshes that nothing disturbs (section 5).

**SymbolCache** has `entries`, the order `older` in which they are evicted,
`byPath` and `bytes`; each method of the class is one action, because none
awaits. **SymbolStore** is what the handlers rely on: a store that may forget
when something is put, and whose invalidation takes exactly the symbols of its
paths. `invalid`, a history variable, makes an invalidation that leaves a symbol
behind differ from a step that merely forgets.

**IndexLock** has the rows of `indexing_lock` in order of their ids, with an age
since the last heartbeat, and for each caller of `refresh_codebase_index` the
place it is at. Statements of different processes interleave freely; tasks of
one process change only where the code awaits, so the check and the insert of
one caller have other *processes* in between but no other task (`HasLoop`). A
tick is 5 s, the heartbeat. Any statement on the table may raise. Out of
`is_locked`, `lock` and `unlock` the exception ends the refresh (`StatementFails`);
`_lock_heartbeat` catches only its cancellation, so an exception of its update ends
the heartbeat while the refresh goes on (`mute`), and comes out of
`await timestamp_task` in front of the unlock (`FinishMute`). `by` and `left` of a
row are history: who inserted it, and whether a crash or such an exception left it.

**WatchLoop** has the tasks of one server: the task that fills `pending`, the
loop of `start_watch` with its restarts in `consume_watch`, `watch_git_head`
with `stop_watch`, and the two directory refreshes (initial index, reindex after
a switch). Each action runs from one await to the next. `git = "stopping"` is
the await in `stop_watch`; `woken` is set when the event it waits for is set,
even if a new watch has replaced that event since. `TimersRun` says that the
event loop runs a woken task before a later timer. `stale` is the set of files
whose rows are not those of the disk. The lock is seen from this server: its
statements may raise here too, and then `End` does not happen but `EndFails`, which
leaves row and token (`TokenLeft`) and ends the branch watcher if it was its
refresh. Refreshes may fail as often as they like. A refresh of a file is one step at the
moment it reads it: that an edit *during* a refresh is noticed is what
`StaleIsDetectable` proves of IndexRefresh, together with the event that the
watcher sees. There is one workspace root, hence one branch watcher.

**McpSession** composes the server: the watcher, batches of refreshed files, the
branch switch, the warm tasks, concurrent calls and `Runtime.shutdown` on one
event loop, over the rows, the cache and the pending sets that they share. A
file has one symbol, and its id is fresh whenever its rows are replaced (the
code draws uuids), so an id names one source for ever; `rows` says on which
branch. A call that need not wait is one step; one that waits for a pending path
continues in `Wake`, with the symbol it has read (`miss`) or found cached
(`hit`). `last` is HEAD as the branch watcher read it last; another HEAD is noticed only
by comparison with it. A refresh asks for the branch before it reads files and files
them under that `tag` (`ReadBranch`, `ReadFile`): a reindex asks once after its walk, a
batch before each file, so HEAD may leave in between. `Differ` has the sets of files
that a checkout may change, the empty one included. A warm task puts later what a lookup showed. The cache is the one of
SymbolStore: it may forget anything when something is put. `late` marks what was
cached after the invalidation it should have suffered, `missed` the files edited
while nobody watched, `astray` those read last for another branch than `last`,
`swallowed` a task that survived its cancellation; they
are history variables. The MCP library ends its request handlers before the
lifespan's `finally` calls `shutdown`: that is assumed of it (`Shutdown`). The
initial index is done; how the watch loop fails and restarts is WatchLoop.

**Chunker** is the chunker as operators on syntax trees: the walk that makes
symbols and their parents (`code.py`), the overview of a class too large for a
chunk (`CollapseChildren`), the cutting of a large function into groups of
statements, then lines, then characters, under the budget its header leaves
(`EmitBodyChunks`, `SplitOversized`), text files (`basic.py`), and the choice
among these and the dropping of what is still too large (`chunk.py`).
`ExpRaises` says where the chunker of `exp_chunk.py` raises. Texts (module
**Texts**) are sequences of atoms, an atom being a character with its line and
column and costing one token, so that a property can ask for every character by
name. Tokens are additive and indentation is left out. There are two kinds of line end:
the newline `NL`, by which tree-sitter numbers rows, and `FF`, which stands for the
ends that only `str.splitlines()` knows (form feed, vertical tab, a lone carriage
return, U+0085, U+2028 and others). `NL` numbers symbols; both end lines where the
code calls `splitlines()`, and both are blank to `strip()`. The syntax tree comes from an external parser. It is a function from places
to nodes, a place being the child indices from the root to the node; `IsTree`
says which functions are trees. The recursion of `walk` is stated by what it comes
to: of a declaration the children of its body, of any other node all (`Walked`),
a node before those in it and siblings from left to right, which is the
lexicographic order of the places (`InWalkOrder`), with the symbol of the nearest
declaration above as parent (`Owner`). `_collect_units` is a recursive function on
the places of the tree.

**SymbolLookup** is `retrieval_pipeline.py` as operators on the rows: scope by tag
and path, the three ways a name matches, duplicates, the chain of pieces, the
signature and the tree of children, `max_lines`; and the truncation and ranges
of `handlers.py`. The order of uuids is that of the tree, and ties of a chunk
index are left out. The matches of a name are a set: their order only decides
which of two duplicates is kept. **Retrieval** is the state machine on top:
`IndexFile` inserts what the chunker made of a file (either chunker: the one live
indexing imports and the one it used to), then a client looks up, opens, reads on,
asks for ranges or uses the api (`lookup_symbol` and `resolve_lookup`, which treat
`max_lines` differently). The index does not change while it is read, since
IndexRefresh and McpSession are about that. What the chunker makes of each file is
the constant `Chunked`, of which only `WellFormed` is assumed, so that Retrieval
can be proved about. **RetrievedSource** gives `Chunked` the value `PackedFiles`, the
output of Chunker, says what is assumed of parsed files (`IsFile`), and has the
properties that compare what is read with the source; those that compare it with
the code that a symbol's rows hold are Retrieval's. Both runs use it, so TLC checks
there that the output of Chunker is well formed and that the files are as assumed.

Mutants: some definitions have a neighbour marked `Mutant:`, the same definition
with a plausible bug. Each property is violated when its mutant takes the place
of the definition.

## 3. Runs

| Run | What it shows | Bounds |
|---|---|---|
| `refresh_quiet` | the index agrees with the disk after an undisturbed directory refresh (`AgreesAfterRefresh`), branches do not disturb each other (`BranchIsolation`), catalog and `global_cache` are exact between refreshes, chunks were cut from the contents whose hash they are filed under (`RowsMatchKey`) | 2 paths, 2 branches, 5 clock steps, edits and checkouts between refreshes |
| `refresh_faults` | foreign keys in every crash state and `StaleIsDetectable`, with edits at any point | 1 path, 2 faults, 6 clock steps |
| `symbol_cache` | exact index, exact bytes, refinement of SymbolStore | 4 sizes of sources, 2 paths, several ids |
| `index_lock` | `LatestWins`, `RowsOwned`, `StaleMeansNobody`, and no caller locked out for ever | 2 processes, 3 callers, 2 crashes or failed statements, stale after 2 ticks, delays of 1 tick |
| `watch_loop` | `NoOverlap`; no changed file is forgotten (`Accounted`), pending paths settle (`PendingSettles`), edits reach the index (`EditsReachIndex`), a stopped watch comes back (`WatchComesBack`) | 2 files, 3 edits or checkouts, 1 failure of the watcher or of a statement on the lock, any number of failed refreshes |
| `mcp_session` | the index is exact of a file once nothing is on its way to it, or the file is `astray` (`SettledIsExact`); what a stale cache entry or answer comes from (`CachedIsIndexed`, `AnswersTraceable`), nothing runs when the connection is closed, and a shutdown ends unless a cancellation was swallowed (`ShutdownEnds`) | 2 files, of which a checkout changes one, 3 edits or checkouts, 1 call and 1 warm task at a time, 1 cached symbol |
| `retrieval` | files can be inserted (`InsertsAccepted`); nothing of a function, class or text is lost or repeated by cutting it (`KeepsStatements`, `OverviewKeeps`, `TextKeepsLines`, `OnlyUnsplittableDropped`); a client that reads on gets all (`ReadsAreWhole`, `ReadingAdvances`); lookups find their branch's symbols only (`FindsThisBranch`); `LimitHonoured` | over 250 repositories of 1 or 2 files, some with form feeds, 8 tokens a chunk, answers of 4, 8 and 60 characters |
| `refresh_shared`, `lock_exclusion`, `watch_death`, `watch_gate`, `range_lines` | one documented statement each that the code does not keep (section 6) | smallest instance with the case |

Why the bounds are enough. Two branches and two paths are the least with which
rows are shared and versions pile up; a second plan after a fault needs about
three clock steps. Two faults make a row orphaned *and* a second refresh fail
over it. With two processes and one of them with two callers, every pair of
callers (same process, other process) occurs. Two edits of a file are needed
for an edit during the refresh of an earlier one, two checkouts for a switch
during the end of another, and three for HEAD to be noticed on a branch, to leave it
while the reindex asks for the branch, and to return unseen. With two files, one that
always fails stands before the other or behind it. `watch_loop` passes with two
failures as well (372,860 states). A batch of 200 files becomes `BatchSize` 1, so that
a second batch exists.

In `mcp_session`, two files of one name make a lookup without a single match, the
second change comes while the first is pending, in flight or cached, and checkouts
bring the session back to the branch it started on. One of the files differs between
the branches and the other does not. One call suffices:
calls meet only in the cache, which the warm task writes as well. In `retrieval`,
heads of 2, 5 and 8 tokens leave a budget of 8 room for statements, for one
short one and for none; bodies hold statements that fit together, alone and not
at all; classes hold nested, decorated, body-less and anonymous members; text
files have lines below, at and above the limit and empty ones. A second file on
another branch, with the same name in it, stands at the same or another path.

`refresh_quiet` gives the two paths no contents in common, since with common
contents the code wipes rows of the other file: that is the finding of
`refresh_shared`, and the properties of `refresh_quiet` hold only outside it.
The millisecond clock never gives an edit the time of the plan before it; an
edit with an equal time is missed by the code's comparison. The run has no edit during
a refresh either: with one, `RowsMatchKey` and `AgreesAfterRefresh` are false
(section 6), and `refresh_faults` checks what then remains true.

What the properties excuse, the code really does. `EditsReachIndex` and `Accounted`
excuse behaviours after a checkout, a failed watcher, an error of a statement on the
lock or a file that a directory refresh skipped (`disturbed`): in these edits are
lost, until the file changes again. `PendingSettles` excuses the token that such an
error leaves behind (`TokenLeft`: insert, heartbeat or unlock raised), after which
nothing is flushed, and the end of `consume_watch`. A batch is worked off in order
and a file that raises ends it, so a file that *always* raises keeps itself and those
behind it out for ever: `EditsReachIndex` promises nothing of a path when the batches
fail again and again at it or before it, `PendingSettles` nothing when they fail again
and again. With the chunker that live indexing imports this is so for every file
with a supported extension (section 6). `SettledIsExact` excuses the edits of
`missed` and the files of `astray`.

Deadlock is not checked where the bounds on edits and checkouts, not the
program, end a behaviour.

## 4. Fairness

`IndexLock` and `WatchLoop` assume weak fairness of the actions of the program:
asyncio runs every ready task, sleeps end, and refreshes of finitely many files
end. No step of the outside world is fair, nor is any fault. `Heartbeat` is fair
because a timer of a responsive loop expires, `Tick` because time passes.
In `WatchLoop` there is one condition for each task: whatever it can do next, it does
(`LoopGoesOn`, `RefreshGoesOn`). An `EndFails` is among it only where the heartbeat has
raised before, since the refresh then can end in no other way; so it is with
`FinishMute` in `IndexLock`.
`StartBatch` is among what the loop can do: it looks at `pending` every flush interval,
and whenever a directory refresh holds the token it goes on to end.
In `McpSession` only the warm tasks and the steps of the shutdown are fair, which is
all that `ShutdownEnds` needs: it begins when somebody has stopped the server, and
no refresh has to end for it. `drain_warm_tasks` cancels the warm tasks that are left after 2 s; one that is
cancelled before it ran is a `RunWarm` that caches nothing.
`Settle` and `PollRestart`, which are sleeps, are part of `LoopGoesOn`: if they never
ended, no watch would come back.

## 5. Proofs

All theorems hold for every value of the constants that satisfies the named
assumptions; none needs finite sets of them. The second half of `IndexRefreshProofs` names what
it assumes beyond that.

* `IndexRefreshProofs`: `TypeCorrect`; `ForeignKeysHold`, from `ForeignKeysInv`,
  which adds that between the two insertions of a file its symbols are there
  (`SymbolsFirst`); `StaleRowsDetectable`, from `DetectableInv`. The property
  alone is not inductive: what will be *marked* must be right as well. So
  `PlanAccurate` says that every item still to be marked names the contents its
  file had when the plan began, unless the file is newer, and `ClockBound` that
  no recorded time is ahead of the clock, so that a new edit is newer than all.
* `IndexRefreshProofs`, second half: what the tables owe to each other when nothing
  disturbs a refresh. `RowsFiledUnderTheirHash` assumes only that no file changes while a
  refresh runs (`StillWorkspace`), and holds across any number of aborts and
  crashes, from `ReadInv`: what the plan hashed is still on disk when the chunker
  reads it, since a batch is worked off before the next one is cut. The other
  four, `CatalogAlwaysBacked`, `GlobalCacheAlwaysExact`, `RefreshAgreesWithDisk`
  and `RefreshIsolatesBranches`, assume `Quiet`: moreover no fault, and no
  content at two paths. Their invariant is `QuietInv`. In the middle of a
  refresh the tables contradict each other, and not only for the operation
  in progress: the plan was made from a catalog that it then changes. So
  `TagsExact` and `GlobalsExact` say that the tables agree *but for* the
  operation in progress, and `PlanInv` what the operations still *pending*
  are worth against the tables of this moment: each is right (`PlanSound`), none
  is missing (`PlanComplete`), and the one that computes or deletes rows has no
  other branch beside it, the one that only tags them has (`PlanAlone`), which
  is why a wipe by hash harms nobody. Marking an operation takes it out of the
  pending ones exactly when the catalog has caught up (`PlanInvByMark`), and a
  plan establishes all of it (`PlanInvByPlan`, from `SuspectsExact`, `AddsExact`,
  `RemovalsExact`). When nothing is pending, the index agrees with the disk
  (`AtEnd`). The renewal of timestamps, which can fail over a duplicate row,
  never does here (`NoConflict`).
* `SymbolCacheProofs`: `IndexAlwaysExact` and `CacheImplementsStore`. `IndexInv`
  has the types, one entry per id, and the exact index. Eviction is proved once
  for any set of entries that goes (`RemovalKeepsIndex`). `CacheTypeCorrect` adds
  the order of the map: any two symbols held stand in one direction
  (`MovedKeepsOrder`, `WithoutKeepsOrder`).
  `BytesAlwaysExact`: the total of a set is a fold that picks
  its elements in an order of its own. The proof first shows that exactly one
  function satisfies the recursion on the subsets of a finite set (`SumsExist`,
  `SumsUnique`), by induction over the *set* of subsets for which it holds
  (`SubsetInduction`), then that any element may go first (`TotalOfOne`) and that
  what leaves takes its total along (`TotalOfRest`). The cache adds that it holds
  finitely many entries.
* `IndexLockProofs`: `LockTypeCorrect`; `LatestAlwaysWins`, from `TokenInv` (a
  caller that is not cancelled has the token of its process);
  `RowsAlwaysOwned`: a row is that of a refresh in progress or was left by a crash or
  an exception of heartbeat or unlock; `StaleAlwaysMeansNobody`, for delays of at most half of the
  time after which a lock is stale, from `AgeInv` (a row is never older than the
  holder's last two delays), of holders whose heartbeat lives.
* `WatchLoopProofs`: `WatchTypeCorrect` and `NeverOverlap`, from one invariant,
  since that no path is left of a batch that a switch cleared, a part of the
  type, needs the switch to wait for the batch. `RefreshInv`: lock, token and
  `watch_git_head` agree on where the refreshes are, one without the token is
  cancelled, and the owner of the token never is. A batch may meet a directory refresh
  only when that was cancelled while it waited for the lock, or after its heartbeat
  raised. `BatchInv`: while a batch
  runs, its watch is the one that `stop_watch` waits for. `ChangesAlwaysAccounted`
  needs more than `Accounted`: a file of the batch that was refreshed already does
  not count as on its way (`OnTheirWay`), since the end of the batch would lose
  it, and nothing stops the first watch meanwhile (`FirstWatch`).
* `McpSessionProofs`: all of the safety of a session, from `SessionInv`.
  `SessionTypeCorrect`; `CachedAlwaysIndexed`, from `CacheInv` (what was put in time
  is not pending, so no refresh that would replace it can be under way unnoticed)
  with `SwitchInv` (the gate is closed while a switch is at work);
  `AnswersAlwaysTraceable`, an action property;
  `ClosedAlwaysQuiet`, from the order of the shutdown (`ShutdownInv`); and
  `IndexSettles`, from `Tracked`: at any moment a file is on its way to be read, or
  has just been read as it is, or the index is exact and nothing older is about
  to be written, all of it for the branch `last`, unless the file was read for another
  one (`astray`).
* `RetrievalProofs` begins with what the operators of SymbolLookup return, for all
  arguments of their types. The first lemma, `UpTo0`, is induction up to a number in the form of a *set* that
  is closed, which is the form these provers can apply; `StepsExist` derives from
  it that a function defined by recursion on a number exists. Then: sequences of
  sequences joined (`FlattenAppend`, `FlattenSplit`); sorting a finite set by a
  strict total order (`InOrderSorts`), which symbols and pieces have (`LexTransitive`,
  `LexTotal`); the lines of a text, where they end and how many there are up to an
  end (`EndsOrdered`, `PrefixCount`, `KeptWhole`, `KeptFrom`); a truncated answer
  ends at a line (`ReturnsLines`); `max_lines` is kept whatever the pieces are
  (`LimitedWithin`); and the tree of children: its definition recurses over rows,
  and it is well founded because every parent was inserted in front of its
  children (`TreeExists`).
  Its theorems: `RetrievalTypeCorrect`, `LookupsFindTheBranch` and
  `ReadingAlwaysAdvances`, for any chunker whose output is `WellFormed`. `RowsInv`
  says that the rows are exactly those of the files inserted, whole; from the
  uniqueness of ids then follows that a tag on a chunk of a file is the tag of
  that file's branch (`ScopeIsBranch`). That a match or a duplicate of it is found
  needs the order of symbols to be one: a finite set of rows has a first
  (`SomeFirst`, from `LexTransitive`). Two assumptions restrict the repositories:
  a branch has one version of a path, which is so once a refresh is done, and no
  two files have the same contents, which IndexRefresh is about. That reading
  advances needs a limit longer than the marker; the handlers pass 12000
  (`CharLimitsAssumption`): below it a truncated answer returns no line and the
  client would ask for the same lines for ever.
  `ReadingGivesTheCode` is that those lines, put one behind the other, are the
  code. `ReadsAreWhole` speaks of the last answer only; the invariant (`SeenInv`,
  `WholeRead`) has to say what has been read while answers are still truncated: the
  code up to the end of a line, and `returned_end_line` is the number of that
  line. `CutReads` carries this over a further answer. It needs the code of a symbol
  to be the same whichever scope asks for it (`ReconstructedCode`).
  `AnswersHonourTheLimit` is about every symbol in the tree of an answer of
  `lookup_symbol`, at any depth: its code is shown whole when it has no more lines than
  the limit, and otherwise a beginning of whole pieces within the limit and the note
  (`TogetherCount`, `LimitedWithin`). `Nodes` has every code that a tree over these rows can have, and is closed
  under children (`NodesClosed`).
* `ChunkerProofs`: `EveryFileInserts`, the property `InsertsAccepted` for every tree,
  at any depth and with any number of declarations, and every token budget. A file
  is refused when a symbol comes before its parent or has no chunk. That every
  declaration has one is a fact about each loop of the chunker: a fold whose steps
  keep a type keeps it to the end (`FoldValues`), and the types say that what is cut
  is cut into at least one piece (`SplitTyped`, `PackUnitsTyped`, `CollapseTyped`,
  `GroupsTyped`, `EmitTyped`, `DeclarationTyped`). `_collect_units` recurses into
  nested classes; that its recursion has a value, and what holds of the value, is an
  induction from the deepest places up (`FixedPoint`, `ByDepth`, `UnitsExist`). That parents come first is a
  fact about the order of the walk: the owner of a place is a prefix of it
  (`OwnerWalked`), a prefix is less than what it is a prefix of (`PrefixPlace`), and
  the walk is sorted (`WalkOrdered`), so a position in front of the declaration has
  its parent (`ParentFirst`). `OnlyTheUnsplittableIsDropped` is `OnlyUnsplittableDropped`: no chunk is over the
  limit or ends before it begins, and a class or function without code is too large
  and cannot be cut. It follows the lines and the tokens of a text through every cut
  (`UnitsSome`, `PackUnitsFit`, `SplittableFits`, `PackedFit`), so that a declaration
  that can be cut has a first piece under the limit, which is kept (`SplittableKept`);
  and it takes a row of the index back to its declaration (`CodeRow`).
  `TextIsFound` is `TextKeepsLines`: the invariant of the loop of `basic_chunker`
  (`Holds`, `BasicWhole`) says that the chunks so far and what is packed are the lines
  kept so far, and that both fit, so none is dropped and their numbers have no gaps
  (`TextNumbers`); loaded again, in whatever order, they are put back by number
  (`NumberedOrder`), since each is the head of a chain of its own. Its second part
  counts line ends of both kinds (`LinesBreaks`, `CountBreaks`, `NamedLines`): a symbol
  that is not in pieces has the lines of its range, and one more for each break that is
  no newline.
* `KeptSourceProofs`: that nothing of a symbol is lost, repeated or moved when it is
  cut. `StatementsAreKept` is `KeepsStatements`. What a text has of a set of characters
  (`Restricted`) is that of its parts behind one another (`RestrictedJoined`), so every
  cut keeps it: at characters, at lines, at both (`CharWhole`, `PackLinesWhole`,
  `SplitWhole`); and a set without newlines does not notice those a cut loses. The
  groups of statements have, after each, what the statements so far have
  (`GroupedTo`, `GroupGrows`, `GroupsWhole`): what lies between two statements, and
  the header in front of every piece, are silent in their characters
  (`StatementsOnly`, `HeaderSilent`). The rows of a function name the next; loaded as
  a set they form one chain from one head, which has them all (`ChainIs`,
  `LinkedOrder`), and `DeclaredCode` says that the code is the pieces in that order.
  `OverviewsAreKept` is `OverviewKeeps`, for classes in classes at any depth. The
  loop of `_collect_units` has, after each child, what the skeleton shows of the
  children so far (`UnitStepWhole`, `UnitsOverWhole`); the units of an inner body have
  what its skeleton has by induction from the deepest bodies up (`CollectWhole`); and
  packing them behind the header loses nothing (`BehindStepWhole`, `PackUnitsWhole`),
  since the header and what is behind the body are silent in the characters of the
  body (`BeforeSilent`, `AfterSilent`, `CollapseWhole`). The token budget is a
  hypothesis where the code needs it: a header that leaves no room has its pieces
  dropped.
* The proofs about the chunker assume of files (`FilesAssumption`), because tree-sitter gives it: the tree is one
  and its root is no declaration; a node's text is that of its children, which have no character, that is no position
  in the file, in common (`IsJoined`);
  a named node has text that ends on a character, does not begin before its parent,
  and is on consecutive lines (`HasLines`); and names are not empty (`walk` writes
  "anonymous" where there is none). TLC evaluates these assumptions on every file of the run.

`Quiet` is needed: TLC finds each of the four properties violated with one fault,
with a content at two paths, and `CatalogBacked`, `GlobalCacheExact` and
`AgreesAfterRefresh` with an edit during a refresh. These are not faults of the
models: `StaleIsDetectable`, which needs none of it, says that a later plan sees
what was left behind. `IndexRefreshQuiet.cfg` is an instance of `Quiet`; to have
TLC check the inductive invariant there, add `INVARIANT QuietInv` (it holds in all
2,151,690 states).

Every safety invariant and every action property of a passing run is proved. Only
model-checked is liveness (`NoLockOut`, `PendingSettles`, `EditsReachIndex`,
`WatchComesBack`, `ShutdownEnds`), which is beyond these provers.
What the theorems of
RetrievalProofs assume of the chunker's output, `WellFormed` and `Apart`, TLC checks for every
file of the run. `ReadingGivesTheCode` has two hypotheses on a symbol, that its lines
fit an answer and that its code has no more lines than its range; the second part of
`TextKeepsLines`, which `TextIsFound` proves, says that the latter holds for whatever
is not in pieces and has no break but newlines.

## 6. Where code and documents disagree

Five runs show a behaviour that contradicts a sentence of a comment or document;
`PROJECT.json`, *findings*, quotes each.

* `refresh_shared`: "Wipe any prior rows for this file" wipes the rows of every
  file with the same contents.
* `lock_exclusion`: two processes can both find no lock and both refresh.
* `watch_death`: a watch that restarts while `stop_watch` waits for the one before
  loses its events, and `consume_watch` ends.
* `watch_gate`: the initial index's "done" opens the gate during a reindex.
* `range_lines`: ranges of a symbol in pieces are not lines of the file.

The models contain further ones, which have no run of their own:

* The chunker that live indexing imports (`chunk_codebase_index.py:27`) reads
  `NON_CODE_EXTENSIONS` as a global (`exp_chunk.py:342`) although it is an
  attribute of a class (line 330). Every file with a supported extension raises a
  `NameError` before it has a row, where ARCHITECTURE.md:65-67 has it parsed,
  chunked and written; the import of `chunk.py` is commented out (line 25). `Retrieval` has both, and
  `InsertsAccepted` says that this is the only reason for a refusal.
* Rows can be cut from other contents than their key names, when a file is edited
  between the hash of the plan and the chunker's read
  (`chunk_codebase_index.py:169`); ARCHITECTURE.md:102 calls the key a content
  hash. The next plan notices the file (`StaleIsDetectable`).
* The branch is asked for before files are read (`codebase_indexer.py:846`, `919`), with
  awaits in between: when HEAD moves meanwhile, contents of one branch are filed under
  the tag of another, that of the startup included, until the file or HEAD changes
  again (`astray`). `watch_git_head` compares HEAD with what it saw last (lines
  462-464), not with the branch that was indexed: when HEAD is noticed on another
  branch, is back when the reindex asks and then returns, everything is filed under
  the first branch and the second is not indexed, where the docstring (line 450)
  promises a reindex for each new content. Without the exception of `astray`,
  `SettledIsExact` is false of either.
* `_lock_heartbeat` catches only its cancellation (`codebase_indexer.py:1056-1063`). When its
  update raises, `await timestamp_task` (line 1049) raises again after the refresh, and
  the unlock and the reset of `_directory_token` are skipped; an exception of the unlock
  skips the reset. The lock becomes stale and is stolen, but this server never flushes
  its pending paths again, and a branch watcher whose refresh it was ends.
* A refresh after a checkout may use a directory listing up to 30 s old
  (`walk_dir.py:136`), while ARCHITECTURE.md:110 says it "refreshes the complete
  workspace". The model sets `undisturbed` aside for it.
* A cancelled refresh ends with a status instead of the cancellation
  (`codebase_indexer.py:884`, `1003`), so the loop around it goes on, and
  `Runtime.shutdown` waits for that task (`runtime.py:42`, `46`): `ShutdownEnds` has
  to except it.
* `get_symbol` may answer with, and cache, what it read before it waited
  (`handlers.py:346`), and a warm task caches what a lookup read earlier (lines
  233, 249; the comparison of the file's times there spans one read without an
  await, so it never differs for that reason). ARCHITECTURE.md:215-217 says that the wait
  "prevents returning source that may be stale". `AnswersTraceable` and `CachedIsIndexed` say
  exactly which stale answers exist.
* Lookups keep the tag of the branch at startup (`retrieval_pipeline.py:48`): after
  a checkout they answer from the rows of that branch.
* Changes between the walk of a switch and the restart of the watch are lost
  (`codebase_indexer.py:426`): the set `missed`.
* `filter_paths` is documented as prefixes (`api.py:50-51`, `253`, `294`) and compared
  for equality (`retrieval_pipeline.py:384`).
* `max_lines`, "Truncate the reconstructed body to this many lines" (`api.py:257`),
  drops whole pieces where `lookup_symbol` keeps it: a symbol of one piece that is too
  long becomes the note alone.
* `resolve_lookup` reconstructs several matches of a name without `max_lines`
  (`api.py:386-393`), which it documents with the same words (`api.py:346`):
  `LimitHonoured` speaks of `lookup_symbol` only, and TLC finds it violated for the other.
* Symbols are numbered by newlines, and answers are cut by `splitlines()`
  (`handlers.py:144`, `154`, `424`; `retrieval_pipeline.py:548`), which also ends lines
  at form feeds, lone carriage returns and others. Behind the first of these in a
  symbol, ranges and `returned_end_line` are not lines of the file (`tools.py:126`) even
  when the symbol is in one piece. `TextKeepsLines` says by how many.
* A name that is not found makes the answer of a lookup of several names an error
  (`handlers.py:210-214`), although `tools.py:46` expects errors per name.
* Tags of more than 240 characters are hashed when files are indexed
  (`chunk_utils.py:12-32`) and not when they are looked up
  (`retrieval_pipeline.py:361`): with such a path nothing is found
  (`FindsThisBranch`).
* An arrow function with a single bare parameter takes its parameter's name
  (`code.py:131` is tried before line 134). Chunks of text count lines from 0,
  those of code from 1.

## 7. Plan and what is not modelled

Done: RefreshPlan, IndexRefresh and its proofs, with faults and without (the index
must be right before anything else matters); SymbolCache; IndexLock; WatchLoop; McpSession with its
proofs and the shutdown; Chunker, SymbolLookup and Retrieval with their proofs, and
RetrievedSource. What could follow:

1. `filter_paths` and the lookup of several names as runs of their own.
2. The full-text, snippet and vector backends as other instances of the plan.

Not modelled: Tree-sitter parsing and its tables, tokenizers and embeddings
(external services or libraries, no state of this program); the full-text,
snippet and vector backends (extension points that the public API and the server
do not construct; they would receive the four lists that RefreshPlan makes);
path, URI and ignore-rule conversions (pure string functions: the models start
from canonical paths); progress, descriptions, formatting and logging; the pause
switch and `CodeIndexer.cancel`, which nothing in the server uses; the order in
which a `SELECT` without `ORDER BY` returns rows, which the models leave open.
