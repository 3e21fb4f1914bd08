---------------------------- MODULE IndexRefresh ----------------------------
(***************************************************************************)
(* One refresh at a time of the SQLite index: CodeIndexer.refresh_dirs and *)
(* refresh_file (capyidx/indexer/codebase_indexer.py), the planner of      *)
(* capyidx/base/refresh_index.py, and the operations of ChunkCodebaseIndex *)
(* (capyidx/chunker/chunk_codebase_index.py), one action per transaction.  *)
(*                                                                         *)
(* Between two of these actions the developer may edit a file or change    *)
(* branch, an exception may abort the batch, and the refresh may be        *)
(* cancelled or its process may die.                                       *)
(***************************************************************************)
EXTENDS RefreshPlan, FiniteSetsExt

CONSTANTS
    NoFile,         \* disk[p] when p does not exist
    Empty,          \* what read_file returns for an unreadable file
    Oversized,      \* contents over MAX_FILE_SIZE_BYTES
    Writable,       \* Writable[p]: the contents that p may be given
    BatchSize,      \* files_per_batch
    EditsInFlight,  \* may the workspace change during a refresh?
    MaxClock,       \* bound: edits and plans of a behaviour
    MaxFaults       \* bound: aborts and interruptions of a behaviour

ASSUME EmptyAssumption == Empty \in Contents /\ NoFile \notin Contents
ASSUME WritableAssumption == Writable \in [Paths -> SUBSET Contents]
ASSUME BatchAssumption == BatchSize \in Nat \ {0}
ASSUME BoundAssumption == MaxClock \in Nat /\ MaxFaults \in Nat
ASSUME NoStatAssumption == NoStat \notin Times

VARIABLES
    \* the workspace
    disk,           \* contents of each path
    mtime,          \* modification time of each path
    head,           \* the branch that .git/HEAD names
    clock,          \* milliseconds since the epoch
    walkCache,      \* walk_dir_cache: the directory listings still valid
    \* the SQLite tables
    catalog,        \* tag_catalog
    globalCache,    \* global_cache
    symbols,        \* symbols: the (cacheKey, path) that own a symbol tree
    chunks,         \* chunks: the text filed under a (cacheKey, path)
    chunkTags,      \* chunk_tags: the (cacheKey, path) tagged with a branch
    \* the refresh in progress
    pc,             \* its next step
    run,            \* its mode ("dirs" or "file"), branch and paths
    stats,          \* get_file_stats: a time or NoStat for each path
    planTime,       \* new_last_updated
    todo,           \* results: the operations of the batches to come
    renew,          \* last_updated
    batch,          \* sub: the operations left of the current batch
    item,           \* the operation in progress
    text,           \* the contents that pack_to_chunks read
    \* history
    faults,         \* aborts and interruptions so far
    undisturbed     \* no fault, edit or stale listing since the refresh began

workspace == <<disk, mtime, head>>
tables == <<catalog, globalCache, symbols, chunks, chunkTags>>
plan == <<run, stats, planTime, renew>>
vars == <<workspace, clock, walkCache, tables, pc, plan, todo, batch, item,
          text, faults, undisturbed>>

----------------------------------------------------------------------------

Steps == {"idle", "discovered", "statted", "timed", "batch", "next", "wipe", "symbols",
          "chunks", "mark", "global"}

Ops == {"compute", "addTag", "removeTag", "delete"}
NoItem == [op |-> "none"]
OpItem == [op : Ops, path : Paths, key : Keys]

NoRun == [mode |-> "none"]
Run == [mode : {"dirs", "file"}, branch : Branches, paths : SUBSET Paths]

NoStats == [p \in Paths |-> NoStat]

\* should_chunk: the other contents leave no row.
Chunkable(c) == c # Empty

\* Mutant: the error of a failed read is passed on.
ReadFileOrFail(p) == disk[p]

\* _read_file_sync: a failed read yields the empty string.
ReadFile(p) == IF disk[p] = NoFile THEN Empty ELSE disk[p]

Present == {p \in Paths : disk[p] # NoFile}

\* _get_file_stats_sync and the size filter of the planner.
FileStats(paths) ==
    [p \in Paths |-> IF p \in paths \cap Present /\ disk[p] \notin Oversized
                     THEN mtime[p] ELSE NoStat]

TypeOK ==
    /\ disk \in [Paths -> Contents \cup {NoFile}]
    /\ mtime \in [Paths -> Times]
    /\ head \in Branches
    /\ clock \in Times
    /\ walkCache \in [valid : BOOLEAN, paths : SUBSET Paths]
    /\ catalog \subseteq CatalogRow
    /\ globalCache \subseteq GlobalRow
    /\ symbols \subseteq [key : Keys, path : Paths]
    /\ chunks \subseteq [key : Keys, path : Paths, text : Contents]
    /\ chunkTags \subseteq [key : Keys, path : Paths, branch : Branches]
    /\ pc \in Steps
    /\ run \in Run \cup {NoRun}
    /\ pc # "idle" => run \in Run
    /\ stats \in [Paths -> Times \cup {NoStat}]
    /\ planTime \in Times
    /\ todo \in Operations
    /\ renew \subseteq Item
    /\ batch \in Operations
    /\ item \in OpItem \cup {NoItem}
    /\ pc \in {"wipe", "symbols", "chunks", "mark", "global"} => item \in OpItem
    /\ text \in Contents \cup {NoFile}
    /\ pc \in {"wipe", "symbols", "chunks"} => text \in Contents
    /\ faults \in Nat
    /\ undisturbed \in BOOLEAN

Init ==
    /\ disk \in [Paths -> Contents \cup {NoFile}]
    /\ \A p \in Paths : disk[p] \in Writable[p] \cup {NoFile}
    /\ mtime = [p \in Paths |-> 0]
    /\ head \in Branches
    /\ clock = 0
    /\ walkCache = [valid |-> FALSE, paths |-> {}]
    /\ catalog = {} /\ globalCache = {}
    /\ symbols = {} /\ chunks = {} /\ chunkTags = {}
    /\ pc = "idle" /\ run = NoRun /\ stats = NoStats /\ planTime = 0
    /\ todo = NoOperations /\ renew = {} /\ batch = NoOperations
    /\ item = NoItem /\ text = NoFile
    /\ faults = 0 /\ undisturbed = FALSE

----------------------------------------------------------------------------
(* The developer and time.  Each edit and each plan has a millisecond of   *)
(* its own.                                                                *)

MayEdit == EditsInFlight \/ pc = "idle"

\* A file is written (perhaps with the same contents) or removed.
Edit(p, c) ==
    /\ MayEdit
    /\ clock < MaxClock
    /\ disk[p] # NoFile \/ c # NoFile
    /\ clock' = clock + 1
    /\ disk' = [disk EXCEPT ![p] = c]
    /\ mtime' = [mtime EXCEPT ![p] = clock + 1]
    /\ undisturbed' = FALSE
    /\ UNCHANGED <<head, walkCache, tables, pc, plan, todo, batch, item, text,
                   faults>>

\* git checkout: the files it changes are edits of their own.
Checkout(b) ==
    /\ MayEdit
    /\ b # head
    /\ head' = b
    /\ undisturbed' = FALSE
    /\ UNCHANGED <<disk, mtime, clock, walkCache, tables, pc, plan, todo,
                   batch, item, text, faults>>

\* LIST_DIR_CACHE_TIME is over.
ExpireWalkCache ==
    /\ walkCache.valid
    /\ walkCache' = [valid |-> FALSE, paths |-> {}]
    /\ UNCHANGED <<workspace, clock, tables, pc, plan, todo, batch, item,
                   text, faults, undisturbed>>

----------------------------------------------------------------------------
(* Planning.                                                               *)

\* refresh_dirs walks the workspace, then asks git for the branch.
DiscoverDirs ==
    LET listing == IF walkCache.valid THEN walkCache.paths ELSE Present IN
    /\ pc = "idle"
    /\ walkCache' = [valid |-> TRUE, paths |-> listing]
    /\ run' = [mode |-> "dirs", branch |-> head, paths |-> listing]
    /\ undisturbed' = (listing = Present)
    /\ pc' = "discovered"
    /\ UNCHANGED <<workspace, clock, tables, stats, planTime, renew, todo,
                   batch, item, text, faults>>

\* refresh_file handles one path of a watcher's batch.
DiscoverFile(p) ==
    /\ pc = "idle"
    /\ run' = [mode |-> "file", branch |-> head, paths |-> {p}]
    /\ undisturbed' = TRUE
    /\ pc' = "discovered"
    /\ UNCHANGED <<workspace, clock, walkCache, tables, stats, planTime,
                   renew, todo, batch, item, text, faults>>

Stat ==
    /\ pc = "discovered"
    /\ stats' = FileStats(run.paths)
    /\ pc' = "statted"
    /\ UNCHANGED <<workspace, clock, walkCache, tables, run, planTime, renew,
                   todo, batch, item, text, faults, undisturbed>>

\* The rows a plan considers: a directory refresh reads the whole tag.
Scope == IF run.mode = "dirs" THEN Paths ELSE run.paths

\* new_last_updated is the time before any file is read.
StartPlan ==
    /\ pc = "statted"
    /\ clock < MaxClock
    /\ clock' = clock + 1
    /\ planTime' = clock + 1
    /\ pc' = "timed"
    /\ UNCHANGED <<workspace, walkCache, tables, run, stats, renew, todo,
                   batch, item, text, faults, undisturbed>>

\* get_compute_delete_add_remove.  The files are read at one moment: edits
\* of other files commute with the read of each.
Plan ==
    LET saved == SavedItems(catalog, run.branch, Scope)
        read == [p \in Paths |-> calculate_hash(ReadFile(p))]
    IN
    /\ pc = "timed"
    /\ todo' = Classify(globalCache, ToAdd(saved, stats, read, Scope),
                        ToRemove(saved, stats, read))
    /\ renew' = ToRenew(saved, stats, read)
    /\ pc' = "batch"
    /\ UNCHANGED <<workspace, clock, walkCache, tables, run, stats, planTime,
                   batch, item, text, faults, undisturbed>>

----------------------------------------------------------------------------
(* Batches: _batch_refresh_index_results cuts the n next operations of     *)
(* each list, a file refresh hands over all of them.                       *)

Slices(operations) ==
    IF run.mode = "file" \/ Cardinality(operations) <= BatchSize
    THEN {operations}
    ELSE kSubset(BatchSize, operations)

Minus(a, b) ==
    [compute |-> a.compute \ b.compute, addTag |-> a.addTag \ b.addTag,
     removeTag |-> a.removeTag \ b.removeTag, delete |-> a.delete \ b.delete]

StartBatch ==
    /\ pc = "batch"
    /\ todo # NoOperations
    /\ \E c \in Slices(todo.compute), a \in Slices(todo.addTag),
          r \in Slices(todo.removeTag), d \in Slices(todo.delete) :
          batch' = [compute |-> c, addTag |-> a, removeTag |-> r, delete |-> d]
    /\ todo' = Minus(todo, batch')
    /\ pc' = "next"
    /\ UNCHANGED <<workspace, clock, walkCache, tables, plan, item, text,
                   faults, undisturbed>>

EndBatch ==
    /\ pc = "next"
    /\ batch = NoOperations
    /\ pc' = "batch"
    /\ UNCHANGED <<workspace, clock, walkCache, tables, plan, todo, batch, item,
                   text, faults, undisturbed>>

\* ChunkCodebaseIndex.update takes the lists one after the other.
Turn(op) ==
    CASE op = "compute"   -> TRUE
      [] op = "addTag"    -> batch.compute = {}
      [] op = "removeTag" -> batch.compute = {} /\ batch.addTag = {}
      [] op = "delete"    -> /\ batch.compute = {} /\ batch.addTag = {}
                             /\ batch.removeTag = {}

Take(op, i) ==
    /\ pc = "next"
    /\ Turn(op)
    /\ batch' = [batch EXCEPT ![op] = @ \ {i}]
    /\ item' = [op |-> op, path |-> i.path, key |-> i.key]

\* Rows filed under a key, whatever their path.
WithoutKey(rows, key) == {row \in rows : row.key # key}

\* Mutant: symbols go, chunks stay.
RemoveSymbolsOnly(key) ==
    /\ symbols' = WithoutKey(symbols, key)
    /\ UNCHANGED <<chunks, chunkTags>>

\* delete_file_chunks_and_symbols, chunk_tags by cascade.
RemoveRows(key) ==
    /\ symbols' = WithoutKey(symbols, key)
    /\ chunks' = WithoutKey(chunks, key)
    /\ chunkTags' = WithoutKey(chunkTags, key)

\* pack_to_chunks reads the file again, then parses what it read.
ComputeRead(i) ==
    /\ Take("compute", i)
    /\ text' = ReadFile(i.path)
    /\ pc' = "wipe"
    /\ UNCHANGED <<workspace, clock, walkCache, tables, plan, todo, faults,
                   undisturbed>>

ComputeWipe ==
    /\ pc = "wipe"
    /\ RemoveRows(item.key)
    /\ pc' = "symbols"
    /\ UNCHANGED <<workspace, clock, walkCache, catalog, globalCache, plan,
                   todo, batch, item, text, faults, undisturbed>>

ComputeSymbols ==
    /\ pc = "symbols"
    /\ symbols' = IF Chunkable(text)
                  THEN symbols \cup {[key |-> item.key, path |-> item.path]}
                  ELSE symbols
    /\ pc' = "chunks"
    /\ UNCHANGED <<workspace, clock, walkCache, catalog, globalCache, chunks,
                   chunkTags, plan, todo, batch, item, text, faults,
                   undisturbed>>

ComputeChunks ==
    /\ pc = "chunks"
    /\ IF Chunkable(text)
       THEN /\ chunks' = chunks \cup
                  {[key |-> item.key, path |-> item.path, text |-> text]}
            /\ chunkTags' = chunkTags \cup
                  {[key |-> item.key, path |-> item.path,
                    branch |-> run.branch]}
       ELSE UNCHANGED <<chunks, chunkTags>>
    /\ text' = NoFile
    /\ pc' = "mark"
    /\ UNCHANGED <<workspace, clock, walkCache, catalog, globalCache, symbols,
                   plan, todo, batch, item, faults, undisturbed>>

\* Mutant: the item is marked, its chunks stay untagged.
AddTagUntagged(i) ==
    /\ Take("addTag", i)
    /\ pc' = "mark"
    /\ UNCHANGED <<workspace, clock, walkCache, tables, plan, todo, text, faults,
                   undisturbed>>

\* INSERT OR IGNORE INTO chunk_tags SELECT id FROM chunks WHERE cacheKey = ?
AddTag(i) ==
    /\ Take("addTag", i)
    /\ chunkTags' = chunkTags \cup
          {[key |-> c.key, path |-> c.path, branch |-> run.branch] :
              c \in {row \in chunks : row.key = i.key}}
    /\ pc' = "mark"
    /\ UNCHANGED <<workspace, clock, walkCache, catalog, globalCache, symbols,
                   chunks, plan, todo, text, faults, undisturbed>>

RemoveTag(i) ==
    /\ Take("removeTag", i)
    /\ chunkTags' = chunkTags \
          {[key |-> i.key, path |-> i.path, branch |-> run.branch]}
    /\ pc' = "mark"
    /\ UNCHANGED <<workspace, clock, walkCache, catalog, globalCache, symbols,
                   chunks, plan, todo, text, faults, undisturbed>>

Delete(i) ==
    /\ Take("delete", i)
    /\ RemoveRows(i.key)
    /\ pc' = "mark"
    /\ UNCHANGED <<workspace, clock, walkCache, catalog, globalCache, plan,
                   todo, text, faults, undisturbed>>

----------------------------------------------------------------------------
(* mark_complete_with_global: tag_catalog is committed before global_cache. *)

Adding == item.op \in {"compute", "addTag"}

\* Mutant: lastUpdated is the time of the mark.
MarkedRowNow ==
    [branch |-> run.branch, path |-> item.path, key |-> item.key, at |-> clock]

MarkedRow ==
    [branch |-> run.branch, path |-> item.path, key |-> item.key,
     at |-> planTime]

\* The catalog row of the operation in progress, of whatever time.
IsMarked(row) ==
    row.branch = run.branch /\ row.path = item.path /\ row.key = item.key

MarkCatalog ==
    /\ pc = "mark"
    /\ catalog' = {row \in catalog : ~IsMarked(row)} \cup
                  (IF Adding THEN {MarkedRow} ELSE {})
    /\ pc' = "global"
    /\ UNCHANGED <<workspace, clock, walkCache, globalCache, symbols, chunks,
                   chunkTags, plan, todo, batch, item, text, faults,
                   undisturbed>>

GlobalRowOfItem == [key |-> item.key, branch |-> run.branch]

\* Mutant: global_cache keeps the rows of removed contents.
MarkGlobalKeeping ==
    globalCache' = globalCache \cup (IF Adding THEN {GlobalRowOfItem} ELSE {})

UpdateGlobalCache ==
    globalCache' = IF Adding THEN globalCache \cup {GlobalRowOfItem}
                   ELSE globalCache \ {GlobalRowOfItem}

MarkGlobal ==
    /\ pc = "global"
    /\ UpdateGlobalCache
    /\ item' = NoItem
    /\ pc' = "next"
    /\ UNCHANGED <<workspace, clock, walkCache, catalog, symbols, chunks,
                   chunkTags, plan, todo, batch, text, faults, undisturbed>>

----------------------------------------------------------------------------
(* The end of a refresh.                                                   *)

Forget ==
    /\ pc' = "idle"
    /\ run' = NoRun /\ stats' = NoStats /\ planTime' = 0 /\ renew' = {}
    /\ todo' = NoOperations /\ batch' = NoOperations
    /\ item' = NoItem /\ text' = NoFile

Versions(p) == {row \in catalog : row.branch = run.branch /\ row.path = p}

\* UPDATE gives every row of the path the same key: with two rows it breaks
\* the unique index of tag_catalog.
CanRenew(i) == \A r1, r2 \in Versions(i.path) : r1 = r2

Renewed1(row, i) == [row EXCEPT !.key = i.key, !.at = planTime]

AfterRenewing(items) ==
    {row \in catalog : \A i \in items : row \notin Versions(i.path)} \cup
    UNION {{Renewed1(row, i) : row \in Versions(i.path)} : i \in items}

\* mark_last_updated
RenewTimestamps ==
    /\ pc = "batch"
    /\ todo = NoOperations
    /\ \A i \in renew : CanRenew(i)
    /\ catalog' = AfterRenewing(renew)
    /\ Forget
    /\ UNCHANGED <<workspace, clock, walkCache, globalCache, symbols, chunks,
                   chunkTags, faults, undisturbed>>

\* The IntegrityError leaves the renewals that came before it.
RenewalConflict ==
    /\ pc = "batch"
    /\ todo = NoOperations
    /\ \E i \in renew : ~CanRenew(i)
    /\ \E done \in SUBSET {i \in renew : CanRenew(i)} :
          catalog' = AfterRenewing(done)
    /\ Forget
    /\ undisturbed' = FALSE
    /\ UNCHANGED <<workspace, clock, walkCache, globalCache, symbols, chunks,
                   chunkTags, faults>>

\* An exception in ChunkCodebaseIndex.update (a locked database, a symbol
\* without chunks) rolls its transaction back and drops the batch;
\* _index_files goes on with the next one.
AbortBatch ==
    /\ run.mode = "dirs"
    /\ pc \in {"next", "wipe", "symbols", "chunks", "mark", "global"}
    /\ faults < MaxFaults
    /\ faults' = faults + 1
    /\ undisturbed' = FALSE
    /\ batch' = NoOperations /\ item' = NoItem /\ text' = NoFile
    /\ pc' = "batch"
    /\ UNCHANGED <<workspace, clock, walkCache, tables, plan, todo>>

\* The process dies, the refresh is cancelled, or an exception ends it.
Interrupt ==
    /\ pc # "idle"
    /\ faults < MaxFaults
    /\ faults' = faults + 1
    /\ undisturbed' = FALSE
    /\ Forget
    /\ UNCHANGED <<workspace, clock, walkCache, tables>>

----------------------------------------------------------------------------

RefreshStep ==
    \/ Stat \/ StartPlan \/ Plan \/ StartBatch \/ EndBatch
    \/ \E i \in batch.compute : ComputeRead(i)
    \/ \E i \in batch.addTag : AddTag(i)
    \/ \E i \in batch.removeTag : RemoveTag(i)
    \/ \E i \in batch.delete : Delete(i)
    \/ ComputeWipe \/ ComputeSymbols \/ ComputeChunks
    \/ MarkCatalog \/ MarkGlobal
    \/ RenewTimestamps \/ RenewalConflict

Next ==
    \/ \E p \in Paths : \E c \in Writable[p] \cup {NoFile} : Edit(p, c)
    \/ \E b \in Branches : Checkout(b)
    \/ ExpireWalkCache
    \/ DiscoverDirs
    \/ \E p \in Paths : DiscoverFile(p)
    \/ RefreshStep
    \/ AbortBatch
    \/ Interrupt

Spec == Init /\ [][Next]_vars

----------------------------------------------------------------------------
(* Properties.                                                             *)

\* Foreign keys, in every state a crash can leave: a chunk belongs to a
\* symbol tree and a tag to a chunk (chunk_codebase_index.py: symbols are
\* inserted before chunks, in transactions of their own).
ForeignKeys ==
    /\ \A c \in chunks : [key |-> c.key, path |-> c.path] \in symbols
    /\ \A t \in chunkTags :
          \E c \in chunks : c.key = t.key /\ c.path = t.path

\* What the planner may conclude from a timestamp: a file not modified
\* after t has the contents of that key.
Accurate(p, key, t) ==
    disk[p] # NoFile /\ mtime[p] <= t => calculate_hash(disk[p]) = key

\* A changed file is always noticed by the timestamp test: whatever edits,
\* aborts and crashes came before, a catalog row whose file now has another
\* hash is older than the file.  It depends on lastUpdated being the time
\* the plan began, not the time the row was written.
StaleIsDetectable ==
    \A row \in catalog : Accurate(row.path, row.key, row.at)

\* What a lookup scoped to a branch can see.
Visible(b) ==
    {[path |-> c.path, text |-> c.text] : c \in
        {row \in chunks :
            [key |-> row.key, path |-> row.path, branch |-> b] \in chunkTags}}

OnDisk == {[path |-> p, text |-> disk[p]] : p \in
              {q \in Present : disk[q] \notin Oversized \cup {Empty}}}

RefreshEnds == pc = "batch" /\ pc' = "idle" /\ todo = NoOperations

\* A directory refresh that nothing disturbed leaves its branch with exactly
\* the sources on disk, whatever refreshes of other branches came before.
AgreesAfterRefresh ==
    [][RefreshEnds /\ run.mode = "dirs" /\ undisturbed
       => Visible(run.branch) = OnDisk]_vars

\* A refresh never changes what the lookups of another branch see, although
\* the branches share rows by cacheKey.
BranchIsolation ==
    [][\A b \in Branches :
        pc # "idle" /\ b # run.branch => Visible(b)' = Visible(b)]_vars

\* Between two refreshes every catalogued file has its tagged rows, so a
\* plan that finds nothing to do leaves nothing out.
CatalogBacked ==
    pc = "idle" =>
        \A row \in catalog :
            row.key # calculate_hash(Empty) =>
                \E t \in chunkTags :
                    t.key = row.key /\ t.path = row.path
                    /\ t.branch = row.branch

\* Between two refreshes global_cache names the branches of each content:
\* the planner decides from it whether a content is new and whether a
\* removal is the last.
GlobalCacheExact ==
    pc = "idle" =>
        globalCache = {[key |-> row.key, branch |-> row.branch] :
                          row \in catalog}

\* chunk_codebase_index.py says of the deletion that precedes the rows of a
\* computed file "Wipe any prior rows for this file".
WipesOwnFileOnly ==
    [][pc = "wipe" => \A c \in chunks \ chunks' : c.path = item.path]_vars

\* The chunks filed under a hash were cut from contents with that hash
\* (ARCHITECTURE.md: the catalog is keyed by "a content hash (`cacheKey`)").
\* It holds as long as no file is edited while a refresh runs: the chunker
\* reads the file again after the plan hashed it.  With edits in flight rows
\* of other contents do get filed, and StaleIsDetectable is what then brings
\* the file back into the next plan.
RowsMatchKey == \A c \in chunks : c.key = calculate_hash(c.text)

----------------------------------------------------------------------------
(* Inductive invariants.                                                   *)

\* Between the two insertions of a computed file its symbols are there.
SymbolsFirst ==
    pc = "chunks" /\ Chunkable(text) =>
        [key |-> item.key, path |-> item.path] \in symbols

ForeignKeysInv == TypeOK /\ ForeignKeys /\ SymbolsFirst

\* No time of the past is ahead of the clock.
ClockBound ==
    /\ \A p \in Paths : mtime[p] <= clock
    /\ planTime <= clock
    /\ \A row \in catalog : row.at <= clock

\* An operation still to be marked names the contents its file had when the
\* plan began, unless the file was modified since.
Planned(items) == \A i \in items : Accurate(i.path, i.key, planTime)

PlanAccurate ==
    /\ pc \notin {"idle", "discovered", "statted", "timed"} =>
          Planned(todo.compute \cup todo.addTag \cup renew)
    /\ pc \in {"next", "wipe", "symbols", "chunks", "mark", "global"} =>
          Planned(batch.compute \cup batch.addTag)
    /\ pc \in {"wipe", "symbols", "chunks"} => Adding
    /\ pc \in {"wipe", "symbols", "chunks", "mark"} /\ Adding => Planned({item})

DetectableInv == TypeOK /\ ClockBound /\ StaleIsDetectable /\ PlanAccurate
============================================================================
