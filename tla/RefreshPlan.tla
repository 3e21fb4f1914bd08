---------------------------- MODULE RefreshPlan ----------------------------
(***************************************************************************)
(* The refresh planner of capyidx/base/refresh_index.py: how the rows of   *)
(* tag_catalog, the file statistics and the content hashes of one refresh  *)
(* become four lists of operations and a list of timestamps to renew.      *)
(*                                                                         *)
(* The module declares no variable: each operator takes the tables it      *)
(* reads.  There is one workspace directory and one artifact, so a tag     *)
(* (directory, branch, artifactId) is its branch.  Lists become sets: the  *)
(* code fills them in the order of a SELECT without ORDER BY.              *)
(***************************************************************************)
EXTENDS Integers, FiniteSets

CONSTANTS
    Paths,      \* the files of the workspace
    Contents,   \* what a file may contain
    Branches,   \* the branches that git HEAD may name
    NoStat      \* what stands for the absence of a stat result

Times == Nat

\* calculate_hash: SHA-256, modelled as an injective constructor.
calculate_hash(c) == [sha256 |-> c]

Keys == {calculate_hash(c) : c \in Contents}

Item == [path : Paths, key : Keys]

CatalogRow == [branch : Branches, path : Paths, key : Keys, at : Times]

GlobalRow == [key : Keys, branch : Branches]

\* RefreshIndexResults: the four operation lists.
Operations == [compute : SUBSET Item, addTag : SUBSET Item,
               removeTag : SUBSET Item, delete : SUBSET Item]

NoOperations == [compute |-> {}, addTag |-> {}, removeTag |-> {}, delete |-> {}]

ItemOf(row) == [path |-> row.path, key |-> row.key]

----------------------------------------------------------------------------
(* get_saved_items_for_tag: the rows of a tag, restricted to some paths.   *)

SavedItems(catalog, branch, paths) ==
    {row \in catalog : row.branch = branch /\ row.path \in paths}

SavedPaths(saved) == {row.path : row \in saved}

\* group["latest"]: of each path, the version with the greatest lastUpdated.
\* No two versions of a path share it: a plan gives a path one version.
LatestRows(saved) ==
    {row \in saved :
        \A other \in saved : other.path = row.path => other.at <= row.at}

----------------------------------------------------------------------------
(* get_add_remove_for_tag.  stats[p] is the modification time of a path    *)
(* that is on disk and not over MAX_FILE_SIZE_BYTES, NoStat for the        *)
(* others; read[p] is the key of what read_file returns for it.            *)

\* The latest versions whose file has a timestamp that says it may have
\* changed.
Suspects(saved, stats) ==
    {row \in LatestRows(saved) :
        stats[row.path] # NoStat /\ row.at < stats[row.path]}

\* They are hashed: some have changed, the others are only renewed.
ChangedPaths(saved, stats, read) ==
    {row.path : row \in {r \in Suspects(saved, stats) : r.key # read[r.path]}}

RenewedRows(saved, stats, read) ==
    {row \in Suspects(saved, stats) : row.key = read[row.path]}

NewPaths(saved, stats, paths) ==
    {p \in paths : stats[p] # NoStat /\ p \notin SavedPaths(saved)}

\* Mutant: the hashing task captures the loop variable and hashes one path
\* for all of the new ones.
ToAddLateBound(saved, stats, read, paths) ==
    LET new == NewPaths(saved, stats, paths)
        last == CHOOSE p \in new : TRUE
    IN  {[path |-> p, key |-> read[last]] : p \in new} \cup
        {[path |-> p, key |-> read[p]] : p \in ChangedPaths(saved, stats, read)}

\* add and update_new_version
ToAdd(saved, stats, read, paths) ==
    {[path |-> p, key |-> read[p]] :
        p \in NewPaths(saved, stats, paths) \cup
              ChangedPaths(saved, stats, read)}

\* Mutant: the versions of a changed path are forgotten.
ToRemoveKeepingOld(saved, stats, read) ==
    {ItemOf(row) : row \in {r \in saved : stats[r.path] = NoStat}}

\* remove and update_old_version
ToRemove(saved, stats, read) ==
    {ItemOf(row) : row \in
        {r \in saved :
            \/ stats[r.path] = NoStat
            \/ r.path \in ChangedPaths(saved, stats, read)
            \/ \E latest \in RenewedRows(saved, stats, read) :
                  latest.path = r.path /\ latest.key # r.key}}

\* update_last_updated
ToRenew(saved, stats, read) ==
    {ItemOf(row) : row \in RenewedRows(saved, stats, read)}

----------------------------------------------------------------------------
(* get_tags_from_global_cache, get_compute_delete_add_remove.              *)

TagsOf(globalCache, key) == {g.branch : g \in {r \in globalCache : r.key = key}}

\* len(existing) > 1
SharedKey(globalCache, key) ==
    \E b1, b2 \in TagsOf(globalCache, key) : b1 # b2

\* Mutant: every removal deletes, whoever else indexes the content.
ClassifyDeletingShared(globalCache, add, remove) ==
    [compute   |-> {i \in add : TagsOf(globalCache, i.key) = {}},
     addTag    |-> {i \in add : TagsOf(globalCache, i.key) # {}},
     removeTag |-> {},
     delete    |-> remove]

Classify(globalCache, add, remove) ==
    [compute   |-> {i \in add : TagsOf(globalCache, i.key) = {}},
     addTag    |-> {i \in add : TagsOf(globalCache, i.key) # {}},
     removeTag |-> {i \in remove : SharedKey(globalCache, i.key)},
     delete    |-> {i \in remove : ~SharedKey(globalCache, i.key)}]
============================================================================
