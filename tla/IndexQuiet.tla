----------------------------- MODULE IndexQuiet -----------------------------
(***************************************************************************)
(* The inductive invariants of IndexRefresh when no refresh fails, no file *)
(* changes while one runs and no content is at two paths: what the tables  *)
(* owe to each other at every step of a refresh.  IndexRefreshQuiet.cfg is *)
(* an instance.                                                            *)
(***************************************************************************)
EXTENDS IndexRefresh

\* No edit and no checkout during a refresh.
StillWorkspace == ~EditsInFlight

\* Rows are shared by key, whatever their path: two paths with one content
\* take each other's rows away (WipesOwnFileOnly).
OwnContentsOnly ==
    \A p, q \in Paths : p # q => Writable[p] \cap Writable[q] = {}

Quiet == StillWorkspace /\ MaxFaults = 0 /\ OwnContentsOnly

----------------------------------------------------------------------------

Planning == {"idle", "discovered", "statted", "timed"}
Working == {"wipe", "symbols", "chunks", "mark"}

\* The operations of a list that still have to be marked.
Current(op) ==
    IF pc \in Working /\ item.op = op THEN {ItemOf(item)} ELSE {}

Pending(op) == todo[op] \cup batch[op] \cup Current(op)

PendingAdds == Pending("compute") \cup Pending("addTag")
PendingRemovals == Pending("removeTag") \cup Pending("delete")

KeyOnDisk(p) == calculate_hash(ReadFile(p))

HasRow(b, p, k) ==
    \E row \in catalog : row.branch = b /\ row.path = p /\ row.key = k

Tagged(b, p, k) == [key |-> k, path |-> p, branch |-> b] \in chunkTags

\* Is this the row of the operation in progress?
OfItem(b, p, k) == b = run.branch /\ p = item.path /\ k = item.key

----------------------------------------------------------------------------
(* What is read.                                                           *)

\* What is to be computed still has the hash that the plan read.
ComputesRead ==
    /\ pc \notin Planning =>
          \A i \in todo.compute \cup batch.compute : i.key = KeyOnDisk(i.path)
    /\ pc \in {"wipe", "symbols", "chunks"} =>
          item.op = "compute" /\ item.key = calculate_hash(text)

\* A batch is worked off before the next one is cut.
OneBatch == pc \in Planning \cup {"batch"} => batch = NoOperations

ReadInv == TypeOK /\ OneBatch /\ RowsMatchKey /\ ComputesRead

----------------------------------------------------------------------------
(* The tables.                                                             *)

OwnKeys(p) == {calculate_hash(c) : c \in Writable[p]}

\* A key is that of one path, in every table and every list.
Owned ==
    /\ \A p \in Paths : disk[p] \in Writable[p] \cup {NoFile}
    /\ \A row \in catalog : row.key \in OwnKeys(row.path)
    /\ \A c \in chunks : c.key \in OwnKeys(c.path) /\ Chunkable(c.text)
    /\ pc \notin Planning =>
          \A op \in Ops : \A i \in todo[op] \cup batch[op] :
             i.key \in OwnKeys(i.path)
    /\ pc \in Working \cup {"global"} => item.key \in OwnKeys(item.path)

\* The rows of the scope of the refresh in progress.
InScope(row) == row.branch = run.branch /\ row.path \in Scope

\* tag_catalog has one version of a file, except where a refresh works.
OneVersion ==
    \A r1, r2 \in catalog :
       /\ r1.branch = r2.branch /\ r1.path = r2.path
       /\ pc \in Planning \/ ~InScope(r1) \/ r1.key = r2.key
       => r1 = r2

\* chunk_tags and tag_catalog name the same rows, but for the operation in
\* progress and for the files without chunks.
TagsExact ==
    /\ \A b \in Branches, p \in Paths, k \in Keys :
          ~(pc \in Working /\ OfItem(b, p, k)) =>
             (Tagged(b, p, k) <=>
                 HasRow(b, p, k) /\ k # calculate_hash(Empty))
    /\ pc \in {"symbols", "chunks"} =>
          ~Tagged(run.branch, item.path, item.key)
    /\ pc = "mark" =>
          (Tagged(run.branch, item.path, item.key) <=>
              Adding /\ item.key # calculate_hash(Empty))

\* So do global_cache and tag_catalog.
GlobalsExact ==
    /\ \A k \in Keys, b \in Branches :
          ~(pc = "global" /\ k = item.key /\ b = run.branch) =>
             ([key |-> k, branch |-> b] \in globalCache <=>
                 \E p \in Paths : HasRow(b, p, k))
    /\ pc = "global" =>
          (HasRow(run.branch, item.path, item.key) <=> Adding)

----------------------------------------------------------------------------
(* The plan in progress.                                                   *)

\* What was listed and what was stat'ed is still so.
StatsCurrent ==
    /\ pc # "idle" /\ run.mode = "dirs" /\ undisturbed => run.paths = Present
    /\ pc \notin {"idle", "discovered"} => stats = FileStats(run.paths)

\* The row of a file says what is on disk.
Right(p, k) == stats[p] # NoStat /\ k = KeyOnDisk(p)

PlanSound ==
    /\ \A i \in PendingAdds \cup renew : i.path \in Scope /\ Right(i.path, i.key)
    /\ \A i \in PendingRemovals : i.path \in Scope /\ ~Right(i.path, i.key)

\* Nothing is left out.
PlanComplete ==
    /\ \A p \in Scope :
          stats[p] # NoStat =>
             \/ HasRow(run.branch, p, KeyOnDisk(p))
             \/ \E i \in PendingAdds : i.path = p /\ i.key = KeyOnDisk(p)
    /\ \A row \in catalog :
          InScope(row) /\ ~Right(row.path, row.key) =>
             ItemOf(row) \in PendingRemovals

\* The other branches have no row of a key that is computed or deleted, and
\* have one of a key that is only tagged.
PlanAlone ==
    /\ \A i \in Pending("compute") \cup Pending("delete") :
          \A row \in catalog : row.key = i.key => row.branch = run.branch
    /\ \A i \in Pending("addTag") :
          \E row \in catalog : row.key = i.key /\ row.branch # run.branch

PlanInv == pc \notin Planning => PlanSound /\ PlanComplete /\ PlanAlone

QuietInv ==
    /\ DetectableInv /\ ForeignKeysInv /\ ReadInv
    /\ Owned /\ OneVersion /\ TagsExact /\ GlobalsExact
    /\ StatsCurrent /\ PlanInv
============================================================================
