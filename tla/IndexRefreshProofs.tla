------------------------- MODULE IndexRefreshProofs -------------------------
(***************************************************************************)
(* Theorems about IndexRefresh, for every set of paths, contents and       *)
(* branches, finite or not, every batch size and every bound.  The last    *)
(* five are about refreshes during which the workspace is still: the first *)
(* of them for every number of faults, the others for refreshes that no    *)
(* fault ends and paths that share no contents.                            *)
(***************************************************************************)
EXTENDS IndexQuiet, TLAPS

----------------------------------------------------------------------------
(* The planner.                                                            *)

\* Each operation list of a plan holds items.
LEMMA ClassifyType ==
    ASSUME NEW cache, NEW add \in SUBSET Item, NEW remove \in SUBSET Item
    PROVE  Classify(cache, add, remove) \in Operations
BY DEF Classify, Operations

LEMMA KeyType ==
    ASSUME NEW c \in Contents
    PROVE  calculate_hash(c) \in Keys
BY DEF Keys

\* What is read has a key, and reads of readable files are exact.
LEMMA ReadType ==
    ASSUME TypeOK, NEW p \in Paths
    PROVE  ReadFile(p) \in Contents
BY EmptyAssumption DEF TypeOK, ReadFile

LEMMA ToAddType ==
    ASSUME NEW saved \in SUBSET CatalogRow, NEW st, NEW paths \in SUBSET Paths,
           NEW read \in [Paths -> Keys]
    PROVE  ToAdd(saved, st, read, paths) \in SUBSET Item
<1>1. ChangedPaths(saved, st, read) \in SUBSET Paths
  BY DEF ChangedPaths, Suspects, LatestRows, CatalogRow
<1>2. NewPaths(saved, st, paths) \in SUBSET Paths
  BY DEF NewPaths
<1> QED BY <1>1, <1>2 DEF ToAdd, Item

LEMMA ItemOfType ==
    ASSUME NEW row \in CatalogRow
    PROVE  ItemOf(row) \in Item
BY DEF ItemOf, CatalogRow, Item

LEMMA ToRemoveType ==
    ASSUME NEW saved \in SUBSET CatalogRow, NEW st, NEW read
    PROVE  ToRemove(saved, st, read) \in SUBSET Item
BY ItemOfType DEF ToRemove

LEMMA ToRenewType ==
    ASSUME NEW saved \in SUBSET CatalogRow, NEW st, NEW read
    PROVE  ToRenew(saved, st, read) \in SUBSET Item
BY ItemOfType DEF ToRenew, RenewedRows, Suspects, LatestRows

----------------------------------------------------------------------------
(* Types.                                                                  *)

LEMMA SlicesType ==
    ASSUME NEW S, NEW s \in Slices(S)
    PROVE  s \subseteq S
BY DEF Slices, kSubset

LEMMA MinusType ==
    ASSUME NEW a \in Operations, NEW b
    PROVE  Minus(a, b) \in Operations
BY DEF Minus, Operations

LEMMA TypeInit == Init => TypeOK
<1> SUFFICES ASSUME Init PROVE TypeOK
  OBVIOUS
<1>1. /\ disk \in [Paths -> Contents \cup {NoFile}]
      /\ mtime \in [Paths -> Times]
      /\ walkCache \in [valid : BOOLEAN, paths : SUBSET Paths]
      /\ stats \in [Paths -> Times \cup {NoStat}]
      /\ todo \in Operations
      /\ batch \in Operations
  BY DEF Init, Times, NoStats, NoOperations, Operations
<1>2. /\ head \in Branches
      /\ clock \in Times
      /\ planTime \in Times
      /\ pc \in Steps
      /\ pc = "idle"
      /\ run \in Run \cup {NoRun}
      /\ item \in OpItem \cup {NoItem}
      /\ text \in Contents \cup {NoFile}
      /\ faults \in Nat
      /\ undisturbed \in BOOLEAN
  BY DEF Init, Times, Steps
<1>3. /\ catalog = {} /\ globalCache = {} /\ symbols = {} /\ chunks = {}
      /\ chunkTags = {} /\ renew = {}
  BY DEF Init
<1> QED BY <1>1, <1>2, <1>3 DEF TypeOK

LEMMA ForgetType ==
    ASSUME TypeOK, Forget
    PROVE  /\ pc' \in Steps
           /\ run' \in Run \cup {NoRun}
           /\ pc' # "idle" => run' \in Run
           /\ stats' \in [Paths -> Times \cup {NoStat}]
           /\ planTime' \in Times
           /\ todo' \in Operations
           /\ renew' \subseteq Item
           /\ batch' \in Operations
           /\ item' \in OpItem \cup {NoItem}
           /\ pc' \in {"wipe", "symbols", "chunks", "mark", "global"} =>
                 item' \in OpItem
           /\ text' \in Contents \cup {NoFile}
           /\ pc' \in {"wipe", "symbols", "chunks"} => text' \in Contents
BY DEF Forget, Steps, NoStats, Times, NoOperations, Operations

LEMMA EditType ==
    ASSUME TypeOK, NEW p \in Paths, NEW c \in Writable[p] \cup {NoFile},
           Edit(p, c)
    PROVE  TypeOK'
<1>1. c \in Contents \cup {NoFile}
  BY WritableAssumption
<1>2. clock + 1 \in Times
  BY DEF TypeOK, Times
<1>3. /\ disk' \in [Paths -> Contents \cup {NoFile}]
      /\ mtime' \in [Paths -> Times]
      /\ clock' \in Times
      /\ undisturbed' \in BOOLEAN
  BY <1>1, <1>2 DEF TypeOK, Edit
<1> QED BY <1>3 DEF TypeOK, Edit, tables, plan

LEMMA DiscoverType ==
    ASSUME TypeOK, DiscoverDirs \/ \E p \in Paths : DiscoverFile(p)
    PROVE  TypeOK'
<1>1. CASE DiscoverDirs
  <2> DEFINE listing == IF walkCache.valid THEN walkCache.paths ELSE Present
  <2>1. listing \in SUBSET Paths
    BY DEF TypeOK, Present
  <2>2. /\ walkCache' \in [valid : BOOLEAN, paths : SUBSET Paths]
        /\ run' \in Run
        /\ undisturbed' \in BOOLEAN
        /\ pc' = "discovered"
    BY <1>1, <2>1 DEF TypeOK, DiscoverDirs, Run
  <2> QED BY <1>1, <2>2
          DEF TypeOK, DiscoverDirs, workspace, tables, Steps
<1>2. CASE \E p \in Paths : DiscoverFile(p)
  <2>1. /\ run' \in Run
        /\ undisturbed' \in BOOLEAN
        /\ pc' = "discovered"
    BY <1>2 DEF TypeOK, DiscoverFile, Run
  <2> QED BY <1>2, <2>1
          DEF TypeOK, DiscoverFile, workspace, tables, Steps
<1> QED BY <1>1, <1>2

LEMMA PlanType ==
    ASSUME TypeOK, Stat \/ StartPlan \/ Plan
    PROVE  TypeOK'
<1>1. CASE Stat
  <2>1. stats' \in [Paths -> Times \cup {NoStat}]
    BY <1>1 DEF TypeOK, Stat, FileStats, Present
  <2> QED BY <1>1, <2>1 DEF TypeOK, Stat, workspace, tables, Steps
<1>2. CASE StartPlan
  BY <1>2 DEF TypeOK, StartPlan, workspace, tables, Steps, Times
<1>3. CASE Plan
  <2> DEFINE saved == SavedItems(catalog, run.branch, Scope)
             read == [p \in Paths |-> calculate_hash(ReadFile(p))]
  <2>1. saved \in SUBSET CatalogRow
    BY DEF TypeOK, SavedItems
  <2>2. read \in [Paths -> Keys]
    BY ReadType, KeyType
  <2>3. Scope \in SUBSET Paths
    BY <1>3 DEF Scope, TypeOK, Run, Plan
  <2>4. todo' \in Operations
    <3>1. ToAdd(saved, stats, read, Scope) \in SUBSET Item
      BY <2>1, <2>2, <2>3, ToAddType
    <3>2. ToRemove(saved, stats, read) \in SUBSET Item
      BY <2>1, ToRemoveType
    <3> QED BY <1>3, <3>1, <3>2, ClassifyType DEF Plan
  <2>5. renew' \in SUBSET Item
    BY <1>3, <2>1, ToRenewType DEF Plan
  <2> QED BY <1>3, <2>4, <2>5 DEF TypeOK, Plan, workspace, tables, Steps
<1> QED BY <1>1, <1>2, <1>3

LEMMA BatchType ==
    ASSUME TypeOK, StartBatch \/ EndBatch
    PROVE  TypeOK'
<1>1. CASE StartBatch
  <2>1. batch' \in Operations
    BY <1>1, SlicesType DEF TypeOK, StartBatch, Operations
  <2>2. todo' \in Operations
    BY <1>1, MinusType DEF TypeOK, StartBatch
  <2> QED BY <1>1, <2>1, <2>2
          DEF TypeOK, StartBatch, workspace, tables, plan, Steps
<1>2. CASE EndBatch
  BY <1>2 DEF TypeOK, EndBatch, workspace, tables, plan, Steps
<1> QED BY <1>1, <1>2

LEMMA TakeType ==
    ASSUME TypeOK, NEW op \in Ops, NEW i \in batch[op], Take(op, i)
    PROVE  /\ batch' \in Operations
           /\ item' \in OpItem
           /\ i \in Item
           /\ run \in Run
<1>1. i \in Item
  BY DEF TypeOK, Operations, Ops
<1>2. item' \in OpItem
  BY <1>1 DEF Take, OpItem, Item
<1>3. batch' \in Operations
  BY DEF Take, TypeOK, Operations, Ops
<1> QED BY <1>1, <1>2, <1>3 DEF Take, TypeOK

LEMMA RowsType ==
    ASSUME TypeOK, NEW key, RemoveRows(key)
    PROVE  /\ symbols' \subseteq [key : Keys, path : Paths]
           /\ chunks' \subseteq [key : Keys, path : Paths, text : Contents]
           /\ chunkTags' \subseteq
                 [key : Keys, path : Paths, branch : Branches]
BY DEF TypeOK, RemoveRows, WithoutKey

LEMMA ComputeType ==
    ASSUME TypeOK,
           \/ \E i \in batch.compute : ComputeRead(i)
           \/ ComputeWipe \/ ComputeSymbols \/ ComputeChunks
    PROVE  TypeOK'
<1>1. ASSUME NEW i \in batch.compute, ComputeRead(i) PROVE TypeOK'
  <2>1. /\ batch' \in Operations
        /\ item' \in OpItem
        /\ i \in Item
        /\ run \in Run
    BY <1>1, TakeType DEF ComputeRead, Ops
  <2>2. text' \in Contents
    BY <1>1, <2>1, ReadType DEF ComputeRead, Item
  <2> QED BY <1>1, <2>1, <2>2
          DEF TypeOK, ComputeRead, workspace, tables, plan, Steps
<1>2. CASE ComputeWipe
  BY <1>2, RowsType DEF TypeOK, ComputeWipe, workspace, plan, Steps
<1>3. CASE ComputeSymbols
  <2>1. item.key \in Keys /\ item.path \in Paths
    BY <1>3 DEF TypeOK, ComputeSymbols, OpItem
  <2>2. symbols' \subseteq [key : Keys, path : Paths]
    BY <1>3, <2>1 DEF TypeOK, ComputeSymbols
  <2> QED BY <1>3, <2>2 DEF TypeOK, ComputeSymbols, workspace, plan, Steps
<1>4. CASE ComputeChunks
  <2>1. item.key \in Keys /\ item.path \in Paths
    BY <1>4 DEF TypeOK, ComputeChunks, OpItem
  <2>2. text \in Contents /\ run.branch \in Branches
    BY <1>4 DEF TypeOK, ComputeChunks, Run
  <2>3. /\ chunks' \subseteq [key : Keys, path : Paths, text : Contents]
        /\ chunkTags' \subseteq [key : Keys, path : Paths, branch : Branches]
    BY <1>4, <2>1, <2>2 DEF TypeOK, ComputeChunks
  <2> QED BY <1>4, <2>3 DEF TypeOK, ComputeChunks, workspace, plan, Steps
<1> QED BY <1>1, <1>2, <1>3, <1>4

LEMMA TagType ==
    ASSUME TypeOK,
           \/ \E i \in batch.addTag : AddTag(i)
           \/ \E i \in batch.removeTag : RemoveTag(i)
           \/ \E i \in batch.delete : Delete(i)
    PROVE  TypeOK'
<1>1. ASSUME NEW i \in batch.addTag, AddTag(i) PROVE TypeOK'
  <2>1. /\ batch' \in Operations
        /\ item' \in OpItem
        /\ run \in Run
    BY <1>1, TakeType DEF AddTag, Ops
  <2>2. chunkTags' \subseteq [key : Keys, path : Paths, branch : Branches]
    BY <1>1, <2>1 DEF TypeOK, AddTag, Run
  <2> QED BY <1>1, <2>1, <2>2 DEF TypeOK, AddTag, workspace, plan, Steps
<1>2. ASSUME NEW i \in batch.removeTag, RemoveTag(i) PROVE TypeOK'
  <2>1. /\ batch' \in Operations
        /\ item' \in OpItem
        /\ run \in Run
    BY <1>2, TakeType DEF RemoveTag, Ops
  <2> QED BY <1>2, <2>1 DEF TypeOK, RemoveTag, workspace, plan, Steps
<1>3. ASSUME NEW i \in batch.delete, Delete(i) PROVE TypeOK'
  <2>1. /\ batch' \in Operations
        /\ item' \in OpItem
        /\ run \in Run
    BY <1>3, TakeType DEF Delete, Ops
  <2> QED BY <1>3, <2>1, RowsType DEF TypeOK, Delete, workspace, plan, Steps
<1> QED BY <1>1, <1>2, <1>3

LEMMA MarkType ==
    ASSUME TypeOK, MarkCatalog \/ MarkGlobal
    PROVE  TypeOK'
<1>1. item.key \in Keys /\ item.path \in Paths /\ run.branch \in Branches
  BY DEF TypeOK, MarkCatalog, MarkGlobal, OpItem, Run
<1>2. CASE MarkCatalog
  <2>1. catalog' \subseteq CatalogRow
    BY <1>1, <1>2 DEF TypeOK, MarkCatalog, MarkedRow, CatalogRow
  <2> QED BY <1>2, <2>1 DEF TypeOK, MarkCatalog, workspace, plan, Steps
<1>3. CASE MarkGlobal
  <2>1. globalCache' \subseteq GlobalRow
    BY <1>1, <1>3
       DEF TypeOK, MarkGlobal, UpdateGlobalCache, GlobalRowOfItem, GlobalRow
  <2> QED BY <1>3, <2>1 DEF TypeOK, MarkGlobal, workspace, plan, Steps
<1> QED BY <1>2, <1>3

LEMMA RenewingType ==
    ASSUME TypeOK, NEW items \in SUBSET renew
    PROVE  AfterRenewing(items) \subseteq CatalogRow
<1>1. ASSUME NEW i \in items, NEW row \in Versions(i.path)
      PROVE  Renewed1(row, i) \in CatalogRow
  <2>1. i.key \in Keys /\ planTime \in Times /\ row \in CatalogRow
    BY DEF TypeOK, Versions, Item
  <2> QED BY <2>1 DEF Renewed1, CatalogRow
<1>2. catalog \subseteq CatalogRow
  BY DEF TypeOK
<1> QED BY <1>1, <1>2 DEF AfterRenewing

LEMMA EndType ==
    ASSUME TypeOK,
           RenewTimestamps \/ RenewalConflict \/ AbortBatch \/ Interrupt
    PROVE  TypeOK'
<1>1. CASE RenewTimestamps
  <2>1. catalog' \subseteq CatalogRow
    BY <1>1, RenewingType DEF RenewTimestamps
  <2>2. Forget
    BY <1>1 DEF RenewTimestamps
  <2> QED BY <1>1, <2>1, <2>2, ForgetType
          DEF TypeOK, RenewTimestamps, workspace
<1>2. CASE RenewalConflict
  <2>1. catalog' \subseteq CatalogRow
    BY <1>2, RenewingType DEF RenewalConflict
  <2>2. Forget
    BY <1>2 DEF RenewalConflict
  <2> QED BY <1>2, <2>1, <2>2, ForgetType
          DEF TypeOK, RenewalConflict, workspace
<1>3. CASE AbortBatch
  <2>1. batch' \in Operations
    BY <1>3 DEF AbortBatch, NoOperations, Operations
  <2>2. /\ faults \in Nat /\ run \in Run
        /\ faults' = faults + 1
        /\ undisturbed' \in BOOLEAN
    BY <1>3 DEF TypeOK, AbortBatch
  <2> QED BY <1>3, <2>1, <2>2
          DEF TypeOK, AbortBatch, workspace, tables, plan, Steps
<1>4. CASE Interrupt
  <2>1. Forget
    BY <1>4 DEF Interrupt
  <2>2. /\ faults \in Nat
        /\ faults' = faults + 1
        /\ undisturbed' \in BOOLEAN
    BY <1>4 DEF TypeOK, Interrupt
  <2> QED BY <1>4, <2>1, <2>2, ForgetType
          DEF TypeOK, Interrupt, workspace, tables
<1> QED BY <1>1, <1>2, <1>3, <1>4

LEMMA TypeStep == TypeOK /\ [Next]_vars => TypeOK'
<1> SUFFICES ASSUME TypeOK, [Next]_vars PROVE TypeOK'
  OBVIOUS
<1>1. ASSUME NEW p \in Paths, NEW c \in Writable[p] \cup {NoFile}, Edit(p, c)
      PROVE  TypeOK'
  BY <1>1, EditType
<1>2. ASSUME NEW b \in Branches, Checkout(b) PROVE TypeOK'
  BY <1>2 DEF TypeOK, Checkout, tables, plan
<1>3. CASE ExpireWalkCache
  BY <1>3 DEF TypeOK, ExpireWalkCache, workspace, tables, plan
<1>4. CASE DiscoverDirs \/ \E p \in Paths : DiscoverFile(p)
  BY <1>4, DiscoverType
<1>5. CASE RefreshStep
  BY <1>5, PlanType, BatchType, ComputeType, TagType, MarkType, EndType
     DEF RefreshStep
<1>6. CASE AbortBatch \/ Interrupt
  BY <1>6, EndType
<1>7. CASE UNCHANGED vars
  BY <1>7 DEF TypeOK, vars, workspace, tables, plan
<1> QED BY <1>1, <1>2, <1>3, <1>4, <1>5, <1>6, <1>7 DEF Next

\* Every table, list and cursor of a refresh keeps its type: in particular
\* an operation of a plan always names a path of the workspace and the hash
\* of contents that were read.
THEOREM TypeCorrect == Spec => []TypeOK
BY TypeInit, TypeStep, PTL DEF Spec

----------------------------------------------------------------------------
(* Foreign keys.                                                           *)

\* The rows under a key go together.
LEMMA RowsKeepForeignKeys ==
    ASSUME ForeignKeys, NEW key, RemoveRows(key)
    PROVE  ForeignKeys'
<1>1. ASSUME NEW c \in chunks'
      PROVE  [key |-> c.key, path |-> c.path] \in symbols'
  BY <1>1 DEF ForeignKeys, RemoveRows, WithoutKey
<1>2. ASSUME NEW t \in chunkTags'
      PROVE  \E c \in chunks' : c.key = t.key /\ c.path = t.path
  BY <1>2 DEF ForeignKeys, RemoveRows, WithoutKey
<1> QED BY <1>1, <1>2 DEF ForeignKeys

LEMMA ForeignKeysStep ==
    ASSUME ForeignKeysInv, [Next]_vars
    PROVE  ForeignKeys' /\ SymbolsFirst'
<1> USE DEF ForeignKeysInv
<1>1. CASE ComputeWipe
  BY <1>1, RowsKeepForeignKeys DEF ComputeWipe, SymbolsFirst
<1>2. CASE ComputeSymbols
  <2>1. ForeignKeys'
    BY <1>2 DEF ComputeSymbols, ForeignKeys
  <2>2. SymbolsFirst'
    BY <1>2 DEF ComputeSymbols, SymbolsFirst, Chunkable
  <2> QED BY <2>1, <2>2
<1>3. CASE ComputeChunks
  <2> DEFINE chunk == [key |-> item.key, path |-> item.path, text |-> text]
             tag == [key |-> item.key, path |-> item.path,
                     branch |-> run.branch]
  <2>1. CASE ~Chunkable(text)
    BY <1>3, <2>1 DEF ComputeChunks, ForeignKeys, SymbolsFirst
  <2>2. CASE Chunkable(text)
    <3>1. chunks' = chunks \cup {chunk} /\ chunkTags' = chunkTags \cup {tag}
      BY <1>3, <2>2 DEF ComputeChunks
    <3>2. [key |-> chunk.key, path |-> chunk.path] \in symbols
      BY <1>3, <2>2 DEF ComputeChunks, SymbolsFirst
    <3>3. chunk.key = tag.key /\ chunk.path = tag.path
      OBVIOUS
    <3>4. UNCHANGED symbols /\ pc' = "mark"
      BY <1>3 DEF ComputeChunks
    <3>5. ForeignKeys'
      BY <3>1, <3>2, <3>3, <3>4 DEF ForeignKeys
    <3> QED BY <3>4, <3>5 DEF SymbolsFirst
  <2> QED BY <2>1, <2>2
<1>4. ASSUME NEW i \in batch.addTag, AddTag(i)
      PROVE  ForeignKeys' /\ SymbolsFirst'
  BY <1>4 DEF AddTag, ForeignKeys, SymbolsFirst
<1>5. ASSUME NEW i \in batch.removeTag, RemoveTag(i)
      PROVE  ForeignKeys' /\ SymbolsFirst'
  BY <1>5 DEF RemoveTag, ForeignKeys, SymbolsFirst
<1>6. ASSUME NEW i \in batch.delete, Delete(i)
      PROVE  ForeignKeys' /\ SymbolsFirst'
  BY <1>6, RowsKeepForeignKeys DEF Delete, SymbolsFirst
<1>7. ASSUME UNCHANGED <<symbols, chunks, chunkTags>>, pc' # "chunks"
      PROVE  ForeignKeys' /\ SymbolsFirst'
  BY <1>7 DEF ForeignKeys, SymbolsFirst
<1>8. ASSUME UNCHANGED <<symbols, chunks, chunkTags, pc, text, item>>
      PROVE  ForeignKeys' /\ SymbolsFirst'
  BY <1>8 DEF ForeignKeys, SymbolsFirst, Chunkable
<1>9. ASSUME NEW p \in Paths, NEW c \in Writable[p] \cup {NoFile}, Edit(p, c)
      PROVE  ForeignKeys' /\ SymbolsFirst'
  BY <1>8, <1>9 DEF Edit, tables
<1>10. ASSUME NEW b \in Branches, Checkout(b)
       PROVE  ForeignKeys' /\ SymbolsFirst'
  BY <1>8, <1>10 DEF Checkout, tables
<1>11. CASE ExpireWalkCache
  BY <1>8, <1>11 DEF ExpireWalkCache, tables
<1>12. CASE DiscoverDirs \/ \E p \in Paths : DiscoverFile(p)
  BY <1>7, <1>12 DEF DiscoverDirs, DiscoverFile, tables
<1>13. CASE Stat \/ StartPlan \/ Plan \/ StartBatch \/ EndBatch
  BY <1>7, <1>13 DEF Stat, StartPlan, Plan, StartBatch, EndBatch, tables
<1>14. ASSUME NEW i \in batch.compute, ComputeRead(i)
       PROVE  ForeignKeys' /\ SymbolsFirst'
  BY <1>7, <1>14 DEF ComputeRead, tables
<1>15. CASE MarkCatalog \/ MarkGlobal
  BY <1>7, <1>15 DEF MarkCatalog, MarkGlobal
<1>16. CASE RenewTimestamps \/ RenewalConflict \/ AbortBatch \/ Interrupt
  BY <1>7, <1>16
     DEF RenewTimestamps, RenewalConflict, AbortBatch, Interrupt, Forget, tables
<1>17. CASE UNCHANGED vars
  BY <1>8, <1>17 DEF vars, tables
<1> QED BY <1>1, <1>2, <1>3, <1>4, <1>5, <1>6, <1>9, <1>10, <1>11, <1>12,
           <1>13, <1>14, <1>15, <1>16, <1>17 DEF Next, RefreshStep

\* In every state an exception, a cancellation or a crash can leave behind,
\* each chunk has its symbol tree and each chunk tag its chunk.
THEOREM ForeignKeysHold == Spec => []ForeignKeys
<1>1. Init => ForeignKeysInv
  BY TypeInit DEF ForeignKeysInv, Init, ForeignKeys, SymbolsFirst
<1>2. ForeignKeysInv /\ [Next]_vars => ForeignKeysInv'
  BY TypeStep, ForeignKeysStep DEF ForeignKeysInv
<1>3. ForeignKeysInv => ForeignKeys
  BY DEF ForeignKeysInv
<1> QED BY <1>1, <1>2, <1>3, PTL DEF Spec

----------------------------------------------------------------------------
(* Stale rows are detectable.                                              *)

LEMMA ClockBoundStep ==
    ASSUME DetectableInv, [Next]_vars
    PROVE  ClockBound'
<1> USE DEF DetectableInv
<1>1. /\ clock \in Nat /\ planTime \in Nat
      /\ \A p \in Paths : mtime[p] \in Nat
      /\ \A row \in catalog : row.at \in Nat
  BY DEF TypeOK, Times, CatalogRow
<1>2. ASSUME UNCHANGED <<mtime, clock, planTime, catalog>>
      PROVE  ClockBound'
  BY <1>2 DEF ClockBound
<1>3. ASSUME UNCHANGED <<mtime, clock>>, planTime' \in {0, planTime},
             \A row \in catalog' : row \in catalog \/ row.at = planTime
      PROVE  ClockBound'
  <2>1. \A row \in catalog' : row.at <= clock
    BY <1>3 DEF ClockBound
  <2>2. planTime' <= clock
    BY <1>1, <1>3 DEF ClockBound
  <2> QED BY <1>3, <2>1, <2>2 DEF ClockBound
<1>4. ASSUME NEW p \in Paths, NEW c \in Writable[p] \cup {NoFile}, Edit(p, c)
      PROVE  ClockBound'
  <2>1. /\ clock' = clock + 1 /\ UNCHANGED <<planTime, catalog>>
        /\ mtime' = [mtime EXCEPT ![p] = clock + 1]
    BY <1>4 DEF Edit, tables, plan
  <2>2. \A q \in Paths : mtime'[q] <= clock'
    BY <1>1, <2>1 DEF ClockBound, TypeOK
  <2> QED BY <1>1, <2>1, <2>2 DEF ClockBound
<1>5. CASE StartPlan
  <2>1. /\ clock' = clock + 1 /\ planTime' = clock + 1
        /\ UNCHANGED <<mtime, catalog>>
    BY <1>5 DEF StartPlan, workspace, tables
  <2> QED BY <1>1, <2>1 DEF ClockBound
<1>6. CASE MarkCatalog
  <2>1. \A row \in catalog' : row \in catalog \/ row.at = planTime
    BY <1>6 DEF MarkCatalog, MarkedRow
  <2> QED BY <1>3, <1>6, <2>1 DEF MarkCatalog, workspace, plan
<1>7. CASE RenewTimestamps \/ RenewalConflict
  <2>1. ASSUME NEW items, NEW row \in AfterRenewing(items)
        PROVE  row \in catalog \/ row.at = planTime
    <3>1. ASSUME NEW i \in items, NEW r \in Versions(i.path),
                 row = Renewed1(r, i)
          PROVE  row.at = planTime
      <4>1. r \in CatalogRow
        BY DEF Versions, TypeOK
      <4> QED BY <3>1, <4>1 DEF Renewed1, CatalogRow
    <3> QED BY <2>1, <3>1 DEF AfterRenewing
  <2>2. \A row \in catalog' : row \in catalog \/ row.at = planTime
    BY <1>7, <2>1 DEF RenewTimestamps, RenewalConflict
  <2> QED BY <1>3, <1>7, <2>2
          DEF RenewTimestamps, RenewalConflict, Forget, workspace
<1>8. CASE AbortBatch \/ Interrupt
  BY <1>3, <1>8 DEF AbortBatch, Interrupt, Forget, workspace, tables, plan
<1>9. ASSUME NEW b \in Branches, Checkout(b) PROVE ClockBound'
  BY <1>2, <1>9 DEF Checkout, tables, plan
<1>10. CASE ExpireWalkCache
  BY <1>2, <1>10 DEF ExpireWalkCache, workspace, tables, plan
<1>11. CASE DiscoverDirs \/ \E p \in Paths : DiscoverFile(p)
  BY <1>2, <1>11 DEF DiscoverDirs, DiscoverFile, workspace, tables
<1>12. CASE Stat \/ Plan \/ StartBatch \/ EndBatch
  BY <1>2, <1>12
     DEF Stat, Plan, StartBatch, EndBatch, workspace, tables, plan
<1>13. CASE \/ \E i \in batch.compute : ComputeRead(i)
            \/ \E i \in batch.addTag : AddTag(i)
            \/ \E i \in batch.removeTag : RemoveTag(i)
            \/ \E i \in batch.delete : Delete(i)
            \/ ComputeWipe \/ ComputeSymbols \/ ComputeChunks \/ MarkGlobal
  BY <1>2, <1>13 DEF ComputeRead, AddTag, RemoveTag, Delete, ComputeWipe,
     ComputeSymbols, ComputeChunks, MarkGlobal, workspace, tables, plan
<1>14. CASE UNCHANGED vars
  BY <1>2, <1>14 DEF vars, workspace, tables, plan
<1> QED BY <1>4, <1>5, <1>6, <1>7, <1>8, <1>9, <1>10, <1>11, <1>12, <1>13,
           <1>14 DEF Next, RefreshStep

\* An edit makes its file newer than every time in use, and leaves what the
\* others may conclude from their timestamps.
LEMMA EditKeepsAccurate ==
    ASSUME DetectableInv, NEW p \in Paths, NEW c \in Writable[p] \cup {NoFile},
           Edit(p, c), NEW q \in Paths, NEW key, NEW t \in Nat, t <= clock,
           Accurate(q, key, t)
    PROVE  Accurate(q, key, t)'
<1>1. clock \in Nat /\ disk \in [Paths -> Contents \cup {NoFile}]
      /\ mtime \in [Paths -> Nat]
  BY DEF DetectableInv, TypeOK, Times
<1>2. /\ disk' = [disk EXCEPT ![p] = c]
      /\ mtime' = [mtime EXCEPT ![p] = clock + 1]
  BY DEF Edit
<1>3. CASE q = p
  <2>1. mtime'[q] = clock + 1
    BY <1>1, <1>2, <1>3
  <2> QED BY <1>1, <2>1 DEF Accurate
<1>4. CASE q # p
  <2>1. disk'[q] = disk[q] /\ mtime'[q] = mtime[q]
    BY <1>1, <1>2, <1>4
  <2> QED BY <2>1 DEF Accurate
<1> QED BY <1>3, <1>4

LEMMA AccurateUnchanged ==
    ASSUME UNCHANGED <<disk, mtime>>, NEW p, NEW key, NEW t, Accurate(p, key, t)
    PROVE  Accurate(p, key, t)'
BY DEF Accurate

\* A catalog row that is written names what its plan saw.
LEMMA StaleStep ==
    ASSUME DetectableInv, [Next]_vars
    PROVE  StaleIsDetectable'
<1> USE DEF DetectableInv
<1>1. ASSUME UNCHANGED <<disk, mtime, catalog>>
      PROVE  StaleIsDetectable'
  BY <1>1, AccurateUnchanged DEF StaleIsDetectable
<1>2. ASSUME NEW p \in Paths, NEW c \in Writable[p] \cup {NoFile}, Edit(p, c)
      PROVE  StaleIsDetectable'
  <2>1. catalog' = catalog
    BY <1>2 DEF Edit, tables
  <2>2. \A row \in catalog :
           row.path \in Paths /\ row.at \in Nat /\ row.at <= clock
    BY DEF TypeOK, ClockBound, CatalogRow, Times
  <2> QED BY <1>2, <2>1, <2>2, EditKeepsAccurate DEF StaleIsDetectable
<1>3. CASE MarkCatalog
  <2>1. UNCHANGED <<disk, mtime>>
    BY <1>3 DEF MarkCatalog, workspace
  <2>2. ASSUME NEW row \in catalog'
        PROVE  Accurate(row.path, row.key, row.at)
    <3>1. CASE row \in catalog
      BY <3>1 DEF StaleIsDetectable
    <3>2. CASE row \notin catalog
      <4>1. Adding /\ row = MarkedRow
        BY <1>3, <3>2 DEF MarkCatalog
      <4>2. Accurate(item.path, item.key, planTime)
        BY <1>3, <4>1 DEF MarkCatalog, PlanAccurate, Planned
      <4> QED BY <4>1, <4>2 DEF MarkedRow
    <3> QED BY <3>1, <3>2
  <2> QED BY <2>1, <2>2, AccurateUnchanged DEF StaleIsDetectable
<1>4. CASE RenewTimestamps \/ RenewalConflict
  <2>1. UNCHANGED <<disk, mtime>>
    BY <1>4 DEF RenewTimestamps, RenewalConflict, workspace
  <2>2. pc = "batch"
    BY <1>4 DEF RenewTimestamps, RenewalConflict
  <2>3. ASSUME NEW items \in SUBSET renew, NEW row \in AfterRenewing(items)
        PROVE  Accurate(row.path, row.key, row.at)
    <3>1. ASSUME NEW i \in items, NEW r \in Versions(i.path),
                 row = Renewed1(r, i)
          PROVE  Accurate(row.path, row.key, row.at)
      <4>1. r \in CatalogRow /\ r.path = i.path
        BY DEF Versions, TypeOK
      <4>2. row.path = i.path /\ row.key = i.key /\ row.at = planTime
        BY <3>1, <4>1 DEF Renewed1, CatalogRow
      <4>3. Accurate(i.path, i.key, planTime)
        BY <2>2 DEF PlanAccurate, Planned
      <4> QED BY <4>2, <4>3
    <3>2. CASE row \in catalog
      BY <3>2 DEF StaleIsDetectable
    <3> QED BY <2>3, <3>1, <3>2 DEF AfterRenewing
  <2>4. \E items \in SUBSET renew : catalog' = AfterRenewing(items)
    BY <1>4 DEF RenewTimestamps, RenewalConflict
  <2> QED BY <2>1, <2>3, <2>4, AccurateUnchanged DEF StaleIsDetectable
<1>5. ASSUME NEW b \in Branches, Checkout(b) PROVE StaleIsDetectable'
  BY <1>1, <1>5 DEF Checkout, tables
<1>6. CASE ExpireWalkCache \/ AbortBatch \/ Interrupt
  BY <1>1, <1>6 DEF ExpireWalkCache, AbortBatch, Interrupt, workspace, tables
<1>7. CASE DiscoverDirs \/ \E p \in Paths : DiscoverFile(p)
  BY <1>1, <1>7 DEF DiscoverDirs, DiscoverFile, workspace, tables
<1>8. CASE Stat \/ StartPlan \/ Plan \/ StartBatch \/ EndBatch
  BY <1>1, <1>8
     DEF Stat, StartPlan, Plan, StartBatch, EndBatch, workspace, tables
<1>9. CASE \/ \E i \in batch.compute : ComputeRead(i)
           \/ \E i \in batch.addTag : AddTag(i)
           \/ \E i \in batch.removeTag : RemoveTag(i)
           \/ \E i \in batch.delete : Delete(i)
           \/ ComputeWipe \/ ComputeSymbols \/ ComputeChunks \/ MarkGlobal
  BY <1>1, <1>9 DEF ComputeRead, AddTag, RemoveTag, Delete, ComputeWipe,
     ComputeSymbols, ComputeChunks, MarkGlobal, workspace, tables
<1>10. CASE UNCHANGED vars
  BY <1>1, <1>10 DEF vars, workspace, tables
<1> QED BY <1>2, <1>3, <1>4, <1>5, <1>6, <1>7, <1>8, <1>9, <1>10
        DEF Next, RefreshStep

\* What a plan adds and renews is what was read.
LEMMA PlannedByPlan ==
    ASSUME TypeOK, Plan
    PROVE  Planned(todo.compute \cup todo.addTag \cup renew)'
<1> DEFINE saved == SavedItems(catalog, run.branch, Scope)
           read == [p \in Paths |-> calculate_hash(ReadFile(p))]
           add == ToAdd(saved, stats, read, Scope)
<1>1. Scope \in SUBSET Paths
  BY DEF Scope, TypeOK, Run, Plan
<1>2. saved \in SUBSET CatalogRow
  BY DEF TypeOK, SavedItems
<1>3. \A p \in Paths : Accurate(p, read[p], planTime)
  BY DEF Accurate, ReadFile
<1>4. \A i \in add : i.path \in Paths /\ i.key = read[i.path]
  <2>1. ChangedPaths(saved, stats, read) \in SUBSET Paths
    BY <1>2 DEF ChangedPaths, Suspects, LatestRows, CatalogRow
  <2>2. NewPaths(saved, stats, Scope) \in SUBSET Paths
    BY <1>1 DEF NewPaths
  <2> QED BY <2>1, <2>2 DEF ToAdd
<1>5. todo'.compute \subseteq add /\ todo'.addTag \subseteq add
  BY DEF Plan, Classify
<1>6. \A i \in renew' : i.path \in Paths /\ i.key = read[i.path]
  BY <1>2 DEF Plan, ToRenew, RenewedRows, Suspects, LatestRows, ItemOf,
              CatalogRow
<1>7. UNCHANGED <<disk, mtime, planTime>>
  BY DEF Plan, workspace
<1>8. \A i \in todo'.compute \cup todo'.addTag \cup renew' :
         Accurate(i.path, i.key, planTime)
  BY <1>3, <1>4, <1>5, <1>6
<1> QED BY <1>7, <1>8, AccurateUnchanged DEF Planned

LEMMA PlanAccurateStep ==
    ASSUME DetectableInv, [Next]_vars
    PROVE  PlanAccurate'
<1> USE DEF DetectableInv
<1>1. CASE UNCHANGED <<disk, mtime, planTime, todo, renew, batch, item, pc>>
  BY <1>1 DEF PlanAccurate, Planned, Accurate, Adding
<1>2. ASSUME NEW p \in Paths, NEW c \in Writable[p] \cup {NoFile}, Edit(p, c)
      PROVE  PlanAccurate'
  <2>1. UNCHANGED <<planTime, todo, renew, batch, item, pc>>
    BY <1>2 DEF Edit, plan
  <2>2. planTime \in Nat /\ planTime <= clock
    BY DEF TypeOK, Times, ClockBound
  <2>3. ASSUME NEW items, \A i \in items : i.path \in Paths, Planned(items)
        PROVE  \A i \in items : Accurate(i.path, i.key, planTime)'
    <3> SUFFICES ASSUME NEW i \in items
                 PROVE  Accurate(i.path, i.key, planTime)'
      OBVIOUS
    <3>1. Accurate(i.path, i.key, planTime)
      BY <2>3 DEF Planned
    <3>2. \A t \in Nat : t <= clock /\ Accurate(i.path, i.key, t) =>
                             Accurate(i.path, i.key, t)'
      BY <1>2, <2>3, EditKeepsAccurate
    <3> QED BY <2>1, <2>2, <3>1, <3>2 DEF Accurate
  <2>4. \A i \in todo.compute \cup todo.addTag \cup renew : i.path \in Paths
    BY DEF TypeOK, Operations, Item
  <2>5. \A i \in batch.compute \cup batch.addTag : i.path \in Paths
    BY DEF TypeOK, Operations, Item
  <2>6. pc \in {"wipe", "symbols", "chunks", "mark"} => item.path \in Paths
    BY DEF TypeOK, OpItem
  <2>7. pc \notin {"idle", "discovered", "statted", "timed"} =>
           \A i \in todo.compute \cup todo.addTag \cup renew :
              Accurate(i.path, i.key, planTime)'
    BY <2>3, <2>4 DEF PlanAccurate
  <2>8. pc \in {"next", "wipe", "symbols", "chunks", "mark", "global"} =>
           \A i \in batch.compute \cup batch.addTag :
              Accurate(i.path, i.key, planTime)'
    BY <2>3, <2>5 DEF PlanAccurate
  <2>9. pc \in {"wipe", "symbols", "chunks", "mark"} /\ Adding =>
           \A i \in {item} : Accurate(i.path, i.key, planTime)'
    BY <2>3, <2>6 DEF PlanAccurate
  <2> QED BY <2>1, <2>7, <2>8, <2>9 DEF PlanAccurate, Planned, Adding
<1>3. CASE pc' \in {"idle", "discovered", "statted", "timed"}
  BY <1>3 DEF PlanAccurate
<1>4. CASE Plan
  BY <1>4, PlannedByPlan DEF Plan, PlanAccurate
<1>5. CASE StartBatch
  <2>1. UNCHANGED <<disk, mtime, planTime, renew>> /\ pc = "batch" /\ pc' = "next"
    BY <1>5 DEF StartBatch, workspace, plan
  <2>2. /\ batch'.compute \subseteq todo.compute
        /\ batch'.addTag \subseteq todo.addTag
    BY <1>5, SlicesType DEF StartBatch
  <2>3. todo'.compute \subseteq todo.compute /\ todo'.addTag \subseteq todo.addTag
    BY <1>5 DEF StartBatch, Minus
  <2>4. Planned(todo.compute \cup todo.addTag \cup renew)
    BY <2>1 DEF PlanAccurate
  <2>5. /\ Planned(todo'.compute \cup todo'.addTag \cup renew)
        /\ Planned(batch'.compute \cup batch'.addTag)
    BY <2>2, <2>3, <2>4 DEF Planned
  <2> QED BY <2>1, <2>5 DEF PlanAccurate, Planned, Accurate
<1>6. CASE EndBatch \/ AbortBatch
  BY <1>6 DEF EndBatch, AbortBatch, PlanAccurate, Planned, Accurate, workspace,
              plan
<1>7. ASSUME NEW op \in Ops, NEW i \in batch[op], Take(op, i),
             UNCHANGED <<disk, mtime, planTime, todo, renew>>,
             pc' = "mark" \/ (op = "compute" /\ pc' = "wipe")
      PROVE  PlanAccurate'
  <2>1. pc = "next" /\ batch \in Operations
    BY <1>7 DEF Take, TypeOK
  <2>2. /\ batch'.compute \subseteq batch.compute
        /\ batch'.addTag \subseteq batch.addTag
    BY <1>7, <2>1 DEF Take, Operations, Ops
  <2>3. item' = [op |-> op, path |-> i.path, key |-> i.key]
    BY <1>7 DEF Take
  <2>4. Planned(todo.compute \cup todo.addTag \cup renew)
    BY <2>1 DEF PlanAccurate
  <2>5. Planned(batch.compute \cup batch.addTag)
    BY <2>1 DEF PlanAccurate
  <2>6. op \in {"compute", "addTag"} => i \in batch.compute \cup batch.addTag
    BY <1>7
  <2>7. op \in {"compute", "addTag"} => Planned({item'})
    BY <2>3, <2>5, <2>6 DEF Planned
  <2>8. Planned(batch'.compute \cup batch'.addTag)
    BY <2>2, <2>5 DEF Planned
  <2>9. Adding' <=> op \in {"compute", "addTag"}
    BY <2>3 DEF Adding
  <2> QED BY <1>7, <2>4, <2>7, <2>8, <2>9 DEF PlanAccurate, Planned, Accurate
<1>8. CASE \E i \in batch.compute : ComputeRead(i)
  BY <1>7, <1>8 DEF ComputeRead, Ops, workspace, plan
<1>9. CASE \E i \in batch.addTag : AddTag(i)
  BY <1>7, <1>9 DEF AddTag, Ops, workspace, plan
<1>10. CASE \E i \in batch.removeTag : RemoveTag(i)
  BY <1>7, <1>10 DEF RemoveTag, Ops, workspace, plan
<1>11. CASE \E i \in batch.delete : Delete(i)
  BY <1>7, <1>11 DEF Delete, Ops, workspace, plan
<1>12. CASE ComputeWipe \/ ComputeSymbols \/ ComputeChunks \/ MarkCatalog
            \/ MarkGlobal
  BY <1>12 DEF ComputeWipe, ComputeSymbols, ComputeChunks, MarkCatalog,
     MarkGlobal, PlanAccurate, Planned, Accurate, Adding, workspace, plan
<1>13. ASSUME NEW b \in Branches, Checkout(b) PROVE PlanAccurate'
  BY <1>1, <1>13 DEF Checkout, plan
<1>14. CASE ExpireWalkCache
  BY <1>1, <1>14 DEF ExpireWalkCache, workspace, plan
<1>15. CASE UNCHANGED vars
  BY <1>1, <1>15 DEF vars, workspace, plan
<1>16. CASE DiscoverDirs \/ (\E p \in Paths : DiscoverFile(p)) \/ Stat
            \/ StartPlan \/ RenewTimestamps \/ RenewalConflict \/ Interrupt
  BY <1>3, <1>16 DEF DiscoverDirs, DiscoverFile, Stat, StartPlan,
     RenewTimestamps, RenewalConflict, Interrupt, Forget
<1> QED BY <1>2, <1>4, <1>5, <1>6, <1>8, <1>9, <1>10, <1>11, <1>12, <1>13,
           <1>14, <1>15, <1>16 DEF Next, RefreshStep

\* Whatever edits, aborts and crashes came before, a catalog row that no
\* longer has the hash of its file is older than the file, so the timestamp
\* test of the next plan finds it.
THEOREM StaleRowsDetectable == Spec => []StaleIsDetectable
<1>1. Init => DetectableInv
  BY TypeInit DEF DetectableInv, Init, ClockBound, StaleIsDetectable,
                  PlanAccurate
<1>2. DetectableInv /\ [Next]_vars => DetectableInv'
  BY TypeStep, ClockBoundStep, StaleStep, PlanAccurateStep DEF DetectableInv
<1>3. DetectableInv => StaleIsDetectable
  BY DEF DetectableInv
<1> QED BY <1>1, <1>2, <1>3, PTL DEF Spec

----------------------------------------------------------------------------
(* Rows and hashes.                                                        *)

\* What a plan adds is read when it is hashed.
LEMMA PlanReads ==
    ASSUME TypeOK, Plan
    PROVE  \A i \in todo'.compute \cup todo'.addTag \cup renew' :
              i.path \in Scope /\ i.key = KeyOnDisk(i.path)
<1> DEFINE saved == SavedItems(catalog, run.branch, Scope)
           read == [p \in Paths |-> KeyOnDisk(p)]
           add == ToAdd(saved, stats, read, Scope)
<1>1. Scope \in SUBSET Paths
  BY DEF Scope, TypeOK, Run, Plan
<1>2. saved \in SUBSET CatalogRow /\ \A row \in saved : row.path \in Scope
  BY DEF TypeOK, SavedItems
<1>3. \A i \in add : i.path \in Scope /\ i.key = read[i.path]
  <2>1. ChangedPaths(saved, stats, read) \in SUBSET Scope
    BY <1>2 DEF ChangedPaths, Suspects, LatestRows
  <2>2. NewPaths(saved, stats, Scope) \in SUBSET Scope
    BY DEF NewPaths
  <2> QED BY <2>1, <2>2 DEF ToAdd
<1>4. todo'.compute \subseteq add /\ todo'.addTag \subseteq add
  BY DEF Plan, Classify, KeyOnDisk
<1>5. \A i \in renew' : i.path \in Scope /\ i.key = read[i.path]
  <2>1. renew' = ToRenew(saved, stats, read)
    BY DEF Plan, KeyOnDisk
  <2> QED BY <1>1, <1>2, <2>1
          DEF ToRenew, RenewedRows, Suspects, LatestRows, ItemOf
<1> QED BY <1>1, <1>3, <1>4, <1>5

LEMMA OneBatchStep ==
    ASSUME OneBatch, [Next]_vars
    PROVE  OneBatch'
<1>1. ASSUME pc' \notin Planning \cup {"batch"} PROVE OneBatch'
  BY <1>1 DEF OneBatch
<1>2. ASSUME UNCHANGED <<batch, pc>> PROVE OneBatch'
  BY <1>2 DEF OneBatch
<1>3. ASSUME UNCHANGED batch, pc \in Planning PROVE OneBatch'
  BY <1>3 DEF OneBatch
<1>4. ASSUME batch' = NoOperations PROVE OneBatch'
  BY <1>4 DEF OneBatch, NoOperations
<1>5. ASSUME NEW p \in Paths, NEW c \in Writable[p] \cup {NoFile}, Edit(p, c)
      PROVE  OneBatch'
  BY <1>2, <1>5 DEF Edit
<1>6. ASSUME NEW b \in Branches, Checkout(b) PROVE OneBatch'
  BY <1>2, <1>6 DEF Checkout
<1>7. CASE ExpireWalkCache \/ UNCHANGED vars
  BY <1>2, <1>7 DEF ExpireWalkCache, vars
<1>8. CASE \/ DiscoverDirs \/ (\E p \in Paths : DiscoverFile(p)) \/ Stat
           \/ StartPlan \/ Plan
  BY <1>3, <1>8
     DEF DiscoverDirs, DiscoverFile, Stat, StartPlan, Plan, Planning
<1>9. CASE \/ EndBatch \/ RenewTimestamps \/ RenewalConflict \/ AbortBatch
           \/ Interrupt
  BY <1>4, <1>9
     DEF EndBatch, RenewTimestamps, RenewalConflict, AbortBatch, Interrupt,
         Forget
<1>10. CASE \/ \E i \in batch.compute : ComputeRead(i)
            \/ \E i \in batch.addTag : AddTag(i)
            \/ \E i \in batch.removeTag : RemoveTag(i)
            \/ \E i \in batch.delete : Delete(i)
            \/ StartBatch \/ ComputeWipe \/ ComputeSymbols \/ ComputeChunks
            \/ MarkCatalog \/ MarkGlobal
  <2>1. pc' \in {"next", "wipe", "symbols", "chunks", "mark", "global"}
    BY <1>10 DEF ComputeRead, AddTag, RemoveTag, Delete, StartBatch,
       ComputeWipe, ComputeSymbols, ComputeChunks, MarkCatalog, MarkGlobal
  <2> QED BY <1>1, <2>1 DEF Planning
<1> QED BY <1>5, <1>6, <1>7, <1>8, <1>9, <1>10 DEF Next, RefreshStep

LEMMA ReadStep ==
    ASSUME StillWorkspace, ReadInv, [Next]_vars
    PROVE  RowsMatchKey' /\ ComputesRead'
<1> USE DEF ReadInv
<1>1. ASSUME chunks' \subseteq chunks PROVE RowsMatchKey'
  BY <1>1 DEF RowsMatchKey
<1>2. ASSUME UNCHANGED <<disk, pc, todo, batch, item, text>>
      PROVE  ComputesRead'
  BY <1>2 DEF ComputesRead, KeyOnDisk, ReadFile
<1>3. ASSUME pc' \in Planning PROVE ComputesRead'
  BY <1>3 DEF ComputesRead, Planning
<1>4. ASSUME NEW p \in Paths, NEW c \in Writable[p] \cup {NoFile}, Edit(p, c)
      PROVE  RowsMatchKey' /\ ComputesRead'
  <2>1. pc' = "idle" /\ chunks' = chunks
    BY <1>4 DEF Edit, MayEdit, StillWorkspace, tables
  <2> QED BY <1>1, <1>3, <2>1 DEF Planning
<1>5. ASSUME NEW b \in Branches, Checkout(b)
      PROVE  RowsMatchKey' /\ ComputesRead'
  BY <1>1, <1>2, <1>5 DEF Checkout, tables
<1>6. CASE ExpireWalkCache \/ UNCHANGED vars
  BY <1>1, <1>2, <1>6 DEF ExpireWalkCache, vars, workspace, tables
<1>7. CASE \/ DiscoverDirs \/ (\E p \in Paths : DiscoverFile(p)) \/ Stat
           \/ StartPlan \/ RenewTimestamps \/ RenewalConflict \/ Interrupt
  <2>1. pc' \in Planning
    BY <1>7 DEF DiscoverDirs, DiscoverFile, Stat, StartPlan, RenewTimestamps,
                RenewalConflict, Interrupt, Forget, Planning
  <2>2. chunks' = chunks
    BY <1>7 DEF DiscoverDirs, DiscoverFile, Stat, StartPlan, RenewTimestamps,
                RenewalConflict, Interrupt, tables
  <2> QED BY <1>1, <1>3, <2>1, <2>2
<1>8. CASE Plan
  <2>1. UNCHANGED <<disk, chunks, batch>> /\ pc = "timed" /\ pc' = "batch"
    BY <1>8 DEF Plan, workspace, tables
  <2>2. \A i \in todo'.compute : i.key = KeyOnDisk(i.path)
    BY <1>8, PlanReads
  <2>3. batch' = NoOperations
    BY <2>1 DEF OneBatch, Planning
  <2>4. batch'.compute = {}
    BY <2>3 DEF NoOperations
  <2> QED BY <1>1, <2>1, <2>2, <2>4 DEF ComputesRead, KeyOnDisk, ReadFile
<1>9. CASE StartBatch
  <2>1. UNCHANGED <<disk, chunks>> /\ pc = "batch" /\ pc' = "next"
    BY <1>9 DEF StartBatch, workspace, tables
  <2>2. batch'.compute \subseteq todo.compute
    BY <1>9, SlicesType DEF StartBatch
  <2>3. todo'.compute \subseteq todo.compute
    BY <1>9 DEF StartBatch, Minus
  <2> QED BY <1>1, <2>1, <2>2, <2>3 DEF ComputesRead, Planning, KeyOnDisk, ReadFile
<1>10. CASE EndBatch \/ AbortBatch
  <2>1. /\ UNCHANGED <<disk, chunks, todo>> /\ pc' = "batch"
        /\ pc \notin Planning
        /\ batch' = NoOperations
    BY <1>10 DEF EndBatch, AbortBatch, workspace, tables, Planning
  <2>2. batch'.compute = {}
    BY <2>1 DEF NoOperations
  <2> QED BY <1>1, <2>1, <2>2 DEF ComputesRead, KeyOnDisk, ReadFile
<1>11. ASSUME NEW op \in Ops, NEW i \in batch[op], Take(op, i),
              UNCHANGED <<disk, todo>>, pc' = "mark"
       PROVE  ComputesRead'
  <2>1. batch'.compute \subseteq batch.compute /\ pc = "next"
    BY <1>11 DEF Take, TypeOK, Operations, Ops
  <2> QED BY <1>11, <2>1 DEF ComputesRead, Planning, KeyOnDisk, ReadFile
<1>12. CASE \/ \E i \in batch.addTag : AddTag(i)
            \/ \E i \in batch.removeTag : RemoveTag(i)
            \/ \E i \in batch.delete : Delete(i)
  <2>1. ComputesRead'
    BY <1>11, <1>12 DEF AddTag, RemoveTag, Delete, Ops, workspace
  <2>2. chunks' \subseteq chunks
    BY <1>12 DEF AddTag, RemoveTag, Delete, RemoveRows, WithoutKey
  <2> QED BY <1>1, <2>1, <2>2
<1>13. ASSUME NEW i \in batch.compute, ComputeRead(i)
       PROVE  RowsMatchKey' /\ ComputesRead'
  <2>1. /\ UNCHANGED <<disk, chunks, todo>> /\ pc = "next" /\ pc' = "wipe"
        /\ item'.op = "compute" /\ item'.key = i.key
        /\ text' = ReadFile(i.path)
        /\ batch'.compute \subseteq batch.compute
    BY <1>13 DEF ComputeRead, Take, TypeOK, Operations, workspace, tables
  <2>2. i.key = KeyOnDisk(i.path)
    BY <2>1 DEF ComputesRead, Planning
  <2> QED BY <1>1, <2>1, <2>2 DEF ComputesRead, Planning, KeyOnDisk, ReadFile
<1>14. CASE ComputeWipe \/ ComputeSymbols
  <2>1. /\ UNCHANGED <<disk, todo, batch, item, text>>
        /\ pc \in {"wipe", "symbols"} /\ pc' \notin Planning
        /\ chunks' \subseteq chunks
    BY <1>14 DEF ComputeWipe, ComputeSymbols, RemoveRows, WithoutKey,
                 workspace, Planning
  <2> QED BY <1>1, <2>1 DEF ComputesRead, Planning, KeyOnDisk, ReadFile
<1>15. CASE ComputeChunks
  <2>1. UNCHANGED <<disk, todo, batch, item>> /\ pc = "chunks" /\ pc' = "mark"
    BY <1>15 DEF ComputeChunks, workspace
  <2>2. ComputesRead'
    BY <2>1 DEF ComputesRead, Planning, KeyOnDisk, ReadFile
  <2>3. chunks' \subseteq chunks \cup
            {[key |-> item.key, path |-> item.path, text |-> text]}
    BY <1>15 DEF ComputeChunks
  <2>4. item.key = calculate_hash(text)
    BY <2>1 DEF ComputesRead
  <2> QED BY <2>2, <2>3, <2>4 DEF RowsMatchKey
<1>16. CASE MarkCatalog \/ MarkGlobal
  <2>1. /\ UNCHANGED <<disk, chunks, todo, batch>>
        /\ pc \in {"mark", "global"} /\ pc' \in {"global", "next"}
    BY <1>16 DEF MarkCatalog, MarkGlobal, workspace
  <2> QED BY <1>1, <2>1 DEF ComputesRead, Planning, KeyOnDisk, ReadFile
<1> QED BY <1>4, <1>5, <1>6, <1>7, <1>8, <1>9, <1>10, <1>12, <1>13, <1>14,
           <1>15, <1>16 DEF Next, RefreshStep

\* The chunks filed under a hash were cut from contents with that hash, even
\* after aborted batches and crashes, as long as no file changes while a refresh
\* runs.
THEOREM RowsFiledUnderTheirHash ==
    ASSUME StillWorkspace
    PROVE  Spec => []RowsMatchKey
<1>1. Init => ReadInv
  BY TypeInit DEF ReadInv, Init, OneBatch, RowsMatchKey, ComputesRead, Planning
<1>2. ReadInv /\ [Next]_vars => ReadInv'
  BY TypeStep, OneBatchStep, ReadStep DEF ReadInv
<1>3. ReadInv => RowsMatchKey
  BY DEF ReadInv
<1> QED BY <1>1, <1>2, <1>3, PTL DEF Spec

----------------------------------------------------------------------------
(* What is left to do.                                                     *)

\* Bounding the faults by none leaves no step that needs one.
LEMMA NoFaults ==
    ASSUME Quiet, TypeOK
    PROVE  ~AbortBatch /\ ~Interrupt
BY DEF Quiet, TypeOK, AbortBatch, Interrupt

\* Cutting a batch and taking an operation up leaves nothing out.
LEMMA TakeKeepsPending ==
    ASSUME TypeOK, NEW op \in Ops, NEW i \in batch[op], Take(op, i),
           todo' = todo, pc' \in Working
    PROVE  \A o \in Ops : Pending(o)' = Pending(o)
<1>1. i \in Item /\ i = ItemOf(item') /\ item'.op = op
  <2>1. i \in Item
    BY DEF TypeOK, Operations, Ops
  <2> QED BY <2>1 DEF Take, ItemOf, Item
<1>2. \A o \in Ops : Current(o) = {}
  BY DEF Take, Current, Working
<1>3. \A o \in Ops : Current(o)' = IF o = op THEN {i} ELSE {}
  BY <1>1 DEF Current
<1>4. \A o \in Ops : batch'[o] = IF o = op THEN batch[o] \ {i} ELSE batch[o]
  BY DEF Take, TypeOK, Operations, Ops
<1> QED BY <1>2, <1>3, <1>4 DEF Pending

LEMMA SameItemKeepsPending ==
    ASSUME UNCHANGED <<todo, batch, item>>, pc \in Working <=> pc' \in Working
    PROVE  \A o \in Ops : Pending(o)' = Pending(o)
BY DEF Pending, Current

LEMMA PendingSame ==
    ASSUME TypeOK, OneBatch,
           \/ StartBatch \/ EndBatch
           \/ \E i \in batch.compute : ComputeRead(i)
           \/ \E i \in batch.addTag : AddTag(i)
           \/ \E i \in batch.removeTag : RemoveTag(i)
           \/ \E i \in batch.delete : Delete(i)
           \/ ComputeWipe \/ ComputeSymbols \/ ComputeChunks \/ MarkGlobal
    PROVE  \A o \in Ops : Pending(o)' = Pending(o)
<1>1. CASE StartBatch
  <2>1. batch = NoOperations /\ pc \notin Working /\ pc' \notin Working
    BY <1>1 DEF StartBatch, OneBatch, Working
  <2>2. PICK c \in Slices(todo.compute), a \in Slices(todo.addTag),
             r \in Slices(todo.removeTag), d \in Slices(todo.delete) :
          batch' = [compute |-> c, addTag |-> a, removeTag |-> r, delete |-> d]
    BY <1>1 DEF StartBatch
  <2>3. \A o \in Ops : batch'[o] \subseteq todo[o]
    BY <2>2, SlicesType DEF Ops
  <2>4. \A o \in Ops : todo'[o] = todo[o] \ batch'[o]
    BY <1>1, <2>2 DEF StartBatch, Minus, Ops, TypeOK, Operations
  <2>5. \A o \in Ops : batch[o] = {}
    BY <2>1 DEF NoOperations, Ops
  <2> QED BY <2>1, <2>3, <2>4, <2>5 DEF Pending, Current
<1>2. CASE EndBatch
  <2>1. UNCHANGED <<todo, batch, item>> /\ pc \notin Working /\ pc' \notin Working
    BY <1>2 DEF EndBatch, Working
  <2> QED BY <2>1, SameItemKeepsPending
<1>3. ASSUME NEW i \in batch.compute, ComputeRead(i)
      PROVE  \A o \in Ops : Pending(o)' = Pending(o)
  BY <1>3, TakeKeepsPending DEF ComputeRead, Ops, Working
<1>4. ASSUME NEW i \in batch.addTag, AddTag(i)
      PROVE  \A o \in Ops : Pending(o)' = Pending(o)
  BY <1>4, TakeKeepsPending DEF AddTag, Ops, Working
<1>5. ASSUME NEW i \in batch.removeTag, RemoveTag(i)
      PROVE  \A o \in Ops : Pending(o)' = Pending(o)
  BY <1>5, TakeKeepsPending DEF RemoveTag, Ops, Working
<1>6. ASSUME NEW i \in batch.delete, Delete(i)
      PROVE  \A o \in Ops : Pending(o)' = Pending(o)
  BY <1>6, TakeKeepsPending DEF Delete, Ops, Working
<1>7. CASE ComputeWipe \/ ComputeSymbols \/ ComputeChunks
  <2>1. UNCHANGED <<todo, batch, item>> /\ pc \in Working /\ pc' \in Working
    BY <1>7 DEF ComputeWipe, ComputeSymbols, ComputeChunks, Working
  <2> QED BY <2>1, SameItemKeepsPending
<1>8. CASE MarkGlobal
  <2>1. pc \notin Working /\ pc' \notin Working /\ UNCHANGED <<todo, batch>>
    BY <1>8 DEF MarkGlobal, Working
  <2> QED BY <2>1 DEF Pending, Current
<1> QED BY <1>1, <1>2, <1>3, <1>4, <1>5, <1>6, <1>7, <1>8

\* A marked operation is done.
LEMMA MarkKeepsPending ==
    ASSUME TypeOK, MarkCatalog
    PROVE  /\ item.op \in Ops /\ ItemOf(item) \in Pending(item.op)
           /\ \A o \in Ops : /\ Pending(o)' \subseteq Pending(o)
                             /\ Pending(o) \subseteq Pending(o)' \cup {ItemOf(item)}
<1>1. pc = "mark" /\ pc' = "global" /\ UNCHANGED <<todo, batch>>
  BY DEF MarkCatalog
<1>2. item.op \in Ops
  BY <1>1 DEF TypeOK, OpItem
<1> QED BY <1>1, <1>2 DEF Pending, Current, Working

----------------------------------------------------------------------------
(* The plan.                                                               *)

\* The key that a plan reads of each path, and the rows it considers.
ReadKeys == [p \in Paths |-> KeyOnDisk(p)]
Saved == SavedItems(catalog, run.branch, Scope)

LEMMA StatOfFile ==
    ASSUME TypeOK, StatsCurrent, pc = "timed", NEW p \in Paths,
           stats[p] # NoStat
    PROVE  /\ p \in run.paths /\ disk[p] # NoFile /\ disk[p] \notin Oversized
           /\ stats[p] = mtime[p]
BY DEF StatsCurrent, FileStats, Present

\* With one version of each file, a file that is not as its row says is
\* always a suspect.
LEMMA SuspectsExact ==
    ASSUME TypeOK, StaleIsDetectable, OneVersion, StatsCurrent, pc = "timed"
    PROVE  /\ Saved \subseteq catalog
           /\ \A row \in Saved : InScope(row) /\ row.path \in Paths
           /\ \A row \in catalog : InScope(row) => row \in Saved
           /\ LatestRows(Saved) = Saved
           /\ \A p \in Paths :
                 p \in ChangedPaths(Saved, stats, ReadKeys) <=>
                    \E row \in Saved :
                       row.path = p /\ stats[p] # NoStat /\ row.key # KeyOnDisk(p)
<1>1. Saved \subseteq catalog /\ catalog \subseteq CatalogRow
  BY DEF Saved, SavedItems, TypeOK
<1>2. \A row \in Saved : InScope(row) /\ row.path \in Paths /\ row.at \in Nat
  BY <1>1 DEF Saved, SavedItems, InScope, CatalogRow, Times
<1>3. \A row \in catalog : InScope(row) => row \in Saved
  BY DEF Saved, SavedItems, InScope
<1>4. \A r1, r2 \in Saved : r1.path = r2.path => r1 = r2
  <2>1. pc \in Planning
    BY DEF Planning
  <2> QED BY <1>1, <1>2, <2>1 DEF OneVersion, InScope
<1>5. LatestRows(Saved) = Saved
  BY <1>2, <1>4 DEF LatestRows
<1>6. ASSUME NEW row \in Saved, stats[row.path] # NoStat,
             row.key # KeyOnDisk(row.path)
      PROVE  row.at < stats[row.path]
  <2>1. /\ row.path \in Paths /\ row.at \in Nat /\ row \in catalog
        /\ mtime[row.path] \in Nat
    BY <1>1, <1>2 DEF TypeOK, Times
  <2>2. disk[row.path] # NoFile /\ stats[row.path] = mtime[row.path]
    BY <1>6, <2>1, StatOfFile
  <2>3. calculate_hash(disk[row.path]) # row.key
    BY <1>6, <2>2 DEF KeyOnDisk, ReadFile
  <2>4. Accurate(row.path, row.key, row.at)
    BY <2>1 DEF StaleIsDetectable
  <2> QED BY <2>1, <2>2, <2>3, <2>4 DEF Accurate
<1>7. ASSUME NEW p \in Paths
      PROVE  p \in ChangedPaths(Saved, stats, ReadKeys) <=>
                \E row \in Saved :
                   row.path = p /\ stats[p] # NoStat /\ row.key # KeyOnDisk(p)
  <2>1. \A row \in Saved : ReadKeys[row.path] = KeyOnDisk(row.path)
    BY <1>2 DEF ReadKeys
  <2>2. ChangedPaths(Saved, stats, ReadKeys) =
          {row.path : row \in {r \in Saved : /\ stats[r.path] # NoStat
                                             /\ r.at < stats[r.path]
                                             /\ r.key # KeyOnDisk(r.path)}}
    BY <1>5, <2>1 DEF ChangedPaths, Suspects
  <2> QED BY <1>6, <2>2
<1> QED BY <1>1, <1>2, <1>3, <1>5, <1>7

\* What a plan adds is what has no row yet, and all of it.
LEMMA AddsExact ==
    ASSUME TypeOK, StaleIsDetectable, OneVersion, StatsCurrent, pc = "timed"
    PROVE  \A i : i \in ToAdd(Saved, stats, ReadKeys, Scope) <=>
              \E p \in Scope :
                 /\ i = [path |-> p, key |-> KeyOnDisk(p)]
                 /\ stats[p] # NoStat
                 /\ ~HasRow(run.branch, p, KeyOnDisk(p))
<1> DEFINE changed == ChangedPaths(Saved, stats, ReadKeys)
           new == NewPaths(Saved, stats, Scope)
<1>1. Scope \in SUBSET Paths
  BY DEF Scope, TypeOK, Run
<1>2. changed \subseteq Scope
  BY SuspectsExact DEF ChangedPaths, Suspects, InScope
<1>3. ASSUME NEW p \in Scope
      PROVE  p \in new \cup changed <=>
                stats[p] # NoStat /\ ~HasRow(run.branch, p, KeyOnDisk(p))
  <2>1. p \in new <=> stats[p] # NoStat /\ \A row \in Saved : row.path # p
    BY DEF NewPaths, SavedPaths
  <2>2. p \in changed <=>
           \E row \in Saved :
              row.path = p /\ stats[p] # NoStat /\ row.key # KeyOnDisk(p)
    BY <1>1, SuspectsExact
  <2>3. HasRow(run.branch, p, KeyOnDisk(p)) <=>
           \E row \in Saved : row.path = p /\ row.key = KeyOnDisk(p)
    BY SuspectsExact DEF HasRow, InScope
  <2>4. \A r1, r2 \in Saved : r1.path = r2.path => r1 = r2
    <3>1. pc \in Planning
      BY DEF Planning
    <3> QED BY <3>1, SuspectsExact DEF OneVersion, InScope
  <2> QED BY <2>1, <2>2, <2>3, <2>4
<1>4. new \subseteq Scope
  BY DEF NewPaths
<1>5. ToAdd(Saved, stats, ReadKeys, Scope) =
         {[path |-> p, key |-> KeyOnDisk(p)] : p \in new \cup changed}
  <2>1. \A p \in new \cup changed : ReadKeys[p] = KeyOnDisk(p)
    BY <1>1, <1>2, <1>4 DEF ReadKeys
  <2> QED BY <2>1 DEF ToAdd
<1> HIDE DEF new, changed
<1> QED BY <1>2, <1>3, <1>4, <1>5

\* What it removes are the rows of its scope that are no longer right.
LEMMA RemovalsExact ==
    ASSUME TypeOK, StaleIsDetectable, OneVersion, StatsCurrent, pc = "timed"
    PROVE  \A i : i \in ToRemove(Saved, stats, ReadKeys) <=>
              \E row \in catalog :
                 /\ i = ItemOf(row)
                 /\ InScope(row) /\ ~Right(row.path, row.key)
<1>1. \A r1, r2 \in Saved : r1.path = r2.path => r1 = r2
  <2>1. pc \in Planning
    BY DEF Planning
  <2> QED BY <2>1, SuspectsExact DEF OneVersion, InScope
<1>2. ASSUME NEW row \in Saved
      PROVE  (\/ stats[row.path] = NoStat
              \/ row.path \in ChangedPaths(Saved, stats, ReadKeys)
              \/ \E latest \in RenewedRows(Saved, stats, ReadKeys) :
                    latest.path = row.path /\ latest.key # row.key)
             <=> ~Right(row.path, row.key)
  <2>1. RenewedRows(Saved, stats, ReadKeys) \subseteq Saved
    BY SuspectsExact DEF RenewedRows, Suspects
  <2>2. ~\E latest \in RenewedRows(Saved, stats, ReadKeys) :
            latest.path = row.path /\ latest.key # row.key
    BY <1>1, <2>1
  <2>3. row.path \in ChangedPaths(Saved, stats, ReadKeys) <=>
           stats[row.path] # NoStat /\ row.key # KeyOnDisk(row.path)
    BY <1>1, SuspectsExact
  <2> QED BY <2>2, <2>3 DEF Right
<1>3. ToRemove(Saved, stats, ReadKeys) =
         {ItemOf(row) : row \in {r \in Saved : ~Right(r.path, r.key)}}
  BY <1>2 DEF ToRemove
<1> QED BY <1>3, SuspectsExact

\* What it renews is right.
LEMMA RenewalsRight ==
    ASSUME TypeOK, StaleIsDetectable, OneVersion, StatsCurrent, pc = "timed",
           NEW i \in ToRenew(Saved, stats, ReadKeys)
    PROVE  i.path \in Scope /\ Right(i.path, i.key)
<1>1. PICK row \in RenewedRows(Saved, stats, ReadKeys) : i = ItemOf(row)
  BY DEF ToRenew
<1>2. row \in Saved /\ stats[row.path] # NoStat /\ row.key = ReadKeys[row.path]
  BY SuspectsExact DEF RenewedRows, Suspects
<1> QED BY <1>1, <1>2, SuspectsExact DEF ItemOf, InScope, ReadKeys, Right

LEMMA OwnPath ==
    ASSUME Quiet, NEW p \in Paths, NEW q \in Paths, NEW k,
           k \in OwnKeys(p), k \in OwnKeys(q)
    PROVE  p = q
<1>1. PICK c \in Writable[p] : k = calculate_hash(c)
  BY DEF OwnKeys
<1>2. PICK d \in Writable[q] : k = calculate_hash(d)
  BY DEF OwnKeys
<1>3. c = d
  BY <1>1, <1>2 DEF calculate_hash
<1> QED BY <1>3 DEF Quiet, OwnContentsOnly

\* global_cache tells the branches of a key.
LEMMA TagsOfRows ==
    ASSUME TypeOK, GlobalsExact, pc # "global", NEW k \in Keys
    PROVE  /\ TagsOf(globalCache, k) \subseteq Branches
           /\ \A b \in Branches :
                 b \in TagsOf(globalCache, k) <=> \E p \in Paths : HasRow(b, p, k)
<1>1. \A b \in Branches :
         b \in TagsOf(globalCache, k) <=> [key |-> k, branch |-> b] \in globalCache
  BY DEF TagsOf, TypeOK, GlobalRow
<1>2. TagsOf(globalCache, k) \subseteq Branches
  BY DEF TagsOf, TypeOK, GlobalRow
<1> QED BY <1>1, <1>2 DEF GlobalsExact

\* A key that a file of the branch has already is not added again, so the
\* branches of an added key are other ones.
LEMMA AddsOfOthers ==
    ASSUME Quiet, TypeOK, StaleIsDetectable, OneVersion, StatsCurrent, Owned,
           pc = "timed", NEW i \in ToAdd(Saved, stats, ReadKeys, Scope),
           NEW row \in catalog, row.key = i.key
    PROVE  row.branch # run.branch
<1>1. PICK p \in Scope : /\ i = [path |-> p, key |-> KeyOnDisk(p)]
                         /\ stats[p] # NoStat
                         /\ ~HasRow(run.branch, p, KeyOnDisk(p))
  BY AddsExact
<1>2. p \in Paths
  BY DEF Scope, TypeOK, Run
<1>3. disk[p] \in Writable[p]
  BY <1>1, <1>2, StatOfFile DEF Owned
<1>4. row.key \in OwnKeys(p)
  <2>1. disk[p] # NoFile
    BY <1>1, <1>2, StatOfFile
  <2> QED BY <1>1, <1>3, <2>1 DEF KeyOnDisk, ReadFile, OwnKeys
<1>5. row.path \in Paths /\ row.key \in OwnKeys(row.path)
  BY DEF TypeOK, CatalogRow, Owned
<1>6. row.path = p
  BY <1>2, <1>4, <1>5, OwnPath
<1> QED BY <1>1, <1>6 DEF HasRow

LEMMA PlanAloneByPlan ==
    ASSUME Quiet, QuietInv, Plan
    PROVE  /\ \A i \in todo'.compute \cup todo'.delete :
                 \A row \in catalog : row.key = i.key => row.branch = run.branch
           /\ \A i \in todo'.addTag :
                 \E row \in catalog : row.key = i.key /\ row.branch # run.branch
<1> DEFINE add == ToAdd(Saved, stats, ReadKeys, Scope)
           remove == ToRemove(Saved, stats, ReadKeys)
<1> USE DEF QuietInv, DetectableInv
<1>1. pc = "timed" /\ todo' = Classify(globalCache, add, remove)
  BY DEF Plan, Saved, ReadKeys, KeyOnDisk
<1>2. run \in Run /\ run.branch \in Branches
  BY <1>1 DEF TypeOK, Run
<1>3. \A row \in catalog :
         row.key \in Keys /\ row.branch \in Branches /\ row.path \in Paths
  BY DEF TypeOK, CatalogRow
<1>4. \A row \in catalog : row.branch \in TagsOf(globalCache, row.key)
  BY <1>1, <1>3, TagsOfRows DEF HasRow
<1>5. ASSUME NEW i \in todo'.compute, NEW row \in catalog, row.key = i.key
      PROVE  FALSE
  <2>1. TagsOf(globalCache, i.key) = {}
    BY <1>1 DEF Classify
  <2> QED BY <1>4, <1>5, <2>1
<1>6. ASSUME NEW i \in todo'.delete, NEW row \in catalog, row.key = i.key
      PROVE  row.branch = run.branch
  <2>1. i \in remove /\ ~SharedKey(globalCache, i.key)
    BY <1>1 DEF Classify
  <2>2. PICK old \in catalog : i = ItemOf(old) /\ InScope(old)
    BY <1>1, <2>1, RemovalsExact
  <2>3. old.key = i.key /\ old.branch = run.branch
    BY <2>2 DEF ItemOf, InScope
  <2>4. /\ run.branch \in TagsOf(globalCache, i.key)
        /\ row.branch \in TagsOf(globalCache, i.key)
    BY <1>4, <1>6, <2>3
  <2> QED BY <2>1, <2>4 DEF SharedKey
<1>7. ASSUME NEW i \in todo'.addTag
      PROVE  \E row \in catalog : row.key = i.key /\ row.branch # run.branch
  <2>1. i \in add /\ TagsOf(globalCache, i.key) # {}
    BY <1>1 DEF Classify
  <2>2. i.key \in Keys
    <3>1. todo' \in Operations
      BY TypeStep DEF Next, RefreshStep, TypeOK
    <3> QED BY <1>7, <3>1 DEF Operations, Item
  <2>3. PICK b \in Branches, p \in Paths : HasRow(b, p, i.key)
    BY <1>1, <2>1, <2>2, TagsOfRows
  <2>4. PICK row \in catalog : row.key = i.key
    BY <2>3 DEF HasRow
  <2> QED BY <1>1, <2>1, <2>4, AddsOfOthers
<1> QED BY <1>5, <1>6, <1>7

LEMMA PlanInvByPlan ==
    ASSUME Quiet, QuietInv, Plan
    PROVE  PlanInv'
<1> DEFINE add == ToAdd(Saved, stats, ReadKeys, Scope)
           remove == ToRemove(Saved, stats, ReadKeys)
<1> USE DEF QuietInv, DetectableInv, ReadInv
<1>1. /\ pc = "timed" /\ pc' = "batch"
      /\ todo' = Classify(globalCache, add, remove)
      /\ renew' = ToRenew(Saved, stats, ReadKeys)
      /\ UNCHANGED <<disk, stats, run, catalog, batch>>
  BY DEF Plan, Saved, ReadKeys, KeyOnDisk, workspace, tables
<1>2. \A o \in Ops : Pending(o)' = todo'[o]
  <2>1. \A o \in Ops : batch'[o] = {}
    BY <1>1 DEF OneBatch, Planning, NoOperations, Ops
  <2>2. \A o \in Ops : Current(o)' = {}
    BY <1>1 DEF Current, Working
  <2> QED BY <2>1, <2>2 DEF Pending
<1>3. PendingAdds' = add
  BY <1>1, <1>2 DEF PendingAdds, Ops, Classify
<1>4. PendingRemovals' = remove
  BY <1>1, <1>2 DEF PendingRemovals, Ops, Classify
<1>5. /\ Scope' = Scope
      /\ \A p, k : Right(p, k)' = Right(p, k)
      /\ \A p : KeyOnDisk(p)' = KeyOnDisk(p)
      /\ \A b, p, k : HasRow(b, p, k)' = HasRow(b, p, k)
      /\ \A row : InScope(row)' = InScope(row)
  BY <1>1 DEF Scope, Right, KeyOnDisk, ReadFile, HasRow, InScope
<1>6. PlanSound'
  <2>1. \A i \in add : i.path \in Scope /\ Right(i.path, i.key)
    BY <1>1, AddsExact DEF Right
  <2>2. \A i \in renew' : i.path \in Scope /\ Right(i.path, i.key)
    BY <1>1, RenewalsRight
  <2>3. \A i \in remove : i.path \in Scope /\ ~Right(i.path, i.key)
    BY <1>1, RemovalsExact DEF InScope, ItemOf
  <2> HIDE DEF add, remove
  <2> QED BY <1>3, <1>4, <1>5, <2>1, <2>2, <2>3 DEF PlanSound
<1>7. PlanComplete'
  <2>1. \A p \in Scope : stats[p] # NoStat =>
           \/ HasRow(run.branch, p, KeyOnDisk(p))
           \/ \E i \in add : i.path = p /\ i.key = KeyOnDisk(p)
    <3>1. \A p \in Scope : stats[p] # NoStat =>
             \/ HasRow(run.branch, p, KeyOnDisk(p))
             \/ [path |-> p, key |-> KeyOnDisk(p)] \in add
      BY <1>1, AddsExact
    <3> HIDE DEF add
    <3> QED BY <3>1
  <2>2. \A row \in catalog : InScope(row) /\ ~Right(row.path, row.key) =>
                                ItemOf(row) \in remove
    BY <1>1, RemovalsExact
  <2> HIDE DEF add, remove
  <2> QED BY <1>1, <1>3, <1>4, <1>5, <2>1, <2>2 DEF PlanComplete
<1>8. PlanAlone'
  BY <1>1, <1>2, PlanAloneByPlan DEF PlanAlone, Ops
<1> QED BY <1>6, <1>7, <1>8 DEF PlanInv

LEMMA PlanInvSame ==
    ASSUME PlanInv, pc \notin Planning,
           UNCHANGED <<disk, stats, run, renew, catalog>>,
           \A o \in Ops : Pending(o)' = Pending(o)
    PROVE  PlanInv'
<1>1. PendingAdds' = PendingAdds /\ PendingRemovals' = PendingRemovals
  BY DEF PendingAdds, PendingRemovals, Ops
<1>2. /\ Scope' = Scope
      /\ \A p, k : Right(p, k)' = Right(p, k)
      /\ \A p : KeyOnDisk(p)' = KeyOnDisk(p)
      /\ \A b, p, k : HasRow(b, p, k)' = HasRow(b, p, k)
      /\ \A row : InScope(row)' = InScope(row)
  BY DEF Scope, Right, KeyOnDisk, ReadFile, HasRow, InScope
<1>3. PlanSound'
  BY <1>1, <1>2 DEF PlanInv, PlanSound
<1>4. PlanComplete'
  BY <1>1, <1>2 DEF PlanInv, PlanComplete
<1>5. PlanAlone'
  BY DEF PlanInv, PlanAlone, Ops
<1> QED BY <1>3, <1>4, <1>5 DEF PlanInv

\* Marking an operation brings tag_catalog one row nearer to the disk.
LEMMA PlanInvByMark ==
    ASSUME Quiet, QuietInv, MarkCatalog
    PROVE  PlanInv'
<1> USE DEF QuietInv, DetectableInv, ReadInv
<1>1. /\ pc = "mark" /\ pc' = "global"
      /\ UNCHANGED <<disk, stats, run, renew, item>>
      /\ catalog' = {row \in catalog : ~IsMarked(row)} \cup
                        (IF Adding THEN {MarkedRow} ELSE {})
  BY DEF MarkCatalog, workspace, plan
<1>2. PlanSound /\ PlanComplete /\ PlanAlone
  BY <1>1 DEF PlanInv, Planning
<1>3. /\ item.op \in Ops /\ ItemOf(item) \in Pending(item.op)
      /\ \A o \in Ops : /\ Pending(o)' \subseteq Pending(o)
                        /\ Pending(o) \subseteq Pending(o)' \cup {ItemOf(item)}
  BY MarkKeepsPending
<1>4. /\ PendingAdds' \subseteq PendingAdds
      /\ PendingAdds \subseteq PendingAdds' \cup {ItemOf(item)}
      /\ PendingRemovals' \subseteq PendingRemovals
      /\ PendingRemovals \subseteq PendingRemovals' \cup {ItemOf(item)}
  BY <1>3 DEF PendingAdds, PendingRemovals, Ops
<1>5. /\ Scope' = Scope
      /\ \A p, k : Right(p, k)' = Right(p, k)
      /\ \A p : KeyOnDisk(p)' = KeyOnDisk(p)
      /\ \A row : InScope(row)' = InScope(row)
  BY <1>1 DEF Scope, Right, KeyOnDisk, ReadFile, InScope
<1>6. CASE Adding
  <2>1. ItemOf(item) \in PendingAdds
    BY <1>3, <1>6 DEF Adding, PendingAdds
  <2>2. item.path \in Scope /\ Right(item.path, item.key)
    BY <1>2, <2>1 DEF PlanSound, ItemOf
  <2>3. ItemOf(item) \notin PendingRemovals
    BY <1>2, <2>2 DEF PlanSound, ItemOf
  <2>4. HasRow(run.branch, item.path, item.key)'
    <3>1. MarkedRow \in catalog'
      BY <1>1, <1>6
    <3> QED BY <1>1, <3>1 DEF HasRow, MarkedRow
  <2>5. \A b, p, k : HasRow(b, p, k) => HasRow(b, p, k)'
    <3> SUFFICES ASSUME NEW b, NEW p, NEW k, HasRow(b, p, k)
                 PROVE  HasRow(b, p, k)'
      OBVIOUS
    <3>1. PICK row \in catalog : row.branch = b /\ row.path = p /\ row.key = k
      BY DEF HasRow
    <3>2. CASE IsMarked(row)
      BY <1>1, <2>4, <3>1, <3>2 DEF IsMarked, HasRow
    <3>3. CASE ~IsMarked(row)
      BY <1>1, <3>1, <3>3 DEF HasRow
    <3> QED BY <3>2, <3>3
  <2>6. \A row \in catalog' :
           row \in catalog \/ /\ row.key = item.key /\ row.path = item.path
                              /\ row.branch = run.branch
    BY <1>1, <1>6 DEF MarkedRow
  <2>7. PlanSound'
    BY <1>1, <1>2, <1>4, <1>5 DEF PlanSound
  <2>8. PlanComplete'
    <3>1. ASSUME NEW p \in Scope, stats[p] # NoStat
          PROVE  \/ HasRow(run.branch, p, KeyOnDisk(p))'
                 \/ \E i \in PendingAdds' : i.path = p /\ i.key = KeyOnDisk(p)
      <4>1. CASE HasRow(run.branch, p, KeyOnDisk(p))
        BY <1>1, <1>5, <2>5, <4>1 DEF HasRow
      <4>2. CASE \E i \in PendingAdds : i.path = p /\ i.key = KeyOnDisk(p)
        <5>1. PICK i \in PendingAdds : i.path = p /\ i.key = KeyOnDisk(p)
          BY <4>2
        <5>2. CASE i = ItemOf(item)
          <6>1. item.path = p /\ item.key = KeyOnDisk(p)
            BY <5>1, <5>2 DEF ItemOf
          <6> QED BY <1>1, <1>5, <2>4, <6>1 DEF HasRow
        <5> QED BY <1>4, <5>1, <5>2
      <4> QED BY <1>2, <3>1, <4>1, <4>2 DEF PlanComplete
    <3>2. ASSUME NEW row \in catalog', InScope(row),
                 ~Right(row.path, row.key)
          PROVE  ItemOf(row) \in PendingRemovals'
      <4>1. row \in catalog
        BY <2>2, <2>6, <3>2
      <4>2. ItemOf(row) \in PendingRemovals
        BY <1>2, <3>2, <4>1 DEF PlanComplete
      <4> QED BY <1>4, <2>3, <4>2
    <3> QED BY <1>1, <1>5, <3>1, <3>2 DEF PlanComplete
  <2>9. PlanAlone'
    <3>1. ASSUME NEW i \in Pending("compute")' \cup Pending("delete")',
                 NEW row \in catalog', row.key = i.key
          PROVE  row.branch = run.branch
      BY <1>2, <1>3, <2>6, <3>1 DEF PlanAlone, Ops
    <3>2. ASSUME NEW i \in Pending("addTag")'
          PROVE  \E row \in catalog' :
                    row.key = i.key /\ row.branch # run.branch
      <4>1. PICK row \in catalog : row.key = i.key /\ row.branch # run.branch
        BY <1>2, <1>3 DEF PlanAlone, Ops
      <4> QED BY <1>1, <4>1 DEF IsMarked
    <3> QED BY <1>1, <3>1, <3>2 DEF PlanAlone
  <2> QED BY <2>7, <2>8, <2>9 DEF PlanInv
<1>7. CASE ~Adding
  <2>1. ItemOf(item) \in PendingRemovals
    BY <1>3, <1>7 DEF Adding, PendingRemovals, Ops
  <2>2. ~Right(item.path, item.key)
    BY <1>2, <2>1 DEF PlanSound, ItemOf
  <2>3. ItemOf(item) \notin PendingAdds
    BY <1>2, <2>2 DEF PlanSound, ItemOf
  <2>4. catalog' = {row \in catalog : ~IsMarked(row)}
    BY <1>1, <1>7
  <2>5. PlanSound'
    BY <1>1, <1>2, <1>4, <1>5 DEF PlanSound
  <2>6. PlanComplete'
    <3>1. ASSUME NEW p \in Scope, stats[p] # NoStat
          PROVE  \/ HasRow(run.branch, p, KeyOnDisk(p))'
                 \/ \E i \in PendingAdds' : i.path = p /\ i.key = KeyOnDisk(p)
      <4>1. CASE HasRow(run.branch, p, KeyOnDisk(p))
        <5>1. PICK row \in catalog : /\ row.branch = run.branch
                                     /\ row.path = p /\ row.key = KeyOnDisk(p)
          BY <4>1 DEF HasRow
        <5>2. ~IsMarked(row)
          BY <2>2, <3>1, <5>1 DEF IsMarked, Right
        <5> QED BY <1>1, <1>5, <2>4, <5>1, <5>2 DEF HasRow
      <4>2. CASE \E i \in PendingAdds : i.path = p /\ i.key = KeyOnDisk(p)
        BY <1>4, <2>3, <4>2
      <4> QED BY <1>2, <3>1, <4>1, <4>2 DEF PlanComplete
    <3>2. ASSUME NEW row \in catalog', InScope(row),
                 ~Right(row.path, row.key)
          PROVE  ItemOf(row) \in PendingRemovals'
      <4>1. row \in catalog /\ ~IsMarked(row)
        BY <2>4
      <4>2. ItemOf(row) \in PendingRemovals
        BY <1>2, <3>2, <4>1 DEF PlanComplete
      <4>3. ItemOf(row) # ItemOf(item)
        BY <3>2, <4>1 DEF ItemOf, IsMarked, InScope
      <4> QED BY <1>4, <4>2, <4>3
    <3> QED BY <1>1, <1>5, <3>1, <3>2 DEF PlanComplete
  <2>7. PlanAlone'
    <3>1. ASSUME NEW i \in Pending("compute")' \cup Pending("delete")',
                 NEW row \in catalog', row.key = i.key
          PROVE  row.branch = run.branch
      BY <1>2, <1>3, <2>4, <3>1 DEF PlanAlone, Ops
    <3>2. ASSUME NEW i \in Pending("addTag")'
          PROVE  \E row \in catalog' :
                    row.key = i.key /\ row.branch # run.branch
      <4>1. PICK row \in catalog : row.key = i.key /\ row.branch # run.branch
        BY <1>2, <1>3 DEF PlanAlone, Ops
      <4> QED BY <2>4, <4>1 DEF IsMarked
    <3> QED BY <1>1, <3>1, <3>2 DEF PlanAlone
  <2> QED BY <2>5, <2>6, <2>7 DEF PlanInv
<1> QED BY <1>6, <1>7

----------------------------------------------------------------------------
(* The end of a refresh.                                                   *)

\* When nothing is left to do, the rows of the scope are those of the disk.
LEMMA AtEnd ==
    ASSUME QuietInv, pc = "batch", todo = NoOperations
    PROVE  /\ \A row \in catalog : InScope(row) => Right(row.path, row.key)
           /\ \A p \in Scope :
                 stats[p] # NoStat => HasRow(run.branch, p, KeyOnDisk(p))
           /\ \A r1, r2 \in catalog :
                 r1.branch = r2.branch /\ r1.path = r2.path => r1 = r2
           /\ \A i \in renew : i.path \in Scope /\ Right(i.path, i.key)
<1> USE DEF QuietInv, DetectableInv, ReadInv
<1>1. PlanSound /\ PlanComplete
  BY DEF PlanInv, Planning
<1>2. \A o \in Ops : Pending(o) = {}
  BY DEF OneBatch, Pending, Current, Working, NoOperations, Ops
<1>3. PendingAdds = {} /\ PendingRemovals = {}
  BY <1>2 DEF PendingAdds, PendingRemovals, Ops
<1>4. \A row \in catalog : InScope(row) => Right(row.path, row.key)
  BY <1>1, <1>3 DEF PlanComplete
<1>5. ASSUME NEW r1 \in catalog, NEW r2 \in catalog,
             r1.branch = r2.branch, r1.path = r2.path
      PROVE  r1 = r2
  <2>1. InScope(r1) => r1.key = r2.key
    BY <1>4, <1>5 DEF InScope, Right
  <2> QED BY <1>5, <2>1 DEF OneVersion
<1> QED BY <1>1, <1>3, <1>4, <1>5 DEF PlanSound, PlanComplete

\* So no renewal breaks the unique index of tag_catalog.
LEMMA NoConflict ==
    ASSUME QuietInv
    PROVE  ~RenewalConflict
<1> SUFFICES ASSUME RenewalConflict PROVE FALSE
  OBVIOUS
<1>1. pc = "batch" /\ todo = NoOperations /\ \E i \in renew : ~CanRenew(i)
  BY DEF RenewalConflict
<1> QED BY <1>1, AtEnd DEF CanRenew, Versions

\* Renewing the timestamps gives no row another key and makes no second one.
LEMMA RenewalKeepsRows ==
    ASSUME QuietInv, RenewTimestamps
    PROVE  /\ \A b, p, k : HasRow(b, p, k)' <=> HasRow(b, p, k)
           /\ \A row \in catalog' :
                 \E old \in catalog : /\ old.branch = row.branch
                                      /\ old.path = row.path
                                      /\ old.key = row.key
           /\ \A r1, r2 \in catalog' :
                 r1.branch = r2.branch /\ r1.path = r2.path => r1 = r2
<1>1. pc = "batch" /\ todo = NoOperations /\ catalog' = AfterRenewing(renew)
  BY DEF RenewTimestamps
<1>2. catalog \subseteq CatalogRow
  BY DEF QuietInv, DetectableInv, TypeOK
<1>3. ASSUME NEW i \in renew, NEW old \in Versions(i.path)
      PROVE  /\ old \in catalog
             /\ Renewed1(old, i) = [old EXCEPT !.at = planTime]
             /\ Renewed1(old, i).branch = old.branch
             /\ Renewed1(old, i).path = old.path
             /\ Renewed1(old, i).key = old.key
  <2>1. old \in catalog /\ old \in CatalogRow /\ InScope(old) /\ old.path = i.path
    BY <1>1, <1>2, AtEnd DEF Versions, InScope
  <2>2. old.key = i.key
    BY <1>1, <2>1, AtEnd DEF Right
  <2> QED BY <2>1, <2>2 DEF Renewed1, CatalogRow
<1>4. \A row \in catalog' :
         \/ row \in catalog /\ \A i \in renew : row \notin Versions(i.path)
         \/ \E i \in renew : \E old \in Versions(i.path) : row = Renewed1(old, i)
  BY <1>1 DEF AfterRenewing
<1>5. \A row \in catalog' :
         \E old \in catalog : /\ old.branch = row.branch /\ old.path = row.path
                              /\ old.key = row.key
  BY <1>3, <1>4
<1>6. ASSUME NEW old \in catalog
      PROVE  \E row \in catalog' : /\ row.branch = old.branch
                                   /\ row.path = old.path /\ row.key = old.key
  <2>1. CASE \A i \in renew : old \notin Versions(i.path)
    BY <1>1, <2>1 DEF AfterRenewing
  <2>2. ASSUME NEW i \in renew, old \in Versions(i.path)
        PROVE  \E row \in catalog' : /\ row.branch = old.branch
                                     /\ row.path = old.path /\ row.key = old.key
    <3>1. Renewed1(old, i) \in catalog'
      BY <1>1, <2>2 DEF AfterRenewing
    <3> QED BY <1>3, <2>2, <3>1
  <2> QED BY <2>1, <2>2
<1>7. ASSUME NEW r1 \in catalog', NEW r2 \in catalog',
             r1.branch = r2.branch, r1.path = r2.path
      PROVE  r1 = r2
  <2>1. ASSUME NEW i \in renew, NEW old \in Versions(i.path)
        PROVE  \A row \in catalog : row.path = old.path /\ row.branch = old.branch
                                    => row = old /\ row \in Versions(i.path)
    BY <1>1, AtEnd DEF Versions
  <2>2. CASE r1 \in catalog /\ \A i \in renew : r1 \notin Versions(i.path)
    <3>1. r2 \in catalog
      BY <1>3, <1>4, <1>7, <2>1, <2>2
    <3> QED BY <1>1, <1>7, <2>2, <3>1, AtEnd
  <2>3. ASSUME NEW i \in renew, NEW old \in Versions(i.path),
               r1 = Renewed1(old, i)
        PROVE  r1 = r2
    <3>1. PICK j \in renew :
             \E old2 \in Versions(j.path) : r2 = Renewed1(old2, j)
      BY <1>3, <1>4, <1>7, <2>1, <2>3
    <3>2. PICK old2 \in Versions(j.path) : r2 = Renewed1(old2, j)
      BY <3>1
    <3>3. old = old2
      BY <1>1, <1>3, <1>7, <2>3, <3>2, AtEnd
    <3> QED BY <1>3, <2>3, <3>2, <3>3
  <2> QED BY <1>4, <2>2, <2>3
<1>8. \A b, p, k : HasRow(b, p, k)' <=> HasRow(b, p, k)
  BY <1>5, <1>6 DEF HasRow
<1> QED BY <1>5, <1>7, <1>8

LEMMA PlanInvStep ==
    ASSUME Quiet, QuietInv, [Next]_vars
    PROVE  PlanInv'
<1> USE DEF QuietInv, DetectableInv, ReadInv
<1>1. ASSUME pc' \in Planning PROVE PlanInv'
  BY <1>1 DEF PlanInv
<1>2. ASSUME NEW p \in Paths, NEW c \in Writable[p] \cup {NoFile}, Edit(p, c)
      PROVE  PlanInv'
  <2>1. pc' = "idle"
    BY <1>2 DEF Edit, MayEdit, Quiet, StillWorkspace
  <2> QED BY <1>1, <2>1 DEF Planning
<1>3. ASSUME NEW b \in Branches, Checkout(b) PROVE PlanInv'
  <2>1. pc' = "idle"
    BY <1>3 DEF Checkout, MayEdit, Quiet, StillWorkspace
  <2> QED BY <1>1, <2>1 DEF Planning
<1>4. CASE ExpireWalkCache \/ UNCHANGED vars
  <2>1. UNCHANGED <<disk, stats, run, renew, catalog, todo, batch, item, pc>>
    BY <1>4 DEF ExpireWalkCache, vars, workspace, tables, plan
  <2>2. \A o \in Ops : Pending(o)' = Pending(o)
    BY <2>1, SameItemKeepsPending
  <2> QED BY <1>1, <2>1, <2>2, PlanInvSame
<1>5. CASE \/ DiscoverDirs \/ (\E p \in Paths : DiscoverFile(p)) \/ Stat
           \/ StartPlan \/ RenewTimestamps \/ RenewalConflict
  BY <1>1, <1>5
     DEF DiscoverDirs, DiscoverFile, Stat, StartPlan, RenewTimestamps,
         RenewalConflict, Forget, Planning
<1>6. CASE \/ StartBatch \/ EndBatch
           \/ \E i \in batch.compute : ComputeRead(i)
           \/ \E i \in batch.addTag : AddTag(i)
           \/ \E i \in batch.removeTag : RemoveTag(i)
           \/ \E i \in batch.delete : Delete(i)
           \/ ComputeWipe \/ ComputeSymbols \/ ComputeChunks \/ MarkGlobal
  <2>1. pc \notin Planning /\ UNCHANGED <<disk, stats, run, renew, catalog>>
    BY <1>6 DEF StartBatch, EndBatch, ComputeRead, AddTag, RemoveTag, Delete,
       ComputeWipe, ComputeSymbols, ComputeChunks, MarkGlobal, Take, Planning,
       workspace, tables, plan
  <2>2. \A o \in Ops : Pending(o)' = Pending(o)
    BY <1>6, PendingSame
  <2> QED BY <2>1, <2>2, PlanInvSame
<1>7. CASE AbortBatch \/ Interrupt
  BY <1>7, NoFaults
<1>8. CASE Plan
  BY <1>8, PlanInvByPlan
<1>9. CASE MarkCatalog
  BY <1>9, PlanInvByMark
<1> QED BY <1>2, <1>3, <1>4, <1>5, <1>6, <1>7, <1>8, <1>9 DEF Next, RefreshStep

LEMMA OneVersionStep ==
    ASSUME Quiet, QuietInv, [Next]_vars
    PROVE  OneVersion'
<1> USE DEF QuietInv, DetectableInv, ReadInv
<1>1. ASSUME catalog' = catalog, pc \in Planning PROVE OneVersion'
  BY <1>1 DEF OneVersion
<1>2. ASSUME UNCHANGED <<catalog, run>>, pc \notin Planning, pc' \notin Planning
      PROVE  OneVersion'
  <2>1. \A row : InScope(row)' = InScope(row)
    BY <1>2 DEF InScope, Scope
  <2> QED BY <1>2, <2>1 DEF OneVersion
<1>3. ASSUME NEW p \in Paths, NEW c \in Writable[p] \cup {NoFile}, Edit(p, c)
      PROVE  OneVersion'
  BY <1>1, <1>3 DEF Edit, MayEdit, Quiet, StillWorkspace, Planning, tables
<1>4. ASSUME NEW b \in Branches, Checkout(b) PROVE OneVersion'
  BY <1>1, <1>4 DEF Checkout, MayEdit, Quiet, StillWorkspace, Planning, tables
<1>5. CASE ExpireWalkCache \/ UNCHANGED vars
  BY <1>1, <1>2, <1>5 DEF ExpireWalkCache, vars, workspace, tables, plan
<1>6. CASE \/ DiscoverDirs \/ (\E p \in Paths : DiscoverFile(p)) \/ Stat
           \/ StartPlan \/ Plan
  BY <1>1, <1>6
     DEF DiscoverDirs, DiscoverFile, Stat, StartPlan, Plan, Planning, tables
<1>7. CASE \/ StartBatch \/ EndBatch
           \/ \E i \in batch.compute : ComputeRead(i)
           \/ \E i \in batch.addTag : AddTag(i)
           \/ \E i \in batch.removeTag : RemoveTag(i)
           \/ \E i \in batch.delete : Delete(i)
           \/ ComputeWipe \/ ComputeSymbols \/ ComputeChunks \/ MarkGlobal
  <2>1. /\ UNCHANGED <<catalog, run>> /\ pc \notin Planning
        /\ pc' \notin Planning
    BY <1>7 DEF StartBatch, EndBatch, ComputeRead, AddTag, RemoveTag, Delete,
       ComputeWipe, ComputeSymbols, ComputeChunks, MarkGlobal, Take, Planning,
       tables, plan
  <2> QED BY <1>2, <2>1
<1>8. CASE MarkCatalog
  <2>1. /\ pc = "mark" /\ pc' = "global" /\ UNCHANGED <<run, item>>
        /\ catalog' = {row \in catalog : ~IsMarked(row)} \cup
                          (IF Adding THEN {MarkedRow} ELSE {})
    BY <1>8 DEF MarkCatalog, plan
  <2>2. item.path \in Scope
    <3>1. /\ item.op \in Ops /\ ItemOf(item) \in Pending(item.op)
          /\ PlanSound
      BY <1>8, <2>1, MarkKeepsPending DEF PlanInv, Planning
    <3> QED BY <3>1 DEF PlanSound, PendingAdds, PendingRemovals, Ops, ItemOf
  <2>3. \A row : InScope(row)' = InScope(row)
    BY <2>1 DEF InScope, Scope
  <2>4. ASSUME NEW r1 \in catalog', NEW r2 \in catalog',
               r1.branch = r2.branch, r1.path = r2.path,
               ~InScope(r1) \/ r1.key = r2.key
        PROVE  r1 = r2
    <3>1. CASE r1 \in catalog /\ ~IsMarked(r1)
      <4>1. r2 \in catalog
        BY <2>1, <2>2, <2>4, <3>1 DEF IsMarked, MarkedRow, InScope
      <4> QED BY <2>1, <2>4, <3>1, <4>1 DEF OneVersion, Planning
    <3>2. CASE r1 = MarkedRow
      <4>1. r2.branch = run.branch /\ r2.path = item.path /\ r2.key = item.key
        BY <2>2, <2>4, <3>2 DEF MarkedRow, InScope
      <4> QED BY <2>1, <3>2, <4>1 DEF IsMarked
    <3> QED BY <2>1, <3>1, <3>2
  <2> QED BY <2>1, <2>3, <2>4 DEF OneVersion, Planning
<1>9. CASE RenewTimestamps
  BY <1>9, RenewalKeepsRows DEF OneVersion
<1>10. CASE RenewalConflict
  BY <1>10, NoConflict
<1>11. CASE AbortBatch \/ Interrupt
  BY <1>11, NoFaults
<1> QED BY <1>3, <1>4, <1>5, <1>6, <1>7, <1>8, <1>9, <1>10, <1>11
        DEF Next, RefreshStep

LEMMA StatsStep ==
    ASSUME Quiet, QuietInv, [Next]_vars
    PROVE  StatsCurrent'
<1> USE DEF QuietInv, DetectableInv, ReadInv
<1>1. ASSUME pc' = "idle" PROVE StatsCurrent'
  BY <1>1 DEF StatsCurrent
<1>2. ASSUME UNCHANGED <<disk, mtime, run, stats, undisturbed>>, pc # "idle",
             pc \notin {"idle", "discovered"} \/ pc' \in {"idle", "discovered"}
      PROVE  StatsCurrent'
  BY <1>2 DEF StatsCurrent, FileStats, Present
<1>3. ASSUME NEW p \in Paths, NEW c \in Writable[p] \cup {NoFile}, Edit(p, c)
      PROVE  StatsCurrent'
  BY <1>1, <1>3 DEF Edit, MayEdit, Quiet, StillWorkspace
<1>4. ASSUME NEW b \in Branches, Checkout(b) PROVE StatsCurrent'
  BY <1>1, <1>4 DEF Checkout, MayEdit, Quiet, StillWorkspace
<1>5. CASE ExpireWalkCache \/ UNCHANGED vars
  <2>1. UNCHANGED <<disk, mtime, run, stats, undisturbed, pc>>
    BY <1>5 DEF ExpireWalkCache, vars, workspace, plan
  <2> QED BY <1>1, <1>2, <2>1
<1>6. CASE DiscoverDirs
  <2> DEFINE listing == IF walkCache.valid THEN walkCache.paths ELSE Present
  <2>1. /\ pc' = "discovered" /\ disk' = disk
        /\ run' = [mode |-> "dirs", branch |-> head, paths |-> listing]
        /\ undisturbed' = (listing = Present)
    BY <1>6 DEF DiscoverDirs, workspace
  <2>2. Present' = Present /\ run'.paths = listing
    BY <2>1 DEF Present
  <2> HIDE DEF listing
  <2> QED BY <2>1, <2>2 DEF StatsCurrent
<1>7. CASE \E p \in Paths : DiscoverFile(p)
  <2>1. pc' = "discovered" /\ run'.mode = "file"
    BY <1>7 DEF DiscoverFile
  <2> QED BY <2>1 DEF StatsCurrent
<1>8. CASE Stat
  <2>1. /\ pc = "discovered" /\ pc' = "statted"
        /\ UNCHANGED <<disk, mtime, run, undisturbed>>
        /\ stats' = FileStats(run.paths)
    BY <1>8 DEF Stat, workspace
  <2>2. Present' = Present
    BY <2>1 DEF Present
  <2>3. FileStats(run.paths)' = FileStats(run.paths)
    BY <2>1, <2>2 DEF FileStats
  <2> QED BY <2>1, <2>2, <2>3 DEF StatsCurrent
<1>9. CASE \/ StartPlan \/ Plan \/ StartBatch \/ EndBatch
           \/ \E i \in batch.compute : ComputeRead(i)
           \/ \E i \in batch.addTag : AddTag(i)
           \/ \E i \in batch.removeTag : RemoveTag(i)
           \/ \E i \in batch.delete : Delete(i)
           \/ ComputeWipe \/ ComputeSymbols \/ ComputeChunks
           \/ MarkCatalog \/ MarkGlobal
  <2>1. /\ UNCHANGED <<disk, mtime, run, stats, undisturbed>>
        /\ pc \notin {"idle", "discovered"}
    BY <1>9 DEF StartPlan, Plan, StartBatch, EndBatch, ComputeRead, AddTag,
       RemoveTag, Delete, ComputeWipe, ComputeSymbols, ComputeChunks,
       MarkCatalog, MarkGlobal, Take, workspace, plan
  <2> QED BY <1>2, <2>1
<1>10. CASE RenewTimestamps \/ RenewalConflict
  BY <1>1, <1>10 DEF RenewTimestamps, RenewalConflict, Forget
<1>11. CASE AbortBatch \/ Interrupt
  BY <1>11, NoFaults
<1> QED BY <1>3, <1>4, <1>5, <1>6, <1>7, <1>8, <1>9, <1>10, <1>11
        DEF Next, RefreshStep

----------------------------------------------------------------------------
(* The tables.                                                             *)

\* What a plan lists belongs to its path.
LEMMA PlanOwned ==
    ASSUME Quiet, QuietInv, Plan
    PROVE  \A op \in Ops : \A i \in todo'[op] : i.key \in OwnKeys(i.path)
<1> DEFINE add == ToAdd(Saved, stats, ReadKeys, Scope)
           remove == ToRemove(Saved, stats, ReadKeys)
<1> USE DEF QuietInv, DetectableInv
<1>1. pc = "timed" /\ todo' = Classify(globalCache, add, remove)
  BY DEF Plan, Saved, ReadKeys, KeyOnDisk
<1>2. ASSUME NEW i \in add PROVE i.key \in OwnKeys(i.path)
  <2>1. PICK p \in Scope : /\ i = [path |-> p, key |-> KeyOnDisk(p)]
                           /\ stats[p] # NoStat
    BY <1>1, AddsExact
  <2>2. p \in Paths
    BY <1>1 DEF Scope, TypeOK, Run
  <2>3. disk[p] \in Writable[p] /\ disk[p] # NoFile
    BY <1>1, <2>1, <2>2, StatOfFile DEF Owned
  <2> QED BY <2>1, <2>3 DEF KeyOnDisk, ReadFile, OwnKeys
<1>3. ASSUME NEW i \in remove PROVE i.key \in OwnKeys(i.path)
  BY <1>1, RemovalsExact DEF Owned, ItemOf
<1>4. \A op \in Ops : todo'[op] \subseteq add \cup remove
  BY <1>1 DEF Classify, Ops
<1> QED BY <1>2, <1>3, <1>4

LEMMA OwnedStep ==
    ASSUME Quiet, QuietInv, [Next]_vars
    PROVE  Owned'
<1> USE DEF QuietInv, DetectableInv, ReadInv
<1> DEFINE DiskOwned == \A p \in Paths : disk[p] \in Writable[p] \cup {NoFile}
           RowsOwned ==
              /\ \A row \in catalog : row.key \in OwnKeys(row.path)
              /\ \A c \in chunks : c.key \in OwnKeys(c.path) /\ Chunkable(c.text)
           ListsOwned ==
              pc \notin Planning =>
                 \A op \in Ops : \A i \in todo[op] \cup batch[op] :
                    i.key \in OwnKeys(i.path)
           ItemOwned == pc \in Working \cup {"global"} =>
                           item.key \in OwnKeys(item.path)
<1>1. DiskOwned /\ RowsOwned /\ ListsOwned /\ ItemOwned
  BY DEF Owned
<1>2. ASSUME DiskOwned', RowsOwned', ListsOwned', ItemOwned' PROVE Owned'
  BY <1>2 DEF Owned
<1>3. ASSUME UNCHANGED disk PROVE DiskOwned'
  BY <1>1, <1>3
<1>4. ASSUME catalog' \subseteq catalog, chunks' \subseteq chunks
      PROVE  RowsOwned'
  BY <1>1, <1>4 DEF Chunkable
<1>5. ASSUME UNCHANGED <<disk, catalog, chunks>>, pc' \in Planning
      PROVE  Owned'
  BY <1>2, <1>3, <1>4, <1>5 DEF Planning, Working
<1>6. ASSUME UNCHANGED <<disk, catalog, chunks, todo, batch, item, pc>>
      PROVE  Owned'
  BY <1>6 DEF Owned, Chunkable
<1>7. ASSUME NEW p \in Paths, NEW c \in Writable[p] \cup {NoFile}, Edit(p, c)
      PROVE  Owned'
  <2>1. /\ pc' = "idle" /\ UNCHANGED <<catalog, chunks>>
        /\ disk' = [disk EXCEPT ![p] = c]
    BY <1>7 DEF Edit, MayEdit, Quiet, StillWorkspace, tables
  <2>2. DiskOwned'
    BY <1>1, <2>1 DEF TypeOK
  <2> QED BY <1>2, <1>4, <2>1, <2>2 DEF Planning, Working
<1>8. ASSUME NEW b \in Branches, Checkout(b) PROVE Owned'
  BY <1>6, <1>8 DEF Checkout, tables
<1>9. CASE ExpireWalkCache \/ UNCHANGED vars
  BY <1>6, <1>9 DEF ExpireWalkCache, vars, workspace, tables
<1>10. CASE \/ DiscoverDirs \/ (\E p \in Paths : DiscoverFile(p)) \/ Stat
            \/ StartPlan
  BY <1>5, <1>10
     DEF DiscoverDirs, DiscoverFile, Stat, StartPlan, Planning, workspace,
         tables
<1>11. CASE Plan
  <2>1. /\ pc = "timed" /\ pc' = "batch"
        /\ UNCHANGED <<disk, catalog, chunks, batch>>
    BY <1>11 DEF Plan, workspace, tables
  <2>2. \A op \in Ops : batch'[op] = {}
    BY <2>1 DEF OneBatch, Planning, NoOperations, Ops
  <2>3. ListsOwned'
    BY <1>11, <2>2, PlanOwned
  <2> QED BY <1>2, <1>3, <1>4, <2>1, <2>3 DEF Working
<1>12. CASE StartBatch
  <2>1. /\ UNCHANGED <<disk, catalog, chunks, item>>
        /\ pc = "batch" /\ pc' = "next"
    BY <1>12 DEF StartBatch, workspace, tables
  <2>2. \A op \in Ops : /\ Pending(op)' = Pending(op)
                        /\ Pending(op) = todo[op] \cup batch[op]
                        /\ Pending(op)' = todo'[op] \cup batch'[op]
    BY <1>12, <2>1, PendingSame DEF Pending, Current, Working
  <2>3. ListsOwned'
    BY <1>1, <2>1, <2>2 DEF Planning
  <2> QED BY <1>2, <1>3, <1>4, <2>1, <2>3 DEF Working
<1>13. CASE EndBatch
  <2>1. UNCHANGED <<disk, catalog, chunks, todo, batch, item>> /\ pc = "next"
        /\ pc' = "batch"
    BY <1>13 DEF EndBatch, workspace, tables
  <2> QED BY <1>1, <1>2, <1>3, <1>4, <2>1 DEF Planning, Working
<1>14. ASSUME NEW op \in Ops, NEW i \in batch[op], Take(op, i), todo' = todo
       PROVE  ListsOwned' /\ ItemOwned'
  <2>1. \A o \in Ops : batch'[o] \subseteq batch[o]
    BY <1>14 DEF Take, TypeOK, Operations, Ops
  <2>2. pc = "next" /\ item'.key = i.key /\ item'.path = i.path
    BY <1>14 DEF Take
  <2> QED BY <1>1, <1>14, <2>1, <2>2 DEF Planning
<1>15. CASE \/ \E i \in batch.compute : ComputeRead(i)
            \/ \E i \in batch.addTag : AddTag(i)
            \/ \E i \in batch.removeTag : RemoveTag(i)
            \/ \E i \in batch.delete : Delete(i)
  <2>1. ListsOwned' /\ ItemOwned'
    BY <1>14, <1>15 DEF ComputeRead, AddTag, RemoveTag, Delete, Ops
  <2>2. UNCHANGED <<disk, catalog>> /\ chunks' \subseteq chunks
    BY <1>15 DEF ComputeRead, AddTag, RemoveTag, Delete, RemoveRows,
                 WithoutKey, workspace, tables
  <2> QED BY <1>2, <1>3, <1>4, <2>1, <2>2
<1>16. CASE ComputeWipe \/ ComputeSymbols
  <2>1. /\ UNCHANGED <<disk, catalog, todo, batch, item>>
        /\ chunks' \subseteq chunks /\ pc \in Working /\ pc' \in Working
    BY <1>16 DEF ComputeWipe, ComputeSymbols, RemoveRows, WithoutKey,
                 workspace, Working
  <2> QED BY <1>1, <1>2, <1>3, <1>4, <2>1 DEF Planning, Working
<1>17. CASE ComputeChunks
  <2>1. /\ UNCHANGED <<disk, catalog, todo, batch, item>>
        /\ pc = "chunks" /\ pc' = "mark"
    BY <1>17 DEF ComputeChunks, workspace
  <2>2. item.key \in OwnKeys(item.path)
    BY <1>1, <2>1 DEF Working
  <2>3. \A c \in chunks' : \/ c \in chunks
                           \/ /\ c.key = item.key /\ c.path = item.path
                              /\ c.text = text /\ Chunkable(text)
    BY <1>17 DEF ComputeChunks
  <2>4. RowsOwned'
    BY <1>1, <2>1, <2>2, <2>3 DEF Chunkable
  <2> QED BY <1>1, <1>2, <1>3, <2>1, <2>4 DEF Planning, Working
<1>18. CASE MarkCatalog
  <2>1. /\ UNCHANGED <<disk, chunks, todo, batch, item>>
        /\ pc = "mark" /\ pc' = "global"
    BY <1>18 DEF MarkCatalog, workspace
  <2>2. \A row \in catalog' : \/ row \in catalog
                              \/ row.key = item.key /\ row.path = item.path
    BY <1>18 DEF MarkCatalog, MarkedRow
  <2>3. RowsOwned'
    BY <1>1, <2>1, <2>2 DEF Working, Chunkable
  <2> QED BY <1>1, <1>2, <1>3, <2>1, <2>3 DEF Planning, Working
<1>19. CASE MarkGlobal
  <2>1. /\ UNCHANGED <<disk, catalog, chunks, todo, batch>>
        /\ pc = "global" /\ pc' = "next"
    BY <1>19 DEF MarkGlobal, workspace
  <2> QED BY <1>1, <1>2, <1>3, <1>4, <2>1 DEF Planning, Working
<1>20. CASE RenewTimestamps
  <2>1. UNCHANGED <<disk, chunks>> /\ pc' = "idle"
    BY <1>20 DEF RenewTimestamps, Forget, workspace
  <2>2. RowsOwned'
    BY <1>1, <1>20, <2>1, RenewalKeepsRows DEF Chunkable
  <2> QED BY <1>2, <1>3, <2>1, <2>2 DEF Planning, Working
<1>21. CASE RenewalConflict \/ AbortBatch \/ Interrupt
  BY <1>21, NoConflict, NoFaults
<1> QED BY <1>7, <1>8, <1>9, <1>10, <1>11, <1>12, <1>13, <1>15, <1>16, <1>17,
           <1>18, <1>19, <1>20, <1>21 DEF Next, RefreshStep

LEMMA PendingOwned ==
    ASSUME QuietInv, pc \notin Planning, NEW op \in Ops, NEW i \in Pending(op)
    PROVE  i.path \in Paths /\ i.key \in Keys /\ i.key \in OwnKeys(i.path)
<1> USE DEF QuietInv, DetectableInv, TypeOK
<1>1. CASE i \in todo[op] \cup batch[op]
  <2>1. i \in Item
    BY <1>1 DEF Operations, Ops
  <2> QED BY <1>1, <2>1 DEF Owned, Item
<1>2. CASE i \in Current(op)
  <2>1. pc \in Working /\ i = ItemOf(item)
    BY <1>2 DEF Current
  <2>2. item \in OpItem
    BY <2>1 DEF Working
  <2> QED BY <2>1, <2>2 DEF Owned, ItemOf, OpItem
<1> QED BY <1>1, <1>2 DEF Pending

\* The rows of a key that is computed or deleted are those of the operation.
LEMMA RowsOfKey ==
    ASSUME Quiet, QuietInv, pc \notin Planning,
           NEW i \in Pending("compute") \cup Pending("delete"),
           NEW row \in catalog, row.key = i.key
    PROVE  row.branch = run.branch /\ row.path = i.path
<1>1. row.branch = run.branch
  BY DEF QuietInv, PlanInv, PlanAlone
<1>2. i.path \in Paths /\ i.key \in OwnKeys(i.path)
  BY PendingOwned DEF Ops
<1>3. row.path \in Paths /\ row.key \in OwnKeys(row.path)
  BY DEF QuietInv, DetectableInv, TypeOK, CatalogRow, Owned
<1> QED BY <1>1, <1>2, <1>3, OwnPath

\* What marking does to tag_catalog.
LEMMA MarkRows ==
    ASSUME MarkCatalog
    PROVE  /\ \A b, p, k : ~OfItem(b, p, k) =>
                 (HasRow(b, p, k)' <=> HasRow(b, p, k))
           /\ HasRow(run.branch, item.path, item.key)' <=> Adding
<1>1. /\ catalog' = {row \in catalog : ~IsMarked(row)} \cup
                        (IF Adding THEN {MarkedRow} ELSE {})
      /\ UNCHANGED <<run, item>>
  BY DEF MarkCatalog, plan
<1>2. /\ MarkedRow.branch = run.branch /\ MarkedRow.path = item.path
      /\ MarkedRow.key = item.key
  BY DEF MarkedRow
<1>3. ASSUME NEW b, NEW p, NEW k, ~OfItem(b, p, k)
      PROVE  HasRow(b, p, k)' <=> HasRow(b, p, k)
  BY <1>1, <1>2, <1>3 DEF OfItem, HasRow, IsMarked
<1>4. HasRow(run.branch, item.path, item.key)' <=> Adding
  BY <1>1, <1>2 DEF HasRow, IsMarked
<1> QED BY <1>3, <1>4

LEMMA GlobalsStep ==
    ASSUME Quiet, QuietInv, [Next]_vars
    PROVE  GlobalsExact'
<1> USE DEF QuietInv, DetectableInv, ReadInv
<1>1. ASSUME UNCHANGED <<catalog, globalCache>>, pc # "global", pc' # "global"
      PROVE  GlobalsExact'
  BY <1>1 DEF GlobalsExact, HasRow
<1>2. ASSUME UNCHANGED <<catalog, globalCache, pc, run, item>>
      PROVE  GlobalsExact'
  BY <1>2 DEF GlobalsExact, HasRow, Adding
<1>3. ASSUME NEW p \in Paths, NEW c \in Writable[p] \cup {NoFile}, Edit(p, c)
      PROVE  GlobalsExact'
  BY <1>2, <1>3 DEF Edit, tables, plan
<1>4. ASSUME NEW b \in Branches, Checkout(b) PROVE GlobalsExact'
  BY <1>2, <1>4 DEF Checkout, tables, plan
<1>5. CASE ExpireWalkCache \/ UNCHANGED vars
  BY <1>2, <1>5 DEF ExpireWalkCache, vars, tables, plan
<1>6. CASE \/ DiscoverDirs \/ (\E p \in Paths : DiscoverFile(p)) \/ Stat
           \/ StartPlan \/ Plan \/ StartBatch \/ EndBatch
           \/ \E i \in batch.compute : ComputeRead(i)
           \/ \E i \in batch.addTag : AddTag(i)
           \/ \E i \in batch.removeTag : RemoveTag(i)
           \/ \E i \in batch.delete : Delete(i)
           \/ ComputeWipe \/ ComputeSymbols \/ ComputeChunks
  <2>1. UNCHANGED <<catalog, globalCache>> /\ pc # "global" /\ pc' # "global"
    BY <1>6 DEF DiscoverDirs, DiscoverFile, Stat, StartPlan, Plan, StartBatch,
       EndBatch, ComputeRead, AddTag, RemoveTag, Delete, ComputeWipe,
       ComputeSymbols, ComputeChunks, Take, tables
  <2> QED BY <1>1, <2>1
<1>7. CASE MarkCatalog
  <2>1. /\ pc = "mark" /\ pc' = "global"
        /\ UNCHANGED <<globalCache, run, item>>
    BY <1>7 DEF MarkCatalog, plan
  <2>2. ASSUME NEW k \in Keys, NEW b \in Branches,
               ~(k = item.key /\ b = run.branch)
        PROVE  [key |-> k, branch |-> b] \in globalCache <=>
                  \E p \in Paths : HasRow(b, p, k)'
    <3>1. \A p \in Paths : HasRow(b, p, k)' <=> HasRow(b, p, k)
      BY <1>7, <2>2, MarkRows DEF OfItem
    <3> QED BY <2>1, <3>1 DEF GlobalsExact
  <2>3. HasRow(run.branch, item.path, item.key)' <=> Adding'
    BY <1>7, <2>1, MarkRows DEF Adding
  <2> QED BY <2>1, <2>2, <2>3 DEF GlobalsExact
<1>8. CASE MarkGlobal
  <2>1. /\ pc = "global" /\ pc' = "next" /\ catalog' = catalog
        /\ globalCache' = IF Adding THEN globalCache \cup {GlobalRowOfItem}
                          ELSE globalCache \ {GlobalRowOfItem}
    BY <1>8 DEF MarkGlobal, UpdateGlobalCache
  <2>2. item \in OpItem /\ item.key \in OwnKeys(item.path)
    BY <2>1 DEF TypeOK, Owned
  <2>3. item.path \in Paths /\ item.key \in Keys
    BY <2>2 DEF OpItem
  <2>4. (\E p \in Paths : HasRow(run.branch, p, item.key)) <=> Adding
    <3>1. ASSUME NEW p \in Paths, HasRow(run.branch, p, item.key)
          PROVE  p = item.path
      <4>1. item.key \in OwnKeys(p)
        BY <3>1 DEF HasRow, Owned
      <4> QED BY <2>2, <2>3, <4>1, OwnPath
    <3> QED BY <2>1, <2>3, <3>1 DEF GlobalsExact
  <2>5. ASSUME NEW k \in Keys, NEW b \in Branches
        PROVE  [key |-> k, branch |-> b] \in globalCache' <=>
                  \E p \in Paths : HasRow(b, p, k)
    <3>1. CASE k = item.key /\ b = run.branch
      BY <2>1, <2>4, <3>1 DEF GlobalRowOfItem
    <3>2. CASE ~(k = item.key /\ b = run.branch)
      <4>1. [key |-> k, branch |-> b] # GlobalRowOfItem
        BY <3>2 DEF GlobalRowOfItem
      <4>2. [key |-> k, branch |-> b] \in globalCache <=>
               \E p \in Paths : HasRow(b, p, k)
        BY <3>2 DEF GlobalsExact
      <4> QED BY <2>1, <4>1, <4>2
    <3> QED BY <3>1, <3>2
  <2> QED BY <2>1, <2>5 DEF GlobalsExact, HasRow
<1>9. CASE RenewTimestamps
  <2>1. pc = "batch" /\ pc' = "idle" /\ globalCache' = globalCache
    BY <1>9 DEF RenewTimestamps, Forget
  <2>2. \A b, p, k : HasRow(b, p, k)' <=> HasRow(b, p, k)
    BY <1>9, RenewalKeepsRows
  <2> QED BY <2>1, <2>2 DEF GlobalsExact
<1>10. CASE RenewalConflict \/ AbortBatch \/ Interrupt
  BY <1>10, NoConflict, NoFaults
<1> QED BY <1>3, <1>4, <1>5, <1>6, <1>7, <1>8, <1>9, <1>10
        DEF Next, RefreshStep

\* Removing every tag of a key that is computed or deleted takes those of the
\* operation only.
LEMMA KeyGoes ==
    ASSUME Quiet, QuietInv, pc \notin Planning,
           NEW i \in Pending("compute") \cup Pending("delete"),
           pc \in Working => i = ItemOf(item),
           chunkTags' = WithoutKey(chunkTags, i.key)
    PROVE  \A b \in Branches, p \in Paths, k \in Keys :
              /\ Tagged(b, p, k)' => k # i.key
              /\ ~(b = run.branch /\ p = i.path /\ k = i.key) =>
                    (Tagged(b, p, k)' <=>
                        HasRow(b, p, k) /\ k # calculate_hash(Empty))
<1> SUFFICES ASSUME NEW b \in Branches, NEW p \in Paths, NEW k \in Keys
             PROVE  /\ Tagged(b, p, k)' => k # i.key
                    /\ ~(b = run.branch /\ p = i.path /\ k = i.key) =>
                          (Tagged(b, p, k)' <=>
                              HasRow(b, p, k) /\ k # calculate_hash(Empty))
  OBVIOUS
<1>1. Tagged(b, p, k)' <=> Tagged(b, p, k) /\ k # i.key
  BY DEF Tagged, WithoutKey
<1>2. ASSUME ~(b = run.branch /\ p = i.path /\ k = i.key)
      PROVE  Tagged(b, p, k)' <=>
                HasRow(b, p, k) /\ k # calculate_hash(Empty)
  <2>1. k = i.key => ~HasRow(b, p, k)
    BY <1>2, RowsOfKey DEF HasRow
  <2>2. ~(pc \in Working /\ OfItem(b, p, k))
    BY <1>2 DEF OfItem, ItemOf
  <2>3. Tagged(b, p, k) <=> HasRow(b, p, k) /\ k # calculate_hash(Empty)
    BY <2>2 DEF QuietInv, TagsExact
  <2> QED BY <1>1, <2>1, <2>3
<1> QED BY <1>1, <1>2

\* A key that another branch indexes has its chunks filed, under one path.
LEMMA ChunksOfAddedTag ==
    ASSUME Quiet, QuietInv, pc = "next", NEW i \in batch.addTag
    PROVE  /\ \A c \in chunks : c.key = i.key => c.path = i.path
           /\ (\E c \in chunks : c.key = i.key) <=>
                 i.key # calculate_hash(Empty)
<1> USE DEF QuietInv, DetectableInv, ReadInv, ForeignKeysInv
<1>1. i \in Pending("addTag") /\ pc \notin Planning \cup Working
  BY DEF Pending, Planning, Working
<1>2. i.path \in Paths /\ i.key \in Keys /\ i.key \in OwnKeys(i.path)
  BY <1>1, PendingOwned DEF Ops
<1>3. ASSUME NEW c \in chunks, c.key = i.key
      PROVE  c.path = i.path /\ i.key # calculate_hash(Empty)
  <2>1. c.path \in Paths /\ c.key \in OwnKeys(c.path) /\ c.text # Empty
    BY DEF TypeOK, Owned, Chunkable
  <2>2. c.key = calculate_hash(c.text)
    BY DEF RowsMatchKey
  <2>3. c.key # calculate_hash(Empty)
    BY <2>1, <2>2 DEF calculate_hash
  <2> QED BY <1>2, <1>3, <2>1, <2>3, OwnPath
<1>4. ASSUME i.key # calculate_hash(Empty)
      PROVE  \E c \in chunks : c.key = i.key
  <2>1. PICK row \in catalog : row.key = i.key
    BY <1>1 DEF PlanInv, PlanAlone
  <2>2. row.branch \in Branches /\ row.path \in Paths
    BY DEF TypeOK, CatalogRow
  <2>3. Tagged(row.branch, row.path, i.key)
    BY <1>1, <1>2, <1>4, <2>1, <2>2 DEF TagsExact, HasRow
  <2> QED BY <2>3 DEF ForeignKeys, Tagged
<1> QED BY <1>3, <1>4

LEMMA TagsStep ==
    ASSUME Quiet, QuietInv, [Next]_vars
    PROVE  TagsExact'
<1> USE DEF QuietInv, DetectableInv, ReadInv
<1>1. ASSUME UNCHANGED <<catalog, chunkTags>>, pc \notin Working,
             pc' \notin Working \/ pc' = "wipe"
      PROVE  TagsExact'
  BY <1>1 DEF TagsExact, Tagged, HasRow, Working
<1>2. ASSUME UNCHANGED <<catalog, chunkTags, pc, run, item>>
      PROVE  TagsExact'
  BY <1>2 DEF TagsExact, Tagged, HasRow, OfItem, Adding
<1>3. ASSUME pc' \in {"symbols", "mark"}, UNCHANGED catalog,
             \A b \in Branches, p \in Paths, k \in Keys :
                ~OfItem(b, p, k)' =>
                   (Tagged(b, p, k)' <=>
                       HasRow(b, p, k) /\ k # calculate_hash(Empty)),
             pc' = "symbols" => ~Tagged(run.branch, item.path, item.key)',
             pc' = "mark" => (Tagged(run.branch, item.path, item.key)' <=>
                                 Adding' /\ item'.key # calculate_hash(Empty))
      PROVE  TagsExact'
  BY <1>3 DEF TagsExact, Tagged, HasRow, Working
<1>4. ASSUME NEW p \in Paths, NEW c \in Writable[p] \cup {NoFile}, Edit(p, c)
      PROVE  TagsExact'
  BY <1>2, <1>4 DEF Edit, tables, plan
<1>5. ASSUME NEW b \in Branches, Checkout(b) PROVE TagsExact'
  BY <1>2, <1>5 DEF Checkout, tables, plan
<1>6. CASE ExpireWalkCache \/ UNCHANGED vars
  BY <1>2, <1>6 DEF ExpireWalkCache, vars, tables, plan
<1>7. CASE \/ DiscoverDirs \/ (\E p \in Paths : DiscoverFile(p)) \/ Stat
           \/ StartPlan \/ Plan \/ StartBatch \/ EndBatch \/ MarkGlobal
           \/ \E i \in batch.compute : ComputeRead(i)
  <2>1. /\ UNCHANGED <<catalog, chunkTags>> /\ pc \notin Working
        /\ pc' \notin Working \/ pc' = "wipe"
    BY <1>7 DEF DiscoverDirs, DiscoverFile, Stat, StartPlan, Plan, StartBatch,
       EndBatch, MarkGlobal, ComputeRead, Take, Working, tables
  <2> QED BY <1>1, <2>1
<1>8. CASE ComputeWipe
  <2>1. /\ pc = "wipe" /\ pc' = "symbols" /\ UNCHANGED <<catalog, run, item>>
        /\ chunkTags' = WithoutKey(chunkTags, item.key)
    BY <1>8 DEF ComputeWipe, RemoveRows, plan
  <2>2. ItemOf(item) \in Pending("compute") /\ pc \notin Planning
    BY <2>1 DEF ComputesRead, Pending, Current, Working, Planning
  <2>3. ItemOf(item).key = item.key /\ ItemOf(item).path = item.path
    BY DEF ItemOf
  <2>4. item.key \in Keys /\ item.path \in Paths /\ run.branch \in Branches
    BY <2>1 DEF TypeOK, OpItem, Run
  <2>5. \A b \in Branches, p \in Paths, k \in Keys :
           /\ Tagged(b, p, k)' => k # item.key
           /\ ~OfItem(b, p, k) =>
                 (Tagged(b, p, k)' <=>
                     HasRow(b, p, k) /\ k # calculate_hash(Empty))
    BY <2>1, <2>2, <2>3, KeyGoes DEF OfItem
  <2> QED BY <1>3, <2>1, <2>4, <2>5 DEF OfItem, Tagged
<1>9. CASE ComputeSymbols
  <2>1. /\ pc = "symbols" /\ pc' = "chunks"
        /\ UNCHANGED <<catalog, chunkTags, run, item>>
    BY <1>9 DEF ComputeSymbols, plan
  <2> QED BY <2>1 DEF TagsExact, Tagged, HasRow, OfItem, Working
<1>10. CASE ComputeChunks
  <2> DEFINE tag == [key |-> item.key, path |-> item.path,
                     branch |-> run.branch]
  <2>1. /\ pc = "chunks" /\ pc' = "mark" /\ UNCHANGED <<catalog, run, item>>
        /\ chunkTags' = IF Chunkable(text) THEN chunkTags \cup {tag}
                        ELSE chunkTags
    BY <1>10 DEF ComputeChunks, plan
  <2>2. /\ Chunkable(text) <=> item.key # calculate_hash(Empty)
        /\ Adding'
    BY <2>1 DEF ComputesRead, Chunkable, calculate_hash, Adding
  <2>3. \A b, p, k : ~OfItem(b, p, k) => (Tagged(b, p, k)' <=> Tagged(b, p, k))
    BY <2>1 DEF Tagged, OfItem
  <2>4. \A b \in Branches, p \in Paths, k \in Keys :
           ~OfItem(b, p, k) => (Tagged(b, p, k)' <=>
                                   HasRow(b, p, k) /\ k # calculate_hash(Empty))
    BY <2>3 DEF TagsExact
  <2>5. Tagged(run.branch, item.path, item.key)' <=> Chunkable(text)
    BY <2>1 DEF TagsExact, Tagged
  <2> QED BY <1>3, <2>1, <2>2, <2>4, <2>5 DEF OfItem
<1>11. ASSUME NEW i \in batch.addTag, AddTag(i) PROVE TagsExact'
  <2>1. /\ pc = "next" /\ pc' = "mark" /\ UNCHANGED <<catalog, run>>
        /\ item' = [op |-> "addTag", path |-> i.path, key |-> i.key]
        /\ chunkTags' = chunkTags \cup
              {[key |-> c.key, path |-> c.path, branch |-> run.branch] :
                  c \in {row \in chunks : row.key = i.key}}
    BY <1>11 DEF AddTag, Take, plan
  <2>2. /\ \A c \in chunks : c.key = i.key => c.path = i.path
        /\ (\E c \in chunks : c.key = i.key) <=> i.key # calculate_hash(Empty)
    BY <2>1, ChunksOfAddedTag
  <2>3. chunkTags' = chunkTags \cup
           (IF i.key # calculate_hash(Empty)
            THEN {[key |-> i.key, path |-> i.path, branch |-> run.branch]}
            ELSE {})
    BY <2>1, <2>2
  <2>4. i.key \in Keys /\ i.path \in Paths /\ run.branch \in Branches
    BY <2>1 DEF TypeOK, Operations, Item, Run
  <2>5. \A b \in Branches, p \in Paths, k \in Keys :
           Tagged(b, p, k) <=> HasRow(b, p, k) /\ k # calculate_hash(Empty)
    BY <2>1 DEF TagsExact, Working
  <2>6. \A b, p, k : ~(b = run.branch /\ p = i.path /\ k = i.key) =>
                        (Tagged(b, p, k)' <=> Tagged(b, p, k))
    BY <2>3 DEF Tagged
  <2>7. [key |-> i.key, path |-> i.path, branch |-> run.branch] \in chunkTags'
           <=> i.key # calculate_hash(Empty)
    BY <2>3, <2>4, <2>5 DEF Tagged
  <2>8. Adding' /\ item'.key = i.key /\ item'.path = i.path
    BY <2>1 DEF Adding
  <2> QED BY <1>3, <2>1, <2>5, <2>6, <2>7, <2>8 DEF OfItem, Tagged
<1>12. ASSUME NEW i \in batch.removeTag, RemoveTag(i) PROVE TagsExact'
  <2>1. /\ pc = "next" /\ pc' = "mark" /\ UNCHANGED <<catalog, run>>
        /\ item' = [op |-> "removeTag", path |-> i.path, key |-> i.key]
        /\ chunkTags' = chunkTags \
              {[key |-> i.key, path |-> i.path, branch |-> run.branch]}
    BY <1>12 DEF RemoveTag, Take, plan
  <2>2. \A b \in Branches, p \in Paths, k \in Keys :
           Tagged(b, p, k) <=> HasRow(b, p, k) /\ k # calculate_hash(Empty)
    BY <2>1 DEF TagsExact, Working
  <2>3. \A b, p, k : ~(b = run.branch /\ p = i.path /\ k = i.key) =>
                        (Tagged(b, p, k)' <=> Tagged(b, p, k))
    BY <2>1 DEF Tagged
  <2>4. ~Adding' /\ item'.key = i.key /\ item'.path = i.path
    BY <2>1 DEF Adding
  <2> QED BY <1>3, <2>1, <2>2, <2>3, <2>4 DEF OfItem, Tagged
<1>13. ASSUME NEW i \in batch.delete, Delete(i) PROVE TagsExact'
  <2>1. /\ pc = "next" /\ pc' = "mark" /\ UNCHANGED <<catalog, run>>
        /\ item' = [op |-> "delete", path |-> i.path, key |-> i.key]
        /\ chunkTags' = WithoutKey(chunkTags, i.key)
    BY <1>13 DEF Delete, Take, RemoveRows, plan
  <2>2. i \in Pending("delete") /\ pc \notin Planning \cup Working
    BY <2>1 DEF Pending, Planning, Working
  <2>3. \A b \in Branches, p \in Paths, k \in Keys :
           /\ Tagged(b, p, k)' => k # i.key
           /\ ~(b = run.branch /\ p = i.path /\ k = i.key) =>
                 (Tagged(b, p, k)' <=>
                     HasRow(b, p, k) /\ k # calculate_hash(Empty))
    BY <2>1, <2>2, KeyGoes
  <2>4. i.key \in Keys /\ i.path \in Paths /\ run.branch \in Branches
    BY <2>1 DEF TypeOK, Operations, Item, Run
  <2>5. ~Adding' /\ item'.key = i.key /\ item'.path = i.path
    BY <2>1 DEF Adding
  <2> QED BY <1>3, <2>1, <2>3, <2>4, <2>5 DEF OfItem, Tagged
<1>14. CASE MarkCatalog
  <2>1. /\ pc = "mark" /\ pc' = "global" /\ UNCHANGED <<chunkTags, run, item>>
    BY <1>14 DEF MarkCatalog, plan
  <2>2. /\ \A b, p, k : ~OfItem(b, p, k) =>
                           (HasRow(b, p, k)' <=> HasRow(b, p, k))
        /\ HasRow(run.branch, item.path, item.key)' <=> Adding
    BY <1>14, MarkRows
  <2>3. ASSUME NEW b \in Branches, NEW p \in Paths, NEW k \in Keys
        PROVE  Tagged(b, p, k) <=> HasRow(b, p, k)' /\ k # calculate_hash(Empty)
    <3>1. CASE OfItem(b, p, k)
      BY <2>1, <2>2, <3>1 DEF TagsExact, OfItem, HasRow
    <3>2. CASE ~OfItem(b, p, k)
      BY <2>2, <3>2 DEF TagsExact
    <3> QED BY <3>1, <3>2
  <2> QED BY <2>1, <2>3 DEF TagsExact, Tagged, Working
<1>15. CASE RenewTimestamps
  <2>1. pc = "batch" /\ pc' = "idle" /\ chunkTags' = chunkTags
    BY <1>15 DEF RenewTimestamps, Forget
  <2>2. \A b, p, k : HasRow(b, p, k)' <=> HasRow(b, p, k)
    BY <1>15, RenewalKeepsRows
  <2> QED BY <2>1, <2>2 DEF TagsExact, Tagged, Working
<1>16. CASE RenewalConflict \/ AbortBatch \/ Interrupt
  BY <1>16, NoConflict, NoFaults
<1> QED BY <1>4, <1>5, <1>6, <1>7, <1>8, <1>9, <1>10, <1>11, <1>12, <1>13,
           <1>14, <1>15, <1>16 DEF Next, RefreshStep

----------------------------------------------------------------------------
(* The inductive invariant.                                                *)

LEMMA QuietInit == Init => QuietInv
<1> SUFFICES ASSUME Init PROVE QuietInv
  OBVIOUS
<1>1. TypeOK
  BY TypeInit
<1>2. DetectableInv
  BY <1>1 DEF DetectableInv, Init, ClockBound, StaleIsDetectable, PlanAccurate
<1>3. ForeignKeysInv
  BY <1>1 DEF ForeignKeysInv, Init, ForeignKeys, SymbolsFirst
<1>4. ReadInv
  BY <1>1 DEF ReadInv, Init, OneBatch, RowsMatchKey, ComputesRead, Planning
<1>5. Owned /\ OneVersion
  BY DEF Init, Owned, OneVersion, Planning, Working
<1>6. TagsExact /\ GlobalsExact
  BY DEF Init, TagsExact, GlobalsExact, Tagged, HasRow, Working
<1>7. StatsCurrent /\ PlanInv
  BY DEF Init, StatsCurrent, PlanInv, Planning
<1> QED BY <1>2, <1>3, <1>4, <1>5, <1>6, <1>7 DEF QuietInv

LEMMA QuietStep ==
    ASSUME Quiet, QuietInv, [Next]_vars
    PROVE  QuietInv'
<1>1. DetectableInv' /\ ForeignKeysInv'
  BY TypeStep, ClockBoundStep, StaleStep, PlanAccurateStep, ForeignKeysStep
     DEF QuietInv, DetectableInv, ForeignKeysInv
<1>2. ReadInv'
  BY TypeStep, OneBatchStep, ReadStep DEF QuietInv, ReadInv, Quiet
<1> QED BY <1>1, <1>2, OwnedStep, OneVersionStep, TagsStep, GlobalsStep,
           StatsStep, PlanInvStep DEF QuietInv

\* Between two refreshes a file of tag_catalog has its tagged chunks.
LEMMA QuietBacked == QuietInv => CatalogBacked
<1> SUFFICES ASSUME QuietInv, pc = "idle", NEW row \in catalog,
                    row.key # calculate_hash(Empty)
             PROVE  \E t \in chunkTags : t.key = row.key /\ t.path = row.path
                                         /\ t.branch = row.branch
  BY DEF CatalogBacked
<1>1. row.branch \in Branches /\ row.path \in Paths /\ row.key \in Keys
  BY DEF QuietInv, DetectableInv, TypeOK, CatalogRow
<1>2. Tagged(row.branch, row.path, row.key)
  BY <1>1 DEF QuietInv, TagsExact, HasRow, Working
<1> QED BY <1>2 DEF Tagged

LEMMA QuietGlobals == QuietInv => GlobalCacheExact
<1> SUFFICES ASSUME QuietInv, pc = "idle"
             PROVE  globalCache = {[key |-> row.key, branch |-> row.branch] :
                                      row \in catalog}
  BY DEF GlobalCacheExact
<1>1. \A row \in catalog :
         row.branch \in Branches /\ row.path \in Paths /\ row.key \in Keys
  BY DEF QuietInv, DetectableInv, TypeOK, CatalogRow
<1>2. globalCache \subseteq GlobalRow
  BY DEF QuietInv, DetectableInv, TypeOK
<1>3. \A k \in Keys, b \in Branches :
         [key |-> k, branch |-> b] \in globalCache <=>
            \E row \in catalog : row.branch = b /\ row.key = k
  BY <1>1 DEF QuietInv, GlobalsExact, HasRow
<1>4. ASSUME NEW g \in globalCache
      PROVE  \E row \in catalog : g = [key |-> row.key, branch |-> row.branch]
  <2>1. g = [key |-> g.key, branch |-> g.branch] /\ g.key \in Keys
        /\ g.branch \in Branches
    BY <1>2 DEF GlobalRow
  <2> QED BY <1>3, <2>1
<1>5. \A row \in catalog :
         [key |-> row.key, branch |-> row.branch] \in globalCache
  BY <1>1, <1>3
<1> QED BY <1>4, <1>5

\* What a refresh leaves when it ends.
LEMMA QuietAgrees ==
    ASSUME QuietInv, pc = "batch", todo = NoOperations,
           run.mode = "dirs", undisturbed
    PROVE  Visible(run.branch) = OnDisk
<1> USE DEF QuietInv, DetectableInv, ReadInv, ForeignKeysInv
<1>1. Scope = Paths /\ run.branch \in Branches
  BY DEF Scope, TypeOK, Run
<1>2. run.paths = Present /\ stats = FileStats(Present)
  BY DEF StatsCurrent
<1>3. \A p \in Paths :
         stats[p] # NoStat <=> p \in Present /\ disk[p] \notin Oversized
  BY <1>2, NoStatAssumption DEF FileStats, TypeOK
<1>4. \A b \in Branches, p \in Paths, k \in Keys :
         Tagged(b, p, k) <=> HasRow(b, p, k) /\ k # calculate_hash(Empty)
  BY DEF TagsExact, Working
<1>5. \A p \in Present : KeyOnDisk(p) = calculate_hash(disk[p])
                         /\ KeyOnDisk(p) \in Keys /\ p \in Paths
  BY KeyType DEF KeyOnDisk, ReadFile, Present, TypeOK
<1>6. \A c \in chunks : /\ c.path \in Paths /\ c.key \in Keys /\ c.text # Empty
                        /\ c.key = calculate_hash(c.text)
  BY DEF TypeOK, Owned, Chunkable, RowsMatchKey
<1>7. \A c, d : calculate_hash(c) = calculate_hash(d) => c = d
  BY DEF calculate_hash
<1>8. ASSUME NEW c \in chunks, Tagged(run.branch, c.path, c.key)
      PROVE  /\ c.path \in Present /\ disk[c.path] \notin Oversized \cup {Empty}
             /\ c.text = disk[c.path]
  <2>1. PICK row \in catalog : /\ row.branch = run.branch
                               /\ row.path = c.path /\ row.key = c.key
    BY <1>1, <1>4, <1>6, <1>8 DEF HasRow
  <2>2. Right(c.path, c.key)
    BY <1>1, <1>6, <2>1, AtEnd DEF InScope
  <2>3. /\ c.path \in Present /\ disk[c.path] \notin Oversized
        /\ c.key = calculate_hash(disk[c.path])
    BY <1>3, <1>5, <1>6, <2>2 DEF Right
  <2> QED BY <1>6, <1>7, <2>3
<1>9. ASSUME NEW p \in Present, disk[p] \notin Oversized \cup {Empty}
      PROVE  \E c \in chunks : /\ Tagged(run.branch, c.path, c.key)
                               /\ c.path = p /\ c.text = disk[p]
  <2>1. HasRow(run.branch, p, KeyOnDisk(p))
    BY <1>1, <1>3, <1>5, <1>9, AtEnd
  <2>2. Tagged(run.branch, p, KeyOnDisk(p))
    BY <1>1, <1>4, <1>5, <1>7, <1>9, <2>1
  <2>3. PICK c \in chunks : c.key = KeyOnDisk(p) /\ c.path = p
    BY <2>2 DEF ForeignKeys, Tagged
  <2> QED BY <1>5, <1>6, <1>7, <2>2, <2>3
<1>10. Visible(run.branch) =
          {[path |-> c.path, text |-> c.text] :
              c \in {d \in chunks : Tagged(run.branch, d.path, d.key)}}
  BY DEF Visible, Tagged
<1>11. OnDisk = {[path |-> p, text |-> disk[p]] :
                    p \in {q \in Present : disk[q] \notin Oversized \cup {Empty}}}
  BY DEF OnDisk
<1>12. Visible(run.branch) \subseteq OnDisk
  BY <1>8, <1>10, <1>11
<1>13. OnDisk \subseteq Visible(run.branch)
  BY <1>9, <1>10, <1>11
<1> QED BY <1>12, <1>13

\* No tag of another branch has a key that is computed or deleted.
LEMMA OthersUntagged ==
    ASSUME Quiet, QuietInv, pc \notin Planning,
           NEW i \in Pending("compute") \cup Pending("delete"),
           NEW b \in Branches, b # run.branch, NEW p \in Paths
    PROVE  ~Tagged(b, p, i.key)
<1>1. i.key \in Keys
  BY PendingOwned DEF Ops
<1>2. ~HasRow(b, p, i.key)
  BY RowsOfKey DEF HasRow
<1> QED BY <1>1, <1>2 DEF QuietInv, TagsExact, OfItem

LEMMA QuietIsolates ==
    ASSUME Quiet, QuietInv, [Next]_vars, NEW b \in Branches,
           pc # "idle", b # run.branch
    PROVE  Visible(b)' = Visible(b)
<1> USE DEF QuietInv, DetectableInv
<1> DEFINE Seen(c) == [key |-> c.key, path |-> c.path, branch |-> b]
<1>1. ASSUME UNCHANGED <<chunks, chunkTags>> PROVE Visible(b)' = Visible(b)
  BY <1>1 DEF Visible
<1>2. ASSUME NEW i \in Pending("compute") \cup Pending("delete"),
             pc \notin Planning, RemoveRows(i.key)
      PROVE  Visible(b)' = Visible(b)
  <2>1. \A c \in chunks : Seen(c) \in chunkTags => c.key # i.key
    BY <1>2, OthersUntagged DEF Tagged, TypeOK
  <2>2. \A c \in chunks' : Seen(c) \in chunkTags' =>
                              c \in chunks /\ Seen(c) \in chunkTags
    BY <1>2 DEF RemoveRows, WithoutKey
  <2>3. \A c \in chunks : Seen(c) \in chunkTags =>
                             c \in chunks' /\ Seen(c) \in chunkTags'
    BY <1>2, <2>1 DEF RemoveRows, WithoutKey
  <2> QED BY <2>2, <2>3 DEF Visible
<1>3. ASSUME chunks' = chunks,
             \A t : t.branch = b => (t \in chunkTags' <=> t \in chunkTags)
      PROVE  Visible(b)' = Visible(b)
  <2>1. \A c \in chunks : Seen(c) \in chunkTags' <=> Seen(c) \in chunkTags
    BY <1>3
  <2> QED BY <1>3, <2>1 DEF Visible
<1>4. CASE ComputeWipe
  <2>1. pc = "wipe" /\ RemoveRows(item.key) /\ ItemOf(item).key = item.key
    BY <1>4 DEF ComputeWipe, ItemOf
  <2>2. ItemOf(item) \in Pending("compute") /\ pc \notin Planning
    BY <2>1 DEF ReadInv, ComputesRead, Pending, Current, Working, Planning
  <2> QED BY <1>2, <2>1, <2>2
<1>5. ASSUME NEW i \in batch.delete, Delete(i) PROVE Visible(b)' = Visible(b)
  <2>1. i \in Pending("delete") /\ pc \notin Planning /\ RemoveRows(i.key)
    BY <1>5 DEF Delete, Take, Pending, Planning
  <2> QED BY <1>2, <2>1
<1>6. CASE ComputeChunks
  <2> DEFINE chunk == [key |-> item.key, path |-> item.path, text |-> text]
             tag == [key |-> item.key, path |-> item.path,
                     branch |-> run.branch]
  <2>1. /\ pc = "chunks"
        /\ \/ UNCHANGED <<chunks, chunkTags>>
           \/ /\ chunks' = chunks \cup {chunk}
              /\ chunkTags' = chunkTags \cup {tag}
    BY <1>6 DEF ComputeChunks
  <2>2. ItemOf(item) \in Pending("compute") /\ pc \notin Planning
    BY <2>1 DEF ReadInv, ComputesRead, Pending, Current, Working, Planning
  <2>3. item.path \in Paths
    BY <2>1 DEF TypeOK, OpItem
  <2>4. Seen(chunk) \notin chunkTags
    BY <2>2, <2>3, OthersUntagged DEF Tagged, ItemOf
  <2>5. \A c : Seen(c) # tag
    OBVIOUS
  <2> HIDE DEF chunk, tag
  <2> QED BY <1>1, <2>1, <2>4, <2>5 DEF Visible
<1>7. ASSUME NEW i \in batch.addTag, AddTag(i) PROVE Visible(b)' = Visible(b)
  BY <1>3, <1>7 DEF AddTag
<1>8. ASSUME NEW i \in batch.removeTag, RemoveTag(i)
      PROVE  Visible(b)' = Visible(b)
  BY <1>3, <1>8 DEF RemoveTag
<1>9. ASSUME NEW p \in Paths, NEW c \in Writable[p] \cup {NoFile}, Edit(p, c)
      PROVE  Visible(b)' = Visible(b)
  BY <1>1, <1>9 DEF Edit, tables
<1>10. ASSUME NEW br \in Branches, Checkout(br) PROVE Visible(b)' = Visible(b)
  BY <1>1, <1>10 DEF Checkout, tables
<1>11. CASE \/ ExpireWalkCache \/ UNCHANGED vars
            \/ DiscoverDirs \/ (\E p \in Paths : DiscoverFile(p)) \/ Stat
            \/ StartPlan \/ Plan \/ StartBatch \/ EndBatch
            \/ \E i \in batch.compute : ComputeRead(i)
            \/ ComputeSymbols \/ MarkCatalog \/ MarkGlobal
            \/ RenewTimestamps \/ RenewalConflict \/ AbortBatch \/ Interrupt
  BY <1>1, <1>11 DEF ExpireWalkCache, vars, DiscoverDirs, DiscoverFile, Stat,
     StartPlan, Plan, StartBatch, EndBatch, ComputeRead, ComputeSymbols,
     MarkCatalog, MarkGlobal, RenewTimestamps, RenewalConflict, AbortBatch,
     Interrupt, tables
<1> QED BY <1>4, <1>5, <1>6, <1>7, <1>8, <1>9, <1>10, <1>11
        DEF Next, RefreshStep

----------------------------------------------------------------------------
(* Theorems, for refreshes that nothing disturbs.                          *)

\* Between two refreshes every file of tag_catalog has its tagged chunks, so a
\* plan that finds nothing to do leaves nothing out.
THEOREM CatalogAlwaysBacked ==
    ASSUME Quiet
    PROVE  Spec => []CatalogBacked
<1>1. QuietInv /\ [Next]_vars => QuietInv'
  BY QuietStep
<1> QED BY <1>1, QuietInit, QuietBacked, PTL DEF Spec

\* Between two refreshes global_cache names exactly the branches of each
\* content, although it is committed after tag_catalog and apart from it.
THEOREM GlobalCacheAlwaysExact ==
    ASSUME Quiet
    PROVE  Spec => []GlobalCacheExact
<1>1. QuietInv /\ [Next]_vars => QuietInv'
  BY QuietStep
<1> QED BY <1>1, QuietInit, QuietGlobals, PTL DEF Spec

\* A directory refresh leaves its branch with exactly the sources on disk,
\* whatever refreshes, edits and checkouts came before and in whatever
\* batches its operations were cut.
THEOREM RefreshAgreesWithDisk ==
    ASSUME Quiet
    PROVE  Spec => AgreesAfterRefresh
<1>1. QuietInv /\ [Next]_vars => QuietInv'
  BY QuietStep
<1>2. QuietInv => [RefreshEnds /\ run.mode = "dirs" /\ undisturbed
                   => Visible(run.branch) = OnDisk]_vars
  BY QuietAgrees DEF RefreshEnds
<1> QED BY <1>1, <1>2, QuietInit, PTL DEF Spec, AgreesAfterRefresh

\* No step of a refresh changes what the lookups of another branch see,
\* although the branches share rows by cacheKey.
THEOREM RefreshIsolatesBranches ==
    ASSUME Quiet
    PROVE  Spec => BranchIsolation
<1>1. QuietInv /\ [Next]_vars => QuietInv'
  BY QuietStep
<1>2. QuietInv /\ [Next]_vars =>
         [\A b \in Branches : pc # "idle" /\ b # run.branch =>
                                 Visible(b)' = Visible(b)]_vars
  BY QuietIsolates
<1> QED BY <1>1, <1>2, QuietInit, PTL DEF Spec, BranchIsolation
=============================================================================
