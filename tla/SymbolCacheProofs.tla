------------------------- MODULE SymbolCacheProofs -------------------------
(***************************************************************************)
(* The index by path of SymbolCache is exact, the cache implements         *)
(* SymbolStore, and the running count of bytes is the sum of the sizes     *)
(* held and never passes the bound: for every set of ids, paths and        *)
(* sources, every size and every bound.                                    *)
(*                                                                         *)
(* Total is a fold over a finite set.  Its recursion is not among the      *)
(* facts that the library proves, so the second part derives it: there is  *)
(* one function that satisfies it on the subsets of a finite set.          *)
(***************************************************************************)
EXTENDS SymbolCache, FiniteSetTheorems, WellFoundedInduction, TLAPS

\* What IndexExact needs of the types.
IndexInv ==
    /\ entries \subseteq Entry
    /\ UniqueIds(entries)
    /\ byPath \in [Paths -> SUBSET Ids]
    /\ IndexExact

LEMMA InitIndex == Init => IndexInv
BY DEF Init, IndexInv, IndexExact, IdsOf, UniqueIds

\* Removing entries from the map and from an index that is exact for it
\* leaves an index that is exact for the others.
LEMMA RemovalKeepsIndex ==
    ASSUME NEW held \in SUBSET Entry,
           UniqueIds(held),
           NEW gone \in SUBSET held, NEW index, NEW p \in Paths,
           index[p] = IdsOf(held, p)
    PROVE  RemovedFromPath(index, gone)[p] =
               IdsOf(held \ gone, p)
<1>1. RemovedFromPath(index, gone)[p] = IdsOf(held, p) \ IdsOf(gone, p)
  BY DEF RemovedFromPath
<1> QED BY <1>1 DEF IdsOf, UniqueIds

\* Adding an entry of a new id to the map and to the index.
LEMMA AdditionKeepsIndex ==
    ASSUME NEW held \in SUBSET Entry, NEW entry \in Entry,
           NEW index \in [Paths -> SUBSET Ids], NEW p \in Paths,
           index[p] = IdsOf(held, p)
    PROVE  [index EXCEPT ![entry.path] = @ \cup {entry.id}][p] =
               IdsOf(held \cup {entry}, p)
<1>1. entry.path \in Paths
  BY DEF Entry
<1>2. CASE p = entry.path
  BY <1>1, <1>2 DEF IdsOf
<1>3. CASE p # entry.path
  BY <1>1, <1>3 DEF IdsOf
<1> QED BY <1>2, <1>3

LEMMA PutIndex ==
    ASSUME IndexInv, NEW id \in Ids, NEW p \in Paths, NEW c \in Codes,
           Put(id, p, c)
    PROVE  /\ IndexInv'
           /\ Store!Put(id, p, c)
<1> DEFINE entry == [id |-> id, path |-> p, code |-> c]
           kept == {e \in entries : e.id # id}
           held == kept \cup {entry}
           index == RemovedFromPath(byPath, Previous(id))
           full == [index EXCEPT ![p] = @ \cup {id}]
<1>1. entry \in Entry /\ entry.id = id /\ entry.path = p
  BY DEF Entry
<1>2. PICK popped \in SUBSET held :
         /\ entries' = held \ popped
         /\ byPath' = RemovedFromPath(full, popped)
  BY DEF Put, Insert
<1>2a. invalid' = {}
  BY DEF Put, Insert
<1>3. kept \in SUBSET Entry /\ kept = entries \ Previous(id)
  BY DEF IndexInv, Previous
<1>4. index \in [Paths -> SUBSET Ids]
  BY DEF IndexInv, RemovedFromPath
<1>5. \A q \in Paths : index[q] = IdsOf(kept, q)
  <2> SUFFICES ASSUME NEW q \in Paths
               PROVE  index[q] = IdsOf(kept, q)
    OBVIOUS
  <2>1. /\ entries \in SUBSET Entry /\ Previous(id) \in SUBSET entries
        /\ UniqueIds(entries)
        /\ \A r \in Paths :
              byPath[r] = IdsOf(entries, r)
    BY DEF IndexInv, IndexExact, Previous
  <2>2. index[q] = IdsOf(entries \ Previous(id), q)
    BY <2>1, RemovalKeepsIndex
  <2> QED BY <1>3, <2>2
<1>6. \A q \in Paths : full[q] = IdsOf(held, q)
  <2> SUFFICES ASSUME NEW q \in Paths
               PROVE  full[q] = IdsOf(held, q)
    OBVIOUS
  <2>1. [index EXCEPT ![entry.path] = @ \cup {entry.id}][q] =
            IdsOf(kept \cup {entry}, q)
    BY <1>1, <1>3, <1>4, <1>5, AdditionKeepsIndex
  <2> QED BY <1>1, <2>1
<1>7. held \in SUBSET Entry /\ UniqueIds(held)
  BY <1>1, <1>3 DEF IndexInv, UniqueIds
<1>8. IndexExact'
  <2> SUFFICES ASSUME NEW q \in Paths
               PROVE  byPath'[q] =
                          IdsOf(entries', q)
    BY DEF IndexExact
  <2> HIDE DEF entry, kept, held, index, full
  <2>1. RemovedFromPath(full, popped)[q] =
            IdsOf(held \ popped, q)
    BY <1>6, <1>7, RemovalKeepsIndex
  <2> QED BY <1>2, <2>1
<1>9. byPath' \in [Paths -> SUBSET Ids]
  BY <1>2, <1>4 DEF RemovedFromPath
<1>10. Store!Put(id, p, c)
  BY <1>2, <1>2a DEF Store!Put, Store!Others
<1> QED BY <1>2, <1>7, <1>8, <1>9, <1>10 DEF IndexInv, UniqueIds

LEMMA InvalidateIndex ==
    ASSUME IndexInv, NEW p \in Paths, InvalidatePath(p)
    PROVE  /\ IndexInv'
           /\ Store!Invalidate({p})
<1>1. {e \in entries : e.id \in byPath[p]} = {e \in entries : e.path = p}
  BY DEF IndexInv, IndexExact, IdsOf, UniqueIds
<1>2. entries' = {e \in entries : e.path # p}
  BY <1>1 DEF InvalidatePath
<1>3. byPath' = [byPath EXCEPT ![p] = {}]
  BY DEF InvalidatePath
<1>4. \A q \in Paths :
         byPath'[q] = IdsOf(entries', q)
  BY <1>2, <1>3 DEF IndexInv, IndexExact, IdsOf
<1> QED BY <1>2, <1>3, <1>4 DEF IndexInv, IndexExact, UniqueIds,
                                InvalidatePath, Store!Invalidate

LEMMA IndexStep ==
    ASSUME IndexInv, [Next]_vars
    PROVE  IndexInv' /\ [Store!StoreNext]_<<entries, invalid>>
<1>1. ASSUME NEW id \in Ids, Get(id)
      PROVE  IndexInv' /\ [Store!StoreNext]_<<entries, invalid>>
  BY <1>1 DEF Get, IndexInv, IndexExact, Store!StoreNext, Store!Get
<1>2. ASSUME NEW id \in Ids, NEW p \in Paths, NEW c \in Codes, Put(id, p, c)
      PROVE  IndexInv' /\ [Store!StoreNext]_<<entries, invalid>>
  BY <1>2, PutIndex DEF Store!StoreNext
<1>3. CASE Clear
  <2>1. IndexInv'
    BY <1>3 DEF Clear, IndexInv, IndexExact, IdsOf, UniqueIds
  <2>2. Store!Invalidate(Paths)
    BY <1>3 DEF Clear, IndexInv, Entry, Store!Invalidate
  <2> QED BY <2>1, <2>2 DEF Store!StoreNext
<1>4. ASSUME NEW p \in Paths, InvalidatePath(p)
      PROVE  IndexInv' /\ [Store!StoreNext]_<<entries, invalid>>
  BY <1>4, InvalidateIndex DEF Store!StoreNext
<1>5. CASE UNCHANGED vars
  BY <1>5 DEF vars, IndexInv, IndexExact
<1> QED BY <1>1, <1>2, <1>3, <1>4, <1>5 DEF Next

\* The sets of _by_path name exactly the symbols of _entries, whatever was
\* put, moved to another path, evicted and invalidated.
THEOREM IndexAlwaysExact == Spec => []IndexExact
<1>1. IndexInv => IndexExact
  BY DEF IndexInv
<1> QED BY <1>1, InitIndex, IndexStep, PTL DEF Spec

\* The LRU map with its index and its counter implements a store that only
\* forgets and that drops every symbol of an invalidated path.
THEOREM CacheImplementsStore == Spec => ImplementsStore
<1>1. Init => Store!StoreInit
  BY DEF Init, Store!StoreInit
<1>2. IndexInv /\ [Next]_vars => IndexInv'
  BY IndexStep
<1>3. IndexInv /\ [Next]_vars => [Store!StoreNext]_<<entries, invalid>>
  BY IndexStep
<1> QED BY <1>1, <1>2, <1>3, InitIndex, PTL
        DEF Spec, ImplementsStore, Store!StoreSpec, Store!storeVars

----------------------------------------------------------------------------
(* The order of the map.                                                   *)

\* An order that relates any two of the ids in one direction.
Ordered(order, ids) ==
    /\ order \subseteq ids \X ids
    /\ \A a, b \in ids : a # b => (<<a, b>> \in order <=> <<b, a>> \notin order)

IdSet(set) == {e.id : e \in set}

\* Moving an id to the end, a new one too, leaves an order.
LEMMA MovedKeepsOrder ==
    ASSUME NEW order, NEW ids, Ordered(order, ids), NEW id
    PROVE  Ordered(MovedToEnd(order, id, ids \cup {id}), ids \cup {id})
<1> DEFINE all == ids \cup {id}
           moved == MovedToEnd(order, id, all)
<1>1. \A a, b : <<a, b>> \in moved <=> \/ <<a, b>> \in order /\ a # id /\ b # id
                                       \/ a \in all \ {id} /\ b = id
  BY DEF MovedToEnd, Without, Ordered
<1>2. moved \subseteq all \X all
  BY DEF MovedToEnd, Without, Ordered
<1>3. ASSUME NEW a \in all, NEW b \in all, a # b
      PROVE  <<a, b>> \in moved <=> <<b, a>> \notin moved
  <2> HIDE DEF moved
  <2>1. CASE a = id \/ b = id
    BY <1>1, <1>3, <2>1
  <2>2. CASE a # id /\ b # id
    BY <1>1, <1>3, <2>2 DEF Ordered
  <2> QED BY <2>1, <2>2
<1> QED BY <1>2, <1>3 DEF Ordered

\* So does dropping ids.
LEMMA WithoutKeepsOrder ==
    ASSUME NEW order, NEW ids, Ordered(order, ids), NEW gone
    PROVE  Ordered(Without(order, gone), ids \ gone)
BY DEF Ordered, Without

\* As no id has two entries, entries leave with their ids.
LEMMA RemovedIds ==
    ASSUME NEW held, UniqueIds(held), NEW gone \in SUBSET held
    PROVE  IdSet(held \ gone) = IdSet(held) \ IdSet(gone)
BY DEF UniqueIds, IdSet

TypeInv == IndexInv /\ Ordered(older, IdSet(entries)) /\ invalid \subseteq Paths

LEMMA PutOrder ==
    ASSUME TypeInv, NEW id \in Ids, NEW p \in Paths, NEW c \in Codes,
           Put(id, p, c)
    PROVE  Ordered(older, IdSet(entries))' /\ invalid' \subseteq Paths
<1> DEFINE entry == [id |-> id, path |-> p, code |-> c]
           kept == {e \in entries : e.id # id}
           held == kept \cup {entry}
           order == MovedToEnd(older, id, IdSet(held))
<1>1. PICK popped \in SUBSET held :
         /\ entries' = held \ popped
         /\ older' = Without(order, IdSet(popped))
         /\ invalid' = {}
  BY DEF Put, Insert, IdSet
<1>2. IdSet(held) = IdSet(entries) \cup {id}
  <2>1. entry.id = id
    OBVIOUS
  <2> HIDE DEF entry
  <2>2. IdSet(held) = IdSet(kept) \cup {id}
    BY <2>1 DEF IdSet
  <2>3. IdSet(kept) \cup {id} = IdSet(entries) \cup {id}
    BY DEF IdSet
  <2> QED BY <2>2, <2>3
<1>3. UniqueIds(held)
  BY DEF TypeInv, IndexInv, UniqueIds
<1>4. Ordered(order, IdSet(held))
  BY <1>2, MovedKeepsOrder DEF TypeInv
<1> HIDE DEF held, order
<1>5. Ordered(older', IdSet(held) \ IdSet(popped))
  BY <1>1, <1>4, WithoutKeepsOrder
<1>6. IdSet(entries') = IdSet(held) \ IdSet(popped)
  BY <1>1, <1>3, RemovedIds
<1> QED BY <1>1, <1>5, <1>6 DEF Ordered, IdSet

LEMMA InvalidateOrder ==
    ASSUME TypeInv, NEW p \in Paths, InvalidatePath(p)
    PROVE  Ordered(older, IdSet(entries))' /\ invalid' \subseteq Paths
<1> DEFINE gone == {e \in entries : e.id \in byPath[p]}
<1>1. /\ entries' = entries \ gone
      /\ older' = Without(older, IdSet(gone))
      /\ invalid' = {p}
  BY DEF InvalidatePath, IdSet
<1>2. gone \in SUBSET entries /\ UniqueIds(entries)
  BY DEF TypeInv, IndexInv
<1> HIDE DEF gone
<1>3. Ordered(older', IdSet(entries) \ IdSet(gone))
  BY <1>1, WithoutKeepsOrder DEF TypeInv
<1>4. IdSet(entries') = IdSet(entries) \ IdSet(gone)
  BY <1>1, <1>2, RemovedIds
<1> QED BY <1>1, <1>3, <1>4 DEF Ordered, IdSet

LEMMA TypeStep == TypeInv /\ [Next]_vars => TypeInv'
<1> SUFFICES ASSUME TypeInv, [Next]_vars
             PROVE  Ordered(older, IdSet(entries))' /\ invalid' \subseteq Paths
  BY IndexStep DEF TypeInv
<1>1. ASSUME NEW id \in Ids, Get(id)
      PROVE  Ordered(older, IdSet(entries))' /\ invalid' \subseteq Paths
  <2>1. IdSet(entries) \cup {id} = IdSet(entries) /\ Held = IdSet(entries)
    BY <1>1 DEF Get, Held, IdSet
  <2>2. Ordered(older', IdSet(entries))
    BY <1>1, <2>1, MovedKeepsOrder DEF Get, TypeInv
  <2> QED BY <1>1, <2>2 DEF Get, Ordered, IdSet
<1>2. ASSUME NEW id \in Ids, NEW p \in Paths, NEW c \in Codes, Put(id, p, c)
      PROVE  Ordered(older, IdSet(entries))' /\ invalid' \subseteq Paths
  BY <1>2, PutOrder
<1>3. CASE Clear
  BY <1>3 DEF Clear, Ordered, IdSet
<1>4. ASSUME NEW p \in Paths, InvalidatePath(p)
      PROVE  Ordered(older, IdSet(entries))' /\ invalid' \subseteq Paths
  BY <1>4, InvalidateOrder
<1>5. CASE UNCHANGED vars
  BY <1>5 DEF vars, TypeInv, Ordered, IdSet
<1> QED BY <1>1, <1>2, <1>3, <1>4, <1>5 DEF Next

\* The order of _entries stays one that says which symbol to pop, and the index
\* one of ids, through hits, replacements, evictions and invalidations.
THEOREM CacheTypeCorrect == Spec => []TypeOK
<1>1. Init => TypeInv
  BY InitIndex DEF Init, TypeInv, Ordered, IdSet
<1>2. TypeInv => TypeOK
  BY DEF TypeInv, IndexInv, Ordered, IdSet, TypeOK, Held
<1> QED BY <1>1, <1>2, TypeStep, PTL DEF Spec

----------------------------------------------------------------------------
(* The sum of the sizes of a finite set.                                   *)

\* The entry that the fold takes first.
Pick(s) == CHOOSE x \in s : TRUE

\* f gives the total of every subset of S.
Sums(f, S) ==
    f = [s \in SUBSET S |-> IF s = {} THEN 0
                            ELSE Size[Pick(s).code] + f[s \ {Pick(s)}]]

LEMMA TotalUnfolded ==
    ASSUME NEW S
    PROVE  Total(S) = (CHOOSE f : Sums(f, S))[S]
BY DEF Total, MapThenSumSet, MapThenFoldSet, Sums, Pick

LEMMA PickIn == ASSUME NEW s, s # {} PROVE Pick(s) \in s
BY DEF Pick

\* A set that has a subset of S when it has the smaller ones has them all.
LEMMA SubsetInduction ==
    ASSUME NEW S, IsFiniteSet(S), NEW P,
           \A T \in SUBSET S :
              (\A U \in SUBSET T : U # T => U \in P) => T \in P
    PROVE  \A T \in SUBSET S : T \in P
<1> DEFINE bad == {T \in SUBSET S : T \notin P}
           less == StrictSubsetOrdering(S)
<1> SUFFICES ASSUME bad # {}
             PROVE  FALSE
  OBVIOUS
<1>1. IsWellFoundedOn(less, SUBSET S)
  <2>1. IsWellFoundedOn(StrictSubsetOrdering(S), FiniteSubsetsOf(S))
    BY FS_StrictSubsetOrderingWellFounded
  <2>2. FiniteSubsetsOf(S) = SUBSET S
    BY FS_FiniteSubsetsOfFinite
  <2> QED BY <2>1, <2>2
<1>2. bad \subseteq SUBSET S
  OBVIOUS
<1> HIDE DEF bad, less
<1>3. PICK T \in bad : \A U \in bad : <<U, T>> \notin less
  BY <1>1, <1>2, WFMin
<1>4. T \in SUBSET S /\ T \notin P
  BY DEF bad
<1>5. ASSUME NEW U \in SUBSET T, U # T
      PROVE  U \in P
  BY <1>3, <1>4, <1>5 DEF bad, less, StrictSubsetOrdering
<1> QED BY <1>4, <1>5

\* What Sums says of one subset.
LEMMA SumsValue ==
    ASSUME NEW S, NEW f, Sums(f, S), NEW s \in SUBSET S
    PROVE  f[s] = IF s = {} THEN 0 ELSE Size[Pick(s).code] + f[s \ {Pick(s)}]
<1>1. f = [t \in SUBSET S |-> IF t = {} THEN 0
                              ELSE Size[Pick(t).code] + f[t \ {Pick(t)}]]
  BY DEF Sums
<1> QED BY <1>1

\* Two such functions agree on the finite sets that both are defined on.
LEMMA SumsUnique ==
    ASSUME NEW S, NEW T, NEW f, NEW g, Sums(f, S), Sums(g, T),
           NEW U \in SUBSET (S \cap T), IsFiniteSet(U)
    PROVE  f[U] = g[U]
<1> DEFINE same == {s \in SUBSET U : f[s] = g[s]}
<1>1. ASSUME NEW s \in SUBSET U, \A t \in SUBSET s : t # s => t \in same
      PROVE  s \in same
  <2>1. /\ f[s] = IF s = {} THEN 0 ELSE Size[Pick(s).code] + f[s \ {Pick(s)}]
        /\ g[s] = IF s = {} THEN 0 ELSE Size[Pick(s).code] + g[s \ {Pick(s)}]
    BY SumsValue
  <2>2. CASE s = {}
    BY <2>1, <2>2
  <2>3. CASE s # {}
    <3>1. s \ {Pick(s)} \in same
      BY <1>1, <2>3, PickIn
    <3> QED BY <2>1, <2>3, <3>1
  <2> QED BY <2>2, <2>3
<1> HIDE DEF same
<1>2. U \in same
  BY <1>1, SubsetInduction
<1> QED BY <1>2 DEF same

\* A finite set has one, built from those of its smaller subsets.
LEMMA SumsExist ==
    ASSUME NEW S \in SUBSET Entry, IsFiniteSet(S)
    PROVE  \E f : Sums(f, S) /\ f \in [SUBSET S -> Nat]
<1> DEFINE G(T) == CHOOSE f : Sums(f, T) /\ f \in [SUBSET T -> Nat]
           P == {T \in SUBSET S : \E f : Sums(f, T) /\ f \in [SUBSET T -> Nat]}
<1>1. ASSUME NEW T \in SUBSET S, \A U \in SUBSET T : U # T => U \in P
      PROVE  T \in P
  <2> DEFINE F == [s \in SUBSET T |->
                     IF s = {} THEN 0
                     ELSE Size[Pick(s).code] + G(s \ {Pick(s)})[s \ {Pick(s)}]]
  <2>1. \A U \in SUBSET T :
           U # T => Sums(G(U), U) /\ G(U) \in [SUBSET U -> Nat]
    <3> SUFFICES ASSUME NEW U \in SUBSET T, U # T
                 PROVE  Sums(G(U), U) /\ G(U) \in [SUBSET U -> Nat]
      OBVIOUS
    <3>1. \E f : Sums(f, U) /\ f \in [SUBSET U -> Nat]
      BY <1>1
    <3> QED BY <3>1
  <2> HIDE DEF G
  <2>2. ASSUME NEW s \in SUBSET T, s # {}
        PROVE  /\ s \ {Pick(s)} \in SUBSET T /\ s \ {Pick(s)} # T
               /\ Pick(s) \in Entry /\ Size[Pick(s).code] \in Nat
    BY <2>2, PickIn, SizeAssumption DEF Entry
  <2>3. F \in [SUBSET T -> Nat]
    <3> SUFFICES ASSUME NEW s \in SUBSET T, s # {}
                 PROVE  G(s \ {Pick(s)})[s \ {Pick(s)}] \in Nat
      BY <2>2
    <3> DEFINE u == s \ {Pick(s)}
    <3>1. u \in SUBSET T /\ u # T
      BY <2>2
    <3> HIDE DEF u
    <3>2. G(u) \in [SUBSET u -> Nat]
      BY <2>1, <3>1
    <3>3. G(u)[u] \in Nat
      BY <3>2
    <3> QED BY <3>3 DEF u
  <2>4. ASSUME NEW s \in SUBSET T, s # T
        PROVE  F[s] = G(s)[s]
    <3>1. G(s)[s] = IF s = {} THEN 0
                    ELSE Size[Pick(s).code] + G(s)[s \ {Pick(s)}]
      <4> DEFINE g == G(s)
      <4>1. Sums(g, s)
        BY <2>1, <2>4
      <4>2. s \in SUBSET s
        OBVIOUS
      <4> HIDE DEF g
      <4>3. g[s] = IF s = {} THEN 0 ELSE Size[Pick(s).code] + g[s \ {Pick(s)}]
        BY <4>1, <4>2, SumsValue
      <4> QED BY <4>3 DEF g
    <3>2. CASE s = {}
      BY <3>1, <3>2
    <3>3. CASE s # {}
      <4> DEFINE u == s \ {Pick(s)}
      <4>1. Sums(G(s), s) /\ Sums(G(u), u)
        BY <2>1, <2>2, <2>4, <3>3
      <4>2. IsFiniteSet(u)
        BY FS_Subset
      <4>3. u \in SUBSET (s \cap u)
        OBVIOUS
      <4> HIDE DEF u
      <4>4. G(s)[u] = G(u)[u]
        BY <4>1, <4>2, <4>3, SumsUnique
      <4> QED BY <3>1, <3>3, <4>4 DEF u
    <3> QED BY <3>2, <3>3
  <2>5. ASSUME NEW s \in SUBSET T, s # {}
        PROVE  F[s] = Size[Pick(s).code] + F[s \ {Pick(s)}]
    <3>1. F[s] = Size[Pick(s).code] + G(s \ {Pick(s)})[s \ {Pick(s)}]
      BY <2>5
    <3>2. F[s \ {Pick(s)}] = G(s \ {Pick(s)})[s \ {Pick(s)}]
      BY <2>2, <2>4, <2>5
    <3> QED BY <3>1, <3>2
  <2>6. F[{}] = 0
    OBVIOUS
  <2> HIDE DEF F
  <2>7. Sums(F, T)
    BY <2>3, <2>5, <2>6 DEF Sums
  <2> QED BY <2>3, <2>7
<1> HIDE DEF P
<1>2. S \in P
  BY <1>1, SubsetInduction
<1> QED BY <1>2 DEF P

\* The recursion of the fold, and that a total is a number.
LEMMA TotalFirst ==
    ASSUME NEW S \in SUBSET Entry, IsFiniteSet(S)
    PROVE  /\ Total(S) \in Nat
           /\ Total(S) = IF S = {} THEN 0
                         ELSE Size[Pick(S).code] + Total(S \ {Pick(S)})
<1> DEFINE F == CHOOSE f : Sums(f, S)
           u == S \ {Pick(S)}
           G == CHOOSE f : Sums(f, u)
<1>1. PICK f : Sums(f, S) /\ f \in [SUBSET S -> Nat]
  BY SumsExist
<1>2. Sums(F, S)
  BY <1>1
<1>3. u \in SUBSET Entry /\ IsFiniteSet(u) /\ u \in SUBSET (S \cap u)
  BY FS_Subset
<1> HIDE DEF u
<1>4. Sums(G, u)
  <2>1. \E g : Sums(g, u)
    BY <1>3, SumsExist
  <2> QED BY <2>1
<1>5. Total(S) = F[S] /\ Total(u) = G[u]
  BY TotalUnfolded
<1> HIDE DEF F, G
<1>6. F[S] = f[S]
  BY <1>1, <1>2, SumsUnique
<1>7. F[S] = IF S = {} THEN 0 ELSE Size[Pick(S).code] + F[u]
  BY <1>2, SumsValue DEF u
<1>8. F[u] = G[u]
  BY <1>2, <1>3, <1>4, SumsUnique
<1> QED BY <1>1, <1>5, <1>6, <1>7, <1>8 DEF u

\* Any entry of the set may be taken first.
LEMMA TotalOfOne ==
    ASSUME NEW S \in SUBSET Entry, IsFiniteSet(S), NEW x \in S
    PROVE  Total(S) = Size[x.code] + Total(S \ {x})
<1> DEFINE P == {T \in SUBSET S :
                   \A y \in T : Total(T) = Size[y.code] + Total(T \ {y})}
<1>1. ASSUME NEW T \in SUBSET S, \A U \in SUBSET T : U # T => U \in P
      PROVE  T \in P
  <2> SUFFICES ASSUME NEW y \in T
               PROVE  Total(T) = Size[y.code] + Total(T \ {y})
    OBVIOUS
  <2> DEFINE z == Pick(T)
             a == T \ {z}
             b == T \ {y}
             c == T \ {y, z}
  <2>1. z \in T
    BY PickIn
  <2>2. IsFiniteSet(T) /\ IsFiniteSet(a) /\ IsFiniteSet(b) /\ IsFiniteSet(c)
    BY FS_Subset
  <2>3. Size[y.code] \in Nat /\ Size[z.code] \in Nat
    BY <2>1, SizeAssumption DEF Entry
  <2>4. Total(T) = Size[z.code] + Total(a)
    BY <2>2, TotalFirst
  <2>5. Total(a) \in Nat /\ Total(b) \in Nat /\ Total(c) \in Nat
    BY <2>2, TotalFirst
  <2>6. CASE y = z
    BY <2>4, <2>6
  <2>7. CASE y # z
    <3>1. a \in P /\ b \in P /\ y \in a /\ z \in b
      BY <1>1, <2>1, <2>7
    <3>2. a \ {y} = c /\ b \ {z} = c
      OBVIOUS
    <3> HIDE DEF z, a, b, c
    <3>3. Total(a) = Size[y.code] + Total(c)
      BY <3>1, <3>2
    <3>4. Total(b) = Size[z.code] + Total(c)
      BY <3>1, <3>2
    <3>5. Total(T) = Size[y.code] + Total(b)
      BY <2>3, <2>4, <2>5, <3>3, <3>4
    <3> QED BY <3>5 DEF b
  <2> QED BY <2>6, <2>7
<1> HIDE DEF P
<1>2. S \in P
  BY <1>1, SubsetInduction
<1> QED BY <1>2 DEF P

\* What leaves a set takes its total along.
LEMMA TotalOfRest ==
    ASSUME NEW S \in SUBSET Entry, IsFiniteSet(S), NEW gone \in SUBSET S
    PROVE  Total(S \ gone) = Total(S) - Total(gone)
<1> DEFINE P == {T \in SUBSET S : Total(S \ T) = Total(S) - Total(T)}
<1>0. \A T \in SUBSET S :
         IsFiniteSet(T) /\ Total(T) \in Nat
  BY FS_Subset, TotalFirst
<1>1. ASSUME NEW T \in SUBSET S, \A U \in SUBSET T : U # T => U \in P
      PROVE  T \in P
  <2>1. CASE T = {}
    <3>1. S \ T = S /\ Total(T) = 0
      BY <1>0, <2>1, TotalFirst
    <3> QED BY <1>0, <3>1
  <2>2. CASE T # {}
    <3> DEFINE z == Pick(T)
               u == T \ {z}
    <3>1. z \in T /\ z \in S \ u /\ u \in P
      BY <1>1, <2>2, PickIn
    <3>2. Size[z.code] \in Nat
      BY <3>1, SizeAssumption DEF Entry
    <3>3. (S \ u) \ {z} = S \ T
      BY <3>1
    <3>4. /\ IsFiniteSet(T) /\ IsFiniteSet(S \ u)
          /\ Total(T) \in Nat /\ Total(u) \in Nat /\ Total(S) \in Nat
          /\ Total(S \ u) \in Nat /\ Total(S \ T) \in Nat
      BY <1>0
    <3>5. S \ u \in SUBSET Entry /\ T \in SUBSET Entry
      OBVIOUS
    <3>6. Total(S \ u) = Total(S) - Total(u)
      BY <3>1
    <3>7. Total(T) = Size[z.code] + Total(u)
      BY <3>1, <3>4, <3>5, TotalOfOne
    <3> HIDE DEF z, u
    <3>8. Total(S \ u) = Size[z.code] + Total((S \ u) \ {z})
      BY <3>1, <3>4, <3>5, TotalOfOne
    <3> HIDE DEF P
    <3>9. Total(S \ u) = Size[z.code] + Total(S \ T)
      BY <3>3, <3>8
    <3>10. Total(S \ T) = Total(S) - Total(T)
      BY <3>2, <3>4, <3>6, <3>7, <3>9
    <3> QED BY <3>10 DEF P
  <2> QED BY <2>1, <2>2
<1> HIDE DEF P
<1>2. gone \in P
  BY <1>1, SubsetInduction
<1> QED BY <1>2 DEF P

----------------------------------------------------------------------------
(* The running count.                                                      *)

\* The entries are finitely many, as each operation adds one at most: else
\* their sum would mean nothing.
BytesInv ==
    /\ IndexInv
    /\ IsFiniteSet(entries)
    /\ BytesExact

LEMMA TotalPrimed == Total(entries)' = Total(entries')
BY DEF Total, MapThenSumSet, MapThenFoldSet

LEMMA PoppedEnough ==
    ASSUME NEW set, NEW held, NEW order, NEW count,
           Popped(set, held, order, count)
    PROVE  set = held \/ count - Total(set) <= MaxBytes
BY Zenon DEF Popped, EnoughPopped

\* What is left after the pops of Insert, as far as the count goes.
LEMMA InsertPops ==
    ASSUME NEW entry \in Entry, NEW index, NEW count \in Nat,
           Insert(entry, index, count),
           NEW held \in SUBSET Entry, IsFiniteSet(held),
           held = {e \in entries : e.id # entry.id} \cup {entry},
           NEW full, full = count + Size[entry.code]
    PROVE  \E popped \in SUBSET held :
              /\ popped = held \/ full - Total(popped) <= MaxBytes
              /\ entries' = held \ popped
              /\ bytes' = full - Total(popped)
<1>1. PICK popped \in SUBSET held :
         /\ Popped(popped, held,
                   MovedToEnd(older, entry.id, {e.id : e \in held}),
                   count + Size[entry.code])
         /\ entries' = held \ popped
         /\ bytes' = count + Size[entry.code] - Total(popped)
  <2> DEFINE all == {e \in entries : e.id # entry.id} \cup {entry}
  <2>1. \E popped \in SUBSET all :
           /\ Popped(popped, all,
                     MovedToEnd(older, entry.id, {e.id : e \in all}),
                     count + Size[entry.code])
           /\ entries' = all \ popped
           /\ bytes' = count + Size[entry.code] - Total(popped)
    BY Zenon DEF Insert
  <2> HIDE DEF all
  <2> QED BY <2>1, Zenon DEF all
<1>2. popped = held \/ full - Total(popped) <= MaxBytes
  <2> DEFINE order == MovedToEnd(older, entry.id, {e.id : e \in held})
  <2>1. Popped(popped, held, order, full)
    BY <1>1
  <2> HIDE DEF order
  <2> QED BY <2>1, PoppedEnough
<1>3. Size[entry.code] \in Nat /\ Total(popped) \in Nat
  BY FS_Subset, TotalFirst, SizeAssumption DEF Entry
<1>4. full - Total(popped) = count + Size[entry.code] - Total(popped)
  BY <1>3
<1> QED BY <1>1, <1>2, <1>4

\* Insert starts from a count that is the total of the other entries, and
\* pops until the bound holds or nothing is left.
LEMMA PutBytes ==
    ASSUME BytesInv, NEW id \in Ids, NEW p \in Paths, NEW c \in Codes,
           Put(id, p, c)
    PROVE  IsFiniteSet(entries') /\ BytesExact'
<1> DEFINE entry == [id |-> id, path |-> p, code |-> c]
           kept == {e \in entries : e.id # id}
           held == kept \cup {entry}
           count == bytes - Total(Previous(id))
           full == count + Size[entry.code]
<1>1. Insert(entry, RemovedFromPath(byPath, Previous(id)), count)
  BY DEF Put
<1>2. entry \in Entry /\ entry \notin kept /\ entry.code = c
  BY DEF Entry
<1>3. /\ entries \in SUBSET Entry /\ Previous(id) \in SUBSET entries
      /\ kept = entries \ Previous(id)
  BY DEF BytesInv, IndexInv, Previous
<1>4. IsFiniteSet(kept) /\ kept \in SUBSET Entry
  BY <1>3, FS_Subset DEF BytesInv
<1>5. count = Total(kept)
  <2>1. Total(entries \ Previous(id)) = Total(entries) - Total(Previous(id))
    BY <1>3, TotalOfRest DEF BytesInv
  <2> QED BY <1>3, <2>1 DEF BytesInv, BytesExact
<1>6. held \in SUBSET Entry /\ IsFiniteSet(held) /\ held \ {entry} = kept
  <2> HIDE DEF entry, kept
  <2>1. IsFiniteSet(held)
    BY <1>4, FS_AddElement
  <2>2. held \in SUBSET Entry
    BY <1>2, <1>4
  <2>3. held \ {entry} = kept
    BY <1>2
  <2> QED BY <2>1, <2>2, <2>3
<1>7. Size[c] \in Nat /\ MaxBytes \in Nat
  BY SizeAssumption
<1>8. entry.id = id /\ held = {e \in entries : e.id # entry.id} \cup {entry}
  OBVIOUS
<1> HIDE DEF entry, kept, held
<1>9. Total(held) = Size[c] + Total(kept) /\ Total(kept) \in Nat
  <2>1. entry \in held
    BY DEF held
  <2>2. Total(held) = Size[entry.code] + Total(held \ {entry})
    BY <1>6, <2>1, TotalOfOne
  <2> QED BY <1>2, <1>4, <1>6, <2>2, TotalFirst
<1>10. full = Total(held)
  BY <1>2, <1>5, <1>7, <1>9
<1> HIDE DEF count
<1>11. PICK popped \in SUBSET held :
          /\ popped = held \/ full - Total(popped) <= MaxBytes
          /\ entries' = held \ popped
          /\ bytes' = full - Total(popped)
  BY <1>1, <1>8, <1>2, <1>5, <1>6, <1>9, InsertPops
<1> HIDE DEF full
<1>12. Total(held \ popped) = Total(held) - Total(popped)
  BY <1>6, TotalOfRest
<1>13. bytes' = Total(entries')
  BY <1>10, <1>11, <1>12
<1>14. bytes' <= MaxBytes
  <2>1. CASE popped = held
    <3>1. entries' = {} /\ {} \in SUBSET Entry /\ IsFiniteSet({})
      BY <1>11, <2>1, FS_EmptySet
    <3>2. Total(entries') = 0
      BY <3>1, TotalFirst
    <3> QED BY <1>7, <1>13, <3>2
  <2>2. CASE full - Total(popped) <= MaxBytes
    BY <1>11, <2>2
  <2> QED BY <1>11, <2>1, <2>2
<1>15. IsFiniteSet(entries')
  BY <1>11, <1>6, FS_Subset
<1> QED BY <1>13, <1>14, <1>15, TotalPrimed DEF BytesExact

LEMMA InvalidateBytes ==
    ASSUME BytesInv, NEW p \in Paths, InvalidatePath(p)
    PROVE  IsFiniteSet(entries') /\ BytesExact'
<1> DEFINE gone == {e \in entries : e.id \in byPath[p]}
<1>1. /\ entries' = entries \ gone
      /\ bytes' = bytes - Total(gone)
  BY DEF InvalidatePath
<1>2. /\ gone \in SUBSET entries /\ entries \in SUBSET Entry
      /\ IsFiniteSet(entries)
  BY DEF BytesInv, IndexInv
<1> HIDE DEF gone
<1>3. Total(entries \ gone) = Total(entries) - Total(gone)
  BY <1>2, TotalOfRest
<1>4. IsFiniteSet(gone) /\ IsFiniteSet(entries')
  BY <1>1, <1>2, FS_Subset
<1>5. Total(entries) \in Nat /\ Total(gone) \in Nat
  BY <1>2, <1>4, TotalFirst
<1>6. bytes = Total(entries) /\ bytes <= MaxBytes /\ MaxBytes \in Nat
  BY SizeAssumption DEF BytesInv, BytesExact
<1>7. bytes' = Total(entries') /\ bytes' <= MaxBytes
  BY <1>1, <1>3, <1>5, <1>6
<1> QED BY <1>4, <1>7, TotalPrimed DEF BytesExact

LEMMA EmptyBytes ==
    /\ IsFiniteSet({})
    /\ Total({}) = 0
    /\ 0 <= MaxBytes
<1>1. IsFiniteSet({}) /\ {} \in SUBSET Entry
  BY FS_EmptySet
<1>2. Total({}) = 0
  BY <1>1, TotalFirst
<1> QED BY <1>1, <1>2, SizeAssumption

LEMMA InitBytes == Init => BytesInv
BY InitIndex, EmptyBytes DEF Init, BytesInv, BytesExact

LEMMA BytesStep == BytesInv /\ [Next]_vars => BytesInv'
<1> SUFFICES ASSUME BytesInv, [Next]_vars
             PROVE  IsFiniteSet(entries') /\ BytesExact'
  BY IndexStep DEF BytesInv
<1>1. CASE \E id \in Ids : Get(id)
  BY <1>1, TotalPrimed DEF Get, BytesInv, BytesExact
<1>2. CASE \E id \in Ids, p \in Paths, c \in Codes : Put(id, p, c)
  BY <1>2, PutBytes
<1>3. CASE Clear
  BY <1>3, EmptyBytes, TotalPrimed DEF Clear, BytesExact
<1>4. CASE \E p \in Paths : InvalidatePath(p)
  BY <1>4, InvalidateBytes
<1>5. CASE UNCHANGED vars
  BY <1>5, TotalPrimed DEF vars, BytesInv, BytesExact
<1> QED BY <1>1, <1>2, <1>3, <1>4, <1>5 DEF Next

\* _current_bytes is at all times the sum of the sizes of _entries and within
\* max_bytes: hits, replacements, moves between paths, evictions, also of the
\* symbol just put, and invalidations never let it drift.
THEOREM BytesAlwaysExact == Spec => []BytesExact
<1>1. BytesInv => BytesExact
  BY DEF BytesInv
<1> QED BY <1>1, InitBytes, BytesStep, PTL DEF Spec
============================================================================
