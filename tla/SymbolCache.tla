---------------------------- MODULE SymbolCache ----------------------------
(***************************************************************************)
(* SymbolCache of capyidx/mcp/cache.py: an LRU map bounded in bytes, the   *)
(* index of its symbols by path and the running count of its bytes, which  *)
(* four methods keep in step by hand.                                      *)
(*                                                                         *)
(* The methods run on one event loop and never await, so each is one       *)
(* action.  A path stands for its canonical_path.                          *)
(***************************************************************************)
EXTENDS Integers, FiniteSets, FiniteSetsExt

CONSTANTS
    Ids,        \* symbol ids
    Paths,      \* canonical paths
    Codes,      \* reconstructed sources
    Size,       \* Size[c]: the bytes of a source in UTF-8
    MaxBytes    \* max_bytes

ASSUME SizeAssumption == Size \in [Codes -> Nat] /\ MaxBytes \in Nat

VARIABLES
    entries,    \* _entries: the symbols held
    older,      \* the order of _entries: a is popped before b
    byPath,     \* _by_path; a path without a set has the empty one
    bytes,      \* _current_bytes
    invalid     \* history: the paths that the last operation invalidated

vars == <<entries, older, byPath, bytes, invalid>>

Entry == [id : Ids, path : Paths, code : Codes]

Held == {e.id : e \in entries}

UniqueIds(set) == \A e, f \in set : e.id = f.id => e = f

\* The order relates the ids held, any two of them in one direction, and the
\* index has sets of ids: what popitem and invalidate_path rely on.  What bytes
\* is says BytesExact.
TypeOK ==
    /\ entries \subseteq Entry
    /\ UniqueIds(entries)
    /\ older \subseteq Held \X Held
    /\ \A id1, id2 \in Held :
          id1 # id2 => (<<id1, id2>> \in older <=> <<id2, id1>> \notin older)
    /\ byPath \in [Paths -> SUBSET Ids]
    /\ invalid \subseteq Paths

Total(set) == MapThenSumSet(LAMBDA e : Size[e.code], set)

Init ==
    /\ entries = {}
    /\ older = {}
    /\ byPath = [p \in Paths |-> {}]
    /\ bytes = 0
    /\ invalid = {}

----------------------------------------------------------------------------

\* The ids of the entries of a path.
IdsOf(set, p) == {e.id : e \in {f \in set : f.path = p}}

\* The order once the ids of a set have left.
Without(order, ids) == {pair \in order : pair[1] \notin ids /\ pair[2] \notin ids}

\* Mutant: the old place of id stays.
MovedToEndTwice(order, id, held) ==
    order \cup {<<other, id>> : other \in held \ {id}}

\* The order once id is the youngest of the ids held.
MovedToEnd(order, id, held) ==
    Without(order, {id}) \cup {<<other, id>> : other \in held \ {id}}

\* Mutant: the set of a path goes with its first symbol.
RemovedWithPath(index, gone) ==
    [p \in Paths |-> IF \E e \in gone : e.path = p THEN {} ELSE index[p]]

\* _remove_from_path
RemovedFromPath(index, gone) ==
    [p \in Paths |-> index[p] \ IdsOf(gone, p)]

\* A set of the oldest entries whose removal lets the count fit, or all.
EnoughPopped(set, held, order, count) ==
    /\ \A e \in set, f \in held \ set : <<e.id, f.id>> \in order
    /\ set = held \/ count - Total(set) <= MaxBytes

\* popitem takes the oldest entry until that is so.
Popped(set, held, order, count) ==
    /\ EnoughPopped(set, held, order, count)
    /\ \A less \in SUBSET set :
          EnoughPopped(less, held, order, count) => less = set

\* get: a hit makes the symbol the youngest.
Get(id) ==
    /\ id \in Held
    /\ older' = MovedToEnd(older, id, Held)
    /\ invalid' = {}
    /\ UNCHANGED <<entries, byPath, bytes>>

\* The second half of put, given the index and the count without the entry
\* that it replaces.
Insert(entry, index, count) ==
    LET held == {e \in entries : e.id # entry.id} \cup {entry}
        order == MovedToEnd(older, entry.id, {e.id : e \in held})
    IN
    \E popped \in SUBSET held :
        /\ Popped(popped, held, order, count + Size[entry.code])
        /\ entries' = held \ popped
        /\ older' = Without(order, {e.id : e \in popped})
        /\ byPath' = RemovedFromPath(
                         [index EXCEPT ![entry.path] = @ \cup {entry.id}], popped)
        /\ bytes' = count + Size[entry.code] - Total(popped)
        /\ invalid' = {}

Previous(id) == {e \in entries : e.id = id}

\* Mutant: the entry that a put replaces stays in the index of its path.
PutKeepingIndex(id, p, c) ==
    Insert([id |-> id, path |-> p, code |-> c],
           byPath, bytes - Total(Previous(id)))

\* Mutant: the bytes of the entry that a put replaces stay counted.
PutKeepingBytes(id, p, c) ==
    Insert([id |-> id, path |-> p, code |-> c],
           RemovedFromPath(byPath, Previous(id)), bytes)

Put(id, p, c) ==
    Insert([id |-> id, path |-> p, code |-> c],
           RemovedFromPath(byPath, Previous(id)), bytes - Total(Previous(id)))

Clear ==
    /\ entries' = {}
    /\ older' = {}
    /\ byPath' = [p \in Paths |-> {}]
    /\ bytes' = 0
    /\ invalid' = Paths

\* The ids come from the index, the entries from the map.
InvalidatePath(p) ==
    LET gone == {e \in entries : e.id \in byPath[p]} IN
    /\ entries' = entries \ gone
    /\ older' = Without(older, {e.id : e \in gone})
    /\ byPath' = [byPath EXCEPT ![p] = {}]
    /\ bytes' = bytes - Total(gone)
    /\ invalid' = {p}

Next ==
    \/ \E id \in Ids : Get(id)
    \/ \E id \in Ids, p \in Paths, c \in Codes : Put(id, p, c)
    \/ Clear
    \/ \E p \in Paths : InvalidatePath(p)

Spec == Init /\ [][Next]_vars

----------------------------------------------------------------------------
(* Properties.                                                             *)

\* The index by path names exactly the symbols held: without it
\* invalidate_path would leave a stale symbol of a changed file behind, or
\* drop the symbols of another.
IndexExact == \A p \in Paths : byPath[p] = IdsOf(entries, p)

\* The running count is the size of what is held and respects the bound:
\* a count that drifts up empties the cache on every put, one that drifts
\* down lets it grow.
BytesExact == bytes = Total(entries) /\ bytes <= MaxBytes

Store == INSTANCE SymbolStore WITH store <- entries, invalid <- invalid

\* The cache is a store that only forgets: an invalidation takes exactly the
\* symbols of its path, however often symbols were moved between paths,
\* replaced and evicted before, and nothing else brings one back.
ImplementsStore == Store!StoreSpec
============================================================================
