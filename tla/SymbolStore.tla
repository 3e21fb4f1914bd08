---------------------------- MODULE SymbolStore ----------------------------
(***************************************************************************)
(* What the MCP handlers rely on in the symbol cache: a store that may     *)
(* forget a symbol when another is put, answers only with what was last    *)
(* put, and holds nothing of a path after the path was invalidated.        *)
(***************************************************************************)
CONSTANTS
    Ids,    \* symbol ids
    Paths,  \* canonical paths
    Codes   \* reconstructed sources

VARIABLES
    store,
    invalid     \* the paths that the last operation invalidated

storeVars == <<store, invalid>>

Entry == [id : Ids, path : Paths, code : Codes]

StoreInit == store = {} /\ invalid = {}

Others(id) == {e \in store : e.id # id}

Get == store' = store /\ invalid' = {}

Put(id, p, c) ==
    /\ store' \in SUBSET (Others(id) \cup {[id |-> id, path |-> p, code |-> c]})
    /\ invalid' = {}

\* Exactly the symbols of these paths go.
Invalidate(paths) ==
    /\ store' = {e \in store : e.path \notin paths}
    /\ invalid' = paths

StoreNext ==
    \/ Get
    \/ \E id \in Ids, p \in Paths, c \in Codes : Put(id, p, c)
    \/ \E paths \in SUBSET Paths : Invalidate(paths)

StoreSpec == StoreInit /\ [][StoreNext]_storeVars
============================================================================
