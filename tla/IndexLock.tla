----------------------------- MODULE IndexLock -----------------------------
(***************************************************************************)
(* IndexLock of capyidx/base/refresh_index.py and the way                  *)
(* CodeIndexer.refresh_codebase_index takes it: several processes share an *)
(* index file, and in each of them tasks of one event loop refresh it, the *)
(* initial index and the reindex after a branch switch.                    *)
(*                                                                         *)
(* Each statement on the table indexing_lock is an action: other processes *)
(* come in between any two, other tasks of the process only where the code *)
(* awaits.                                                                 *)
(***************************************************************************)
EXTENDS Integers, Sequences

CONSTANTS
    Callers,    \* the tasks that call refresh_codebase_index
    Processes,
    Process,    \* Process[c]: the process of c
    None,       \* no token
    StaleAfter, \* ticks without a heartbeat until a lock is stale: 10 s
    MaxLate,    \* bound: ticks between two statements of a holder
    MaxFaults   \* bound: crashes and failed statements of a behaviour

ASSUME ProcessAssumption == Process \in [Callers -> Processes]
ASSUME NoneAssumption == None \notin Callers
ASSUME TickAssumption == StaleAfter \in Nat /\ MaxLate \in Nat \ {0}
ASSUME FaultAssumption == MaxFaults \in Nat

VARIABLES
    rows,       \* indexing_lock in the order of its ids
    pc,         \* where each caller is
    token,      \* _directory_token of each process: the caller it was made for
    cancelled,  \* the callers whose token is cancelled
    late,       \* ticks since the last statement of each caller
    faults      \* crashes and failed statements so far

vars == <<rows, pc, token, cancelled, late, faults>>

Ages == 0 .. StaleAfter + 1

\* by and left are history: who inserted the row, and whether a crash or an
\* exception ended that refresh before its unlock.
Row == [by : Callers, age : Ages, left : BOOLEAN]

\* mute: the refresh runs on after its heartbeat task raised.
Steps == {"idle", "checking", "waiting", "stealing", "locking", "running",
          "mute", "unlocking"}

TypeOK ==
    /\ rows \in Seq(Row)
    /\ pc \in [Callers -> Steps]
    /\ token \in [Processes -> Callers \cup {None}]
    /\ cancelled \subseteq Callers
    /\ late \in [Callers -> 0 .. MaxLate]
    /\ faults \in 0 .. MaxFaults

Init ==
    /\ rows = <<>>
    /\ pc = [c \in Callers |-> "idle"]
    /\ token = [p \in Processes |-> None]
    /\ cancelled = {}
    /\ late = [c \in Callers |-> 0]
    /\ faults = 0

----------------------------------------------------------------------------

\* From the check of the table to the insert the code does not await: the
\* other tasks of the process stand still.
InStatements == {"checking", "stealing", "locking"}

HasLoop(c) ==
    \A d \in Callers \ {c} :
        Process[d] = Process[c] => pc[d] \notin InStatements

\* _wait_for_db_index, mutant: a stale lock is waited for like any other.
AfterCheckWaiting(table) == IF table = <<>> THEN "locking" ELSE "waiting"

\* _wait_for_db_index: what follows the first row that is_locked finds.
AfterCheck(table) ==
    IF table = <<>> THEN "locking"
    ELSE IF Head(table).age > StaleAfter THEN "stealing" ELSE "waiting"

\* Mutant: the refresh in progress is not cancelled.
CancelledBefore(c) == cancelled \ {c}

\* Mutant: cancel is called without asking whether there is a token.
CancelledUnasked(c) == (cancelled \cup {token[Process[c]]}) \ {c}

\* The token of the process is cancelled, c gets a new one.
CancelledBy(c) == (cancelled \cup {token[Process[c]]}) \ {c, None}

\* refresh_codebase_index down to the first check of the lock.
Start(c) ==
    /\ pc[c] = "idle" /\ HasLoop(c)
    /\ cancelled' = CancelledBy(c)
    /\ token' = [token EXCEPT ![Process[c]] = c]
    /\ pc' = [pc EXCEPT ![c] = "checking"]
    /\ late' = [late EXCEPT ![c] = 0]
    /\ UNCHANGED <<rows, faults>>

\* is_locked, the first time and again after each second of waiting.
Check(c) ==
    /\ pc[c] \in {"checking", "waiting"} /\ HasLoop(c)
    /\ pc' = [pc EXCEPT ![c] = AfterCheck(rows)]
    /\ late' = [late EXCEPT ![c] = 0]
    /\ UNCHANGED <<rows, token, cancelled, faults>>

\* Mutant: the row that is_locked finds goes.
UnlockedFirst(table) == IF table = <<>> THEN <<>> ELSE Tail(table)

\* unlock: every row goes, whoever inserted it.
Unlocked(table) == <<>>

\* A stale lock is released.
Steal(c) ==
    /\ pc[c] = "stealing"
    /\ rows' = Unlocked(rows)
    /\ pc' = [pc EXCEPT ![c] = "locking"]
    /\ UNCHANGED <<token, cancelled, late, faults>>

\* lock, and the heartbeat task is created.
Lock(c) ==
    /\ pc[c] = "locking"
    /\ rows' = Append(rows, [by |-> c, age |-> 0, left |-> FALSE])
    /\ pc' = [pc EXCEPT ![c] = "running"]
    /\ late' = [late EXCEPT ![c] = 0]
    /\ UNCHANGED <<token, cancelled, faults>>

\* Mutant: the heartbeat of c refreshes the rows of c.
RefreshedOwn(table, c) ==
    [i \in DOMAIN table |->
        IF table[i].by = c THEN [table[i] EXCEPT !.age = 0] ELSE table[i]]

\* update_timestamp: every row, whoever inserted it.
Refreshed(table, c) == [i \in DOMAIN table |-> [table[i] EXCEPT !.age = 0]]

\* _lock_heartbeat
Heartbeat(c) ==
    /\ pc[c] = "running" /\ HasLoop(c)
    /\ rows' = Refreshed(rows, c)
    /\ late' = [late EXCEPT ![c] = 0]
    /\ UNCHANGED <<pc, token, cancelled, faults>>

\* update_timestamp raises: the heartbeat task ends, the refresh does not.
HeartbeatFails(c) ==
    /\ pc[c] = "running" /\ HasLoop(c)
    /\ faults < MaxFaults
    /\ faults' = faults + 1
    /\ pc' = [pc EXCEPT ![c] = "mute"]
    /\ UNCHANGED <<rows, token, cancelled, late>>

\* refresh_dirs ends, done, failed or cancelled, and the heartbeat with it.
Finish(c) ==
    /\ pc[c] = "running" /\ HasLoop(c)
    /\ pc' = [pc EXCEPT ![c] = "unlocking"]
    /\ UNCHANGED <<rows, token, cancelled, late, faults>>

\* The rows that the callers of leave behind.
LeftBy(table, of) ==
    [i \in DOMAIN table |->
        [table[i] EXCEPT !.left = @ \/ table[i].by \in of]]

\* The exception of a dead heartbeat comes out of its await, before unlock.
FinishMute(c) ==
    /\ pc[c] = "mute" /\ HasLoop(c)
    /\ rows' = LeftBy(rows, {c})
    /\ pc' = [pc EXCEPT ![c] = "idle"]
    /\ UNCHANGED <<token, cancelled, late, faults>>

\* unlock, and the token is dropped unless a later call replaced it.
Unlock(c) ==
    /\ pc[c] = "unlocking" /\ HasLoop(c)
    /\ rows' = Unlocked(rows)
    /\ pc' = [pc EXCEPT ![c] = "idle"]
    /\ token' = [token EXCEPT ![Process[c]] = IF @ = c THEN None ELSE @]
    /\ UNCHANGED <<cancelled, late, faults>>

\* is_locked, lock or unlock raises: the exception leaves the refresh, and
\* the token and the row, if it has one, stay.
StatementFails(c) ==
    /\ pc[c] \in InStatements \cup {"waiting", "unlocking"} /\ HasLoop(c)
    /\ faults < MaxFaults
    /\ faults' = faults + 1
    /\ rows' = LeftBy(rows, {c})
    /\ pc' = [pc EXCEPT ![c] = "idle"]
    /\ UNCHANGED <<token, cancelled, late>>

\* A process dies and starts again: its rows stay.
Crash(p) ==
    LET of == {c \in Callers : Process[c] = p} IN
    /\ faults < MaxFaults
    /\ faults' = faults + 1
    /\ \E c \in of : pc[c] # "idle"
    /\ rows' = LeftBy(rows, of)
    /\ pc' = [c \in Callers |-> IF c \in of THEN "idle" ELSE pc[c]]
    /\ token' = [token EXCEPT ![p] = None]
    /\ cancelled' = cancelled \ of
    /\ UNCHANGED late

\* Time passes; a holder is not late by more than MaxLate.
Tick ==
    /\ \A c \in Callers :
          pc[c] \in InStatements \cup {"running"} => late[c] < MaxLate
    /\ rows' = [i \in DOMAIN rows |->
                   [rows[i] EXCEPT !.age = IF @ > StaleAfter THEN @ ELSE @ + 1]]
    /\ late' = [c \in Callers |->
                   IF pc[c] \in InStatements \cup {"running"}
                   THEN late[c] + 1 ELSE late[c]]
    /\ UNCHANGED <<pc, token, cancelled, faults>>

Next ==
    \/ \E c \in Callers :
          \/ Start(c) \/ Check(c) \/ Steal(c) \/ Lock(c)
          \/ Heartbeat(c) \/ HeartbeatFails(c)
          \/ Finish(c) \/ FinishMute(c) \/ Unlock(c) \/ StatementFails(c)
    \/ \E p \in Processes : Crash(p)
    \/ Tick

Spec == Init /\ [][Next]_vars

----------------------------------------------------------------------------
(* Properties.                                                             *)

\* At most one refresh of the index file runs: the promise of
\* _wait_for_db_index, "Block while another process holds IndexLock".
MutualExclusion ==
    \A c, d \in Callers :
        pc[c] \in {"running", "mute"} /\ pc[d] \in {"running", "mute"} => c = d

\* Within a process at most one caller has a token that is not cancelled,
\* though other processes may have deleted the row that made the second one
\* wait: of two refreshes on one connection the older one is being stopped.
LatestWins ==
    \A c, d \in Callers \ cancelled :
        /\ pc[c] # "idle" /\ pc[d] # "idle"
        /\ Process[c] = Process[d]
        => c = d

\* A row outlives the refresh that inserted it only by a crash or by an
\* exception of the heartbeat or of unlock: whatever rows the table has, a
\* refresh that ends otherwise leaves none for the others to wait for.
RowsOwned ==
    \A i \in DOMAIN rows :
        ~rows[i].left => pc[rows[i].by] \in {"running", "mute", "unlocking"}

\* With punctual holders a lock is stale only when no refresh runs but those
\* whose heartbeat raised, so none of the others is robbed of it.  The first
\* row decides and each heartbeat refreshes all of them, as it must when a
\* crashed process left a row before that of a running one.
StaleMeansNobody ==
    rows # <<>> /\ Head(rows).age > StaleAfter =>
        \A c \in Callers : pc[c] # "running"

\* The scheduling of the event loops: a refresh is finite, sleeps end, time
\* passes.
Fairness ==
    /\ \A c \in Callers :
          /\ WF_vars(Check(c)) /\ WF_vars(Steal(c)) /\ WF_vars(Lock(c))
          /\ WF_vars(Heartbeat(c)) /\ WF_vars(Finish(c))
          /\ WF_vars(FinishMute(c)) /\ WF_vars(Unlock(c))
    /\ WF_vars(Tick)

FairSpec == Spec /\ Fairness

\* Callers never all wait for a lock that nobody holds, whatever crashes and
\* exceptions left in the table.
NoLockOut ==
    \A c \in Callers :
        pc[c] = "waiting" ~>
            \/ pc[c] # "waiting"
            \/ \E d \in Callers : pc[d] = "running"
============================================================================
