-------------------------- MODULE IndexLockProofs --------------------------
(***************************************************************************)
(* The types, the ownership of tokens and rows, and the safety of stealing *)
(* a stale lock, for any processes, callers and bounds.                    *)
(***************************************************************************)
EXTENDS IndexLock, SequenceTheorems, TLAPS

USE ProcessAssumption, NoneAssumption, TickAssumption, FaultAssumption

----------------------------------------------------------------------------
(* Tables.                                                                 *)

\* The rows of a table are rows.
LEMMA RowTypes ==
    ASSUME NEW table \in Seq(Row)
    PROVE  /\ \A i \in DOMAIN table :
                 /\ table[i] \in Row
                 /\ table[i].by \in Callers
                 /\ table[i].age \in Ages /\ table[i].age \in Nat
                 /\ table[i].left \in BOOLEAN
           /\ table # <<>> => 1 \in DOMAIN table /\ Head(table) = table[1]
<1>1. \A i \in DOMAIN table : table[i] \in Row
  OBVIOUS
<1>2. \A row \in Row :
         /\ row.by \in Callers /\ row.left \in BOOLEAN
         /\ row.age \in Ages /\ row.age \in Nat
  BY DEF Row, Ages
<1>3. table # <<>> => 1 \in DOMAIN table /\ Head(table) = table[1]
  OBVIOUS
<1> QED BY <1>1, <1>2, <1>3

\* Rewriting each row of a table gives a table of the same length.
LEMMA RewrittenRows ==
    ASSUME NEW table \in Seq(Row), NEW other,
           other = [i \in DOMAIN table |-> other[i]],
           \A i \in DOMAIN table : other[i] \in Row
    PROVE  /\ other \in Seq(Row)
           /\ Len(other) = Len(table)
           /\ DOMAIN other = DOMAIN table
<1>1. DOMAIN table = 1 .. Len(table) /\ Len(table) \in Nat
  OBVIOUS
<1>2. other \in [1 .. Len(table) -> Row]
  BY <1>1
<1> QED BY <1>1, <1>2

LEMMA RefreshedRows ==
    ASSUME NEW table \in Seq(Row), NEW c
    PROVE  /\ Refreshed(table, c) \in Seq(Row)
           /\ DOMAIN Refreshed(table, c) = DOMAIN table
           /\ \A i \in DOMAIN table :
                 /\ Refreshed(table, c)[i].by = table[i].by
                 /\ Refreshed(table, c)[i].left = table[i].left
                 /\ Refreshed(table, c)[i].age = 0
<1> DEFINE other == Refreshed(table, c)
<1>1. 0 \in Ages /\ \A i \in DOMAIN table : table[i] \in Row
  BY DEF Ages
<1>2. /\ other = [i \in DOMAIN table |-> other[i]]
      /\ \A i \in DOMAIN table : other[i] = [table[i] EXCEPT !.age = 0]
  BY DEF Refreshed
<1> HIDE DEF other
<1>3. \A i \in DOMAIN table :
         /\ other[i] \in Row
         /\ other[i].by = table[i].by
         /\ other[i].left = table[i].left
         /\ other[i].age = 0
  <2> SUFFICES ASSUME NEW i \in DOMAIN table
               PROVE  /\ other[i] \in Row
                      /\ other[i].by = table[i].by
                      /\ other[i].left = table[i].left
                      /\ other[i].age = 0
    OBVIOUS
  <2> QED BY <1>1, <1>2 DEF Row
<1>4. other \in Seq(Row) /\ DOMAIN other = DOMAIN table
  BY <1>2, <1>3, RewrittenRows
<1> QED BY <1>3, <1>4 DEF other

LEMMA AgedRows ==
    ASSUME TypeOK, Tick
    PROVE  /\ rows' \in Seq(Row)
           /\ DOMAIN rows' = DOMAIN rows
           /\ \A i \in DOMAIN rows :
                 /\ rows'[i].by = rows[i].by
                 /\ rows'[i].left = rows[i].left
                 /\ rows'[i].age <= rows[i].age + 1
<1> DEFINE Older(age) == IF age > StaleAfter THEN age ELSE age + 1
<1>1. \A i \in DOMAIN rows : rows[i] \in Row /\ rows[i].age \in Ages
  BY RowTypes DEF TypeOK
<1>2. \A age \in Ages : Older(age) \in Ages /\ Older(age) <= age + 1
  BY DEF Ages
<1>3. /\ rows' = [i \in DOMAIN rows |-> rows'[i]]
      /\ \A i \in DOMAIN rows :
            rows'[i] = [rows[i] EXCEPT !.age = Older(rows[i].age)]
  BY DEF Tick
<1> HIDE DEF Older
<1>4. \A i \in DOMAIN rows :
         /\ rows'[i] \in Row
         /\ rows'[i].by = rows[i].by
         /\ rows'[i].left = rows[i].left
         /\ rows'[i].age <= rows[i].age + 1
  <2> SUFFICES ASSUME NEW i \in DOMAIN rows
               PROVE  /\ rows'[i] \in Row
                      /\ rows'[i].by = rows[i].by
                      /\ rows'[i].left = rows[i].left
                      /\ rows'[i].age <= rows[i].age + 1
    OBVIOUS
  <2>1. /\ rows'[i] = [rows[i] EXCEPT !.age = Older(rows[i].age)]
        /\ rows[i] \in Row
        /\ Older(rows[i].age) \in Ages
        /\ Older(rows[i].age) <= rows[i].age + 1
    BY <1>1, <1>2, <1>3
  <2>2. rows'[i].age = Older(rows[i].age)
    BY <2>1 DEF Row
  <2> QED BY <2>1, <2>2 DEF Row
<1> QED BY <1>3, <1>4, RewrittenRows DEF TypeOK

LEMMA LeftRows ==
    ASSUME NEW table \in Seq(Row), NEW of
    PROVE  /\ LeftBy(table, of) \in Seq(Row)
           /\ DOMAIN LeftBy(table, of) = DOMAIN table
           /\ \A i \in DOMAIN table :
                 /\ LeftBy(table, of)[i].by = table[i].by
                 /\ LeftBy(table, of)[i].age = table[i].age
                 /\ ~LeftBy(table, of)[i].left =>
                       ~table[i].left /\ table[i].by \notin of
<1> DEFINE other == LeftBy(table, of)
           Gone(row) == row.left \/ row.by \in of
<1>1. \A i \in DOMAIN table : table[i] \in Row
  BY RowTypes
<1>2. \A row \in Row : Gone(row) \in BOOLEAN
  BY DEF Row
<1>3. /\ other = [i \in DOMAIN table |-> other[i]]
      /\ \A i \in DOMAIN table :
            other[i] = [table[i] EXCEPT !.left = Gone(table[i])]
  BY DEF LeftBy
<1>4. \A row \in Row : ~Gone(row) => ~row.left /\ row.by \notin of
  OBVIOUS
<1> HIDE DEF other, Gone
<1>5. \A i \in DOMAIN table :
         /\ other[i] \in Row
         /\ other[i].by = table[i].by
         /\ other[i].age = table[i].age
         /\ ~other[i].left => ~table[i].left /\ table[i].by \notin of
  <2> SUFFICES ASSUME NEW i \in DOMAIN table
               PROVE  /\ other[i] \in Row
                      /\ other[i].by = table[i].by
                      /\ other[i].age = table[i].age
                      /\ ~other[i].left =>
                            ~table[i].left /\ table[i].by \notin of
    OBVIOUS
  <2>1. /\ other[i] = [table[i] EXCEPT !.left = Gone(table[i])]
        /\ table[i] \in Row
        /\ Gone(table[i]) \in BOOLEAN
    BY <1>1, <1>2, <1>3
  <2>2. other[i].left = Gone(table[i])
    BY <2>1 DEF Row
  <2> QED BY <1>4, <2>1, <2>2 DEF Row
<1>6. other \in Seq(Row) /\ DOMAIN other = DOMAIN table
  BY <1>3, <1>5, RewrittenRows
<1> QED BY <1>5, <1>6 DEF other

LEMMA AppendedRow ==
    ASSUME NEW table \in Seq(Row), NEW c \in Callers
    PROVE  LET row == [by |-> c, age |-> 0, left |-> FALSE]
               longer == Append(table, row)
           IN  /\ longer \in Seq(Row)
               /\ DOMAIN longer = DOMAIN table \cup {Len(table) + 1}
               /\ longer[Len(table) + 1] = row
               /\ \A i \in DOMAIN table : longer[i] = table[i]
<1>1. [by |-> c, age |-> 0, left |-> FALSE] \in Row
  BY DEF Row, Ages
<1> QED BY <1>1

----------------------------------------------------------------------------
(* Types.                                                                  *)

LEMMA InitType == Init => TypeOK
BY DEF Init, TypeOK, Steps

LEMMA AfterCheckType ==
    ASSUME NEW table
    PROVE  AfterCheck(table) \in {"waiting", "stealing", "locking"}
BY DEF AfterCheck

LEMMA TypeStep == TypeOK /\ [Next]_vars => TypeOK'
<1> SUFFICES ASSUME TypeOK, [Next]_vars PROVE TypeOK'
  OBVIOUS
<1> USE DEF TypeOK, Steps
<1>1. ASSUME NEW c \in Callers, Start(c) PROVE TypeOK'
  BY <1>1 DEF Start, CancelledBy
<1>2. ASSUME NEW c \in Callers, Check(c) PROVE TypeOK'
  BY <1>2, AfterCheckType DEF Check
<1>3. ASSUME NEW c \in Callers, Steal(c) PROVE TypeOK'
  BY <1>3 DEF Steal, Unlocked
<1>4. ASSUME NEW c \in Callers, Lock(c) PROVE TypeOK'
  BY <1>4, AppendedRow DEF Lock
<1>5. ASSUME NEW c \in Callers, Heartbeat(c) PROVE TypeOK'
  BY <1>5, RefreshedRows DEF Heartbeat
<1>6. ASSUME NEW c \in Callers, HeartbeatFails(c) PROVE TypeOK'
  BY <1>6 DEF HeartbeatFails
<1>7. ASSUME NEW c \in Callers, Finish(c) PROVE TypeOK'
  BY <1>7 DEF Finish
<1>8. ASSUME NEW c \in Callers, FinishMute(c) PROVE TypeOK'
  <2>1. rows' \in Seq(Row)
    BY <1>8, LeftRows DEF FinishMute
  <2> QED BY <1>8, <2>1 DEF FinishMute
<1>9. ASSUME NEW c \in Callers, Unlock(c) PROVE TypeOK'
  BY <1>9 DEF Unlock, Unlocked
<1>10. ASSUME NEW c \in Callers, StatementFails(c) PROVE TypeOK'
  <2>1. rows' \in Seq(Row)
    BY <1>10, LeftRows DEF StatementFails
  <2> QED BY <1>10, <2>1 DEF StatementFails
<1>11. ASSUME NEW p \in Processes, Crash(p) PROVE TypeOK'
  <2>1. rows' \in Seq(Row)
    BY <1>11, LeftRows DEF Crash
  <2> QED BY <1>11, <2>1 DEF Crash
<1>12. ASSUME Tick PROVE TypeOK'
  BY <1>12, AgedRows DEF Tick
<1>13. CASE UNCHANGED vars
  BY <1>13 DEF vars
<1> QED BY <1>1, <1>2, <1>3, <1>4, <1>5, <1>6, <1>7, <1>8, <1>9, <1>10,
           <1>11, <1>12, <1>13 DEF Next

\* Rows, tokens, positions and counters keep their types.
THEOREM LockTypeCorrect == Spec => []TypeOK
<1> QED BY InitType, TypeStep, PTL DEF Spec

----------------------------------------------------------------------------
(* Tokens.                                                                 *)

\* Whoever runs with a live token is the one that the process knows.
TokenInv ==
    \A c \in Callers \ cancelled : pc[c] # "idle" => token[Process[c]] = c

LEMMA TokenStep == TypeOK /\ TokenInv /\ [Next]_vars => TokenInv'
<1> SUFFICES ASSUME TypeOK, TokenInv, [Next]_vars PROVE TokenInv'
  OBVIOUS
<1> USE DEF TypeOK, TokenInv
<1>1. ASSUME NEW c \in Callers, Start(c) PROVE TokenInv'
  BY <1>1 DEF Start, CancelledBy
<1>2. ASSUME NEW c \in Callers, Check(c) PROVE TokenInv'
  BY <1>2 DEF Check
<1>3. ASSUME NEW c \in Callers, Steal(c) PROVE TokenInv'
  BY <1>3 DEF Steal
<1>4. ASSUME NEW c \in Callers, Lock(c) PROVE TokenInv'
  BY <1>4 DEF Lock
<1>5. ASSUME NEW c \in Callers, Heartbeat(c) PROVE TokenInv'
  BY <1>5 DEF Heartbeat
<1>6. ASSUME NEW c \in Callers, HeartbeatFails(c) PROVE TokenInv'
  BY <1>6 DEF HeartbeatFails
<1>7. ASSUME NEW c \in Callers, Finish(c) PROVE TokenInv'
  BY <1>7 DEF Finish
<1>8. ASSUME NEW c \in Callers, FinishMute(c) PROVE TokenInv'
  BY <1>8 DEF FinishMute
<1>9. ASSUME NEW c \in Callers, Unlock(c) PROVE TokenInv'
  BY <1>9 DEF Unlock
<1>10. ASSUME NEW c \in Callers, StatementFails(c) PROVE TokenInv'
  BY <1>10 DEF StatementFails
<1>11. ASSUME NEW p \in Processes, Crash(p) PROVE TokenInv'
  BY <1>11 DEF Crash
<1>12. ASSUME Tick PROVE TokenInv'
  BY <1>12 DEF Tick
<1>13. CASE UNCHANGED vars
  BY <1>13 DEF vars
<1> QED BY <1>1, <1>2, <1>3, <1>4, <1>5, <1>6, <1>7, <1>8, <1>9, <1>10,
           <1>11, <1>12, <1>13 DEF Next

\* Of the refreshes of one process at most one is not being stopped.
THEOREM LatestAlwaysWins == Spec => []LatestWins
<1>1. Init => TokenInv
  BY DEF Init, TokenInv
<1>2. TokenInv => LatestWins
  BY DEF TokenInv, LatestWins
<1> QED BY <1>1, <1>2, LockTypeCorrect, TokenStep, PTL DEF Spec

----------------------------------------------------------------------------
(* Rows.                                                                   *)

LEMMA RowsStep == TypeOK /\ RowsOwned /\ [Next]_vars => RowsOwned'
<1> SUFFICES ASSUME TypeOK, RowsOwned, [Next]_vars PROVE RowsOwned'
  OBVIOUS
<1> USE DEF TypeOK, RowsOwned
<1>0. \A i \in DOMAIN rows : rows[i].by \in Callers
  BY RowTypes
<1>1. ASSUME NEW c \in Callers, Start(c) PROVE RowsOwned'
  BY <1>0, <1>1 DEF Start
<1>2. ASSUME NEW c \in Callers, Check(c) PROVE RowsOwned'
  BY <1>0, <1>2 DEF Check
<1>3. ASSUME NEW c \in Callers, Steal(c) PROVE RowsOwned'
  BY <1>3 DEF Steal, Unlocked
<1>4. ASSUME NEW c \in Callers, Lock(c) PROVE RowsOwned'
  BY <1>0, <1>4, AppendedRow DEF Lock
<1>5. ASSUME NEW c \in Callers, Heartbeat(c) PROVE RowsOwned'
  <2>1. /\ DOMAIN rows' = DOMAIN rows
        /\ \A i \in DOMAIN rows :
              rows'[i].by = rows[i].by /\ rows'[i].left = rows[i].left
    BY <1>5, RefreshedRows DEF Heartbeat
  <2>2. pc' = pc
    BY <1>5 DEF Heartbeat
  <2> QED BY <2>1, <2>2
<1>6. ASSUME NEW c \in Callers, HeartbeatFails(c) PROVE RowsOwned'
  BY <1>0, <1>6 DEF HeartbeatFails
<1>7. ASSUME NEW c \in Callers, Finish(c) PROVE RowsOwned'
  BY <1>0, <1>7 DEF Finish
<1>8. ASSUME NEW c \in Callers, FinishMute(c) PROVE RowsOwned'
  <2> SUFFICES ASSUME NEW i \in DOMAIN rows', ~rows'[i].left
               PROVE  pc'[rows'[i].by] \in {"running", "mute", "unlocking"}
    BY DEF RowsOwned
  <2>1. rows' = LeftBy(rows, {c})
    BY <1>8 DEF FinishMute
  <2>2. /\ i \in DOMAIN rows /\ rows'[i].by = rows[i].by
        /\ ~rows[i].left /\ rows[i].by \notin {c}
    BY <2>1, LeftRows
  <2>3. pc'[rows[i].by] = pc[rows[i].by]
    BY <1>0, <1>8, <2>2 DEF FinishMute
  <2> QED BY <2>2, <2>3
<1>9. ASSUME NEW c \in Callers, Unlock(c) PROVE RowsOwned'
  BY <1>9 DEF Unlock, Unlocked
<1>10. ASSUME NEW c \in Callers, StatementFails(c) PROVE RowsOwned'
  <2> SUFFICES ASSUME NEW i \in DOMAIN rows', ~rows'[i].left
               PROVE  pc'[rows'[i].by] \in {"running", "mute", "unlocking"}
    BY DEF RowsOwned
  <2>1. rows' = LeftBy(rows, {c})
    BY <1>10 DEF StatementFails
  <2>2. /\ i \in DOMAIN rows /\ rows'[i].by = rows[i].by
        /\ ~rows[i].left /\ rows[i].by \notin {c}
    BY <2>1, LeftRows
  <2>3. pc'[rows[i].by] = pc[rows[i].by]
    BY <1>0, <1>10, <2>2 DEF StatementFails
  <2> QED BY <2>2, <2>3
<1>11. ASSUME NEW p \in Processes, Crash(p) PROVE RowsOwned'
  <2> SUFFICES ASSUME NEW i \in DOMAIN rows', ~rows'[i].left
               PROVE  pc'[rows'[i].by] \in {"running", "mute", "unlocking"}
    BY DEF RowsOwned
  <2>1. rows' = LeftBy(rows, {c \in Callers : Process[c] = p})
    BY <1>11 DEF Crash
  <2>2. /\ i \in DOMAIN rows /\ rows'[i].by = rows[i].by
        /\ ~rows[i].left /\ rows[i].by \notin {c \in Callers : Process[c] = p}
    BY <2>1, LeftRows
  <2>3. pc'[rows[i].by] = pc[rows[i].by]
    BY <1>0, <1>11, <2>2 DEF Crash
  <2> QED BY <2>2, <2>3
<1>12. ASSUME Tick PROVE RowsOwned'
  <2>1. /\ DOMAIN rows' = DOMAIN rows
        /\ \A i \in DOMAIN rows :
              rows'[i].by = rows[i].by /\ rows'[i].left = rows[i].left
    BY <1>12, AgedRows
  <2>2. pc' = pc
    BY <1>12 DEF Tick
  <2> QED BY <2>1, <2>2
<1>13. CASE UNCHANGED vars
  BY <1>13 DEF vars
<1> QED BY <1>1, <1>2, <1>3, <1>4, <1>5, <1>6, <1>7, <1>8, <1>9, <1>10,
           <1>11, <1>12, <1>13 DEF Next

\* Only a crash, or an exception of the heartbeat or of unlock, leaves a row
\* without its refresh.
THEOREM RowsAlwaysOwned == Spec => []RowsOwned
<1>1. Init => RowsOwned
  BY DEF Init, RowsOwned
<1> QED BY <1>1, LockTypeCorrect, RowsStep, PTL DEF Spec

----------------------------------------------------------------------------
(* Stealing.                                                               *)

\* The age of every row is bounded by the delays of each holder: a row that
\* a caller about to insert can meet is younger than its check, and what a
\* running one can meet is younger than that and its last heartbeat.
AgeInv ==
    \A c \in Callers, i \in DOMAIN rows :
        /\ pc[c] = "locking" => rows[i].age <= late[c]
        /\ pc[c] = "running" => rows[i].age <= late[c] + MaxLate

LEMMA AgeStep == TypeOK /\ AgeInv /\ [Next]_vars => AgeInv'
<1> SUFFICES ASSUME TypeOK, AgeInv, [Next]_vars PROVE AgeInv'
  OBVIOUS
<1> USE DEF TypeOK, AgeInv
<1>0. \A i \in DOMAIN rows : rows[i].by \in Callers /\ rows[i].age \in Nat
  BY RowTypes
<1>a. ASSUME NEW table, AfterCheck(table) = "locking" PROVE table = <<>>
  BY <1>a DEF AfterCheck
<1>1. ASSUME NEW c \in Callers, Start(c) PROVE AgeInv'
  BY <1>0, <1>1 DEF Start
<1>2. ASSUME NEW c \in Callers, Check(c) PROVE AgeInv'
  BY <1>0, <1>2, <1>a, AfterCheckType DEF Check
<1>3. ASSUME NEW c \in Callers, Steal(c) PROVE AgeInv'
  BY <1>3 DEF Steal, Unlocked
<1>4. ASSUME NEW c \in Callers, Lock(c) PROVE AgeInv'
  BY <1>0, <1>4, AppendedRow DEF Lock
<1>5. ASSUME NEW c \in Callers, Heartbeat(c) PROVE AgeInv'
  <2>1. /\ DOMAIN rows' = DOMAIN rows
        /\ \A i \in DOMAIN rows : rows'[i].age = 0
    BY <1>5, RefreshedRows DEF Heartbeat
  <2>2. pc' = pc /\ late' \in [Callers -> 0 .. MaxLate]
    BY <1>5 DEF Heartbeat
  <2> QED BY <2>1, <2>2
<1>6. ASSUME NEW c \in Callers, HeartbeatFails(c) PROVE AgeInv'
  BY <1>6 DEF HeartbeatFails
<1>7. ASSUME NEW c \in Callers, Finish(c) PROVE AgeInv'
  BY <1>7 DEF Finish
<1>8. ASSUME NEW c \in Callers, FinishMute(c) PROVE AgeInv'
  <2>1. /\ DOMAIN rows' = DOMAIN rows
        /\ \A i \in DOMAIN rows : rows'[i].age = rows[i].age
    BY <1>8, LeftRows DEF FinishMute
  <2> QED BY <1>8, <2>1 DEF FinishMute
<1>9. ASSUME NEW c \in Callers, Unlock(c) PROVE AgeInv'
  BY <1>9 DEF Unlock, Unlocked
<1>10. ASSUME NEW c \in Callers, StatementFails(c) PROVE AgeInv'
  <2>1. /\ DOMAIN rows' = DOMAIN rows
        /\ \A i \in DOMAIN rows : rows'[i].age = rows[i].age
    BY <1>10, LeftRows DEF StatementFails
  <2> QED BY <1>10, <2>1 DEF StatementFails
<1>11. ASSUME NEW p \in Processes, Crash(p) PROVE AgeInv'
  <2>1. /\ DOMAIN rows' = DOMAIN rows
        /\ \A i \in DOMAIN rows : rows'[i].age = rows[i].age
    BY <1>11, LeftRows DEF Crash
  <2> QED BY <1>11, <2>1 DEF Crash
<1>12. ASSUME Tick PROVE AgeInv'
  <2> SUFFICES ASSUME NEW c \in Callers, NEW i \in DOMAIN rows',
                      pc'[c] \in {"locking", "running"}
               PROVE  /\ pc'[c] = "locking" => rows'[i].age <= late'[c]
                      /\ pc'[c] = "running" =>
                            rows'[i].age <= late'[c] + MaxLate
    BY DEF AgeInv
  <2>1. /\ i \in DOMAIN rows /\ rows'[i].age <= rows[i].age + 1
        /\ rows'[i].age \in Nat /\ rows[i].age \in Nat
    BY <1>0, <1>12, AgedRows, RowTypes
  <2>2. pc'[c] = pc[c] /\ late'[c] = late[c] + 1 /\ late[c] \in Nat
    BY <1>12 DEF Tick, InStatements
  <2> QED BY <2>1, <2>2
<1>13. CASE UNCHANGED vars
  BY <1>13 DEF vars
<1> QED BY <1>1, <1>2, <1>3, <1>4, <1>5, <1>6, <1>7, <1>8, <1>9, <1>10,
           <1>11, <1>12, <1>13 DEF Next

\* If two delays of a holder fit into the time after which a lock is stale,
\* no refresh whose heartbeat lives is robbed of it.
THEOREM StaleAlwaysMeansNobody ==
    ASSUME MaxLate + MaxLate <= StaleAfter
    PROVE  Spec => []StaleMeansNobody
<1>1. Init => AgeInv
  BY DEF Init, AgeInv
<1>2. TypeOK /\ AgeInv => StaleMeansNobody
  <2> SUFFICES ASSUME TypeOK, AgeInv, rows # <<>>,
                      NEW c \in Callers, pc[c] = "running"
               PROVE  ~(Head(rows).age > StaleAfter)
    BY DEF StaleMeansNobody
  <2>1. 1 \in DOMAIN rows /\ Head(rows) = rows[1] /\ rows[1].age \in Nat
    BY RowTypes DEF TypeOK
  <2>2. rows[1].age <= late[c] + MaxLate /\ late[c] \in 0 .. MaxLate
    BY <2>1 DEF AgeInv, TypeOK
  <2> QED BY <2>1, <2>2
<1> QED BY <1>1, <1>2, LockTypeCorrect, AgeStep, PTL DEF Spec
============================================================================
