---------------------------- MODULE JobProofs -----------------------------
(***************************************************************************)
(* What the jobs service promises, for every value of the constants: the   *)
(* queue (JobQueue), the way of a command into it (JobIngress) and the     *)
(* lane its lyrics lookups run in (LookupLane).                            *)
(*                                                                         *)
(* The queue.  HolderRunsNewest alone is not inductive: it needs that a    *)
(* lease whose generation matches was given out for the payload the row    *)
(* still has (RunSound).  FreeRowClaimable needs that fail() retries only  *)
(* what is not spent by the count in memory, and that the stored count is  *)
(* that count or was reset to zero under the lease (RunSound); and that a  *)
(* superseded lease is held on a row whose count the newer command reset   *)
(* (RowSound), so giving it up leaves attempts.  With those three facts    *)
(* every action keeps Inv, and the properties and the refinement follow    *)
(* from Inv.                                                               *)
(*                                                                         *)
(* The ingress.  A delivery is handed out before its command is MaxAge old *)
(* and is in a task for at most Hold (TasksSound); a receipt is not older  *)
(* than its command and is cleaned up only ReceiptAge after it was written *)
(* (ReceiptsSound).  So the task that finds no receipt is the first to     *)
(* find none.                                                              *)
(*                                                                         *)
(* The lane.  Only targeted_slots and sweep_slot add to the counters,      *)
(* under the lock, and never beyond the cap they read, which is at most    *)
(* the base; everything else drops a slot that exists and takes one off    *)
(* the counter.  So the counters are the slots that exist, which needs to  *)
(* know where the worker's vector is empty (LanePhases).                   *)
(***************************************************************************)
EXTENDS MCJobs, TLAPS

(* A stored row: attempts stay within max_attempts, are charged only for   *)
(* payloads that were handed out, are not used up unless someone holds the *)
(* lease, and are zero while the lease belongs to an older generation.     *)
RowSound(r) ==
    /\ r.max > 0
    /\ r.attempts <= r.max
    /\ r.attempts > 0 => r.payload \in begun
    /\ r.lease = NoLease => r.attempts < r.max
    /\ r.lease # NoLease =>
         /\ r.leaseGen <= r.gen
         /\ r.leaseGen # r.gen => r.attempts = 0

(* An execution: retry and burial agree with the count it read at its      *)
(* claim, and while its lease and generation match, the row has the        *)
(* payload and the limit it read, and either its count or a reset one.     *)
RunSound(s) ==
    LET j == run[s]
        r == row[j.key]
    IN  /\ j.payload \in begun
        /\ j.step = "retry" => ~SpentInMemory(j)
        /\ j.step = "bury" => SpentInMemory(j)
        /\ Current(s) => /\ j.payload = r.payload
                         /\ j.max = r.max
                         /\ r.attempts = j.attempts \/ r.attempts = 0

(* The inductive invariant.                                                *)
Inv ==
    /\ TypeOK
    /\ \A k \in Keys : row[k] # NoRow =>
         KeyOf[row[k].payload] = k /\ RowSound(row[k])
    /\ \A s \in Slots : run[s] # NoRun => RunSound(s)

(* The row enqueue.sql inserts has the columns' types.                     *)
LEMMA NewRowType ==
    ASSUME NEW c \in Commands, NEW due \in BOOLEAN
    PROVE  NewRow(c, due) \in Rows
  BY ConstantsOK DEF NewRow, Rows

(* The row enqueue.sql's ON CONFLICT branch leaves has the columns' types. *)
LEMMA OverwrittenType ==
    ASSUME NEW r \in Rows, NEW c \in Commands, NEW due \in BOOLEAN
    PROVE  Overwritten(r, c, due) \in Rows
  BY ConstantsOK DEF Overwritten, Rows

(* The rows that release, retry, postpone and release_expired leave have   *)
(* the columns' types.                                                     *)
LEMMA FreedType ==
    ASSUME NEW r \in Rows
    PROVE  /\ Unleased(r, r.attempts, r.due) \in Rows
           /\ Unleased(r, r.attempts, TRUE) \in Rows
           /\ Unleased(r, r.attempts, FALSE) \in Rows
           /\ Unleased(r, GivenBack(r.attempts), FALSE) \in Rows
<1>1. r.attempts \in Nat /\ r.due \in BOOLEAN
  BY DEF Rows
<1>2. GivenBack(r.attempts) \in Nat
  BY <1>1 DEF GivenBack
<1>3. \A n \in Nat, due \in BOOLEAN : Unleased(r, n, due) \in Rows
  BY DEF Unleased, Rows
<1> QED
  BY <1>1, <1>2, <1>3

(* A claimed row, and the copy the claim returns, have their types.        *)
LEMMA LeasedType ==
    ASSUME NEW r \in Rows, NEW s \in Slots, NEW k \in Keys
    PROVE  Leased(r, s) \in Rows /\ LeasedJob(r, k) \in Runs
  BY DEF Leased, LeasedJob, Rows, Runs, Steps

(* Setting one column of a row (heartbeat, page commit, clock) keeps its   *)
(* type.                                                                   *)
LEMMA ColumnTypes ==
    ASSUME NEW r \in Rows
    PROVE  /\ r.payload \in Commands
           /\ r.attempts \in Nat
           /\ r.due \in BOOLEAN
           /\ [r EXCEPT !.attempts = 0] \in Rows
           /\ [r EXCEPT !.due = TRUE] \in Rows
           /\ \A e \in BOOLEAN : [r EXCEPT !.expired = e] \in Rows
  BY DEF Rows

(* Moving an execution on keeps its type.                                  *)
LEMMA RunUpdateTypes ==
    ASSUME NEW j \in Runs
    PROVE  /\ \A step \in Steps : [j EXCEPT !.step = step] \in Runs
           /\ [j EXCEPT !.paged = TRUE] \in Runs
           /\ \A b \in BOOLEAN :
                [j EXCEPT !.step = "fail", !.retryable = b] \in Runs
  BY DEF Runs, Steps

(* Writing a freed row back keeps the type of the table.                   *)
LEMMA FreedRow ==
    ASSUME TypeOK, NEW k \in Keys, row[k] # NoRow
    PROVE  /\ Unleased(row[k], row[k].attempts, row[k].due) \in Rows
           /\ Unleased(row[k], row[k].attempts, TRUE) \in Rows
           /\ Unleased(row[k], row[k].attempts, FALSE) \in Rows
           /\ Unleased(row[k], GivenBack(row[k].attempts), FALSE) \in Rows
<1>1. row[k] \in Rows
  BY DEF TypeOK
<1> QED
  BY <1>1, FreedType

(* The row an execution's statement looks up is a row of the table.        *)
LEMMA Lookup ==
    ASSUME TypeOK, NEW s \in Slots, run[s] # NoRun
    PROVE  /\ run[s] \in Runs
           /\ run[s].key \in Keys
           /\ row[run[s].key] # NoRow => row[run[s].key] \in Rows
  BY DEF TypeOK, Runs

(* Every statement, sweep and tick of the clock keeps the types.           *)
LEMMA TypeStep == TypeOK /\ [Next]_vars => TypeOK'
<1> SUFFICES ASSUME TypeOK, [Next]_vars PROVE TypeOK'
  OBVIOUS
<1> USE ConstantsOK DEF TypeOK, Steps, At, Holds, Current, Superseded
<1>1. ASSUME NEW c \in Commands, NEW due \in BOOLEAN, Enqueue(c, due) PROVE TypeOK'
  BY <1>1, NewRowType, OverwrittenType, ColumnTypes DEF Enqueue, SetRow
<1>2. ASSUME NEW c \in Commands, NEW due \in BOOLEAN, EnqueueIfAbsent(c, due) PROVE TypeOK'
  BY <1>2, NewRowType, OverwrittenType, ColumnTypes DEF EnqueueIfAbsent, SetRow
<1>3. ASSUME NEW k \in Keys, DropTrigger(k) PROVE TypeOK'
  BY <1>3, ColumnTypes DEF DropTrigger, SetRow
<1>4. ASSUME NEW s \in Slots, NEW k \in Keys, Claim(s, k) PROVE TypeOK'
  BY <1>4, Lookup, LeasedType, ColumnTypes DEF Claim, Claimable, SetRow
<1>5. ASSUME NEW s \in Slots, HeartbeatRenews(s) PROVE TypeOK'
  BY <1>5, Lookup, ColumnTypes DEF HeartbeatRenews, SetRow
<1>6. ASSUME NEW s \in Slots, HeartbeatLosesLease(s) PROVE TypeOK'
  BY <1>6, Lookup DEF HeartbeatLosesLease, EndRun
<1>7. ASSUME NEW s \in Slots, PersistPage(s) PROVE TypeOK'
  <2>1. run[s] \in Runs /\ run[s].key \in Keys
    BY <1>7, Lookup DEF PersistPage
  <2>2. row' \in [Keys -> Rows \cup {NoRow}]
    BY <1>7, <2>1, Lookup, ColumnTypes DEF PersistPage, SetRow
  <2>3. run' \in [Slots -> Runs \cup {NoRun}]
    BY <1>7, <2>1, RunUpdateTypes DEF PersistPage
  <2> QED
    BY <1>7, <2>2, <2>3 DEF PersistPage
<1>8. ASSUME NEW s \in Slots, WorkSucceeds(s) PROVE TypeOK'
  BY <1>8, Lookup, RunUpdateTypes DEF WorkSucceeds, Goto
<1>9. ASSUME NEW s \in Slots, WorkIsPostponed(s) PROVE TypeOK'
  <2>1. run[s] \in Runs /\ run[s].key \in Keys
    BY <1>9, Lookup DEF WorkIsPostponed
  <2>2. row' \in [Keys -> Rows \cup {NoRow}]
    BY <1>9 DEF WorkIsPostponed
  <2>3. run' \in [Slots -> Runs \cup {NoRun}]
    BY <1>9, <2>1, RunUpdateTypes DEF WorkIsPostponed, Goto
  <2> QED
    BY <1>9, <2>2, <2>3 DEF WorkIsPostponed
<1>10. ASSUME NEW s \in Slots, NEW retryable \in BOOLEAN, WorkFails(s, retryable) PROVE TypeOK'
  BY <1>10, Lookup, RunUpdateTypes DEF WorkFails
<1>11. ASSUME NEW s \in Slots, Complete(s) PROVE TypeOK'
  <2>1. run[s] \in Runs /\ run[s].key \in Keys
    BY <1>11, Lookup DEF Complete
  <2>2. row' \in [Keys -> Rows \cup {NoRow}]
    BY <1>11, <2>1 DEF Complete, SetRow
  <2>3. run' \in [Slots -> Runs \cup {NoRun}]
    BY <1>11, <2>1, RunUpdateTypes DEF Complete, EndRun, Goto
  <2> QED
    BY <1>11, <2>2, <2>3 DEF Complete
<1>12. ASSUME NEW s \in Slots, Postpone(s) PROVE TypeOK'
  <2>1. run[s] \in Runs /\ run[s].key \in Keys
    BY <1>12, Lookup DEF Postpone
  <2>2. row' \in [Keys -> Rows \cup {NoRow}]
    BY <1>12, <2>1, FreedRow DEF Postpone, SetRow
  <2>3. run' \in [Slots -> Runs \cup {NoRun}]
    BY <1>12, <2>1, RunUpdateTypes DEF Postpone, EndRun, Goto
  <2> QED
    BY <1>12, <2>2, <2>3 DEF Postpone
<1>13. ASSUME NEW s \in Slots, Fail(s) PROVE TypeOK'
  <2>1. run[s] \in Runs /\ run[s].key \in Keys
    BY <1>13, Lookup DEF Fail
  <2>2. row' \in [Keys -> Rows \cup {NoRow}]
    BY <1>13, <2>1, FreedRow DEF Fail, SetRow
  <2>3. run' \in [Slots -> Runs \cup {NoRun}]
    BY <1>13, <2>1, RunUpdateTypes DEF Fail, EndRun, Goto
  <2> QED
    BY <1>13, <2>2, <2>3 DEF Fail
<1>14. ASSUME NEW s \in Slots, DeadLetter(s) PROVE TypeOK'
  <2>1. run[s] \in Runs /\ run[s].key \in Keys
    BY <1>14, Lookup DEF DeadLetter
  <2>2. row' \in [Keys -> Rows \cup {NoRow}]
    BY <1>14, <2>1 DEF DeadLetter, SetRow
  <2>3. run' \in [Slots -> Runs \cup {NoRun}]
    BY <1>14, <2>1, RunUpdateTypes DEF DeadLetter, EndRun, Goto
  <2>4. archive' \subseteq Commands
    <3>1. Current(s) => row[run[s].key].payload \in Commands
      BY <1>14, Lookup, ColumnTypes DEF DeadLetter
    <3>2. archive' \subseteq archive \cup {row[run[s].key].payload}
      BY <1>14 DEF DeadLetter
    <3>3. archive' # archive => Current(s)
      BY <1>14 DEF DeadLetter
    <3> QED BY <3>1, <3>2, <3>3
  <2> QED
    BY <1>14, <2>2, <2>3, <2>4 DEF DeadLetter
<1>15. ASSUME NEW s \in Slots, Retry(s) PROVE TypeOK'
  <2>1. run[s] \in Runs /\ run[s].key \in Keys
    BY <1>15, Lookup DEF Retry
  <2>2. row' \in [Keys -> Rows \cup {NoRow}]
    BY <1>15, <2>1, FreedRow DEF Retry, SetRow
  <2>3. run' \in [Slots -> Runs \cup {NoRun}]
    BY <1>15, <2>1, RunUpdateTypes DEF Retry, EndRun, Goto
  <2> QED
    BY <1>15, <2>2, <2>3 DEF Retry
<1>16. ASSUME NEW s \in Slots, ReleaseSuperseded(s) PROVE TypeOK'
  <2>1. run[s] \in Runs /\ run[s].key \in Keys
    BY <1>16, Lookup DEF ReleaseSuperseded
  <2>2. row' \in [Keys -> Rows \cup {NoRow}]
    BY <1>16, <2>1, FreedRow DEF ReleaseSuperseded, SetRow
  <2>3. run' \in [Slots -> Runs \cup {NoRun}]
    BY <1>16, <2>1, RunUpdateTypes DEF ReleaseSuperseded, EndRun
  <2> QED
    BY <1>16, <2>2, <2>3 DEF ReleaseSuperseded
<1>17. ASSUME NEW s \in Slots, Abandon(s) PROVE TypeOK'
  BY <1>17, Lookup DEF Abandon, EndRun
<1>18. ASSUME NEW k \in Keys, BecomeDue(k) PROVE TypeOK'
  BY <1>18, ColumnTypes DEF BecomeDue, SetRow
<1>19. ASSUME NEW k \in Keys, LeaseRunsOut(k) PROVE TypeOK'
  BY <1>19, ColumnTypes DEF LeaseRunsOut, SetRow
<1>20. ASSUME NEW k \in Keys, ReleaseExpired(k) PROVE TypeOK'
  BY <1>20, FreedType, ColumnTypes DEF ReleaseExpired, SetRow
<1>21. ASSUME NEW k \in Keys, RecoverExhausted(k) PROVE TypeOK'
  BY <1>21, ColumnTypes DEF RecoverExhausted, SetRow
<1>22. CASE UNCHANGED vars
  BY <1>22 DEF vars
<1> HIDE DEF TypeOK, Steps, At, Holds, Current, Superseded
<1>23. CASE Produce
  BY <1>1, <1>2, <1>3, <1>23 DEF Produce
<1>24. ASSUME NEW s \in Slots, Return(s) PROVE TypeOK'
  BY <1>8, <1>9, <1>10, <1>24 DEF Return
<1>25. ASSUME NEW s \in Slots, Conclude(s) PROVE TypeOK'
  BY <1>11, <1>12, <1>13, <1>14, <1>15, <1>16, <1>25 DEF Conclude
<1>26. CASE Execute
  BY <1>4, <1>5, <1>6, <1>7, <1>17, <1>24, <1>25, <1>26 DEF Execute
<1>27. CASE Sweep
  BY <1>18, <1>19, <1>20, <1>21, <1>27 DEF Sweep
<1> QED
  BY <1>22, <1>23, <1>26, <1>27 DEF Next

(* Every action keeps the inductive invariant: one step per statement of   *)
(* jobs/queries/queue.                                                     *)
LEMMA InvStep == Inv /\ [Next]_vars => Inv'
<1> SUFFICES ASSUME Inv, [Next]_vars PROVE Inv'
  OBVIOUS
<1> USE NullsOK DEF Inv, TypeOK, Rows, Runs, Steps, At, Holds, Current, Superseded
<1>1. ASSUME NEW c \in Commands, NEW due \in BOOLEAN, Enqueue(c, due) PROVE Inv'
  <2>1. TypeOK'
    BY TypeStep
  <2>2. ASSUME NEW q \in Keys, row'[q] # NoRow
        PROVE  (KeyOf[row[q].payload] = q /\ RowSound(row[q]))'
    BY <1>1, <2>1, <2>2, ConstantsOK DEF Enqueue, SetRow, NewRow, Overwritten, RowSound,
         RunSound, SpentInMemory
  <2>3. ASSUME NEW t \in Slots, run'[t] # NoRun PROVE RunSound(t)'
    BY <1>1, <2>1, <2>3 DEF Enqueue, SetRow, NewRow, Overwritten, RowSound, RunSound,
         SpentInMemory
  <2> QED
    BY <2>1, <2>2, <2>3 DEF Inv
<1>2. ASSUME NEW c \in Commands, NEW due \in BOOLEAN, EnqueueIfAbsent(c, due) PROVE Inv'
  <2>1. TypeOK'
    BY TypeStep
  <2>2. ASSUME NEW q \in Keys, row'[q] # NoRow
        PROVE  (KeyOf[row[q].payload] = q /\ RowSound(row[q]))'
    BY <1>2, <2>1, <2>2, ConstantsOK DEF EnqueueIfAbsent, SetRow, NewRow, RowSound, RunSound,
         SpentInMemory
  <2>3. ASSUME NEW t \in Slots, run'[t] # NoRun PROVE RunSound(t)'
    BY <1>2, <2>1, <2>3 DEF EnqueueIfAbsent, SetRow, NewRow, RowSound, RunSound, SpentInMemory
  <2> QED
    BY <2>1, <2>2, <2>3 DEF Inv
<1>3. ASSUME NEW k \in Keys, DropTrigger(k) PROVE Inv'
  <2>1. TypeOK'
    BY TypeStep
  <2>2. ASSUME NEW q \in Keys, row'[q] # NoRow
        PROVE  (KeyOf[row[q].payload] = q /\ RowSound(row[q]))'
    BY <1>3, <2>1, <2>2, ConstantsOK DEF DropTrigger, SetRow, RowSound, RunSound, SpentInMemory
  <2>3. ASSUME NEW t \in Slots, run'[t] # NoRun PROVE RunSound(t)'
    BY <1>3, <2>1, <2>3 DEF DropTrigger, SetRow, RowSound, RunSound, SpentInMemory
  <2> QED
    BY <2>1, <2>2, <2>3 DEF Inv
<1>4. ASSUME NEW s \in Slots, NEW k \in Keys, Claim(s, k) PROVE Inv'
  <2>1. TypeOK'
    BY TypeStep
  <2>2. ASSUME NEW q \in Keys, row'[q] # NoRow
        PROVE  (KeyOf[row[q].payload] = q /\ RowSound(row[q]))'
    BY <1>4, <2>1, <2>2, ConstantsOK DEF Claim, Claimable, SetRow, Leased, LeasedJob,
         RowSound, RunSound, SpentInMemory
  <2>3. ASSUME NEW t \in Slots, run'[t] # NoRun PROVE RunSound(t)'
    BY <1>4, <2>1, <2>3 DEF Claim, Claimable, SetRow, Leased, LeasedJob, RowSound, RunSound,
         SpentInMemory
  <2> QED
    BY <2>1, <2>2, <2>3 DEF Inv
<1>5. ASSUME NEW s \in Slots, HeartbeatRenews(s) PROVE Inv'
  <2>1. TypeOK'
    BY TypeStep
  <2>2. ASSUME NEW q \in Keys, row'[q] # NoRow
        PROVE  (KeyOf[row[q].payload] = q /\ RowSound(row[q]))'
    BY <1>5, <2>1, <2>2, ConstantsOK DEF HeartbeatRenews, SetRow, RowSound, RunSound,
         SpentInMemory
  <2>3. ASSUME NEW t \in Slots, run'[t] # NoRun PROVE RunSound(t)'
    BY <1>5, <2>1, <2>3 DEF HeartbeatRenews, SetRow, RowSound, RunSound, SpentInMemory
  <2> QED
    BY <2>1, <2>2, <2>3 DEF Inv
<1>6. ASSUME NEW s \in Slots, HeartbeatLosesLease(s) PROVE Inv'
  <2>1. TypeOK'
    BY TypeStep
  <2>2. ASSUME NEW q \in Keys, row'[q] # NoRow
        PROVE  (KeyOf[row[q].payload] = q /\ RowSound(row[q]))'
    BY <1>6, <2>1, <2>2, ConstantsOK DEF HeartbeatLosesLease, EndRun, RowSound, RunSound,
         SpentInMemory
  <2>3. ASSUME NEW t \in Slots, run'[t] # NoRun PROVE RunSound(t)'
    BY <1>6, <2>1, <2>3 DEF HeartbeatLosesLease, EndRun, RowSound, RunSound, SpentInMemory
  <2> QED
    BY <2>1, <2>2, <2>3 DEF Inv
<1>7. ASSUME NEW s \in Slots, PersistPage(s) PROVE Inv'
  <2>1. TypeOK'
    BY TypeStep
  <2>2. ASSUME NEW q \in Keys, row'[q] # NoRow
        PROVE  (KeyOf[row[q].payload] = q /\ RowSound(row[q]))'
    BY <1>7, <2>1, <2>2, ConstantsOK DEF PersistPage, SetRow, RowSound, RunSound, SpentInMemory
  <2>3. ASSUME NEW t \in Slots, run'[t] # NoRun PROVE RunSound(t)'
    BY <1>7, <2>1, <2>3 DEF PersistPage, SetRow, RowSound, RunSound, SpentInMemory
  <2> QED
    BY <2>1, <2>2, <2>3 DEF Inv
<1>8. ASSUME NEW s \in Slots, WorkSucceeds(s) PROVE Inv'
  <2>1. TypeOK'
    BY TypeStep
  <2>2. ASSUME NEW q \in Keys, row'[q] # NoRow
        PROVE  (KeyOf[row[q].payload] = q /\ RowSound(row[q]))'
    BY <1>8, <2>1, <2>2, ConstantsOK DEF WorkSucceeds, Goto, RowSound, RunSound, SpentInMemory
  <2>3. ASSUME NEW t \in Slots, run'[t] # NoRun PROVE RunSound(t)'
    BY <1>8, <2>1, <2>3 DEF WorkSucceeds, Goto, RowSound, RunSound, SpentInMemory
  <2> QED
    BY <2>1, <2>2, <2>3 DEF Inv
<1>9. ASSUME NEW s \in Slots, WorkIsPostponed(s) PROVE Inv'
  <2>1. TypeOK'
    BY TypeStep
  <2>2. ASSUME NEW q \in Keys, row'[q] # NoRow
        PROVE  (KeyOf[row[q].payload] = q /\ RowSound(row[q]))'
    BY <1>9, <2>1, <2>2, ConstantsOK DEF WorkIsPostponed, Goto, RowSound, RunSound,
         SpentInMemory
  <2>3. ASSUME NEW t \in Slots, run'[t] # NoRun PROVE RunSound(t)'
    BY <1>9, <2>1, <2>3 DEF WorkIsPostponed, Goto, RowSound, RunSound, SpentInMemory
  <2> QED
    BY <2>1, <2>2, <2>3 DEF Inv
<1>10. ASSUME NEW s \in Slots, NEW retryable \in BOOLEAN, WorkFails(s, retryable) PROVE Inv'
  <2>1. TypeOK'
    BY TypeStep
  <2>2. ASSUME NEW q \in Keys, row'[q] # NoRow
        PROVE  (KeyOf[row[q].payload] = q /\ RowSound(row[q]))'
    BY <1>10, <2>1, <2>2, ConstantsOK DEF WorkFails, RowSound, RunSound, SpentInMemory
  <2>3. ASSUME NEW t \in Slots, run'[t] # NoRun PROVE RunSound(t)'
    BY <1>10, <2>1, <2>3 DEF WorkFails, RowSound, RunSound, SpentInMemory
  <2> QED
    BY <2>1, <2>2, <2>3 DEF Inv
<1>11. ASSUME NEW s \in Slots, Complete(s) PROVE Inv'
  <2>1. TypeOK'
    BY TypeStep
  <2>2. ASSUME NEW q \in Keys, row'[q] # NoRow
        PROVE  (KeyOf[row[q].payload] = q /\ RowSound(row[q]))'
    BY <1>11, <2>1, <2>2, ConstantsOK DEF Complete, SetRow, EndRun, Goto, RowSound, RunSound,
         SpentInMemory
  <2>3. ASSUME NEW t \in Slots, run'[t] # NoRun PROVE RunSound(t)'
    BY <1>11, <2>1, <2>3 DEF Complete, SetRow, EndRun, Goto, RowSound, RunSound, SpentInMemory
  <2> QED
    BY <2>1, <2>2, <2>3 DEF Inv
<1>12. ASSUME NEW s \in Slots, Postpone(s) PROVE Inv'
  <2>1. TypeOK'
    BY TypeStep
  <2>2. ASSUME NEW q \in Keys, row'[q] # NoRow
        PROVE  (KeyOf[row[q].payload] = q /\ RowSound(row[q]))'
    BY <1>12, <2>1, <2>2, ConstantsOK DEF Postpone, SetRow, EndRun, Goto, GivenBack,
         Unleased, RowSound, RunSound, SpentInMemory
  <2>3. ASSUME NEW t \in Slots, run'[t] # NoRun PROVE RunSound(t)'
    BY <1>12, <2>1, <2>3 DEF Postpone, SetRow, EndRun, Goto, GivenBack, Unleased, RowSound,
         RunSound, SpentInMemory
  <2> QED
    BY <2>1, <2>2, <2>3 DEF Inv
<1>13. ASSUME NEW s \in Slots, Fail(s) PROVE Inv'
  <2>1. TypeOK'
    BY TypeStep
  <2>2. ASSUME NEW q \in Keys, row'[q] # NoRow
        PROVE  (KeyOf[row[q].payload] = q /\ RowSound(row[q]))'
    BY <1>13, <2>1, <2>2, ConstantsOK DEF Fail, SetRow, EndRun, Goto, Unleased, RowSound,
         RunSound, SpentInMemory
  <2>3. ASSUME NEW t \in Slots, run'[t] # NoRun PROVE RunSound(t)'
    BY <1>13, <2>1, <2>3 DEF Fail, SetRow, EndRun, Goto, Unleased, RowSound, RunSound,
         SpentInMemory
  <2> QED
    BY <2>1, <2>2, <2>3 DEF Inv
<1>14. ASSUME NEW s \in Slots, DeadLetter(s) PROVE Inv'
  <2>1. TypeOK'
    BY TypeStep
  <2>2. ASSUME NEW q \in Keys, row'[q] # NoRow
        PROVE  (KeyOf[row[q].payload] = q /\ RowSound(row[q]))'
    BY <1>14, <2>1, <2>2, ConstantsOK DEF DeadLetter, SetRow, EndRun, Goto, ArchiveAccepts,
         RowSound, RunSound, SpentInMemory
  <2>3. ASSUME NEW t \in Slots, run'[t] # NoRun PROVE RunSound(t)'
    BY <1>14, <2>1, <2>3 DEF DeadLetter, SetRow, EndRun, Goto, ArchiveAccepts, RowSound,
         RunSound, SpentInMemory
  <2> QED
    BY <2>1, <2>2, <2>3 DEF Inv
<1>15. ASSUME NEW s \in Slots, Retry(s) PROVE Inv'
  <2>1. TypeOK'
    BY TypeStep
  <2>2. ASSUME NEW q \in Keys, row'[q] # NoRow
        PROVE  (KeyOf[row[q].payload] = q /\ RowSound(row[q]))'
    BY <1>15, <2>1, <2>2, ConstantsOK DEF Retry, SetRow, EndRun, Goto, Unleased, RowSound,
         RunSound, SpentInMemory
  <2>3. ASSUME NEW t \in Slots, run'[t] # NoRun PROVE RunSound(t)'
    BY <1>15, <2>1, <2>3 DEF Retry, SetRow, EndRun, Goto, Unleased, RowSound, RunSound,
         SpentInMemory
  <2> QED
    BY <2>1, <2>2, <2>3 DEF Inv
<1>16. ASSUME NEW s \in Slots, ReleaseSuperseded(s) PROVE Inv'
  <2>1. TypeOK'
    BY TypeStep
  <2>2. ASSUME NEW q \in Keys, row'[q] # NoRow
        PROVE  (KeyOf[row[q].payload] = q /\ RowSound(row[q]))'
    BY <1>16, <2>1, <2>2, ConstantsOK DEF ReleaseSuperseded, SetRow, EndRun, Unleased,
         RowSound, RunSound, SpentInMemory
  <2>3. ASSUME NEW t \in Slots, run'[t] # NoRun PROVE RunSound(t)'
    BY <1>16, <2>1, <2>3 DEF ReleaseSuperseded, SetRow, EndRun, Unleased, RowSound, RunSound,
         SpentInMemory
  <2> QED
    BY <2>1, <2>2, <2>3 DEF Inv
<1>17. ASSUME NEW s \in Slots, Abandon(s) PROVE Inv'
  <2>1. TypeOK'
    BY TypeStep
  <2>2. ASSUME NEW q \in Keys, row'[q] # NoRow
        PROVE  (KeyOf[row[q].payload] = q /\ RowSound(row[q]))'
    BY <1>17, <2>1, <2>2, ConstantsOK DEF Abandon, EndRun, RowSound, RunSound, SpentInMemory
  <2>3. ASSUME NEW t \in Slots, run'[t] # NoRun PROVE RunSound(t)'
    BY <1>17, <2>1, <2>3 DEF Abandon, EndRun, RowSound, RunSound, SpentInMemory
  <2> QED
    BY <2>1, <2>2, <2>3 DEF Inv
<1>18. ASSUME NEW k \in Keys, BecomeDue(k) PROVE Inv'
  <2>1. TypeOK'
    BY TypeStep
  <2>2. ASSUME NEW q \in Keys, row'[q] # NoRow
        PROVE  (KeyOf[row[q].payload] = q /\ RowSound(row[q]))'
    BY <1>18, <2>1, <2>2, ConstantsOK DEF BecomeDue, SetRow, RowSound, RunSound, SpentInMemory
  <2>3. ASSUME NEW t \in Slots, run'[t] # NoRun PROVE RunSound(t)'
    BY <1>18, <2>1, <2>3 DEF BecomeDue, SetRow, RowSound, RunSound, SpentInMemory
  <2> QED
    BY <2>1, <2>2, <2>3 DEF Inv
<1>19. ASSUME NEW k \in Keys, LeaseRunsOut(k) PROVE Inv'
  <2>1. TypeOK'
    BY TypeStep
  <2>2. ASSUME NEW q \in Keys, row'[q] # NoRow
        PROVE  (KeyOf[row[q].payload] = q /\ RowSound(row[q]))'
    BY <1>19, <2>1, <2>2, ConstantsOK DEF LeaseRunsOut, SetRow, RowSound, RunSound,
         SpentInMemory
  <2>3. ASSUME NEW t \in Slots, run'[t] # NoRun PROVE RunSound(t)'
    BY <1>19, <2>1, <2>3 DEF LeaseRunsOut, SetRow, RowSound, RunSound, SpentInMemory
  <2> QED
    BY <2>1, <2>2, <2>3 DEF Inv
<1>20. ASSUME NEW k \in Keys, ReleaseExpired(k) PROVE Inv'
  <2>1. TypeOK'
    BY TypeStep
  <2>2. ASSUME NEW q \in Keys, row'[q] # NoRow
        PROVE  (KeyOf[row[q].payload] = q /\ RowSound(row[q]))'
    BY <1>20, <2>1, <2>2, ConstantsOK DEF ReleaseExpired, SetRow, Unleased, RowSound,
         RunSound, SpentInMemory
  <2>3. ASSUME NEW t \in Slots, run'[t] # NoRun PROVE RunSound(t)'
    BY <1>20, <2>1, <2>3 DEF ReleaseExpired, SetRow, Unleased, RowSound, RunSound, SpentInMemory
  <2> QED
    BY <2>1, <2>2, <2>3 DEF Inv
<1>21. ASSUME NEW k \in Keys, RecoverExhausted(k) PROVE Inv'
  <2>1. TypeOK'
    BY TypeStep
  <2>2. ASSUME NEW q \in Keys, row'[q] # NoRow
        PROVE  (KeyOf[row[q].payload] = q /\ RowSound(row[q]))'
    BY <1>21, <2>1, <2>2, ConstantsOK DEF RecoverExhausted, SetRow, RowSound, RunSound,
         SpentInMemory
  <2>3. ASSUME NEW t \in Slots, run'[t] # NoRun PROVE RunSound(t)'
    BY <1>21, <2>1, <2>3 DEF RecoverExhausted, SetRow, RowSound, RunSound, SpentInMemory
  <2> QED
    BY <2>1, <2>2, <2>3 DEF Inv
<1>22. CASE UNCHANGED vars
  <2>1. TypeOK'
    BY TypeStep
  <2>2. ASSUME NEW q \in Keys, row'[q] # NoRow
        PROVE  (KeyOf[row[q].payload] = q /\ RowSound(row[q]))'
    BY <1>22, <2>1, <2>2, ConstantsOK DEF vars, RowSound, RunSound, SpentInMemory
  <2>3. ASSUME NEW t \in Slots, run'[t] # NoRun PROVE RunSound(t)'
    BY <1>22, <2>1, <2>3 DEF vars, RowSound, RunSound, SpentInMemory
  <2> QED
    BY <2>1, <2>2, <2>3 DEF Inv
<1> HIDE DEF Inv, TypeOK, Rows, Runs, Steps, At, Holds, Current, Superseded
<1>23. CASE Produce
  BY <1>1, <1>2, <1>3, <1>23 DEF Produce
<1>24. ASSUME NEW s \in Slots, Return(s) PROVE Inv'
  BY <1>8, <1>9, <1>10, <1>24 DEF Return
<1>25. ASSUME NEW s \in Slots, Conclude(s) PROVE Inv'
  BY <1>11, <1>12, <1>13, <1>14, <1>15, <1>16, <1>25 DEF Conclude
<1>26. CASE Execute
  BY <1>4, <1>5, <1>6, <1>7, <1>17, <1>24, <1>25, <1>26 DEF Execute
<1>27. CASE Sweep
  BY <1>18, <1>19, <1>20, <1>21, <1>27 DEF Sweep
<1> QED
  BY <1>22, <1>23, <1>26, <1>27 DEF Next

(* The initial states satisfy the inductive invariant.                     *)
LEMMA InvInit == Init => Inv
  BY ConstantsOK DEF Init, Inv, TypeOK

(* Every reachable state satisfies the inductive invariant.                *)
THEOREM InvHolds == Spec => []Inv
<1>1. Inv /\ [Next]_vars => Inv'
  BY InvStep
<1> QED
  BY <1>1, InvInit, PTL DEF Spec

(* Every column of the queue keeps its domain.                             *)
THEOREM Typing == Spec => []TypeOK
<1>1. Inv => TypeOK
  BY DEF Inv
<1> QED
  BY <1>1, InvHolds, PTL

(* The generation fence: whoever can still settle a row runs its newest    *)
(* payload.                                                                *)
THEOREM Fencing == Spec => []HolderRunsNewest
<1>1. Inv => HolderRunsNewest
  BY DEF Inv, HolderRunsNewest, RunSound
<1> QED
  BY <1>1, InvHolds, PTL

(* No path leaves an unleased row with its attempts used up.               *)
THEOREM FreeRows == Spec => []FreeRowClaimable
<1>1. Inv => FreeRowClaimable
  BY DEF Inv, FreeRowClaimable, RowSound
<1> QED
  BY <1>1, InvHolds, PTL

(* Giving up a lease does not change the job.                              *)
LEMMA FreedJob ==
    ASSUME NEW r
    PROVE  /\ Job(Unleased(r, r.attempts, r.due)) = Job(r)
           /\ Unleased(r, r.attempts, r.due).lease = NoLease
  BY DEF Job, Unleased

(* Every step of an execution leaves the job of a newer payload alone.     *)
LEMMA StaleRunStepHolds == Inv /\ [Next]_vars => StaleRunStep \/ UNCHANGED vars
<1> SUFFICES ASSUME Inv, [Next]_vars PROVE StaleRunStep
  OBVIOUS
<1> USE NullsOK DEF Inv, TypeOK, Rows, Runs, RunSound, StaleRunStep, Job, At, Holds, Current,
     Superseded
<1>1. ASSUME NEW c \in Commands, NEW due \in BOOLEAN, Enqueue(c, due) PROVE StaleRunStep
  BY <1>1 DEF Enqueue, SetRow, NewRow, Overwritten
<1>2. ASSUME NEW c \in Commands, NEW due \in BOOLEAN, EnqueueIfAbsent(c, due) PROVE StaleRunStep
  BY <1>2 DEF EnqueueIfAbsent, SetRow, NewRow
<1>3. ASSUME NEW k \in Keys, DropTrigger(k) PROVE StaleRunStep
  BY <1>3 DEF DropTrigger, SetRow
<1>4. ASSUME NEW s \in Slots, NEW k \in Keys, Claim(s, k) PROVE StaleRunStep
  BY <1>4 DEF Claim, Claimable, SetRow, Leased, LeasedJob
<1>5. ASSUME NEW s \in Slots, HeartbeatRenews(s) PROVE StaleRunStep
  BY <1>5 DEF HeartbeatRenews, SetRow
<1>6. ASSUME NEW s \in Slots, HeartbeatLosesLease(s) PROVE StaleRunStep
  BY <1>6 DEF HeartbeatLosesLease, EndRun
<1>7. ASSUME NEW s \in Slots, PersistPage(s) PROVE StaleRunStep
  BY <1>7 DEF PersistPage, SetRow
<1>8. ASSUME NEW s \in Slots, WorkSucceeds(s) PROVE StaleRunStep
  BY <1>8 DEF WorkSucceeds, Goto
<1>9. ASSUME NEW s \in Slots, WorkIsPostponed(s) PROVE StaleRunStep
  BY <1>9 DEF WorkIsPostponed, Goto
<1>10. ASSUME NEW s \in Slots, NEW retryable \in BOOLEAN, WorkFails(s,
     retryable) PROVE StaleRunStep
  BY <1>10 DEF WorkFails
<1>11. ASSUME NEW s \in Slots, Complete(s) PROVE StaleRunStep
  BY <1>11 DEF Complete, SetRow, EndRun, Goto
<1>12. ASSUME NEW s \in Slots, Postpone(s) PROVE StaleRunStep
  BY <1>12 DEF Postpone, SetRow, EndRun, Goto, GivenBack, Unleased
<1>13. ASSUME NEW s \in Slots, Fail(s) PROVE StaleRunStep
  <2>1. run[s].key \in Keys
    BY <1>13, Lookup DEF Fail
  <2>2. Superseded(s) => Unleased(row[run[s].key], row[run[s].key].attempts,
                                  row[run[s].key].due) # NoRow
    BY <2>1, FreedRow, NullsOK
  <2> QED
    BY <1>13, <2>1, <2>2, FreedJob DEF Fail, SetRow, EndRun, Goto
<1>14. ASSUME NEW s \in Slots, DeadLetter(s) PROVE StaleRunStep
  BY <1>14 DEF DeadLetter, SetRow, EndRun, Goto, ArchiveAccepts
<1>15. ASSUME NEW s \in Slots, Retry(s) PROVE StaleRunStep
  BY <1>15 DEF Retry, SetRow, EndRun, Goto, Unleased
<1>16. ASSUME NEW s \in Slots, ReleaseSuperseded(s) PROVE StaleRunStep
  <2>1. run[s].key \in Keys
    BY <1>16, Lookup DEF ReleaseSuperseded
  <2>2. Superseded(s) => Unleased(row[run[s].key], row[run[s].key].attempts,
                                  row[run[s].key].due) # NoRow
    BY <2>1, FreedRow, NullsOK
  <2> QED
    BY <1>16, <2>1, <2>2, FreedJob DEF ReleaseSuperseded, SetRow, EndRun
<1>17. ASSUME NEW s \in Slots, Abandon(s) PROVE StaleRunStep
  BY <1>17 DEF Abandon, EndRun
<1>18. ASSUME NEW k \in Keys, BecomeDue(k) PROVE StaleRunStep
  BY <1>18 DEF BecomeDue, SetRow
<1>19. ASSUME NEW k \in Keys, LeaseRunsOut(k) PROVE StaleRunStep
  BY <1>19 DEF LeaseRunsOut, SetRow
<1>20. ASSUME NEW k \in Keys, ReleaseExpired(k) PROVE StaleRunStep
  BY <1>20 DEF ReleaseExpired, SetRow, Unleased
<1>21. ASSUME NEW k \in Keys, RecoverExhausted(k) PROVE StaleRunStep
  BY <1>21 DEF RecoverExhausted, SetRow
<1>22. CASE UNCHANGED vars
  BY <1>22 DEF vars
<1> HIDE DEF Inv, TypeOK, Rows, Runs, RunSound, StaleRunStep, Job, At, Holds, Current,
     Superseded
<1>23. CASE Produce
  BY <1>1, <1>2, <1>3, <1>23 DEF Produce
<1>24. ASSUME NEW s \in Slots, Return(s) PROVE StaleRunStep
  BY <1>8, <1>9, <1>10, <1>24 DEF Return
<1>25. ASSUME NEW s \in Slots, Conclude(s) PROVE StaleRunStep
  BY <1>11, <1>12, <1>13, <1>14, <1>15, <1>16, <1>25 DEF Conclude
<1>26. CASE Execute
  BY <1>4, <1>5, <1>6, <1>7, <1>17, <1>24, <1>25, <1>26 DEF Execute
<1>27. CASE Sweep
  BY <1>18, <1>19, <1>20, <1>21, <1>27 DEF Sweep
<1> QED
  BY <1>22, <1>23, <1>26, <1>27 DEF Next

(* An execution of a superseded payload never harms the newer job.         *)
THEOREM Harmless == Spec => StaleRunHarmless
<1>1. Inv /\ [Next]_vars => [StaleRunStep]_vars
  BY StaleRunStepHolds
<1> QED
  BY <1>1, InvHolds, PTL DEF Spec, StaleRunHarmless

(* What enters the archive was spent or failed for good.                   *)
LEMMA ArchiveStepHolds == Inv /\ [Next]_vars => ArchiveStep
<1> SUFFICES ASSUME Inv, [Next]_vars PROVE ArchiveStep
  OBVIOUS
<1> USE NullsOK DEF Inv, TypeOK, Rows, Runs, RunSound, RowSound, SpentInMemory, ArchiveStep,
     At, Holds, Current, Superseded
<1>1. ASSUME NEW c \in Commands, NEW due \in BOOLEAN, Enqueue(c, due) PROVE ArchiveStep
  BY <1>1 DEF Enqueue, SetRow, NewRow, Overwritten
<1>2. ASSUME NEW c \in Commands, NEW due \in BOOLEAN, EnqueueIfAbsent(c, due) PROVE ArchiveStep
  BY <1>2 DEF EnqueueIfAbsent, SetRow, NewRow
<1>3. ASSUME NEW k \in Keys, DropTrigger(k) PROVE ArchiveStep
  BY <1>3 DEF DropTrigger, SetRow
<1>4. ASSUME NEW s \in Slots, NEW k \in Keys, Claim(s, k) PROVE ArchiveStep
  BY <1>4 DEF Claim, Claimable, SetRow, Leased, LeasedJob
<1>5. ASSUME NEW s \in Slots, HeartbeatRenews(s) PROVE ArchiveStep
  BY <1>5 DEF HeartbeatRenews, SetRow
<1>6. ASSUME NEW s \in Slots, HeartbeatLosesLease(s) PROVE ArchiveStep
  BY <1>6 DEF HeartbeatLosesLease, EndRun
<1>7. ASSUME NEW s \in Slots, PersistPage(s) PROVE ArchiveStep
  BY <1>7 DEF PersistPage, SetRow
<1>8. ASSUME NEW s \in Slots, WorkSucceeds(s) PROVE ArchiveStep
  BY <1>8 DEF WorkSucceeds, Goto
<1>9. ASSUME NEW s \in Slots, WorkIsPostponed(s) PROVE ArchiveStep
  BY <1>9 DEF WorkIsPostponed, Goto
<1>10. ASSUME NEW s \in Slots, NEW retryable \in BOOLEAN, WorkFails(s,
     retryable) PROVE ArchiveStep
  BY <1>10 DEF WorkFails
<1>11. ASSUME NEW s \in Slots, Complete(s) PROVE ArchiveStep
  BY <1>11 DEF Complete, SetRow, EndRun, Goto
<1>12. ASSUME NEW s \in Slots, Postpone(s) PROVE ArchiveStep
  BY <1>12 DEF Postpone, SetRow, EndRun, Goto, GivenBack, Unleased
<1>13. ASSUME NEW s \in Slots, Fail(s) PROVE ArchiveStep
  BY <1>13 DEF Fail, SetRow, EndRun, Goto, Unleased
<1>14. ASSUME NEW s \in Slots, DeadLetter(s) PROVE ArchiveStep
  <2> SUFFICES ASSUME NEW q \in Keys, row[q] # NoRow,
                      row[q].payload \in archive' \ archive
               PROVE  \/ row[q].attempts = row[q].max
                      \/ \E t \in Slots : /\ run[t] # NoRun
                                          /\ run[t].payload = row[q].payload
                                          /\ ~run[t].retryable
    BY DEF ArchiveStep
  <2>1. /\ run[s] # NoRun
        /\ run[s].step = "bury"
        /\ Current(s)
        /\ ArchiveAccepts(row[run[s].key])
        /\ row[q].payload = row[run[s].key].payload
    BY <1>14 DEF DeadLetter
  <2>2. run[s].key \in Keys /\ q = run[s].key
    BY <2>1, Lookup
  <2>3. /\ SpentInMemory(run[s])
        /\ run[s].payload = row[q].payload
        /\ run[s].max = row[q].max
        /\ row[q].attempts = run[s].attempts \/ row[q].attempts = 0
    BY <2>1, <2>2
  <2>4. CASE ~run[s].retryable
    BY <2>1, <2>3, <2>4
  <2>5. CASE run[s].attempts >= run[s].max
    BY <2>1, <2>2, <2>3, <2>5 DEF ArchiveAccepts
  <2> QED
    BY <2>3, <2>4, <2>5
<1>15. ASSUME NEW s \in Slots, Retry(s) PROVE ArchiveStep
  BY <1>15 DEF Retry, SetRow, EndRun, Goto, Unleased
<1>16. ASSUME NEW s \in Slots, ReleaseSuperseded(s) PROVE ArchiveStep
  BY <1>16 DEF ReleaseSuperseded, SetRow, EndRun, Unleased
<1>17. ASSUME NEW s \in Slots, Abandon(s) PROVE ArchiveStep
  BY <1>17 DEF Abandon, EndRun
<1>18. ASSUME NEW k \in Keys, BecomeDue(k) PROVE ArchiveStep
  BY <1>18 DEF BecomeDue, SetRow
<1>19. ASSUME NEW k \in Keys, LeaseRunsOut(k) PROVE ArchiveStep
  BY <1>19 DEF LeaseRunsOut, SetRow
<1>20. ASSUME NEW k \in Keys, ReleaseExpired(k) PROVE ArchiveStep
  BY <1>20 DEF ReleaseExpired, SetRow, Unleased
<1>21. ASSUME NEW k \in Keys, RecoverExhausted(k) PROVE ArchiveStep
  BY <1>21 DEF RecoverExhausted, SetRow
<1>22. CASE UNCHANGED vars
  BY <1>22 DEF vars
<1> HIDE DEF Inv, TypeOK, Rows, Runs, RunSound, RowSound, SpentInMemory, ArchiveStep, At,
     Holds, Current, Superseded
<1>23. CASE Produce
  BY <1>1, <1>2, <1>3, <1>23 DEF Produce
<1>24. ASSUME NEW s \in Slots, Return(s) PROVE ArchiveStep
  BY <1>8, <1>9, <1>10, <1>24 DEF Return
<1>25. ASSUME NEW s \in Slots, Conclude(s) PROVE ArchiveStep
  BY <1>11, <1>12, <1>13, <1>14, <1>15, <1>16, <1>25 DEF Conclude
<1>26. CASE Execute
  BY <1>4, <1>5, <1>6, <1>7, <1>17, <1>24, <1>25, <1>26 DEF Execute
<1>27. CASE Sweep
  BY <1>18, <1>19, <1>20, <1>21, <1>27 DEF Sweep
<1> QED
  BY <1>22, <1>23, <1>26, <1>27 DEF Next

(* Only spent or permanently failed commands are archived.                 *)
THEOREM Archiving == Spec => ArchivedOnlyWhenSpent
<1>1. Inv /\ [Next]_vars => [ArchiveStep]_vars
  BY ArchiveStepHolds
<1> QED
  BY <1>1, InvHolds, PTL DEF Spec, ArchivedOnlyWhenSpent

---------------------------------------------------------------------------
(* The queue implements JobMailbox.                                        *)

(* Replacing a row changes what its key owes, and nothing else.            *)
LEMMA OwedUpdate ==
    ASSUME TypeOK, NEW k \in Keys, NEW x, row' = [row EXCEPT ![k] = x]
    PROVE  Owed' = [Owed EXCEPT ![k] = IF x = NoRow THEN NoRun ELSE x.payload]
  BY DEF TypeOK, Owed

(* Replacing a row by one with the same payload changes nothing that is    *)
(* owed.                                                                   *)
LEMMA OwedSame ==
    ASSUME TypeOK, NEW k \in Keys, NEW x, row' = [row EXCEPT ![k] = x],
           row[k] # NoRow, x # NoRow, x.payload = row[k].payload
    PROVE  Owed' = Owed
  BY DEF TypeOK, Owed

(* Ending an execution empties its slot.                                   *)
LEMMA DoingEnds ==
    ASSUME TypeOK, NEW s \in Slots, EndRun(s)
    PROVE  Doing' = [Doing EXCEPT ![s] = NoRun]
  BY DEF TypeOK, Doing, EndRun

(* Updating an execution's copy without touching its payload changes       *)
(* nothing about what its slot does.                                       *)
LEMMA DoingSame ==
    ASSUME TypeOK, NEW s \in Slots, NEW x, run' = [run EXCEPT ![s] = x],
           run[s] # NoRun, x # NoRun, x.payload = run[s].payload
    PROVE  Doing' = Doing
  BY DEF TypeOK, Doing

(* The terminal writes move an execution on without changing its payload.  *)
LEMMA DoingGoes ==
    ASSUME TypeOK, NEW s \in Slots, NEW step \in Steps, run[s] # NoRun, Goto(s, step)
    PROVE  Doing' = Doing
<1>1. run' = [run EXCEPT ![s] = [run[s] EXCEPT !.step = step]]
  BY DEF Goto
<1>2. run[s] \in Runs /\ [run[s] EXCEPT !.step = step] \in Runs
  BY Lookup, RunUpdateTypes
<1>3. [run[s] EXCEPT !.step = step].payload = run[s].payload
  BY <1>2 DEF Runs
<1> QED
  BY <1>1, <1>2, <1>3, DoingSame, NullsOK

(* The abstract value of what is owed and done.                            *)
LEMMA Abstraction ==
    ASSUME TypeOK
    PROVE  /\ \A k \in Keys : row[k] # NoRow =>
                /\ Owed[k] = row[k].payload
                /\ Owed[k] # NoRun
           /\ \A s \in Slots : run[s] # NoRun =>
                /\ Doing[s] = run[s].payload
                /\ Doing[s] # NoRun
           /\ \A k \in Keys : row[k] = NoRow => Owed[k] = NoRun
           /\ \A s \in Slots : run[s] = NoRun => Doing[s] = NoRun
  BY NullsOK DEF TypeOK, Owed, Doing, Rows, Runs

(* Every step of the queue is a step of the mailbox or leaves it alone.    *)
LEMMA MailboxStep == Inv /\ [Next]_vars => [Mailbox!MNext]_Mailbox!mvars
<1> SUFFICES ASSUME Inv, [Next]_vars PROVE [Mailbox!MNext]_Mailbox!mvars
  OBVIOUS
<1>0. TypeOK
  BY DEF Inv
<1> DEFINE Same == UNCHANGED Mailbox!mvars
<1>a. ASSUME NEW s \in Slots, run[s] # NoRun, EndRun(s), Owed' = Owed,
             UNCHANGED <<receipts, archive, begun>>
      PROVE  Mailbox!MNext
  BY <1>0, <1>a, Abstraction, DoingEnds DEF Mailbox!MNext, Mailbox!Stop
<1>b. ASSUME Owed' = Owed, Doing' = Doing, UNCHANGED <<receipts, archive, begun>>
      PROVE  Same
  BY <1>b DEF Mailbox!mvars
<1>c. ASSUME UNCHANGED row PROVE Owed' = Owed
  BY <1>c DEF Owed
<1>d. ASSUME UNCHANGED run PROVE Doing' = Doing
  BY <1>d DEF Doing
<1>e. ASSUME NEW s \in Slots, run[s] # NoRun, row[run[s].key] # NoRow,
             NEW attempts \in Nat, NEW due \in BOOLEAN,
             SetRow(run[s].key, Unleased(row[run[s].key], attempts, due))
      PROVE  Owed' = Owed
  <2>1. run[s].key \in Keys /\ row[run[s].key] \in Rows
    BY <1>0, <1>e, Lookup
  <2>2. /\ Unleased(row[run[s].key], attempts, due) \in Rows
        /\ Unleased(row[run[s].key], attempts, due).payload = row[run[s].key].payload
    BY <2>1, <1>e DEF Unleased, Rows
  <2> QED
    BY <1>0, <1>e, <2>1, <2>2, OwedSame, NullsOK DEF SetRow
<1>1. ASSUME NEW c \in Commands, NEW due \in BOOLEAN, Enqueue(c, due)
      PROVE  Mailbox!MNext
  <2>1. KeyOf[c] \in Keys
    BY ConstantsOK
  <2>2. NewRow(c, due) \in Rows /\ NewRow(c, due).payload = c
    BY NewRowType DEF NewRow
  <2>3. row[KeyOf[c]] # NoRow =>
          /\ Overwritten(row[KeyOf[c]], c, due) \in Rows
          /\ Overwritten(row[KeyOf[c]], c, due).payload = c
    BY <1>0, <2>1, OverwrittenType DEF TypeOK, Overwritten
  <2>4. Owed' = [Owed EXCEPT ![KeyOf[c]] = c]
    BY <1>0, <1>1, <2>1, <2>2, <2>3, OwedUpdate, NullsOK DEF Enqueue, SetRow
  <2>5. Doing' = Doing
    BY <1>1, <1>d DEF Enqueue
  <2> QED
    BY <1>1, <2>4, <2>5 DEF Enqueue, Mailbox!MNext, Mailbox!Submit
<1>2. ASSUME NEW c \in Commands, NEW due \in BOOLEAN, EnqueueIfAbsent(c, due)
      PROVE  Mailbox!MNext
  <2>1. KeyOf[c] \in Keys
    BY ConstantsOK
  <2>2. NewRow(c, due) \in Rows /\ NewRow(c, due).payload = c
    BY NewRowType DEF NewRow
  <2>3. Doing' = Doing
    BY <1>2, <1>d DEF EnqueueIfAbsent
  <2>4. CASE row[KeyOf[c]] = NoRow
    <3>1. Owed' = [Owed EXCEPT ![KeyOf[c]] = c]
      BY <1>0, <1>2, <2>1, <2>2, <2>4, OwedUpdate, NullsOK DEF EnqueueIfAbsent, SetRow
    <3> QED
      BY <1>2, <2>3, <3>1 DEF EnqueueIfAbsent, Mailbox!MNext, Mailbox!Submit
  <2>5. CASE row[KeyOf[c]] # NoRow
    <3>1. Owed' = Owed
      BY <1>0, <1>2, <2>1, <2>5, OwedSame DEF EnqueueIfAbsent, SetRow
    <3>2. Owed[KeyOf[c]] # NoRun
      BY <1>0, <2>1, <2>5, Abstraction
    <3> QED
      BY <1>2, <2>3, <3>1, <3>2 DEF EnqueueIfAbsent, Mailbox!MNext, Mailbox!Absorb
  <2> QED
    BY <2>4, <2>5
<1>3. ASSUME NEW k \in Keys, DropTrigger(k)
      PROVE  Mailbox!MNext
  <2>1. Owed' = [Owed EXCEPT ![k] = NoRun]
    BY <1>0, <1>3, OwedUpdate DEF DropTrigger, SetRow
  <2>2. Owed[k] # NoRun
    BY <1>0, <1>3, Abstraction DEF DropTrigger
  <2> QED
    BY <1>3, <1>d, <2>1, <2>2 DEF DropTrigger, Mailbox!MNext, Mailbox!Withdraw
<1>4. ASSUME NEW s \in Slots, NEW k \in Keys, Claim(s, k)
      PROVE  Mailbox!MNext
  <2>1. row[k] # NoRow /\ row[k] \in Rows
    BY <1>0, <1>4 DEF Claim, Claimable, TypeOK
  <2>2. /\ Leased(row[k], s) \in Rows
        /\ Leased(row[k], s).payload = row[k].payload
        /\ LeasedJob(row[k], k) \in Runs
        /\ LeasedJob(row[k], k).payload = row[k].payload
    BY <2>1, LeasedType DEF Leased, LeasedJob
  <2>3. Owed' = Owed
    BY <1>0, <1>4, <2>1, <2>2, OwedSame, NullsOK DEF Claim, SetRow
  <2>4. Doing' = [Doing EXCEPT ![s] = row[k].payload]
    BY <1>0, <1>4, <2>2, NullsOK DEF Claim, Doing, TypeOK
  <2>5. Owed[k] = row[k].payload /\ Owed[k] # NoRun /\ Doing[s] = NoRun
    BY <1>0, <1>4, <2>1, Abstraction DEF Claim
  <2> QED
    BY <1>4, <2>3, <2>4, <2>5 DEF Claim, Mailbox!MNext, Mailbox!Begin
<1>5. ASSUME NEW s \in Slots, HeartbeatRenews(s)
      PROVE  Same
  <2>1. run[s].key \in Keys /\ row[run[s].key] # NoRow /\ row[run[s].key] \in Rows
    BY <1>0, <1>5, Lookup DEF HeartbeatRenews, At, Current, Holds
  <2>2. /\ [row[run[s].key] EXCEPT !.expired = FALSE] \in Rows
        /\ [row[run[s].key] EXCEPT !.expired = FALSE].payload = row[run[s].key].payload
    BY <2>1 DEF Rows
  <2>3. Owed' = Owed
    BY <1>0, <1>5, <2>1, <2>2, OwedSame, NullsOK DEF HeartbeatRenews, SetRow
  <2> QED
    BY <1>5, <1>b, <1>d, <2>3 DEF HeartbeatRenews
<1>6. ASSUME NEW s \in Slots, HeartbeatLosesLease(s) PROVE Mailbox!MNext
  BY <1>6, <1>a, <1>c DEF HeartbeatLosesLease, At
<1>7. ASSUME NEW s \in Slots, PersistPage(s) PROVE Same
  <2>1. run[s].key \in Keys /\ row[run[s].key] # NoRow /\ row[run[s].key] \in Rows
    BY <1>0, <1>7, Lookup DEF PersistPage, At, Current, Holds
  <2>2. /\ [row[run[s].key] EXCEPT !.attempts = 0] \in Rows
        /\ [row[run[s].key] EXCEPT !.attempts = 0].payload = row[run[s].key].payload
    BY <2>1 DEF Rows
  <2>3. Owed' = Owed
    BY <1>0, <1>7, <2>1, <2>2, OwedSame, NullsOK DEF PersistPage, SetRow
  <2>4. run[s] \in Runs /\ run[s] # NoRun /\ [run[s] EXCEPT !.paged = TRUE] \in Runs
    BY <1>0, <1>7, Lookup, RunUpdateTypes DEF PersistPage, At
  <2>5. [run[s] EXCEPT !.paged = TRUE].payload = run[s].payload
    BY <2>4 DEF Runs
  <2>6. Doing' = Doing
    BY <1>0, <1>7, <2>4, <2>5, DoingSame, NullsOK DEF PersistPage
  <2> QED
    BY <1>7, <1>b, <2>3, <2>6 DEF PersistPage
<1>8. ASSUME NEW s \in Slots, WorkSucceeds(s) PROVE Same
  BY <1>0, <1>8, <1>b, <1>c, DoingGoes DEF WorkSucceeds, At, Steps
<1>9. ASSUME NEW s \in Slots, WorkIsPostponed(s) PROVE Same
  BY <1>0, <1>9, <1>b, <1>c, DoingGoes DEF WorkIsPostponed, At, Steps
<1>10. ASSUME NEW s \in Slots, NEW retryable \in BOOLEAN, WorkFails(s, retryable)
       PROVE  Same
  <2> DEFINE failed == [run[s] EXCEPT !.step = "fail", !.retryable = retryable]
  <2>1. run[s] # NoRun /\ run[s] \in Runs /\ failed \in Runs
    BY <1>0, <1>10, Lookup, RunUpdateTypes DEF WorkFails, At
  <2>2. failed.payload = run[s].payload
    BY <2>1 DEF Runs
  <2>3. run' = [run EXCEPT ![s] = failed]
    BY <1>10 DEF WorkFails
  <2>4. Doing' = Doing
    BY <1>0, <2>1, <2>2, <2>3, DoingSame, NullsOK
  <2> QED
    BY <1>10, <1>b, <1>c, <2>4 DEF WorkFails
<1>11. ASSUME NEW s \in Slots, Complete(s)
       PROVE  Mailbox!MNext \/ Same
  <2>1. run[s] # NoRun /\ run[s].key \in Keys
    BY <1>0, <1>11, Lookup DEF Complete, At
  <2>2. CASE Current(s)
    <3>1. Owed' = [Owed EXCEPT ![run[s].key] = NoRun]
      BY <1>0, <1>11, <2>1, <2>2, OwedUpdate DEF Complete, SetRow
    <3>2. Doing' = [Doing EXCEPT ![s] = NoRun]
      BY <1>0, <1>11, <2>2, DoingEnds DEF Complete
    <3>3. Doing[s] # NoRun /\ Owed[run[s].key] = Doing[s]
      BY <1>0, <2>1, <2>2, Abstraction DEF Inv, RunSound, Current, Holds
    <3> QED
      BY <1>11, <2>1, <3>1, <3>2, <3>3 DEF Complete, Mailbox!MNext, Mailbox!Settle
  <2>3. CASE ~Current(s)
    BY <1>0, <1>11, <1>b, <1>c, <2>1, <2>3, DoingGoes DEF Complete, Steps
  <2> QED
    BY <2>2, <2>3
<1>12. ASSUME NEW s \in Slots, Postpone(s)
       PROVE  Mailbox!MNext \/ Same
  <2>1. run[s] # NoRun
    BY <1>12 DEF Postpone, At
  <2>2. CASE Current(s) /\ ~row[run[s].key].expired
    <3>1. row[run[s].key] # NoRow /\ row[run[s].key].attempts \in Nat
      BY <1>0, <2>1, <2>2, Lookup, ColumnTypes DEF Current, Holds
    <3>2. GivenBack(row[run[s].key].attempts) \in Nat
      BY <3>1 DEF GivenBack
    <3> QED
      BY <1>12, <1>a, <1>e, <2>1, <2>2, <3>1, <3>2 DEF Postpone
  <2>3. CASE ~(Current(s) /\ ~row[run[s].key].expired)
    BY <1>0, <1>12, <1>b, <1>c, <2>1, <2>3, DoingGoes DEF Postpone, Steps
  <2> QED
    BY <2>2, <2>3
<1>13. ASSUME NEW s \in Slots, Fail(s)
       PROVE  Mailbox!MNext \/ Same
  <2>1. run[s] # NoRun
    BY <1>13 DEF Fail, At
  <2>2. CASE Superseded(s)
    <3>1. /\ row[run[s].key] # NoRow
          /\ row[run[s].key].attempts \in Nat
          /\ row[run[s].key].due \in BOOLEAN
      BY <1>0, <2>1, <2>2, Lookup, ColumnTypes DEF Superseded, Holds
    <3> QED
      BY <1>13, <1>a, <1>e, <2>1, <2>2, <3>1 DEF Fail
  <2>3. CASE ~Superseded(s)
    BY <1>0, <1>13, <1>b, <1>c, <2>1, <2>3, DoingGoes DEF Fail, Steps
  <2> QED
    BY <2>2, <2>3
<1>14. ASSUME NEW s \in Slots, DeadLetter(s)
       PROVE  Mailbox!MNext \/ Same
  <2>1. run[s] # NoRun /\ run[s].key \in Keys
    BY <1>0, <1>14, Lookup DEF DeadLetter, At
  <2>2. CASE Current(s) /\ ArchiveAccepts(row[run[s].key])
    <3>1. Owed' = [Owed EXCEPT ![run[s].key] = NoRun]
      BY <1>0, <1>14, <2>1, <2>2, OwedUpdate DEF DeadLetter, SetRow
    <3>2. Doing' = [Doing EXCEPT ![s] = NoRun]
      BY <1>0, <1>14, <2>2, DoingEnds DEF DeadLetter
    <3>3. /\ Doing[s] # NoRun
          /\ Owed[run[s].key] = Doing[s]
          /\ Owed[run[s].key] = row[run[s].key].payload
      BY <1>0, <2>1, <2>2, Abstraction DEF Inv, RunSound, Current, Holds
    <3> QED
      BY <1>14, <2>1, <2>2, <3>1, <3>2, <3>3 DEF DeadLetter, Mailbox!MNext, Mailbox!Bury
  <2>3. CASE Current(s) /\ ~ArchiveAccepts(row[run[s].key])
    BY <1>14, <1>a, <1>c, <2>1, <2>3 DEF DeadLetter
  <2>4. CASE ~Current(s)
    BY <1>0, <1>14, <1>b, <1>c, <2>1, <2>4, DoingGoes DEF DeadLetter, Steps
  <2> QED
    BY <2>2, <2>3, <2>4
<1>15. ASSUME NEW s \in Slots, Retry(s)
       PROVE  Mailbox!MNext \/ Same
  <2>1. run[s] # NoRun
    BY <1>15 DEF Retry, At
  <2>2. CASE Current(s)
    <3>1. row[run[s].key] # NoRow /\ row[run[s].key].attempts \in Nat
      BY <1>0, <2>1, <2>2, Lookup, ColumnTypes DEF Current, Holds
    <3> QED
      BY <1>15, <1>a, <1>e, <2>1, <2>2, <3>1 DEF Retry
  <2>3. CASE ~Current(s)
    BY <1>0, <1>15, <1>b, <1>c, <2>1, <2>3, DoingGoes DEF Retry, Steps
  <2> QED
    BY <2>2, <2>3
<1>16. ASSUME NEW s \in Slots, ReleaseSuperseded(s) PROVE Mailbox!MNext
  <2>1. run[s] # NoRun
    BY <1>16 DEF ReleaseSuperseded, At
  <2>2. CASE Superseded(s)
    <3>1. /\ row[run[s].key] # NoRow
          /\ row[run[s].key].attempts \in Nat
          /\ row[run[s].key].due \in BOOLEAN
      BY <1>0, <2>1, <2>2, Lookup, ColumnTypes DEF Superseded, Holds
    <3> QED
      BY <1>16, <1>a, <1>e, <2>1, <2>2, <3>1 DEF ReleaseSuperseded
  <2>3. CASE ~Superseded(s)
    BY <1>16, <1>a, <1>c, <2>1, <2>3 DEF ReleaseSuperseded
  <2> QED
    BY <2>2, <2>3
<1>17. ASSUME NEW s \in Slots, Abandon(s) PROVE Mailbox!MNext
  BY <1>17, <1>a, <1>c DEF Abandon
<1>18. ASSUME NEW k \in Keys, BecomeDue(k) PROVE Same
  <2>1. row[k] # NoRow /\ row[k] \in Rows
    BY <1>0, <1>18 DEF BecomeDue, TypeOK
  <2>2. [row[k] EXCEPT !.due = TRUE] \in Rows
        /\ [row[k] EXCEPT !.due = TRUE].payload = row[k].payload
    BY <2>1 DEF Rows
  <2> QED
    BY <1>0, <1>18, <1>b, <1>d, <2>1, <2>2, OwedSame, NullsOK DEF BecomeDue, SetRow
<1>19. ASSUME NEW k \in Keys, LeaseRunsOut(k) PROVE Same
  <2>1. row[k] # NoRow /\ row[k] \in Rows
    BY <1>0, <1>19 DEF LeaseRunsOut, TypeOK
  <2>2. [row[k] EXCEPT !.expired = TRUE] \in Rows
        /\ [row[k] EXCEPT !.expired = TRUE].payload = row[k].payload
    BY <2>1 DEF Rows
  <2> QED
    BY <1>0, <1>19, <1>b, <1>d, <2>1, <2>2, OwedSame, NullsOK DEF LeaseRunsOut, SetRow
<1>20. ASSUME NEW k \in Keys, ReleaseExpired(k) PROVE Same
  <2>1. row[k] # NoRow /\ Unleased(row[k], row[k].attempts, TRUE) \in Rows
    BY <1>0, <1>20, FreedRow DEF ReleaseExpired
  <2>2. Unleased(row[k], row[k].attempts, TRUE).payload = row[k].payload
    BY DEF Unleased
  <2> QED
    BY <1>0, <1>20, <1>b, <1>d, <2>1, <2>2, OwedSame, NullsOK DEF ReleaseExpired, SetRow
<1>21. ASSUME NEW k \in Keys, RecoverExhausted(k) PROVE Mailbox!MNext
  <2>1. Owed' = [Owed EXCEPT ![k] = NoRun]
    BY <1>0, <1>21, OwedUpdate DEF RecoverExhausted, SetRow
  <2>2. row[k].attempts > 0
    BY <1>0, <1>21 DEF RecoverExhausted, Inv, RowSound, TypeOK, Rows
  <2>3. Owed[k] = row[k].payload /\ Owed[k] \in begun
    BY <1>0, <1>21, <2>2, Abstraction DEF RecoverExhausted, Inv, RowSound
  <2> QED
    BY <1>21, <1>d, <2>1, <2>3 DEF RecoverExhausted, Mailbox!MNext, Mailbox!GiveUp
<1>22. CASE UNCHANGED vars
  BY <1>22, <1>b, <1>c, <1>d DEF vars
<1>23. CASE Produce
  BY <1>1, <1>2, <1>3, <1>23 DEF Produce
<1>24. CASE Execute
  <2>1. PICK s \in Slots :
          \/ \E k \in Keys : Claim(s, k)
          \/ HeartbeatRenews(s)
          \/ HeartbeatLosesLease(s)
          \/ PersistPage(s)
          \/ Return(s)
          \/ Conclude(s)
          \/ Abandon(s)
    BY <1>24 DEF Execute
  <2>2. CASE Return(s)
    BY <1>8, <1>9, <1>10, <2>2 DEF Return
  <2>3. CASE Conclude(s)
    BY <1>11, <1>12, <1>13, <1>14, <1>15, <1>16, <2>3 DEF Conclude
  <2> QED
    BY <1>4, <1>5, <1>6, <1>7, <1>17, <2>1, <2>2, <2>3
<1>25. CASE Sweep
  BY <1>18, <1>19, <1>20, <1>21, <1>25 DEF Sweep
<1> QED
  BY <1>22, <1>23, <1>24, <1>25 DEF Next

(* The queue implements the newest-wins, at-least-once mailbox.            *)
THEOREM Refinement == Spec => ImplementsMailbox
<1>1. Init => Mailbox!MInit
  BY DEF Init, Mailbox!MInit, Owed, Doing
<1>2. Inv /\ [Next]_vars => [Mailbox!MNext]_Mailbox!mvars
  BY MailboxStep
<1> QED
  BY <1>1, <1>2, InvHolds, PTL DEF Spec, ImplementsMailbox, Mailbox!MSpec

---------------------------------------------------------------------------
(* The ingress accepts a command at most once and loses none.              *)

(* The empty stream satisfies the invariant.                               *)
LEMMA IngressInit == Ingress!Init => Ingress!IndInv
BY IngressOK DEF Ingress!IngressAssumption, Ingress!Init, Ingress!IndInv, Ingress!TypeOK,
     Ingress!AcceptedOnce, Ingress!NothingLost, Ingress!ReceiptsSound,
              Ingress!TasksSound, Ingress!States

(* Every step of the stream, a task, the housekeeping or the clock keeps   *)
(* the domains.                                                            *)
LEMMA IngressTypes == Ingress!TypeOK /\ [Ingress!Next]_Ingress!vars => Ingress!TypeOK'
<1> SUFFICES ASSUME Ingress!TypeOK, [Ingress!Next]_Ingress!vars PROVE Ingress!TypeOK'
  OBVIOUS
<1> USE IngressOK DEF Ingress!IngressAssumption, Ingress!TypeOK, Ingress!States,
     Ingress!Deliveries, Ingress!TaskSteps
<1>1. CASE Ingress!Stream
  BY <1>1 DEF Ingress!Stream, Ingress!Publish, Ingress!Deliver, Ingress!AckWaitEnds,
       Ingress!Expire, Ingress!Fault
<1>2. ASSUME NEW t \in Tasks, Ingress!Process(t) PROVE Ingress!TypeOK'
  <2>1. CASE Ingress!Accept(t)
    BY <2>1 DEF Ingress!Accept, Ingress!At, Ingress!Take, Ingress!Goto, Ingress!Fault
  <2>2. CASE Ingress!EnqueueFails(t)
    BY <2>2 DEF Ingress!EnqueueFails, Ingress!At, Ingress!Goto, Ingress!Fault
  <2>3. CASE Ingress!Refuse(t)
    BY <2>3 DEF Ingress!Refuse, Ingress!At, Ingress!Goto, Ingress!Fault
  <2>4. CASE Ingress!Acknowledge(t)
    BY <2>4 DEF Ingress!Acknowledge, Ingress!At, Ingress!EndTask, Ingress!Fault
  <2>5. CASE Ingress!Retry(t)
    BY <2>5 DEF Ingress!Retry, Ingress!At, Ingress!EndTask, Ingress!Returned, Ingress!Fault
  <2>6. CASE Ingress!HandBack(t)
    BY <2>6 DEF Ingress!HandBack, Ingress!At, Ingress!EndTask, Ingress!Returned, Ingress!Fault
  <2>7. CASE Ingress!Crash(t)
    BY <2>7 DEF Ingress!Crash, Ingress!EndTask, Ingress!Fault
  <2> QED BY <1>2, <2>1, <2>2, <2>3, <2>4, <2>5, <2>6, <2>7 DEF Ingress!Process
<1>3. CASE Ingress!Queue
  BY <1>3 DEF Ingress!Queue, Ingress!Leave, Ingress!CleanUp
<1>4. CASE Ingress!Tick
  BY <1>4 DEF Ingress!Tick
<1>5. CASE UNCHANGED Ingress!vars
  BY <1>5 DEF Ingress!vars
<1> QED BY <1>1, <1>2, <1>3, <1>4, <1>5 DEF Ingress!Next

(* What every conjunct but the type says of one command and of one task.   *)
CommandSound(c) ==
    /\ accepted[c] <= 1
    /\ msg[c] = "gone"
       => \/ IF c \in Invalid THEN c \in dead ELSE accepted[c] >= 1
          \/ now >= sentAt[c] + MaxAge
    /\ sentAt[c] <= now
    /\ msg[c] = "unsent" => accepted[c] = 0
    /\ c \in Invalid => accepted[c] = 0
    /\ receipt[c] # Never => accepted[c] = 1 /\ sentAt[c] <= receipt[c]
    /\ accepted[c] # 0 /\ receipt[c] = Never => now > sentAt[c] + ReceiptAge

TaskSound(t) ==
    LET d == task[t]
    IN  d # NoTask
        => /\ msg[d.cmd] # "unsent"
           /\ d.since < sentAt[d.cmd] + MaxAge
           /\ now <= d.since + Hold
           /\ d.step = "ack" => IF d.cmd \in Invalid THEN d.cmd \in dead
                                ELSE accepted[d.cmd] # 0

(* The invariant, command by command and task by task.                     *)
LEMMA IngressParts ==
    Ingress!IndInv <=> /\ Ingress!TypeOK
                       /\ \A c \in Commands : CommandSound(c)
                       /\ \A t \in Tasks : TaskSound(t)
BY DEF Ingress!IndInv, Ingress!AcceptedOnce, Ingress!NothingLost, Ingress!ReceiptsSound,
     Ingress!TasksSound,
       CommandSound, TaskSound

(* Every step keeps the invariant.  The interesting one is Accept: the     *)
(* task's delivery is at most Hold old, so the receipt of its command, had *)
(* there been one, is still there.                                         *)
LEMMA IngressStep == Ingress!IndInv /\ [Ingress!Next]_Ingress!vars => Ingress!IndInv'
<1> SUFFICES ASSUME Ingress!IndInv, [Ingress!Next]_Ingress!vars PROVE Ingress!IndInv'
  OBVIOUS
<1>t. Ingress!TypeOK /\ Ingress!TypeOK'
  BY IngressTypes DEF Ingress!IndInv
<1>i. /\ \A c \in Commands : CommandSound(c)
      /\ \A t \in Tasks : TaskSound(t)
  BY IngressParts
<1> SUFFICES /\ \A c \in Commands : CommandSound(c)'
             /\ \A t \in Tasks : TaskSound(t)'
  BY <1>t DEF Ingress!IndInv, Ingress!AcceptedOnce, Ingress!NothingLost,
       Ingress!ReceiptsSound, Ingress!TasksSound,
              CommandSound, TaskSound
<1> USE IngressOK DEF Ingress!IngressAssumption, Ingress!TypeOK, Ingress!States,
     Ingress!Deliveries, Ingress!TaskSteps
<1>1. CASE Ingress!Stream
  <2> PICK d \in Commands : \/ Ingress!Publish(d)
                            \/ \E t \in Tasks : Ingress!Deliver(d, t)
                            \/ Ingress!AckWaitEnds(d)
                            \/ Ingress!Expire(d)
    BY <1>1 DEF Ingress!Stream
  <2>1. CASE Ingress!Publish(d)
    BY <1>t, <1>i, <2>1 DEF Ingress!Publish, CommandSound, TaskSound
  <2>2. ASSUME NEW t \in Tasks, Ingress!Deliver(d, t)
        PROVE  /\ \A c \in Commands : CommandSound(c)'
               /\ \A u \in Tasks : TaskSound(u)'
    BY <1>t, <1>i, <2>2 DEF Ingress!Deliver, CommandSound, TaskSound
  <2>3. CASE Ingress!AckWaitEnds(d)
    BY <1>t, <1>i, <2>3 DEF Ingress!AckWaitEnds, CommandSound, TaskSound
  <2>4. CASE Ingress!Expire(d)
    BY <1>t, <1>i, <2>4 DEF Ingress!Expire, CommandSound, TaskSound
  <2> QED BY <2>1, <2>2, <2>3, <2>4
<1>2. ASSUME NEW t \in Tasks, Ingress!Process(t)
      PROVE  /\ \A c \in Commands : CommandSound(c)'
             /\ \A u \in Tasks : TaskSound(u)'
  <2>1. CASE Ingress!Accept(t)
    <3> DEFINE d == task[t].cmd
    <3>1. /\ d \in Commands
          /\ task[t].since \in Nat
          /\ now <= task[t].since + Hold
          /\ task[t].since < sentAt[d] + MaxAge
          /\ msg[d] # "unsent"
          /\ d \notin Invalid
      BY <1>t, <1>i, <2>1 DEF Ingress!Accept, Ingress!At, TaskSound
    <3>2. ~ now > sentAt[d] + ReceiptAge
      BY <1>t, <3>1
    <3>3. /\ receipt[d] = Never => accepted[d] = 0
          /\ receipt[d] # Never => accepted[d] = 1
      BY <1>t, <1>i, <3>1, <3>2 DEF CommandSound
    <3>4. /\ accepted'[d] = 1
          /\ receipt'[d] # Never
          /\ sentAt[d] <= receipt'[d]
          /\ \A c \in Commands \ {d} : accepted'[c] = accepted[c] /\ receipt'[c] = receipt[c]
          /\ UNCHANGED <<now, msg, sentAt, dead>>
      <4>1. CASE receipt[d] = Never
        BY <1>t, <1>i, <2>1, <3>1, <3>3, <4>1 DEF Ingress!Accept, Ingress!Take, CommandSound
      <4>2. CASE receipt[d] # Never
        BY <1>t, <1>i, <2>1, <3>1, <3>3, <4>2 DEF Ingress!Accept, Ingress!Take, CommandSound
      <4> QED BY <4>1, <4>2
    <3>5. \A c \in Commands : CommandSound(c)'
      BY <1>t, <1>i, <3>1, <3>4 DEF CommandSound
    <3>6. \A u \in Tasks : TaskSound(u)'
      <4>1. \A u \in Tasks \ {t} : task'[u] = task[u]
        BY <1>t, <2>1 DEF Ingress!Accept, Ingress!Goto
      <4>2. task'[t].cmd = d /\ task'[t].since = task[t].since
        BY <1>t, <2>1 DEF Ingress!Accept, Ingress!At, Ingress!Goto
      <4>3. TaskSound(t)'
        BY <1>t, <1>i, <3>1, <3>4, <4>2 DEF TaskSound
      <4>4. ASSUME NEW u \in Tasks \ {t} PROVE TaskSound(u)'
        BY <1>t, <1>i, <3>4, <4>1, <4>4 DEF TaskSound, CommandSound
      <4> QED BY <4>3, <4>4
    <3> QED BY <3>5, <3>6
  <2>2. CASE Ingress!EnqueueFails(t)
    BY <1>t, <1>i, <2>2 DEF Ingress!EnqueueFails, Ingress!At, Ingress!Goto, CommandSound,
         TaskSound
  <2>3. CASE Ingress!Refuse(t)
    BY <1>t, <1>i, <2>3 DEF Ingress!Refuse, Ingress!At, Ingress!Goto, CommandSound, TaskSound
  <2>4. CASE Ingress!Acknowledge(t)
    BY <1>t, <1>i, <2>4 DEF Ingress!Acknowledge, Ingress!At, Ingress!EndTask, CommandSound,
         TaskSound
  <2>5. CASE Ingress!Retry(t)
    BY <1>t, <1>i, <2>5 DEF Ingress!Retry, Ingress!At, Ingress!EndTask, Ingress!Returned,
         CommandSound, TaskSound
  <2>6. CASE Ingress!HandBack(t)
    BY <1>t, <1>i, <2>6 DEF Ingress!HandBack, Ingress!At, Ingress!EndTask, Ingress!Returned,
         CommandSound, TaskSound
  <2>7. CASE Ingress!Crash(t)
    BY <1>t, <1>i, <2>7 DEF Ingress!Crash, Ingress!EndTask, CommandSound, TaskSound
  <2> QED BY <1>2, <2>1, <2>2, <2>3, <2>4, <2>5, <2>6, <2>7 DEF Ingress!Process
<1>3. CASE Ingress!Queue
  BY <1>t, <1>i, <1>3 DEF Ingress!Queue, Ingress!Leave, Ingress!CleanUp, CommandSound, TaskSound
<1>4. CASE Ingress!Tick
  BY <1>t, <1>i, <1>4 DEF Ingress!Tick, CommandSound, TaskSound
<1>5. CASE UNCHANGED Ingress!vars
  BY <1>t, <1>i, <1>5 DEF Ingress!vars, CommandSound, TaskSound
<1> QED BY <1>1, <1>2, <1>3, <1>4, <1>5 DEF Ingress!Next

(* The inductive invariant holds in every reachable state.                 *)
THEOREM IngressInvariant == Ingress!Spec => []Ingress!IndInv
BY IngressInit, IngressStep, PTL DEF Ingress!Spec

(* A command becomes a job at most once: accept_job_command and            *)
(* enqueue.sql absorb every redelivery, because its receipt outlives it.   *)
THEOREM IngressOnce == Ingress!Spec => []AcceptedOnce
<1>1. Ingress!IndInv => AcceptedOnce
  BY DEF Ingress!IndInv, AcceptedOnce
<1> QED BY <1>1, IngressInvariant, PTL

(* No command is lost between the stream and the queue: the consumer       *)
(* acknowledges only after the enqueue or the dead letter is stored.       *)
THEOREM IngressKeeps == Ingress!Spec => []NothingLost
<1>1. Ingress!IndInv => NothingLost
  BY DEF Ingress!IndInv, NothingLost
<1> QED BY <1>1, IngressInvariant, PTL

---------------------------------------------------------------------------
(* The slot accounting of the lane.                                        *)

(* Where the worker's vector and the sweep's batch are empty.              *)
LanePhases ==
    /\ worker \in {"idle", "take"} => slots = 0
    /\ worker \in {"drop", "settle"} => jobs <= slots
    /\ worker = "drop" => jobs = 0
    /\ batch = "none" => running = 0
    /\ batch \in {"take"} => queue > 0

(* The inductive invariant.                                                *)
LaneIndInv ==
    /\ Lane!TypeOK /\ Lane!SlotsAccounted /\ Lane!WithinConcurrency /\ Lane!SweepGivesAllBack
    /\ LanePhases

(* LookupLane::cap is at least one slot and at most the base.              *)
LEMMA CapRange == ASSUME limit \in Nat PROVE Lane!Cap \in 1..Lane!Base
<1> DEFINE d == Lane!Most(Ceiling, 1)
           n == Lane!Base * limit
<1>1. Lane!Base \in Nat /\ Lane!Base >= 1
  BY LaneOK DEF Lane!LaneAssumption, Lane!Base, Lane!Most
<1>2. d \in Nat /\ d >= 1
  BY LaneOK DEF Lane!LaneAssumption, Lane!Most
<1>3. n \in Nat
  BY <1>1
<1>4. Lane!Cap = Lane!Least(Lane!Most(Lane!CeilDiv(n, d), 1), Lane!Base)
  BY DEF Lane!Cap
<1> HIDE DEF n, d
<1>5. Lane!CeilDiv(n, d) \in Nat
  BY <1>2, <1>3 DEF Lane!CeilDiv
<1> QED BY <1>1, <1>4, <1>5 DEF Lane!Least, Lane!Most

(* The sweep's share of any cap is a number of slots.                      *)
LEMMA ShareType == ASSUME NEW c \in Nat PROVE Lane!SweepShare(c) \in Nat
BY DEF Lane!SweepShare, Lane!CeilDiv

(* targeted_slots takes what is left of the cap beside the slots in use    *)
(* and the part of the sweep's share that the sweep wants and lacks.       *)
LEMMA RoomFits ==
    ASSUME Lane!TypeOK
    PROVE  /\ Lane!Room(cap) \in Nat
           /\ Lane!Room(cap) > 0
              => targeted + Lane!Room(cap) + Lane!Most(sweep, Lane!Least(wants,
                   Lane!SweepShare(cap))) <= cap
<1>1. cap \in Nat /\ Lane!SweepShare(cap) \in Nat
  BY LaneOK, ShareType DEF Lane!LaneAssumption, Lane!TypeOK, Lane!Base, Lane!Most
<1> QED BY <1>1 DEF Lane!TypeOK, Lane!Room, Lane!KeptForSweep, Lane!Minus, Lane!Most, Lane!Least

(* The empty lane satisfies the invariant.                                 *)
LEMMA LaneInit == Lane!Init => LaneIndInv
<1> SUFFICES ASSUME Lane!Init PROVE LaneIndInv
  OBVIOUS
<1>1. Lane!Base \in Nat /\ Lane!Floor \in Nat /\ Lane!Floor <= Ceiling /\ Ceiling \in Nat
  BY LaneOK DEF Lane!LaneAssumption, Lane!Base, Lane!Floor, Lane!Least, Lane!Most
<1>2. Lane!TypeOK
  <2>1. /\ limit \in Lane!Floor..Ceiling
        /\ cap \in 0..Lane!Base /\ sweepCap \in 0..Lane!Base
        /\ sweeps \in Nat /\ moves \in Nat
    BY <1>1, LaneOK DEF Lane!LaneAssumption, Lane!Init
  <2>2. waiting \in BOOLEAN /\ worker \in Lane!WorkerSteps /\ batch \in Lane!BatchSteps
    BY DEF Lane!Init, Lane!WorkerSteps, Lane!BatchSteps
  <2> QED BY <2>1, <2>2 DEF Lane!Init, Lane!TypeOK
<1>3. Lane!SlotsAccounted /\ Lane!WithinConcurrency /\ Lane!SweepGivesAllBack /\ LanePhases
  BY <1>1 DEF Lane!Init, Lane!SlotsAccounted, Lane!WithinConcurrency, Lane!SweepGivesAllBack,
       LanePhases
<1> QED BY <1>2, <1>3 DEF LaneIndInv

(* Every step of the governor, the worker, a lookup or the sweep keeps the *)
(* invariant.                                                              *)
LEMMA LaneStep == LaneIndInv /\ [Lane!Next]_Lane!vars => LaneIndInv'
<1> SUFFICES ASSUME LaneIndInv, [Lane!Next]_Lane!vars PROVE LaneIndInv'
  OBVIOUS
<1> USE DEF LaneIndInv, Lane!SlotsAccounted, Lane!WithinConcurrency, Lane!SweepGivesAllBack,
     LanePhases,
            Lane!WorkerSteps, Lane!BatchSteps, Lane!Minus
<1>b. /\ Lane!Base \in Nat /\ Lane!Base >= 1 /\ Ceiling \in Nat
      /\ Lane!Floor \in Nat /\ Lane!Floor <= Ceiling
  BY LaneOK DEF Lane!LaneAssumption, Lane!Base, Lane!Floor, Lane!Most, Lane!Least
<1>l. limit \in Nat /\ Lane!Cap \in 1..Lane!Base
  BY <1>b, CapRange DEF Lane!TypeOK
<1>1. CASE Lane!Adjust
  <2>1. Lane!Lowered \in Lane!Floor..Ceiling /\ Lane!Raised \in Lane!Floor..Ceiling
    BY <1>b DEF Lane!TypeOK, Lane!Lowered, Lane!Raised, Lane!Most, Lane!Least
  <2> QED BY <1>1, <2>1 DEF Lane!Adjust, Lane!TypeOK, Lane!lane, Lane!work, Lane!batches
<1>2. CASE Lane!ReadCap
  BY <1>2, <1>b, <1>l DEF Lane!ReadCap, Lane!TypeOK, Lane!lane, Lane!batches
<1>3. CASE Lane!TargetedSlots
  <2>1. /\ Lane!Room(cap) \in Nat
        /\ Lane!Room(cap) > 0
           => targeted + Lane!Room(cap) + Lane!Most(sweep, Lane!Least(wants,
                Lane!SweepShare(cap))) <= cap
    BY RoomFits
  <2>2. Lane!Most(sweep, Lane!Least(wants, Lane!SweepShare(cap))) >= sweep
    <3>1. Lane!SweepShare(cap) \in Nat
      BY <1>b, ShareType DEF Lane!TypeOK
    <3> QED BY <3>1 DEF Lane!Most, Lane!Least, Lane!TypeOK
  <2>3. Lane!Most(sweep, Lane!Least(wants, Lane!SweepShare(cap))) \in Nat
    <3>1. Lane!SweepShare(cap) \in Nat
      BY <1>b, ShareType DEF Lane!TypeOK
    <3> QED BY <3>1 DEF Lane!Most, Lane!Least, Lane!TypeOK
  <2> QED BY <1>3, <1>b, <2>1, <2>2, <2>3 DEF Lane!TargetedSlots, Lane!TypeOK, Lane!batches
<1>4. CASE Lane!ClaimReturns
  BY <1>4 DEF Lane!ClaimReturns, Lane!TypeOK, Lane!lane, Lane!batches
<1>5. CASE Lane!ClaimFails
  BY <1>5 DEF Lane!ClaimFails, Lane!TypeOK, Lane!lane, Lane!batches
<1>6. CASE Lane!DropSlot
  BY <1>6, <1>b DEF Lane!DropSlot, Lane!TypeOK, Lane!batches
<1>7. CASE Lane!ClaimGivenUp
  BY <1>7 DEF Lane!ClaimGivenUp, Lane!TypeOK, Lane!lane, Lane!batches
<1>8. CASE Lane!SettleClaim
  BY <1>8, <1>b DEF Lane!SettleClaim, Lane!TypeOK, Lane!batches
<1>9. CASE Lane!LookupEnds
  BY <1>9, <1>b DEF Lane!LookupEnds, Lane!TypeOK, Lane!batches
<1>10. CASE Lane!StartSweep
  BY <1>10, LaneOK DEF Lane!LaneAssumption, Lane!StartSweep, Lane!TypeOK, Lane!lane, Lane!work
<1>11. CASE Lane!Demand
  BY <1>11 DEF Lane!Demand, Lane!TypeOK, Lane!work
<1>12. CASE Lane!ReadSweepCap
  BY <1>12, <1>b, <1>l DEF Lane!ReadSweepCap, Lane!TypeOK, Lane!lane, Lane!work
<1>13. CASE Lane!SweepSlot
  BY <1>13, <1>b DEF Lane!SweepSlot, Lane!TypeOK, Lane!work
<1>14. CASE Lane!NothingQueued
  BY <1>14 DEF Lane!NothingQueued, Lane!TypeOK, Lane!work
<1>15. CASE Lane!SweepLookupEnds
  BY <1>15, <1>b DEF Lane!SweepLookupEnds, Lane!TypeOK, Lane!work
<1>16. CASE Lane!LookAgain
  BY <1>16 DEF Lane!LookAgain, Lane!TypeOK, Lane!lane, Lane!work
<1>17. CASE Lane!SweepCancelled
  BY <1>17 DEF Lane!SweepCancelled, Lane!TypeOK, Lane!lane, Lane!work
<1>18. CASE Lane!DropSweep
  BY <1>18, <1>b DEF Lane!DropSweep, Lane!TypeOK, Lane!work
<1>19. CASE UNCHANGED Lane!vars
  BY <1>19 DEF Lane!vars, Lane!lane, Lane!work, Lane!batches, Lane!TypeOK
<1> QED
  BY <1>1, <1>2, <1>3, <1>4, <1>5, <1>6, <1>7, <1>8, <1>9, <1>10, <1>11, <1>12, <1>13,
     <1>14, <1>15, <1>16, <1>17, <1>18, <1>19 DEF Lane!Next, Lane!Worker, Lane!Sweeping

(* What a step grants fits the cap it read and keeps the other's share.    *)
LEMMA LaneGrants == LaneIndInv /\ [Lane!Next]_Lane!vars => Lane!GrantStep \/ UNCHANGED Lane!vars
<1> SUFFICES ASSUME LaneIndInv, Lane!Next PROVE Lane!GrantStep
  BY DEF Lane!vars
<1>b. Lane!Base \in Nat /\ cap \in Nat /\ sweepCap \in Nat
  BY LaneOK DEF Lane!LaneAssumption, LaneIndInv, Lane!TypeOK, Lane!Base, Lane!Most
<1>1. CASE Lane!TargetedSlots
  BY <1>1, RoomFits DEF Lane!TargetedSlots, Lane!GrantStep, LaneIndInv, Lane!TypeOK
<1>2. CASE Lane!SweepSlot
  <2>1. Lane!SweepShare(sweepCap) \in Nat
    BY <1>b, ShareType
  <2> QED BY <1>2, <1>b, <2>1 DEF Lane!SweepSlot, Lane!GrantStep, Lane!SweepLimit,
       LaneIndInv, Lane!TypeOK
<1>3. CASE ~Lane!TargetedSlots /\ ~Lane!SweepSlot
  <2>1. targeted' <= targeted /\ sweep' <= sweep
    BY <1>3 DEF Lane!Next, Lane!Worker, Lane!Sweeping, Lane!Adjust, Lane!ReadCap,
         Lane!ClaimReturns, Lane!ClaimFails,
       Lane!DropSlot, Lane!ClaimGivenUp, Lane!SettleClaim, Lane!LookupEnds, Lane!StartSweep,
            Lane!Demand, Lane!ReadSweepCap,
       Lane!NothingQueued, Lane!SweepLookupEnds, Lane!LookAgain, Lane!SweepCancelled,
            Lane!DropSweep, Lane!lane, Lane!Minus,
       LaneIndInv, Lane!TypeOK
  <2>2. targeted \in Nat /\ sweep \in Nat /\ targeted' \in Nat /\ sweep' \in Nat
    BY LaneStep DEF LaneIndInv, Lane!TypeOK
  <2> QED BY <2>1, <2>2 DEF Lane!GrantStep
<1> QED BY <1>1, <1>2, <1>3

(* The inductive invariant holds in every reachable state.                 *)
THEOREM LaneInvariant == Lane!Spec => []LaneIndInv
BY LaneInit, LaneStep, PTL DEF Lane!Spec

(* The lane's books for every concurrency, ceiling and batch size: slots   *)
(* and lookups add up to the counters and stay within the concurrency,     *)
(* and a sweep that ended or was dropped keeps nothing.                    *)
THEOREM LaneBooks == Lane!Spec => []LaneInv
<1>1. LaneIndInv => LaneInv
  BY DEF LaneIndInv, LaneInv, Lane!LaneInv
<1> QED BY <1>1, LaneInvariant, PTL

(* targeted_slots and sweep_slot grant within the cap and the shares.      *)
THEOREM LaneShares == Lane!Spec => GrantsKeepShares
BY LaneInvariant, LaneGrants, PTL
DEF Lane!Spec, GrantsKeepShares, Lane!GrantsKeepShares
=============================================================================
