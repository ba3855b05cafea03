---------------------------- MODULE MediaProofs ----------------------------
(***************************************************************************)
(* What the recordings promise: the copies of the streaming service, the   *)
(* quota of the storage service's temporary directory, its uploads and     *)
(* their events, for every number of nodes, plays, uploads, files, chunks  *)
(* and faults.                                                             *)
(***************************************************************************)
EXTENDS MCMedia, Sequences, FiniteSetTheorems, WellFoundedInduction, TLAPS

---------------------------------------------------------------------------
(* The copies of the streaming service.                                    *)

(* The constants of the copies.                                            *)
LEMMA CopyConstants ==
    /\ MaxRank \in Nat /\ MaxRank > 0 /\ MaxEvents \in Nat
    /\ FailuresToOpen \in Nat /\ FailuresToOpen > 0
    /\ CopyFaults \in Nat /\ MaxLosses \in Nat
    /\ NodeOf \in [Requests -> Nodes]
  BY CopiesOK DEF Copies!CopiesAssumption

(* Records that move to another step keep their kind.                      *)
LEMMA CopySteps ==
    /\ \A r \in Copies!Plays :
         \A s \in {"idle", "find", "verify", "lost", "fetch", "upgrade"} :
             [r EXCEPT !.pc = s] \in Copies!Plays
    /\ \A r \in Copies!Tasks :
         \A s \in {"none", "insert", "sent", "mark", "settle", "ok", "error"} :
             [r EXCEPT !.pc = s] \in Copies!Tasks
    /\ \A r \in Copies!Jobs :
         \A s \in {"none", "sent", "stored", "rejected", "failed"} :
             [r EXCEPT !.pc = s] \in Copies!Jobs
    /\ Copies!Idle \in Copies!Plays /\ Copies!NoTask \in Copies!Tasks
    /\ Copies!NoTask \in Copies!Jobs
<1>1. ASSUME NEW r \in Copies!Plays,
             NEW s \in {"idle", "find", "verify", "lost", "fetch", "upgrade"}
      PROVE  [r EXCEPT !.pc = s] \in Copies!Plays
  BY DEF Copies!Plays
<1>2. ASSUME NEW r \in Copies!Tasks,
             NEW s \in {"none", "insert", "sent", "mark", "settle", "ok", "error"}
      PROVE  [r EXCEPT !.pc = s] \in Copies!Tasks
  BY DEF Copies!Tasks
<1>3. ASSUME NEW r \in Copies!Jobs, NEW s \in {"none", "sent", "stored", "rejected", "failed"}
      PROVE  [r EXCEPT !.pc = s] \in Copies!Jobs
  BY DEF Copies!Jobs
<1>4. 0 \in 0..MaxRank
  BY CopyConstants
<1>5. Copies!Idle \in Copies!Plays
  BY <1>4, Zenon DEF Copies!Plays, Copies!Idle
<1>6. Copies!NoTask \in Copies!Tasks /\ Copies!NoTask \in Copies!Jobs
  BY <1>4 DEF Copies!Tasks, Copies!Jobs, Copies!NoTask
<1> QED BY <1>1, <1>2, <1>3, <1>5, <1>6

(* A breaker that succeeds, fails or cools down is a breaker.              *)
LEMMA CopyBreaker ==
    ASSUME NEW b \in Copies!Breakers
    PROVE  /\ Copies!Succeed(b) \in Copies!Breakers
           /\ Copies!Fail(b) \in Copies!Breakers
           /\ Copies!Closed \in Copies!Breakers
           /\ [b EXCEPT !.open = FALSE] \in Copies!Breakers
<1>2. Copies!Succeed(b) \in Copies!Breakers /\ Copies!Closed \in Copies!Breakers
  BY CopyConstants DEF Copies!Breakers, Copies!Succeed, Copies!Closed
<1>3. Copies!Fail(b) \in Copies!Breakers
  <2> DEFINE count == IF b.failures < FailuresToOpen THEN b.failures + 1 ELSE b.failures
             opened == b.open \/ count = FailuresToOpen
  <2>1. count \in 0..FailuresToOpen
    BY CopyConstants DEF Copies!Breakers
  <2>2. opened \in BOOLEAN
    BY Zenon
  <2>3. Copies!Fail(b) = [failures |-> count, open |-> opened]
    BY Zenon DEF Copies!Fail
  <2>4. \A c \in 0..FailuresToOpen, o \in BOOLEAN : [failures |-> c, open |-> o] \in Copies!Breakers
    BY Zenon DEF Copies!Breakers
  <2>5. [failures |-> count, open |-> opened] \in Copies!Breakers
    BY <2>1, <2>2, <2>4, Zenon
  <2> QED BY <2>3, <2>5, Zenon
<1>4. [b EXCEPT !.open = FALSE] \in Copies!Breakers
  BY DEF Copies!Breakers
<1> QED BY <1>2, <1>3, <1>4

(* A row that is written or marked is a row.                               *)
LEMMA CopyRow ==
    ASSUME row \in Copies!Rows, recent \in BOOLEAN
    PROVE  /\ [row EXCEPT !.heard = TRUE] \in Copies!Rows
           /\ [row EXCEPT !.repaired = TRUE] \in Copies!Rows
           /\ \A a \in {"fresh", "due", "old"} : [row EXCEPT !.age = a] \in Copies!Rows
           /\ Copies!Forget => row' \in Copies!Rows
           /\ \A s \in {"none", "pending", "ok", "error"} : \A q \in 0..MaxRank :
                Copies!WriteRow(s, q) => row' \in Copies!Rows
           /\ row.q \in 0..MaxRank
<1>1. /\ [row EXCEPT !.heard = TRUE] \in Copies!Rows
      /\ [row EXCEPT !.repaired = TRUE] \in Copies!Rows /\ row.q \in 0..MaxRank
      /\ \A a \in {"fresh", "due", "old"} : [row EXCEPT !.age = a] \in Copies!Rows
  BY DEF Copies!Rows
<1>2. ASSUME Copies!Forget PROVE row' \in Copies!Rows
  BY <1>2 DEF Copies!Forget, Copies!Rows
<1>3. ASSUME NEW s \in {"none", "pending", "ok", "error"}, NEW q \in 0..MaxRank, Copies!WriteRow(s, q)
      PROVE  row' \in Copies!Rows
  BY <1>3, Zenon DEF Copies!WriteRow, Copies!Rows
<1> QED BY <1>1, <1>2, <1>3

(* The empty storage satisfies the invariant.                              *)
LEMMA CopyInit == Copies!Init => Copies!IndInv
<1> SUFFICES ASSUME Copies!Init PROVE Copies!IndInv
  OBVIOUS
<1>0. 0 \in 0..MaxRank /\ 0 \in 0..CopyFaults /\ 0 \in 0..MaxLosses /\ 0 <= MaxEvents
  BY CopyConstants
<1>1. Copies!TypeOK
  <2>1. row \in Copies!Rows
    BY <1>0, Zenon DEF Copies!Init, Copies!Rows
  <2>2. track \in Copies!Stored
    BY <1>0, Zenon DEF Copies!Init, Copies!Stored
  <2>3. Copies!Closed \in Copies!Breakers
    BY CopyConstants DEF Copies!Breakers, Copies!Closed
  <2>4. events \in Seq(0..MaxRank) /\ Len(events) <= MaxEvents
    BY <1>0 DEF Copies!Init
  <2> QED BY <1>0, <2>1, <2>2, <2>3, <2>4, CopySteps DEF Copies!Init, Copies!TypeOK
<1>2. Copies!SlotsTaken /\ Copies!SaidAfterStored
  BY DEF Copies!Init, Copies!SlotsTaken, Copies!SaidAfterStored, Copies!NoTask
<1> QED BY <1>1, <1>2 DEF Copies!IndInv

(* Every step of a play keeps the domains.                                 *)
LEMMA CopyPlayTypes ==
    ASSUME Copies!TypeOK, NEW p \in Requests, Copies!RequestStep(p)
    PROVE  Copies!TypeOK'
<1>n. NodeOf[p] \in Nodes /\ req[p] \in Copies!Plays
  BY CopyConstants DEF Copies!TypeOK
<1>k. Copies!KeptQuality \in 0..MaxRank /\ track.q \in 0..MaxRank
  BY CopyConstants DEF Copies!TypeOK, Copies!KeptQuality, Copies!Stored
<1>r. ASSUME NEW s \in {"idle", "find", "verify", "lost", "fetch", "upgrade"},
             NEW k \in 0..MaxRank
      PROVE  [pc |-> s, kept |-> k, looked |-> FALSE] \in Copies!Plays
  BY Zenon DEF Copies!Plays
<1>m. /\ [req EXCEPT ![p].pc = "find"] \in [Requests -> Copies!Plays]
      /\ [req EXCEPT ![p].pc = "fetch"] \in [Requests -> Copies!Plays]
      /\ [req EXCEPT ![p].pc = "lost"] \in [Requests -> Copies!Plays]
      /\ [req EXCEPT ![p] = Copies!Idle] \in [Requests -> Copies!Plays]
  BY <1>n, CopySteps DEF Copies!TypeOK
<1>u. ASSUME NEW q \in 0..MaxRank, Copies!TypeOK, Copies!UploadInBackground(p, q)
      PROVE  running' \in [Nodes -> BOOLEAN] /\ task' \in [Requests -> Copies!Tasks]
  <2>1. [pc |-> "insert", q |-> q] \in Copies!Tasks
    BY DEF Copies!Tasks
  <2> QED BY <2>1, <1>u DEF Copies!UploadInBackground, Copies!TypeOK
<1>1. ASSUME NEW wanted \in Copies!Ranks, Copies!Start(p, wanted) PROVE Copies!TypeOK'
  <2>1. req' \in [Requests -> Copies!Plays]
    BY <1>1, <1>k, <1>r DEF Copies!Start, Copies!TypeOK
  <2> QED BY <1>1, <2>1 DEF Copies!Start, Copies!TypeOK, Copies!records, Copies!breakers, Copies!budgets
<1>2. CASE Copies!StartUpgrade(p)
  <2>1. req' \in [Requests -> Copies!Plays]
    BY <1>2, <1>k, <1>r DEF Copies!StartUpgrade, Copies!TypeOK
  <2> QED BY <1>2, <2>1 DEF Copies!StartUpgrade, Copies!TypeOK, Copies!records, Copies!breakers,
        Copies!budgets
<1>3. CASE Copies!Find(p)
  <2> DEFINE s == IF ~reads[NodeOf[p]].open /\ row.status = "ok" THEN "verify" ELSE "fetch"
  <2>1. [[req[p] EXCEPT !.looked = TRUE] EXCEPT !.pc = s] \in Copies!Plays
    <3>1. [req[p] EXCEPT !.looked = TRUE] \in Copies!Plays
      BY <1>n DEF Copies!Plays
    <3> QED BY <3>1, CopySteps
  <2>2. req' = [req EXCEPT ![p] = [[req[p] EXCEPT !.looked = TRUE] EXCEPT !.pc = s]]
    BY <1>3 DEF Copies!Find, Copies!TypeOK
  <2>3. req' \in [Requests -> Copies!Plays]
    BY <2>1, <2>2 DEF Copies!TypeOK
  <2> QED BY <1>3, <2>3 DEF Copies!Find, Copies!TypeOK, Copies!records, Copies!breakers, Copies!budgets
<1>4. CASE Copies!Verify(p)
  <2>1. reads' \in [Nodes -> Copies!Breakers]
    <3>1. reads[NodeOf[p]] \in Copies!Breakers
      BY <1>n DEF Copies!TypeOK
    <3>2. /\ Copies!Succeed(reads[NodeOf[p]]) \in Copies!Breakers
          /\ Copies!Fail(reads[NodeOf[p]]) \in Copies!Breakers
      BY <3>1, CopyBreaker
    <3>3. \/ reads' = [reads EXCEPT ![NodeOf[p]] = Copies!Succeed(reads[NodeOf[p]])]
          \/ reads' = [reads EXCEPT ![NodeOf[p]] = Copies!Fail(reads[NodeOf[p]])]
          \/ reads' = reads
      BY <1>4, Zenon DEF Copies!Verify
    <3> QED BY <3>2, <3>3 DEF Copies!TypeOK
  <2>2. faults' \in 0..CopyFaults /\ losses' \in 0..MaxLosses
    BY <1>4, CopyConstants DEF Copies!Verify, Copies!Fault, Copies!TypeOK, Copies!budgets
  <2>3. req' \in [Requests -> Copies!Plays]
    BY <1>4, <1>m DEF Copies!Verify, Copies!TypeOK
  <2> QED BY <1>4, <2>1, <2>2, <2>3 DEF Copies!Verify, Copies!TypeOK, Copies!records
<1>5. CASE Copies!MarkStorageLost(p)
  <2>1. row' \in Copies!Rows
    BY <1>5, CopyRow DEF Copies!MarkStorageLost, Copies!TypeOK
  <2>2. track' \in Copies!Stored
    <3>0. track \in Copies!Stored /\ 0 \in 0..MaxRank
      BY CopyConstants DEF Copies!TypeOK
    <3>1. [track EXCEPT !.ok = FALSE, !.q = 0] \in Copies!Stored
      BY <3>0 DEF Copies!Stored
    <3> QED BY <3>1, <1>5 DEF Copies!MarkStorageLost, Copies!Forget, Copies!TypeOK
  <2>3. faults' \in 0..CopyFaults /\ losses' \in 0..MaxLosses
    BY <1>5, CopyConstants DEF Copies!MarkStorageLost, Copies!Fault, Copies!TypeOK, Copies!budgets
  <2>4. req' \in [Requests -> Copies!Plays]
    BY <1>5, CopySteps DEF Copies!MarkStorageLost, Copies!TypeOK
  <2> QED BY <1>5, <2>1, <2>2, <2>3, <2>4 DEF Copies!MarkStorageLost, Copies!TypeOK, Copies!breakers
<1>6. CASE Copies!Fetch(p)
  <2>1. req' \in [Requests -> Copies!Plays]
    BY <1>6, <1>m DEF Copies!Fetch, Copies!TypeOK
  <2>2. running' \in [Nodes -> BOOLEAN] /\ task' \in [Requests -> Copies!Tasks]
    <3>1. CASE UNCHANGED <<running, task>>
      BY <3>1 DEF Copies!TypeOK
    <3>2. ASSUME NEW q \in Copies!Ranks, Copies!UploadInBackground(p, q)
          PROVE  running' \in [Nodes -> BOOLEAN] /\ task' \in [Requests -> Copies!Tasks]
      <4>1. q \in 0..MaxRank
        BY CopyConstants DEF Copies!Ranks
      <4> QED BY <4>1, <3>2, <1>u
    <3> QED BY <1>6, <3>1, <3>2, Zenon DEF Copies!Fetch
  <2> QED BY <1>6, <2>1, <2>2 DEF Copies!Fetch, Copies!TypeOK, Copies!records, Copies!breakers,
        Copies!budgets
<1>7. CASE Copies!UpgradeOne(p)
  <2>1. req' \in [Requests -> Copies!Plays]
    BY <1>7, CopySteps DEF Copies!UpgradeOne, Copies!TypeOK
  <2>2. running' \in [Nodes -> BOOLEAN] /\ task' \in [Requests -> Copies!Tasks]
    <3>1. CASE UNCHANGED <<running, task>>
      BY <3>1 DEF Copies!TypeOK
    <3>2. ASSUME NEW q \in Copies!Ranks, Copies!UploadInBackground(p, q)
          PROVE  running' \in [Nodes -> BOOLEAN] /\ task' \in [Requests -> Copies!Tasks]
      <4>1. q \in 0..MaxRank
        BY CopyConstants DEF Copies!Ranks
      <4> QED BY <4>1, <3>2, <1>u
    <3> QED BY <1>7, <3>1, <3>2, Zenon DEF Copies!UpgradeOne
  <2> QED BY <1>7, <2>1, <2>2 DEF Copies!UpgradeOne, Copies!TypeOK, Copies!records, Copies!breakers,
        Copies!budgets
<1> QED BY <1>1, <1>2, <1>3, <1>4, <1>5, <1>6, <1>7 DEF Copies!RequestStep

(* So does every step of an upload.                                        *)
LEMMA CopyTaskTypes ==
    ASSUME Copies!TypeOK, NEW p \in Requests, Copies!TaskStep(p) \/ Copies!StorageHandles(p)
    PROVE  Copies!TypeOK'
<1>n. NodeOf[p] \in Nodes /\ task[p] \in Copies!Tasks /\ sent[p] \in Copies!Jobs
  BY CopyConstants DEF Copies!TypeOK
<1>q. task[p].q \in 0..MaxRank /\ sent[p].q \in 0..MaxRank
  BY <1>n DEF Copies!Tasks, Copies!Jobs
<1>e. Copies!EndTask(p) => running' \in [Nodes -> BOOLEAN] /\ task' \in [Requests -> Copies!Tasks]
  BY <1>n, CopySteps DEF Copies!EndTask, Copies!TypeOK
<1>f. Copies!Fault \/ UNCHANGED Copies!budgets => faults' \in 0..CopyFaults /\ losses' \in 0..MaxLosses
  BY CopyConstants DEF Copies!Fault, Copies!TypeOK, Copies!budgets
<1>1. CASE Copies!InsertPending(p)
  <2>1. row' \in Copies!Rows
    BY <1>1, CopyRow DEF Copies!InsertPending, Copies!InsertCdnTrack, Copies!TypeOK
  <2>2. running' \in [Nodes -> BOOLEAN] /\ task' \in [Requests -> Copies!Tasks]
    BY <1>1, <1>e, <1>n, CopySteps DEF Copies!InsertPending, Copies!TypeOK
  <2>3. sent' \in [Requests -> Copies!Jobs]
    <3>1. [pc |-> "sent", q |-> task[p].q] \in Copies!Jobs
      BY <1>q DEF Copies!Jobs
    <3> QED BY <1>1, <3>1 DEF Copies!InsertPending, Copies!TypeOK
  <2>4. faults' \in 0..CopyFaults /\ losses' \in 0..MaxLosses
    BY <1>1, <1>f DEF Copies!InsertPending
  <2> QED BY <1>1, <2>1, <2>2, <2>3, <2>4 DEF Copies!InsertPending, Copies!TypeOK, Copies!breakers
<1>2. CASE Copies!Answered(p)
  <2>1. uploads' \in [Nodes -> Copies!Breakers]
    BY <1>2, <1>n, CopyBreaker DEF Copies!Answered, Copies!TypeOK
  <2>2. task' \in [Requests -> Copies!Tasks] /\ sent' \in [Requests -> Copies!Jobs]
    BY <1>2, <1>n, CopySteps DEF Copies!Answered, Copies!TypeOK
  <2> QED BY <1>2, <2>1, <2>2 DEF Copies!Answered, Copies!TypeOK, Copies!records, Copies!budgets
<1>3. CASE Copies!TimedOut(p)
  <2>1. uploads' \in [Nodes -> Copies!Breakers]
    BY <1>3, <1>n, CopyBreaker DEF Copies!TimedOut, Copies!TypeOK
  <2>2. task' \in [Requests -> Copies!Tasks]
    BY <1>3, <1>n, CopySteps DEF Copies!TimedOut, Copies!TypeOK
  <2>3. faults' \in 0..CopyFaults /\ losses' \in 0..MaxLosses
    BY <1>3, <1>f DEF Copies!TimedOut
  <2> QED BY <1>3, <2>1, <2>2, <2>3 DEF Copies!TimedOut, Copies!TypeOK, Copies!records
<1>4. CASE Copies!MarkStored(p)
  <2>1. row' \in Copies!Rows
    BY <1>4, <1>q, CopyRow DEF Copies!MarkStored, Copies!TypeOK
  <2>2. running' \in [Nodes -> BOOLEAN] /\ task' \in [Requests -> Copies!Tasks]
    BY <1>4, <1>e DEF Copies!MarkStored
  <2>3. faults' \in 0..CopyFaults /\ losses' \in 0..MaxLosses
    BY <1>4, <1>f DEF Copies!MarkStored
  <2> QED BY <1>4, <2>1, <2>2, <2>3 DEF Copies!MarkStored, Copies!TypeOK, Copies!breakers
<1>5. CASE Copies!Settle(p)
  <2>1. task' \in [Requests -> Copies!Tasks]
    BY <1>5, <1>n, CopySteps DEF Copies!Settle, Copies!SettleFailedStatus, Copies!TypeOK
  <2>2. faults' \in 0..CopyFaults /\ losses' \in 0..MaxLosses
    BY <1>5, <1>f DEF Copies!Settle
  <2> QED BY <1>5, <2>1, <2>2 DEF Copies!Settle, Copies!TypeOK, Copies!breakers, Copies!records
<1>6. CASE Copies!UpdateStatus(p)
  <2>1. row' \in Copies!Rows
    BY <1>6, CopyRow DEF Copies!UpdateStatus, Copies!TypeOK
  <2>2. running' \in [Nodes -> BOOLEAN] /\ task' \in [Requests -> Copies!Tasks]
    BY <1>6, <1>e DEF Copies!UpdateStatus
  <2>3. faults' \in 0..CopyFaults /\ losses' \in 0..MaxLosses
    BY <1>6, <1>f DEF Copies!UpdateStatus
  <2> QED BY <1>6, <2>1, <2>2, <2>3 DEF Copies!UpdateStatus, Copies!TypeOK, Copies!breakers
<1>7. CASE Copies!StorageHandles(p)
  <2>1. sent' \in [Requests -> Copies!Jobs]
    BY <1>7, <1>n, CopySteps DEF Copies!StorageHandles, Copies!TypeOK
  <2>2. copy' \in 0..MaxRank /\ gone' \in BOOLEAN
    BY <1>7, <1>q DEF Copies!StorageHandles, Copies!TypeOK
  <2>3. events' \in Seq(0..MaxRank) /\ Len(events') <= MaxEvents
    <3>1. ASSUME Len(events) < MaxEvents
          PROVE  /\ Append(events, sent[p].q) \in Seq(0..MaxRank)
                 /\ Len(Append(events, sent[p].q)) <= MaxEvents
      BY <1>q, <3>1, CopyConstants DEF Copies!TypeOK
    <3>2. \/ UNCHANGED events
          \/ Len(events) < MaxEvents /\ events' = Append(events, sent[p].q)
      BY <1>7, Zenon DEF Copies!StorageHandles
    <3> QED BY <3>1, <3>2 DEF Copies!TypeOK
  <2>4. faults' \in 0..CopyFaults /\ losses' \in 0..MaxLosses
    BY <1>7, <1>f DEF Copies!StorageHandles
  <2> QED BY <1>7, <2>1, <2>2, <2>3, <2>4 DEF Copies!StorageHandles, Copies!TypeOK, Copies!breakers
<1> QED BY <1>1, <1>2, <1>3, <1>4, <1>5, <1>6, <1>7 DEF Copies!TaskStep

(* Every step keeps the domains.                                           *)
LEMMA CopyTypes == Copies!TypeOK /\ [Copies!Next]_Copies!vars => Copies!TypeOK'
<1> SUFFICES ASSUME Copies!TypeOK, [Copies!Next]_Copies!vars PROVE Copies!TypeOK'
  OBVIOUS
<1>f. Copies!Fault \/ UNCHANGED Copies!budgets => faults' \in 0..CopyFaults /\ losses' \in 0..MaxLosses
  BY CopyConstants DEF Copies!Fault, Copies!TypeOK, Copies!budgets
<1>1. ASSUME NEW p \in Requests,
             Copies!RequestStep(p) \/ Copies!TaskStep(p) \/ Copies!StorageHandles(p)
      PROVE  Copies!TypeOK'
  BY <1>1, CopyPlayTypes, CopyTaskTypes
<1>2. ASSUME NEW n \in Nodes, Copies!Cool(n) PROVE Copies!TypeOK'
  <2>1. reads' \in [Nodes -> Copies!Breakers] /\ uploads' \in [Nodes -> Copies!Breakers]
    BY <1>2, CopyBreaker DEF Copies!Cool, Copies!TypeOK
  <2> QED BY <1>2, <2>1 DEF Copies!Cool, Copies!TypeOK, Copies!records, Copies!budgets
<1>3. ASSUME NEW n \in Nodes, Copies!Restart(n) PROVE Copies!TypeOK'
  <2>0. Copies!Closed \in Copies!Breakers
    BY CopyConstants DEF Copies!Breakers, Copies!Closed
  <2>1. reads' \in [Nodes -> Copies!Breakers] /\ uploads' \in [Nodes -> Copies!Breakers]
    BY <1>3, <2>0 DEF Copies!Restart, Copies!TypeOK
  <2>2. faults' \in 0..CopyFaults /\ losses' \in 0..MaxLosses
    BY <1>3, <1>f DEF Copies!Restart
  <2>3. req' \in [Requests -> Copies!Plays]
    BY <1>3, CopySteps DEF Copies!Restart, Copies!TypeOK
  <2>4. task' \in [Requests -> Copies!Tasks] /\ sent' \in [Requests -> Copies!Jobs]
    BY <1>3, CopySteps DEF Copies!Restart, Copies!TypeOK
  <2>5. running' \in [Nodes -> BOOLEAN]
    BY <1>3 DEF Copies!Restart, Copies!TypeOK
  <2> QED BY <1>3, <2>1, <2>2, <2>3, <2>4, <2>5 DEF Copies!Restart, Copies!TypeOK, Copies!records
<1>4. CASE Copies!ApplyEvent
  <2>1. Head(events) \in 0..MaxRank /\ events' \in Seq(0..MaxRank) /\ Len(events') <= MaxEvents
    BY <1>4, CopyConstants DEF Copies!ApplyEvent, Copies!TypeOK
  <2>2. track' \in Copies!Stored
    <3>1. track.q \in 0..MaxRank /\ track \in Copies!Stored
      BY DEF Copies!TypeOK, Copies!Stored
    <3>2. \A q \in 0..MaxRank : [track EXCEPT !.ok = TRUE, !.q = q] \in Copies!Stored
      BY <3>1 DEF Copies!Stored
    <3> QED BY <1>4, <2>1, <3>1, <3>2 DEF Copies!ApplyEvent
  <2>3. row' \in Copies!Rows
    BY <1>4, CopyRow DEF Copies!ApplyEvent, Copies!TypeOK
  <2> QED BY <1>4, <2>1, <2>2, <2>3 DEF Copies!ApplyEvent, Copies!TypeOK, Copies!breakers, Copies!budgets
<1>5. CASE Copies!Age
  BY <1>5 DEF Copies!Age, Copies!TypeOK, Copies!breakers, Copies!budgets
<1>6. CASE Copies!RepairLostUploads
  <2>0. row.q \in 0..MaxRank /\ row' \in Copies!Rows
    BY <1>6, CopyRow DEF Copies!RepairLostUploads, Copies!AnnounceAgain, Copies!TypeOK
  <2>1. events' \in Seq(0..MaxRank) /\ Len(events') <= MaxEvents
    <3>1. events = <<>> /\ MaxEvents > 0 /\ events' = Append(events, row.q)
      BY <1>6, Zenon DEF Copies!RepairLostUploads, Copies!AnnounceAgain
    <3> QED BY <2>0, <3>1, CopyConstants DEF Copies!TypeOK
  <2>2. faults' \in 0..CopyFaults /\ losses' \in 0..MaxLosses
    BY <1>6, <1>f DEF Copies!RepairLostUploads, Copies!AnnounceAgain
  <2> QED BY <1>6, <2>0, <2>1, <2>2 DEF Copies!RepairLostUploads, Copies!TypeOK, Copies!breakers
<1>7. CASE Copies!LoseObject
  BY <1>7, CopyConstants DEF Copies!LoseObject, Copies!TypeOK, Copies!breakers
<1>8. CASE UNCHANGED Copies!vars
  BY <1>8 DEF Copies!vars, Copies!TypeOK
<1>9. CASE Copies!GracePasses \/ Copies!LookbackPasses
  <2>1. row' \in Copies!Rows
    BY <1>9, CopyRow DEF Copies!GracePasses, Copies!LookbackPasses, Copies!RowAges, Copies!TypeOK
  <2> QED BY <1>9, <2>1 DEF Copies!GracePasses, Copies!LookbackPasses, Copies!RowAges, Copies!TypeOK,
        Copies!breakers, Copies!budgets
<1>10. CASE Copies!FoundTooLong
  <2>1. track' \in Copies!Stored
    BY <1>10 DEF Copies!FoundTooLong, Copies!TypeOK, Copies!Stored
  <2> QED BY <1>10, <2>1 DEF Copies!FoundTooLong, Copies!TypeOK, Copies!breakers, Copies!budgets
<1> QED BY <1>1, <1>2, <1>3, <1>4, <1>5, <1>6, <1>7, <1>8, <1>9, <1>10 DEF Copies!Next

(* Starting an upload takes the slot of its node, and ending one gives it  *)
(* back.                                                                   *)
LEMMA CopySlotTaken ==
    ASSUME Copies!TypeOK, Copies!SlotsTaken, NEW p \in Requests, NEW q \in Copies!Ranks,
           Copies!UploadInBackground(p, q), UNCHANGED sent
    PROVE  Copies!SlotsTaken'
<1>1. CASE UNCHANGED <<running, task>>
  BY <1>1 DEF Copies!SlotsTaken
<1>2. CASE /\ ~running[NodeOf[p]]
           /\ running' = [running EXCEPT ![NodeOf[p]] = TRUE]
           /\ task' = [task EXCEPT ![p] = [pc |-> "insert", q |-> q]]
  <2>1. \A o \in Requests : NodeOf[o] = NodeOf[p] => task[o] = Copies!NoTask
    BY <1>2 DEF Copies!SlotsTaken
  <2>2. task'[p].pc = "insert" /\ task'[p].q = q /\ task'[p] # Copies!NoTask
    BY <1>2 DEF Copies!TypeOK, Copies!NoTask
  <2>3. \A o \in Requests : o # p => task'[o] = task[o]
    BY <1>2 DEF Copies!TypeOK
  <2>4. running'[NodeOf[p]] /\ \A n \in Nodes : n # NodeOf[p] => running'[n] = running[n]
    BY <1>2, CopyConstants DEF Copies!TypeOK
  <2>5. \A o \in Requests :
          /\ task'[o] # Copies!NoTask =>
               running'[NodeOf[o]] /\ task'[o].pc # "none" /\ task'[o].q \in Copies!Ranks
          /\ sent'[o] # Copies!NoTask => sent'[o].pc # "none" /\ sent'[o].q \in Copies!Ranks
    BY <2>1, <2>2, <2>3, <2>4, CopyConstants DEF Copies!SlotsTaken
  <2>6. \A o, r \in Requests :
          task'[o] # Copies!NoTask /\ task'[r] # Copies!NoTask /\ NodeOf[o] = NodeOf[r] => o = r
    BY <2>1, <2>3 DEF Copies!SlotsTaken
  <2>7. \A n \in Nodes :
          running'[n] => \E o \in Requests : NodeOf[o] = n /\ task'[o] # Copies!NoTask
    BY <2>1, <2>2, <2>3, <2>4 DEF Copies!SlotsTaken
  <2> QED BY <2>5, <2>6, <2>7 DEF Copies!SlotsTaken, Copies!NoTask, Copies!Ranks
<1> QED BY <1>1, <1>2 DEF Copies!UploadInBackground

LEMMA CopySlotGiven ==
    ASSUME Copies!TypeOK, Copies!SlotsTaken, NEW p \in Requests, task[p] # Copies!NoTask,
           Copies!EndTask(p), UNCHANGED sent
    PROVE  Copies!SlotsTaken'
<1>2. task'[p] = Copies!NoTask /\ \A o \in Requests : o # p => task'[o] = task[o]
  BY DEF Copies!TypeOK, Copies!EndTask
<1>3. ~running'[NodeOf[p]] /\ \A n \in Nodes : n # NodeOf[p] => running'[n] = running[n]
  BY CopyConstants DEF Copies!TypeOK, Copies!EndTask
<1>4. \A o \in Requests : o # p /\ task[o] # Copies!NoTask => NodeOf[o] # NodeOf[p]
  BY DEF Copies!SlotsTaken
<1>5. \A o \in Requests :
        /\ task'[o] # Copies!NoTask =>
             running'[NodeOf[o]] /\ task'[o].pc # "none" /\ task'[o].q \in Copies!Ranks
        /\ sent'[o] # Copies!NoTask => sent'[o].pc # "none" /\ sent'[o].q \in Copies!Ranks
  BY <1>2, <1>3, <1>4, CopyConstants DEF Copies!SlotsTaken
<1>6. \A o, r \in Requests :
        task'[o] # Copies!NoTask /\ task'[r] # Copies!NoTask /\ NodeOf[o] = NodeOf[r] => o = r
  BY <1>2 DEF Copies!SlotsTaken
<1>7. \A n \in Nodes :
        running'[n] => \E o \in Requests : NodeOf[o] = n /\ task'[o] # Copies!NoTask
  BY <1>2, <1>3, <1>4 DEF Copies!SlotsTaken
<1> QED BY <1>5, <1>6, <1>7 DEF Copies!SlotsTaken, Copies!NoTask, Copies!Ranks

(* An upload that moves on keeps its slot and its quality.                 *)
LEMMA CopySlotKept ==
    ASSUME Copies!TypeOK, Copies!SlotsTaken, NEW p \in Requests, UNCHANGED running,
           NEW s \in {"sent", "mark", "settle", "ok", "error"}, task[p] # Copies!NoTask,
           task' = [task EXCEPT ![p].pc = s],
           \A o \in Requests :
             sent'[o] # Copies!NoTask => sent'[o].pc # "none" /\ sent'[o].q \in Copies!Ranks
    PROVE  Copies!SlotsTaken'
<1>1. task'[p].pc = s /\ task'[p].q = task[p].q /\ task'[p] # Copies!NoTask
  BY DEF Copies!TypeOK, Copies!Tasks, Copies!NoTask
<1>2. \A o \in Requests : o # p => task'[o] = task[o]
  BY DEF Copies!TypeOK
<1>5. \A o \in Requests :
        /\ task'[o] # Copies!NoTask =>
             running'[NodeOf[o]] /\ task'[o].pc # "none" /\ task'[o].q \in Copies!Ranks
        /\ sent'[o] # Copies!NoTask => sent'[o].pc # "none" /\ sent'[o].q \in Copies!Ranks
  BY <1>1, <1>2 DEF Copies!SlotsTaken
<1>6. \A o, r \in Requests :
        task'[o] # Copies!NoTask /\ task'[r] # Copies!NoTask /\ NodeOf[o] = NodeOf[r] => o = r
  BY <1>2 DEF Copies!SlotsTaken
<1>7. \A n \in Nodes :
        running'[n] => \E o \in Requests : NodeOf[o] = n /\ task'[o] # Copies!NoTask
  BY <1>1, <1>2 DEF Copies!SlotsTaken
<1> QED BY <1>5, <1>6, <1>7 DEF Copies!SlotsTaken, Copies!NoTask, Copies!Ranks

(* Every step keeps the slots.                                             *)
LEMMA CopySlots ==
    Copies!TypeOK /\ Copies!SlotsTaken /\ [Copies!Next]_Copies!vars => Copies!SlotsTaken'
<1> SUFFICES ASSUME Copies!TypeOK, Copies!SlotsTaken, [Copies!Next]_Copies!vars
             PROVE  Copies!SlotsTaken'
  OBVIOUS
<1>0. ASSUME UNCHANGED <<task, sent, running>> PROVE Copies!SlotsTaken'
  BY <1>0 DEF Copies!SlotsTaken
<1>q. Copies!NoTask.pc = "none"
  BY DEF Copies!NoTask
<1>1. ASSUME NEW p \in Requests, Copies!RequestStep(p) PROVE Copies!SlotsTaken'
  <2>1. ASSUME NEW wanted \in Copies!Ranks, Copies!Start(p, wanted) PROVE Copies!SlotsTaken'
    BY <1>0, <2>1, Zenon DEF Copies!Start
  <2>2. CASE Copies!StartUpgrade(p) \/ Copies!Find(p) \/ Copies!Verify(p) \/ Copies!MarkStorageLost(p)
    BY <1>0, <2>2, Zenon DEF Copies!StartUpgrade, Copies!Find, Copies!Verify, Copies!MarkStorageLost
  <2>3. CASE Copies!Fetch(p)
    BY <1>0, <2>3, CopySlotTaken, Zenon DEF Copies!Fetch
  <2>4. CASE Copies!UpgradeOne(p)
    <3>1. UNCHANGED sent
      BY <2>4, Zenon DEF Copies!UpgradeOne
    <3>2. CASE UNCHANGED <<running, task>>
      BY <1>0, <3>1, <3>2
    <3>3. CASE \E q \in Copies!Ranks \ {1} : Copies!UploadInBackground(p, q)
      BY <3>1, <3>3, CopySlotTaken
    <3> QED BY <2>4, <3>2, <3>3 DEF Copies!UpgradeOne
  <2> QED BY <1>1, <2>1, <2>2, <2>3, <2>4 DEF Copies!RequestStep
<1>2. ASSUME NEW p \in Requests, Copies!TaskStep(p) PROVE Copies!SlotsTaken'
  <2>0. task[p] # Copies!NoTask
    BY <1>2, <1>q DEF Copies!TaskStep, Copies!InsertPending, Copies!Answered, Copies!TimedOut,
       Copies!MarkStored, Copies!Settle, Copies!UpdateStatus
  <2>1. CASE Copies!InsertPending(p)
    <3>1. CASE Copies!EndTask(p) /\ UNCHANGED sent
      BY <2>0, <3>1, CopySlotGiven
    <3>2. CASE /\ task' = [task EXCEPT ![p].pc = "sent"] /\ UNCHANGED running
               /\ sent' = [sent EXCEPT ![p] = [pc |-> "sent", q |-> task[p].q]]
      <4>1. sent'[p] = [pc |-> "sent", q |-> task[p].q]
        BY <3>2 DEF Copies!TypeOK
      <4>2. task[p].q \in Copies!Ranks
        BY <2>0 DEF Copies!SlotsTaken
      <4>3. \A o \in Requests : o # p => sent'[o] = sent[o]
        BY <3>2 DEF Copies!TypeOK
      <4>4. \A o \in Requests :
              sent'[o] # Copies!NoTask => sent'[o].pc # "none" /\ sent'[o].q \in Copies!Ranks
        BY <4>1, <4>2, <4>3 DEF Copies!SlotsTaken
      <4> QED BY <2>0, <3>2, <4>4, CopySlotKept
    <3> QED BY <2>1, <3>1, <3>2, Zenon DEF Copies!InsertPending
  <2>2. CASE Copies!Answered(p)
    <3>1. \A o \in Requests :
            sent'[o] # Copies!NoTask => sent'[o].pc # "none" /\ sent'[o].q \in Copies!Ranks
      BY <2>2 DEF Copies!Answered, Copies!SlotsTaken, Copies!TypeOK
    <3>2. \E s \in {"mark", "settle"} : task' = [task EXCEPT ![p].pc = s]
      BY <2>2 DEF Copies!Answered
    <3>3. UNCHANGED running
      BY <2>2 DEF Copies!Answered
    <3> QED BY <2>0, <3>1, <3>2, <3>3, CopySlotKept
  <2>3. CASE Copies!TimedOut(p)
    BY <2>0, <2>3, CopySlotKept DEF Copies!TimedOut, Copies!SlotsTaken
  <2>4. CASE Copies!MarkStored(p) \/ Copies!UpdateStatus(p)
    BY <2>0, <2>4, CopySlotGiven, Zenon DEF Copies!MarkStored, Copies!UpdateStatus
  <2>5. CASE Copies!Settle(p)
    <3>1. \E s \in {"ok", "error"} : task' = [task EXCEPT ![p].pc = s]
      BY <2>5 DEF Copies!Settle, Copies!SettleFailedStatus
    <3> QED BY <2>0, <2>5, <3>1, CopySlotKept DEF Copies!Settle, Copies!SlotsTaken
  <2> QED BY <1>2, <2>1, <2>2, <2>3, <2>4, <2>5 DEF Copies!TaskStep
<1>3. ASSUME NEW p \in Requests, Copies!StorageHandles(p) PROVE Copies!SlotsTaken'
  <2>1. UNCHANGED <<task, running>>
    BY <1>3, Zenon DEF Copies!StorageHandles
  <2>2. \E s \in {"stored", "rejected", "failed"} :
          sent' = [sent EXCEPT ![p] =
              IF task[p].pc = "sent" THEN [sent[p] EXCEPT !.pc = s] ELSE Copies!NoTask]
    BY <1>3 DEF Copies!StorageHandles
  <2>3. sent[p] # Copies!NoTask
    BY <1>3, <1>q, Zenon DEF Copies!StorageHandles
  <2>4. /\ sent'[p] # Copies!NoTask => sent'[p].pc # "none" /\ sent'[p].q = sent[p].q
        /\ \A o \in Requests : o # p => sent'[o] = sent[o]
    BY <2>2 DEF Copies!TypeOK, Copies!Jobs
  <2> QED BY <2>1, <2>3, <2>4 DEF Copies!SlotsTaken
<1>4. ASSUME NEW n \in Nodes, Copies!Restart(n) PROVE Copies!SlotsTaken'
  <2>1. \A p \in Requests : task'[p] = IF NodeOf[p] = n THEN Copies!NoTask ELSE task[p]
    BY <1>4 DEF Copies!Restart
  <2>2. \A p \in Requests : sent'[p] = Copies!NoTask \/ sent'[p] = sent[p]
    BY <1>4 DEF Copies!Restart
  <2>3. ~running'[n] /\ \A m \in Nodes : m # n => running'[m] = running[m]
    BY <1>4 DEF Copies!Restart, Copies!TypeOK
  <2>5. \A o \in Requests :
          /\ task'[o] # Copies!NoTask =>
               running'[NodeOf[o]] /\ task'[o].pc # "none" /\ task'[o].q \in Copies!Ranks
          /\ sent'[o] # Copies!NoTask => sent'[o].pc # "none" /\ sent'[o].q \in Copies!Ranks
    BY <2>1, <2>2, <2>3, CopyConstants DEF Copies!SlotsTaken
  <2>6. \A o, r \in Requests :
          task'[o] # Copies!NoTask /\ task'[r] # Copies!NoTask /\ NodeOf[o] = NodeOf[r] => o = r
    BY <2>1 DEF Copies!SlotsTaken
  <2>7. \A m \in Nodes :
          running'[m] => \E o \in Requests : NodeOf[o] = m /\ task'[o] # Copies!NoTask
    BY <2>1, <2>3 DEF Copies!SlotsTaken
  <2> QED BY <2>5, <2>6, <2>7 DEF Copies!SlotsTaken, Copies!NoTask, Copies!Ranks
<1>5. ASSUME NEW n \in Nodes, Copies!Cool(n) PROVE Copies!SlotsTaken'
  BY <1>0, <1>5, Zenon DEF Copies!Cool
<1>6. CASE Copies!ApplyEvent \/ Copies!Age \/ Copies!RepairLostUploads \/ Copies!LoseObject
  BY <1>0, <1>6, Zenon DEF Copies!ApplyEvent, Copies!Age, Copies!RepairLostUploads, Copies!LoseObject
<1>7. CASE UNCHANGED Copies!vars
  BY <1>0, <1>7, Zenon DEF Copies!vars
<1>8. CASE Copies!GracePasses \/ Copies!LookbackPasses \/ Copies!FoundTooLong
  BY <1>0, <1>8, Zenon DEF Copies!GracePasses, Copies!LookbackPasses, Copies!RowAges, Copies!FoundTooLong
<1> QED BY <1>1, <1>2, <1>3, <1>4, <1>5, <1>6, <1>7, <1>8 DEF Copies!Next

(* Once a copy was stored, there is one or the storage has lost it.        *)
LEMMA CopyStoredStable ==
    Copies!TypeOK /\ Copies!SlotsTaken /\ [Copies!Next]_Copies!vars /\ Copies!StoredOnce
        => Copies!StoredOnce'
<1> SUFFICES ASSUME Copies!TypeOK, Copies!SlotsTaken, [Copies!Next]_Copies!vars, Copies!StoredOnce
             PROVE  Copies!StoredOnce'
  OBVIOUS
<1>0. ASSUME UNCHANGED <<copy, gone>> PROVE Copies!StoredOnce'
  BY <1>0 DEF Copies!StoredOnce
<1>1. ASSUME NEW p \in Requests, Copies!RequestStep(p) PROVE Copies!StoredOnce'
  BY <1>0, <1>1, Zenon DEF Copies!RequestStep, Copies!Start, Copies!StartUpgrade, Copies!Find,
     Copies!Verify, Copies!MarkStorageLost, Copies!Fetch, Copies!UpgradeOne, Copies!records
<1>2. ASSUME NEW p \in Requests, Copies!TaskStep(p) PROVE Copies!StoredOnce'
  BY <1>0, <1>2, Zenon DEF Copies!TaskStep, Copies!InsertPending, Copies!Answered, Copies!TimedOut,
     Copies!MarkStored, Copies!Settle, Copies!UpdateStatus, Copies!records
<1>3. ASSUME NEW p \in Requests, Copies!StorageHandles(p) PROVE Copies!StoredOnce'
  <2>1. sent[p].q # 0
    BY <1>3, CopyConstants DEF Copies!StorageHandles, Copies!SlotsTaken, Copies!NoTask, Copies!Ranks
  <2>2. UNCHANGED <<copy, gone>> \/ copy' = sent[p].q
    BY <1>3, Zenon DEF Copies!StorageHandles
  <2> QED BY <1>0, <2>1, <2>2 DEF Copies!StoredOnce
<1>4. ASSUME NEW n \in Nodes, Copies!Cool(n) \/ Copies!Restart(n) PROVE Copies!StoredOnce'
  BY <1>0, <1>4, Zenon DEF Copies!Cool, Copies!Restart, Copies!records
<1>5. CASE Copies!ApplyEvent \/ Copies!Age \/ Copies!RepairLostUploads
  BY <1>0, <1>5, Zenon DEF Copies!ApplyEvent, Copies!Age, Copies!RepairLostUploads
<1>6. CASE Copies!LoseObject
  BY <1>6 DEF Copies!LoseObject, Copies!StoredOnce
<1>7. CASE UNCHANGED Copies!vars
  BY <1>0, <1>7, Zenon DEF Copies!vars
<1>8. CASE Copies!GracePasses \/ Copies!LookbackPasses \/ Copies!FoundTooLong
  BY <1>0, <1>8, Zenon DEF Copies!GracePasses, Copies!LookbackPasses, Copies!RowAges, Copies!FoundTooLong
<1> QED BY <1>1, <1>2, <1>3, <1>4, <1>5, <1>6, <1>7, <1>8 DEF Copies!Next

(* What says in the new state that there is a copy said so before, or says *)
(* it because one was stored.                                              *)
LEMMA CopySaid ==
    /\ Copies!TypeOK /\ Copies!SlotsTaken /\ Copies!SaidAfterStored /\ [Copies!Next]_Copies!vars
    => Copies!SaidAfterStored'
<1> SUFFICES ASSUME Copies!TypeOK, Copies!SlotsTaken, Copies!SaidAfterStored,
                    [Copies!Next]_Copies!vars
             PROVE  Copies!SaidAfterStored'
  OBVIOUS
<1> DEFINE says == \/ row.status = "ok" \/ track.ok \/ events # <<>>
                   \/ \E p \in Requests : task[p].pc \in {"mark", "ok"} \/ sent[p].pc = "stored"
<1>s. says => Copies!StoredOnce
  BY DEF Copies!SaidAfterStored
<1>t. SUFFICES says' => says \/ Copies!StoredOnce \/ Copies!StoredOnce'
  BY <1>s, CopyStoredStable DEF Copies!SaidAfterStored
<1>0. ASSUME UNCHANGED <<row, track, events, task, sent>> PROVE says' => says
  BY <1>0
<1>1. ASSUME NEW p \in Requests, Copies!RequestStep(p) PROVE says' => says
  <2>1. UNCHANGED <<events, sent>>
    BY <1>1, Zenon DEF Copies!RequestStep, Copies!Start, Copies!StartUpgrade, Copies!Find,
       Copies!Verify, Copies!MarkStorageLost, Copies!Fetch, Copies!UpgradeOne, Copies!records
  <2>2. (row'.status = "ok" => row.status = "ok") /\ (track'.ok => track.ok)
    <3>1. CASE UNCHANGED <<row, track>>
      BY <3>1
    <3>2. CASE Copies!Forget
      BY <3>2 DEF Copies!Forget, Copies!TypeOK, Copies!Rows, Copies!Stored
    <3> QED BY <1>1, <3>1, <3>2, Zenon DEF Copies!RequestStep, Copies!Start, Copies!StartUpgrade,
          Copies!Find, Copies!Verify, Copies!MarkStorageLost, Copies!Fetch, Copies!UpgradeOne,
          Copies!records
  <2>3. \A o \in Requests : task'[o] = task[o] \/ task'[o].pc = "insert"
    <3>1. CASE UNCHANGED task
      BY <3>1
    <3>2. ASSUME NEW q \in Copies!Ranks, Copies!UploadInBackground(p, q)
          PROVE  \A o \in Requests : task'[o] = task[o] \/ task'[o].pc = "insert"
      BY <3>2 DEF Copies!UploadInBackground, Copies!TypeOK
    <3> QED BY <1>1, <3>1, <3>2, Zenon DEF Copies!RequestStep, Copies!Start, Copies!StartUpgrade,
          Copies!Find, Copies!Verify, Copies!MarkStorageLost, Copies!Fetch, Copies!UpgradeOne,
          Copies!records
  <2> QED BY <2>1, <2>2, <2>3
<1>2. ASSUME NEW p \in Requests, Copies!TaskStep(p) PROVE says' => says \/ Copies!StoredOnce
  <2>1. UNCHANGED <<events, track>>
    BY <1>2, Zenon DEF Copies!TaskStep, Copies!InsertPending, Copies!Answered, Copies!TimedOut,
       Copies!MarkStored, Copies!Settle, Copies!UpdateStatus, Copies!records
  <2>e. Copies!EndTask(p) => \A o \in Requests : task'[o] = task[o] \/ task'[o].pc = "none"
    BY DEF Copies!EndTask, Copies!NoTask, Copies!TypeOK
  <2>w. ASSUME NEW s, NEW q, Copies!WriteRow(s, q) PROVE row'.status = s
    BY <2>w DEF Copies!WriteRow
  <2>2. CASE Copies!InsertPending(p)
    <3>1. row'.status # "ok" \/ UNCHANGED row
      BY <2>2, <2>w DEF Copies!InsertPending, Copies!InsertCdnTrack
    <3>2. \A o \in Requests : task'[o] = task[o] \/ task'[o].pc \in {"none", "sent"}
      BY <2>2, <2>e DEF Copies!InsertPending, Copies!TypeOK, Copies!Tasks
    <3>3. \A o \in Requests : sent'[o] = sent[o] \/ sent'[o].pc = "sent"
      BY <2>2 DEF Copies!InsertPending, Copies!TypeOK
    <3> QED BY <2>1, <3>1, <3>2, <3>3
  <2>3. CASE Copies!Answered(p)
    <3>1. \A o \in Requests : task'[o] = task[o] \/ task'[o].pc = "settle" \/ sent[p].pc = "stored"
      BY <2>3 DEF Copies!Answered, Copies!TypeOK, Copies!Tasks
    <3>2. \A o \in Requests : sent'[o] = sent[o] \/ sent'[o].pc = "none"
      BY <2>3 DEF Copies!Answered, Copies!TypeOK, Copies!NoTask
    <3>3. UNCHANGED row
      BY <2>3 DEF Copies!Answered, Copies!records
    <3> QED BY <2>1, <3>1, <3>2, <3>3
  <2>4. CASE Copies!TimedOut(p)
    <3>1. \A o \in Requests : task'[o] = task[o] \/ task'[o].pc = "settle"
      BY <2>4 DEF Copies!TimedOut, Copies!TypeOK, Copies!Tasks
    <3> QED BY <2>1, <2>4, <3>1 DEF Copies!TimedOut, Copies!records
  <2>5. CASE Copies!MarkStored(p)
    BY <2>5 DEF Copies!MarkStored
  <2>6. CASE Copies!Settle(p)
    <3>1. \A o \in Requests : \/ task'[o] = task[o] \/ task'[o].pc = "error"
                              \/ copy # 0
      BY <2>6 DEF Copies!Settle, Copies!SettleFailedStatus, Copies!TypeOK, Copies!Tasks
    <3>2. UNCHANGED <<row, sent>>
      BY <2>6 DEF Copies!Settle, Copies!records
    <3> QED BY <2>1, <3>1, <3>2 DEF Copies!StoredOnce
  <2>7. CASE Copies!UpdateStatus(p)
    <3>1. task[p].pc = "ok" \/ row'.status = "error" \/ UNCHANGED row
      BY <2>7, <2>w DEF Copies!UpdateStatus
    <3> QED BY <2>1, <2>7, <2>e, <3>1 DEF Copies!UpdateStatus
  <2> QED BY <1>2, <2>2, <2>3, <2>4, <2>5, <2>6, <2>7 DEF Copies!TaskStep
<1>3. ASSUME NEW p \in Requests, Copies!StorageHandles(p) PROVE says' => says \/ Copies!StoredOnce'
  <2>1. sent[p].q # 0
    BY <1>3, CopyConstants DEF Copies!StorageHandles, Copies!SlotsTaken, Copies!NoTask, Copies!Ranks
  <2>2. CASE copy' = sent[p].q
    BY <2>1, <2>2 DEF Copies!StoredOnce
  <2>3. CASE /\ UNCHANGED events
             /\ \E s \in {"rejected", "failed"} : sent' = [sent EXCEPT ![p] =
                  IF task[p].pc = "sent" THEN [sent[p] EXCEPT !.pc = s] ELSE Copies!NoTask]
    <3>1. \A o \in Requests : sent'[o] = sent[o] \/ sent'[o].pc \in {"rejected", "failed", "none"}
      BY <2>3 DEF Copies!TypeOK, Copies!Jobs, Copies!NoTask
    <3>2. UNCHANGED <<row, track, task>>
      BY <1>3, Zenon DEF Copies!StorageHandles
    <3> QED BY <2>3, <3>1, <3>2
  <2> QED BY <1>3, <2>2, <2>3 DEF Copies!StorageHandles
<1>4. ASSUME NEW n \in Nodes, Copies!Cool(n) PROVE says' => says
  BY <1>0, <1>4, Zenon DEF Copies!Cool, Copies!records
<1>5. ASSUME NEW n \in Nodes, Copies!Restart(n) PROVE says' => says
  <2>1. UNCHANGED <<row, track, events>>
    BY <1>5, Zenon DEF Copies!Restart, Copies!records
  <2>2. \A p \in Requests : /\ task'[p] = task[p] \/ task'[p].pc = "none"
                            /\ sent'[p] = sent[p] \/ sent'[p].pc = "none"
    BY <1>5 DEF Copies!Restart, Copies!NoTask
  <2> QED BY <2>1, <2>2
<1>6. CASE Copies!ApplyEvent
  BY <1>6 DEF Copies!ApplyEvent
<1>7. CASE Copies!Age \/ Copies!LoseObject
  BY <1>0, <1>7, Zenon DEF Copies!Age, Copies!LoseObject
<1>8. CASE Copies!RepairLostUploads
  BY <1>8 DEF Copies!RepairLostUploads, Copies!LostUpload, Copies!Unspoken
<1>9. CASE UNCHANGED Copies!vars
  BY <1>0, <1>9, Zenon DEF Copies!vars
<1>10. CASE Copies!GracePasses \/ Copies!LookbackPasses
  BY <1>10 DEF Copies!GracePasses, Copies!LookbackPasses, Copies!RowAges, Copies!Unspoken
<1>11. CASE Copies!FoundTooLong
  BY <1>11 DEF Copies!FoundTooLong, Copies!TypeOK, Copies!Stored
<1> HIDE DEF says
<1> QED BY <1>1, <1>2, <1>3, <1>4, <1>5, <1>6, <1>7, <1>8, <1>9, <1>10, <1>11 DEF Copies!Next

(* The invariant of the copies is inductive.                               *)
LEMMA CopyStep == Copies!IndInv /\ [Copies!Next]_Copies!vars => Copies!IndInv'
  BY CopyTypes, CopySlots, CopySaid DEF Copies!IndInv

(* It implies what is promised: a node runs one upload of the track, and   *)
(* what plays follow was stored.                                           *)
LEMMA CopyPromise == Copies!IndInv => Copies!OneUploadAtATime /\ Copies!CopyExists
<1> SUFFICES ASSUME Copies!IndInv PROVE Copies!OneUploadAtATime /\ Copies!CopyExists
  OBVIOUS
<1>1. Copies!CopyExists
  BY DEF Copies!IndInv, Copies!SaidAfterStored, Copies!StoredOnce, Copies!CopyExists
<1>2. ASSUME NEW n \in Nodes
      PROVE  Cardinality({p \in Requests : NodeOf[p] = n /\ task[p] # Copies!NoTask})
               = IF running[n] THEN 1 ELSE 0
  <2> DEFINE mine == {p \in Requests : NodeOf[p] = n /\ task[p] # Copies!NoTask}
  <2>1. CASE running[n]
    <3>1. PICK p \in Requests : NodeOf[p] = n /\ task[p] # Copies!NoTask
      BY <2>1 DEF Copies!IndInv, Copies!SlotsTaken
    <3>2. mine = {p}
      BY <3>1 DEF Copies!IndInv, Copies!SlotsTaken
    <3> QED BY <2>1, <3>2, FS_Singleton
  <2>2. CASE ~running[n]
    <3>1. mine = {}
      BY <2>2 DEF Copies!IndInv, Copies!SlotsTaken
    <3> QED BY <2>2, <3>1, FS_EmptySet
  <2> QED BY <2>1, <2>2
<1>3. ASSUME NEW S PROVE Copies!Cardinality(S) = Cardinality(S)
  BY DEF Copies!Cardinality, Cardinality
<1> QED BY <1>1, <1>2, <1>3, Zenon DEF Copies!OneUploadAtATime

---------------------------------------------------------------------------
(* The quota of the storage service's temporary directory.                 *)

(* What % leaves of an integer, and that a change can be made before or    *)
(* after the counter wraps.                                                *)
LEMMA ModRange == ASSUME NEW a \in Int, NEW w \in Nat, w > 0 PROVE a % w \in 0..(w - 1)
  OBVIOUS

LEMMA ModQuotient ==
    ASSUME NEW a \in Int, NEW w \in Nat, w > 0
    PROVE  \E q \in Int : a = w * q + (a % w)
<1>1. a \div w \in Int /\ a = w * (a \div w) + (a % w)
  OBVIOUS
<1> QED BY <1>1

LEMMA ModUnique ==
    ASSUME NEW w \in Nat, w > 0, NEW q \in Int, NEW p \in Int,
           NEW r \in 0..(w - 1), NEW s \in 0..(w - 1), w * q + r = w * p + s
    PROVE  r = s
<1>1. CASE q = p
  BY <1>1
<1>2. CASE q > p
  <2>1. w * (q - p) >= w
    BY <1>2
  <2>2. w * (q - p) = w * q - w * p
    OBVIOUS
  <2> QED BY <2>1, <2>2
<1>3. CASE q < p
  <2>1. w * (p - q) >= w
    BY <1>3
  <2>2. w * (p - q) = w * p - w * q
    OBVIOUS
  <2> QED BY <2>1, <2>2
<1> QED BY <1>1, <1>2, <1>3

LEMMA ModAdd ==
    ASSUME NEW a \in Int, NEW d \in Int, NEW w \in Nat, w > 0
    PROVE  ((a % w) + d) % w = (a + d) % w
<1>1. PICK q \in Int : a = w * q + (a % w)
  BY ModQuotient
<1>2. PICK p \in Int : (a % w) + d = w * p + (((a % w) + d) % w)
  <2>1. (a % w) + d \in Int
    BY ModRange
  <2> QED BY <2>1, ModQuotient
<1>3. PICK o \in Int : a + d = w * o + ((a + d) % w)
  BY ModQuotient
<1>4. w * (q + p) = w * q + w * p
  OBVIOUS
<1>5. w * (q + p) + (((a % w) + d) % w) = w * o + ((a + d) % w)
  BY <1>1, <1>2, <1>3, <1>4, ModRange
<1>6. ((a % w) + d) % w \in 0..(w - 1) /\ (a + d) % w \in 0..(w - 1)
  BY ModRange
<1> QED BY <1>5, <1>6, ModUnique

LEMMA ModSmall == ASSUME NEW w \in Nat, NEW a \in 0..(w - 1), w > 0 PROVE a % w = a
<1>1. PICK q \in Int : a = w * q + (a % w)
  BY ModQuotient
<1>2. a % w \in 0..(w - 1) /\ w * 0 + a = w * q + (a % w)
  BY <1>1, ModRange
<1> QED BY <1>2, ModUnique

(* The constants of the quota.                                             *)
LEMMA QuotaConstants ==
    /\ Limit \in Nat /\ Limit > 0 /\ MaxChunks \in Nat /\ MaxChunks > 0
    /\ MaxRescans \in Nat /\ QuotaFaults \in Nat
    /\ IsFiniteSet(Bodies) /\ None \notin Bodies
    /\ Width \in Nat /\ Width > Limit + MaxChunks * Cardinality(Bodies)
    /\ Cardinality(Bodies) \in Nat
    /\ Width > Limit /\ Width > 0
<1>1. Quota!Cardinality(Bodies) = Cardinality(Bodies)
  BY DEF Quota!Cardinality, Cardinality
<1>2. Quota!IsFiniteSet(Bodies) <=> IsFiniteSet(Bodies)
  BY DEF Quota!IsFiniteSet, IsFiniteSet
<1>3. Cardinality(Bodies) \in Nat
  BY <1>2, QuotaOK, FS_CardinalityType DEF Quota!QuotaAssumption
<1>4. /\ Limit \in Nat /\ Limit > 0 /\ MaxChunks \in Nat /\ MaxChunks > 0
      /\ MaxRescans \in Nat /\ QuotaFaults \in Nat
  BY QuotaOK DEF Quota!QuotaAssumption
<1>5. MaxChunks * Cardinality(Bodies) \in Nat
  BY <1>3, <1>4
<1>6. Width \in Nat /\ Width > Limit + MaxChunks * Cardinality(Bodies)
  BY <1>1, QuotaOK DEF Quota!QuotaAssumption
<1>7. Width > Limit /\ Width > 0
  BY <1>4, <1>5, <1>6
<1> QED BY <1>2, <1>3, <1>4, <1>6, <1>7, QuotaOK DEF Quota!QuotaAssumption

Sizes == [Bodies -> 0..MaxChunks]

(* The chunks of finitely many bounded files are finitely many, and fewer  *)
(* than the counter has values.                                            *)
LEMMA ChunkCount ==
    ASSUME NEW f \in Sizes
    PROVE  /\ IsFiniteSet(Quota!Chunks(f)) /\ Quota!Total(f) = Cardinality(Quota!Chunks(f))
           /\ Quota!Total(f) \in Nat /\ Quota!Total(f) < Width - Limit
<1>1. Quota!Total(f) = Cardinality(Quota!Chunks(f))
  BY DEF Quota!Total, Quota!Cardinality, Cardinality
<1>2. IsFiniteSet(1..MaxChunks) /\ Cardinality(1..MaxChunks) = MaxChunks
  BY QuotaConstants, FS_Interval
<1>3. IsFiniteSet(Bodies \X (1..MaxChunks))
  BY <1>2, QuotaConstants, FS_Product
<1>4. Cardinality(Bodies \X (1..MaxChunks)) = Cardinality(Bodies) * MaxChunks
  BY <1>2, QuotaConstants, FS_Product
<1>5. Quota!Chunks(f) \subseteq Bodies \X (1..MaxChunks)
  BY DEF Quota!Chunks
<1>6. /\ IsFiniteSet(Quota!Chunks(f))
      /\ Cardinality(Quota!Chunks(f)) <= Cardinality(Bodies \X (1..MaxChunks))
  BY <1>3, <1>5, FS_Subset
<1>7. Cardinality(Quota!Chunks(f)) \in Nat
  BY <1>6, FS_CardinalityType
<1> QED BY <1>1, <1>4, <1>6, <1>7, QuotaConstants

(* Larger files have no fewer chunks.                                      *)
LEMMA ChunkMore ==
    ASSUME NEW f \in Sizes, NEW g \in Sizes, \A u \in Bodies : f[u] <= g[u]
    PROVE  Quota!Total(f) <= Quota!Total(g)
<1>1. Quota!Chunks(f) \subseteq Quota!Chunks(g)
  BY QuotaConstants DEF Quota!Chunks, Sizes
<1> QED BY <1>1, ChunkCount, FS_Subset

(* One file changes: the total changes by as much.                         *)
LEMMA ChunkPart ==
    ASSUME NEW f \in Sizes, NEW u \in Bodies
    PROVE  LET rest == {c \in Quota!Chunks(f) : c[1] # u}
           IN  IsFiniteSet(rest) /\ Quota!Total(f) = Cardinality(rest) + f[u]
                /\ Cardinality(rest) \in Nat
<1> DEFINE rest == {c \in Quota!Chunks(f) : c[1] # u}
           mine == {u} \X (1..f[u])
<1>0. f[u] \in 0..MaxChunks
  BY DEF Sizes
<1>1. Quota!Chunks(f) = rest \cup mine
  BY <1>0, QuotaConstants DEF Quota!Chunks
<1>2. rest \cap mine = {}
  OBVIOUS
<1>3. IsFiniteSet(rest)
  <2>1. rest \subseteq Quota!Chunks(f)
    OBVIOUS
  <2> QED BY <2>1, ChunkCount, FS_Subset
<1>4. IsFiniteSet({u}) /\ Cardinality({u}) = 1
  BY FS_Singleton
<1>5. IsFiniteSet(1..f[u]) /\ Cardinality(1..f[u]) = f[u]
  <2>1. f[u] \in Nat
    BY <1>0, QuotaConstants
  <2>2. /\ IsFiniteSet(1..f[u])
        /\ Cardinality(1..f[u]) = IF 1 > f[u] THEN 0 ELSE f[u] - 1 + 1
    BY <2>1, FS_Interval
  <2> QED BY <2>1, <2>2
<1>6. IsFiniteSet(mine) /\ Cardinality(mine) = 1 * f[u]
  BY <1>4, <1>5, FS_Product
<1>7. Cardinality(rest \cup mine) = Cardinality(rest) + Cardinality(mine) - Cardinality(rest \cap mine)
  BY <1>3, <1>6, FS_Union
<1>8. Cardinality(rest \cap mine) = 0
  BY <1>2, FS_EmptySet
<1>9. Cardinality(rest) \in Nat
  BY <1>3, FS_CardinalityType
<1>a. Quota!Total(f) = Cardinality(rest \cup mine)
  BY <1>1, ChunkCount
<1>b. f[u] \in Nat
  BY <1>0, QuotaConstants
<1> HIDE DEF rest, mine
<1>c. Quota!Total(f) = Cardinality(rest) + f[u]
  BY <1>6, <1>7, <1>8, <1>9, <1>a, <1>b
<1> QED BY <1>3, <1>9, <1>c DEF rest

LEMMA ChunkSet ==
    ASSUME NEW f \in Sizes, NEW u \in Bodies, NEW v \in 0..MaxChunks
    PROVE  Quota!Total([f EXCEPT ![u] = v]) = Quota!Total(f) - f[u] + v
<1> DEFINE g == [f EXCEPT ![u] = v]
<1>1. g \in Sizes /\ g[u] = v
  BY DEF Sizes
<1>2. {c \in Quota!Chunks(f) : c[1] # u} = {c \in Quota!Chunks(g) : c[1] # u}
  BY DEF Quota!Chunks, Sizes
<1>3. Quota!Total(f) = Cardinality({c \in Quota!Chunks(f) : c[1] # u}) + f[u]
  BY ChunkPart
<1>4. Quota!Total(g) = Cardinality({c \in Quota!Chunks(g) : c[1] # u}) + g[u]
  BY <1>1, ChunkPart
<1>5. Cardinality({c \in Quota!Chunks(f) : c[1] # u}) \in Nat /\ f[u] \in Nat
  BY ChunkPart, QuotaConstants DEF Sizes
<1> DEFINE n == Cardinality({c \in Quota!Chunks(f) : c[1] # u})
<1>6. Quota!Total(f) = n + f[u] /\ Quota!Total(g) = n + v /\ n \in Nat
  BY <1>1, <1>2, <1>3, <1>4, <1>5
<1>7. v \in Nat
  BY QuotaConstants
<1> HIDE DEF n
<1> QED BY <1>5, <1>6, <1>7

(* The empty directory satisfies the invariant.                            *)
LEMMA QuotaInit == Quota!Init => Quota!IndInv
<1> SUFFICES ASSUME Quota!Init PROVE Quota!IndInv
  OBVIOUS
<1>0. 0 \in 0..(Width - 1) /\ 0 \in 0..MaxChunks /\ 0 \in 0..MaxRescans /\ 0 \in 0..QuotaFaults
  BY QuotaConstants
<1>1. Quota!TypeOK
  BY <1>0 DEF Quota!Init, Quota!TypeOK
<1>2. Quota!Covered
  BY QuotaConstants DEF Quota!Init, Quota!Covered
<1>3. bytes \in Sizes /\ \A u \in Bodies : bytes[u] = 0
  BY <1>0 DEF Quota!Init, Sizes
<1>4. Quota!Total(bytes) = 0
  <2>1. Quota!Chunks(bytes) = {}
    BY <1>3, QuotaConstants DEF Quota!Chunks
  <2> QED BY <1>3, <2>1, ChunkCount, FS_EmptySet
<1>5. Quota!Charged = bytes /\ Quota!Granted = bytes
  BY DEF Quota!Init, Quota!Charged, Quota!Granted, Quota!Deciding
<1>6. 0 % Width = 0
  BY <1>0, QuotaConstants, ModSmall
<1>7. Quota!Conserved /\ Quota!GrantsFit
  <2>1. used = 0 /\ recovered = 0
    BY DEF Quota!Init
  <2> QED BY <1>4, <1>5, <1>6, <2>1, QuotaConstants DEF Quota!Conserved, Quota!GrantsFit
<1> QED BY <1>1, <1>2, <1>7 DEF Quota!IndInv

(* Every step keeps the domains, and reservations cover their files.       *)
LEMMA QuotaTypes ==
    ASSUME Quota!TypeOK, Quota!Covered, Quota!Next
    PROVE  Quota!TypeOK' /\ Quota!Covered'
<1> PICK u \in Bodies :
      \/ Quota!Start(u) \/ Quota!Add(u) \/ Quota!Charge(u) \/ Quota!Refuse(u) \/ Quota!RefuseAgain(u)
      \/ Quota!SkipRescan(u) \/ Quota!BeginRescan(u) \/ Quota!Walk(u) \/ Quota!Recover(u)
      \/ Quota!Write(u) \/ Quota!EndBody(u) \/ Quota!ReadError(u) \/ Quota!Abandon(u)
      \/ Quota!Submit(u) \/ Quota!Leave(u) \/ Quota!Done(u) \/ Quota!Finish(u) \/ Quota!Cleanup(u)
  BY DEF Quota!Next
<1>w. \A n \in Int : n % Width \in 0..(Width - 1)
  BY QuotaConstants, ModRange
<1>b. /\ used \in Int /\ pre \in Int /\ recovered \in Nat /\ bytes[u] \in Nat /\ disk[u] \in Nat
      /\ MaxChunks \in Nat /\ bytes[u] <= MaxChunks /\ disk[u] <= MaxChunks
  BY QuotaConstants DEF Quota!TypeOK
<1>0. 0 \in 0..(Width - 1) /\ 0 \in 0..MaxChunks /\ QuotaFaults \in Nat /\ MaxRescans \in Nat
  BY QuotaConstants
<1>d. Quota!Total(disk) \in Nat
  BY ChunkCount DEF Quota!TypeOK, Sizes
<1> USE DEF Quota!TypeOK, Quota!Covered, Quota!To, Quota!scan, Quota!Fault
<1>1. CASE Quota!Start(u) \/ Quota!SkipRescan(u) \/ Quota!Submit(u)
  BY <1>1, <1>b DEF Quota!Start, Quota!SkipRescan, Quota!Submit
<1>2. CASE Quota!Add(u)
  BY <1>2, <1>w, <1>b DEF Quota!Add
<1>3. CASE Quota!Charge(u)
  BY <1>3, <1>b DEF Quota!Charge
<1>4. CASE Quota!Refuse(u)
  BY <1>4, <1>w, <1>b DEF Quota!Refuse
<1>5. CASE Quota!RefuseAgain(u)
  BY <1>5, <1>w, <1>b, <1>0 DEF Quota!RefuseAgain, Quota!Drop
<1>6. CASE Quota!BeginRescan(u)
  BY <1>6, <1>0 DEF Quota!BeginRescan
<1>7. CASE Quota!Walk(u)
  BY <1>7, <1>0, <1>d DEF Quota!Walk
<1>8. CASE Quota!Recover(u)
  BY <1>8, <1>w, <1>b, <1>0 DEF Quota!Recover
<1>9. CASE Quota!Write(u)
  BY <1>9, <1>w, <1>b, <1>0 DEF Quota!Write, Quota!Drop
<1>a. CASE Quota!EndBody(u)
  BY <1>a, <1>b DEF Quota!EndBody
<1>c. CASE Quota!ReadError(u)
  BY <1>c, <1>w, <1>b, <1>0 DEF Quota!ReadError, Quota!Drop
<1>e. CASE Quota!Abandon(u)
  BY <1>e, <1>w, <1>b, <1>0 DEF Quota!Abandon, Quota!Drop
<1>f. CASE Quota!Leave(u)
  BY <1>f, <1>w, <1>b, <1>0 DEF Quota!Leave, Quota!Drop
<1>g. CASE Quota!Done(u)
  BY <1>g, <1>b, <1>0 DEF Quota!Done
<1>h. CASE Quota!Finish(u)
  BY <1>h, <1>w, <1>b, <1>0 DEF Quota!Finish, Quota!Drop
<1>i. CASE Quota!Cleanup(u)
  BY <1>i, <1>b, <1>0 DEF Quota!Cleanup
<1> QED BY <1>1, <1>2, <1>3, <1>4, <1>5, <1>6, <1>7, <1>8, <1>9, <1>a, <1>c, <1>e, <1>f, <1>g, <1>h, <1>i

(* The counter follows what one upload has on it.                          *)
LEMMA QuotaMoves ==
    ASSUME Quota!Conserved, Quota!Charged \in Sizes, recovered \in Nat, NEW u \in Bodies,
           NEW c \in 0..MaxChunks, Quota!Charged' = [Quota!Charged EXCEPT ![u] = c],
           used' = (used + (c - Quota!Charged[u])) % Width, recovered' = recovered
    PROVE  Quota!Conserved'
<1> DEFINE a == Quota!Total(Quota!Charged) - recovered
           d == c - Quota!Charged[u]
<1>1. Quota!Total(Quota!Charged) \in Nat
  BY ChunkCount
<1>2. Quota!Charged[u] \in Nat /\ c \in Nat
  BY QuotaConstants DEF Sizes
<1>3. used' = (a + d) % Width
  <2>1. a \in Int /\ d \in Int
    BY <1>1, <1>2
  <2>2. used = a % Width /\ used' = (used + d) % Width
    BY DEF Quota!Conserved
  <2> HIDE DEF a, d
  <2> QED BY <2>1, <2>2, ModAdd, QuotaConstants
<1>4. Quota!Total(Quota!Charged)' = Quota!Total(Quota!Charged) - Quota!Charged[u] + c
  <2>1. Quota!Total([Quota!Charged EXCEPT ![u] = c]) = Quota!Total(Quota!Charged) - Quota!Charged[u] + c
    BY ChunkSet
  <2>2. Quota!Total(Quota!Charged)' = Quota!Total(Quota!Charged')
    BY DEF Quota!Total, Quota!Chunks
  <2> QED BY <2>1, <2>2
<1>5. Quota!Total(Quota!Charged)' - recovered' = a + d
  BY <1>1, <1>2, <1>4
<1> QED BY <1>3, <1>5 DEF Quota!Conserved

(* Reservations, charges and grants are sizes of files, each no more than  *)
(* the next.                                                               *)
LEMMA QuotaSizes ==
    ASSUME Quota!TypeOK, Quota!Covered
    PROVE  /\ bytes \in Sizes /\ disk \in Sizes /\ Quota!Charged \in Sizes /\ Quota!Granted \in Sizes
           /\ \A u \in Bodies : bytes[u] <= Quota!Granted[u] /\ Quota!Granted[u] <= Quota!Charged[u]
  BY QuotaConstants DEF Quota!TypeOK, Quota!Covered, Quota!Charged, Quota!Granted, Quota!Deciding, Sizes

(* Every step conserves the counter.                                       *)
LEMMA QuotaConserved ==
    ASSUME Quota!TypeOK, Quota!Covered, Quota!Conserved, Quota!Next
    PROVE  Quota!Conserved'
<1> PICK u \in Bodies :
      \/ Quota!Start(u) \/ Quota!Add(u) \/ Quota!Charge(u) \/ Quota!Refuse(u) \/ Quota!RefuseAgain(u)
      \/ Quota!SkipRescan(u) \/ Quota!BeginRescan(u) \/ Quota!Walk(u) \/ Quota!Recover(u)
      \/ Quota!Write(u) \/ Quota!EndBody(u) \/ Quota!ReadError(u) \/ Quota!Abandon(u)
      \/ Quota!Submit(u) \/ Quota!Leave(u) \/ Quota!Done(u) \/ Quota!Finish(u) \/ Quota!Cleanup(u)
  BY DEF Quota!Next
<1>b. /\ used \in Int /\ pre \in Int /\ found \in Int /\ recovered \in Nat /\ bytes[u] \in Nat
      /\ 0 \in 0..MaxChunks /\ bytes[u] \in 0..MaxChunks
  BY QuotaConstants DEF Quota!TypeOK
<1>s. Quota!Charged \in Sizes /\ Quota!Charged[u] \in Nat
  BY QuotaSizes, QuotaConstants DEF Sizes
<1>k. ASSUME UNCHANGED <<used, recovered>>, Quota!Charged' = Quota!Charged PROVE Quota!Conserved'
  BY <1>k DEF Quota!Conserved, Quota!Total, Quota!Chunks
<1>t. ASSUME NEW s, Quota!To(u, s)
      PROVE  pc'[u] = s /\ \A o \in Bodies : o # u => pc'[o] = pc[o]
  BY <1>t DEF Quota!To, Quota!TypeOK
<1>d. ASSUME NEW extra \in {0, 1}, Quota!Drop(u, extra), UNCHANGED recovered,
             Quota!Charged[u] = bytes[u] + extra, NEW s \in {"ended", "orphan"}, Quota!To(u, s)
      PROVE  Quota!Conserved'
  <2>1. bytes' = [bytes EXCEPT ![u] = 0] /\ used' = (used - bytes[u] - extra) % Width
    BY <1>d DEF Quota!Drop
  <2>2. Quota!Charged' = [Quota!Charged EXCEPT ![u] = 0]
    BY <1>d, <1>t, <2>1 DEF Quota!Charged, Quota!Deciding, Quota!TypeOK
  <2>3. used' = (used + (0 - Quota!Charged[u])) % Width
    <3>1. used - bytes[u] - extra = used + (0 - Quota!Charged[u])
      BY <1>b, <1>d
    <3> QED BY <2>1, <3>1
  <2> QED BY <1>b, <1>d, <1>s, <2>2, <2>3, QuotaMoves
<1>1. CASE \/ Quota!Start(u) \/ Quota!SkipRescan(u) \/ Quota!Submit(u) \/ Quota!BeginRescan(u)
           \/ Quota!Walk(u) \/ Quota!EndBody(u) \/ Quota!Done(u) \/ Quota!Cleanup(u)
  <2>1. UNCHANGED <<used, recovered, bytes>>
    BY <1>1, Zenon DEF Quota!Start, Quota!SkipRescan, Quota!Submit, Quota!BeginRescan, Quota!Walk,
       Quota!EndBody, Quota!Done, Quota!Cleanup, Quota!scan
  <2>2. \A o \in Bodies : pc'[o] = pc[o] \/ (~Quota!Deciding(o) /\ ~Quota!Deciding(o)')
    <3>1. CASE Quota!Cleanup(u)
      BY <3>1, Zenon DEF Quota!Cleanup
    <3>2. CASE ~Quota!Cleanup(u)
      <4>1. /\ ~Quota!Deciding(u)
            /\ \E s \in {"reading", "retry", "submitted", "walking", "walked", "ended", "waiting",
                         "answered"} : Quota!To(u, s)
        BY <1>1, <3>2 DEF Quota!Start, Quota!SkipRescan, Quota!Submit, Quota!BeginRescan, Quota!Walk,
           Quota!EndBody, Quota!Done, Quota!Deciding
      <4>2. PICK s \in {"reading", "retry", "submitted", "walking", "walked", "ended", "waiting",
                         "answered"} : Quota!To(u, s)
        BY <4>1
      <4>3. pc'[u] = s /\ \A o \in Bodies : o # u => pc'[o] = pc[o]
        BY <1>t, <4>2
      <4>4. ~Quota!Deciding(u)'
        BY <4>3 DEF Quota!Deciding
      <4> QED BY <4>1, <4>3, <4>4, Zenon
    <3> QED BY <3>1, <3>2
  <2>3. Quota!Charged' = Quota!Charged
    BY <2>1, <2>2 DEF Quota!Charged, Quota!Deciding
  <2> QED BY <1>k, <2>1, <2>3
<1>2. CASE Quota!Add(u)
  <2>1. /\ \E s \in {"adding", "addingAgain"} : Quota!To(u, s)
        /\ ~Quota!Deciding(u) /\ bytes[u] + 1 \in 0..MaxChunks
    BY <1>2, QuotaConstants DEF Quota!Add, Quota!Deciding, Quota!Covered, Quota!TypeOK
  <2>2. bytes' = bytes /\ used' = (used + 1) % Width /\ recovered' = recovered
    BY <1>2 DEF Quota!Add, Quota!scan
  <2>3. Quota!Charged' = [Quota!Charged EXCEPT ![u] = bytes[u] + 1] /\ Quota!Charged[u] = bytes[u]
    BY <1>t, <2>1, <2>2 DEF Quota!Charged, Quota!Deciding
  <2>4. (bytes[u] + 1) - Quota!Charged[u] = 1
    BY <1>b, <2>3
  <2> QED BY <1>b, <1>s, <2>1, <2>2, <2>3, <2>4, QuotaMoves
<1>3. CASE Quota!Charge(u)
  <2>1. UNCHANGED <<used, recovered>>
    BY <1>3 DEF Quota!Charge, Quota!scan
  <2>2. Quota!To(u, "write") /\ bytes' = [bytes EXCEPT ![u] = bytes[u] + 1] /\ Quota!Deciding(u)
    BY <1>3 DEF Quota!Charge, Quota!Deciding
  <2>3. Quota!Charged' = Quota!Charged
    BY <1>t, <2>2 DEF Quota!Charged, Quota!Deciding, Quota!TypeOK
  <2> QED BY <1>k, <2>1, <2>3
<1>4. CASE Quota!Refuse(u)
  <2>1. Quota!To(u, "refused") /\ Quota!Deciding(u)
    BY <1>4 DEF Quota!Refuse, Quota!Deciding
  <2>2. bytes' = bytes /\ used' = (used - 1) % Width /\ recovered' = recovered
    BY <1>4 DEF Quota!Refuse, Quota!scan
  <2>r. pc'[u] = "refused" /\ \A o \in Bodies : o # u => pc'[o] = pc[o]
    BY <1>t, <2>1
  <2>3. Quota!Charged' = [Quota!Charged EXCEPT ![u] = bytes[u]] /\ Quota!Charged[u] = bytes[u] + 1
    BY <2>r, <2>1, <2>2 DEF Quota!Charged, Quota!Deciding
  <2>4. used - 1 = used + (bytes[u] - Quota!Charged[u])
    BY <1>b, <2>3
  <2> QED BY <1>b, <1>s, <2>1, <2>2, <2>3, <2>4, QuotaMoves
<1>5. CASE Quota!RefuseAgain(u)
  <2>1. Quota!Charged[u] = bytes[u] + 1
    BY <1>5 DEF Quota!RefuseAgain, Quota!Charged, Quota!Deciding
  <2> QED BY <1>5, <1>d, <2>1 DEF Quota!RefuseAgain, Quota!scan
<1>6. CASE Quota!Recover(u)
  <2> DEFINE gap == IF pre > found THEN pre - found ELSE 0
             a == Quota!Total(Quota!Charged) - recovered
  <2>1. used' = (used - gap) % Width /\ recovered' = recovered + gap /\ bytes' = bytes
    BY <1>6 DEF Quota!Recover
  <2>2. Quota!Charged' = Quota!Charged
    BY <1>6, <1>t DEF Quota!Recover, Quota!Charged, Quota!Deciding
  <2>3. Quota!Total(Quota!Charged)' = Quota!Total(Quota!Charged)
    BY <2>2 DEF Quota!Total, Quota!Chunks
  <2>4. gap \in Int /\ Quota!Total(Quota!Charged) \in Nat
    BY <1>b, <1>s, ChunkCount
  <2>5. (Quota!Total(Quota!Charged) - recovered') = a + (0 - gap)
    BY <1>b, <2>1, <2>4
  <2>6. used - gap = used + (0 - gap) /\ 0 - gap \in Int
    BY <1>b, <2>4
  <2>7. used = a % Width /\ a \in Int
    BY <1>b, <2>4 DEF Quota!Conserved
  <2>8. used' = (used + (0 - gap)) % Width
    BY <2>1, <2>6
  <2> HIDE DEF gap, a
  <2>9. used' = (a + (0 - gap)) % Width
    BY <2>6, <2>7, <2>8, ModAdd, QuotaConstants
  <2> QED BY <2>3, <2>5, <2>9 DEF Quota!Conserved
<1>7. CASE Quota!Write(u)
  <2>1. Quota!Charged[u] = bytes[u] + 0
    BY <1>7, <1>b DEF Quota!Write, Quota!Charged, Quota!Deciding
  <2>2. CASE UNCHANGED <<used, bytes>> /\ Quota!To(u, "reading")
    <3>1. Quota!Charged' = Quota!Charged
      BY <1>7, <1>t, <2>2 DEF Quota!Write, Quota!Charged, Quota!Deciding
    <3> QED BY <1>7, <1>k, <2>2, <3>1 DEF Quota!Write, Quota!scan
  <2>3. CASE Quota!Drop(u, 0) /\ Quota!To(u, "ended")
    BY <1>7, <1>d, <2>1, <2>3 DEF Quota!Write, Quota!scan
  <2> QED BY <1>7, <2>2, <2>3, Zenon DEF Quota!Write
<1>8. CASE Quota!ReadError(u) \/ Quota!Abandon(u) \/ Quota!Leave(u) \/ Quota!Finish(u)
  <2>1. Quota!Charged[u] = bytes[u] + 0
    BY <1>8, <1>b DEF Quota!ReadError, Quota!Abandon, Quota!Leave, Quota!Finish, Quota!Charged,
       Quota!Deciding
  <2>2. /\ Quota!Drop(u, 0) /\ \E s \in {"ended", "orphan"} : Quota!To(u, s)
        /\ UNCHANGED recovered
    BY <1>8 DEF Quota!ReadError, Quota!Abandon, Quota!Leave, Quota!Finish, Quota!scan
  <2> QED BY <1>d, <2>1, <2>2
<1> QED BY <1>1, <1>2, <1>3, <1>4, <1>5, <1>6, <1>7, <1>8

(* Only a charge that fits grants more, and it fits beside all that is     *)
(* charged.                                                                *)
LEMMA QuotaGrants ==
    ASSUME Quota!IndInv, Quota!Next, Quota!TypeOK', Quota!Covered'
    PROVE  Quota!GrantsFit'
<1> PICK u \in Bodies :
      \/ Quota!Start(u) \/ Quota!Add(u) \/ Quota!Charge(u) \/ Quota!Refuse(u) \/ Quota!RefuseAgain(u)
      \/ Quota!SkipRescan(u) \/ Quota!BeginRescan(u) \/ Quota!Walk(u) \/ Quota!Recover(u)
      \/ Quota!Write(u) \/ Quota!EndBody(u) \/ Quota!ReadError(u) \/ Quota!Abandon(u)
      \/ Quota!Submit(u) \/ Quota!Leave(u) \/ Quota!Done(u) \/ Quota!Finish(u) \/ Quota!Cleanup(u)
  BY DEF Quota!Next
<1> SUFFICES ASSUME recovered' = 0 PROVE Quota!Total(Quota!Granted)' <= Limit
  BY DEF Quota!GrantsFit
<1>0. Quota!TypeOK /\ Quota!Covered /\ Quota!Conserved /\ Quota!GrantsFit
  BY DEF Quota!IndInv
<1>p. Quota!Total(Quota!Granted)' = Quota!Total(Quota!Granted')
  BY DEF Quota!Total, Quota!Chunks
<1>s. Quota!Granted \in Sizes /\ Quota!Charged \in Sizes /\ Quota!Granted' \in Sizes
  <2>1. Quota!Granted \in Sizes /\ Quota!Charged \in Sizes
    BY <1>0, QuotaSizes
  <2>2. Quota!Granted' \in Sizes
    BY QuotaConstants DEF Quota!TypeOK, Quota!Covered, Quota!Granted, Quota!Deciding, Sizes
  <2> QED BY <2>1, <2>2
<1>r. recovered = 0
  <2>1. recovered \in Nat /\ pre \in Int /\ found \in Int
    BY <1>0, QuotaConstants DEF Quota!TypeOK
  <2>2. CASE Quota!Recover(u)
    BY <2>1, <2>2 DEF Quota!Recover
  <2>3. CASE ~Quota!Recover(u)
    BY <2>3, Zenon DEF Quota!Start, Quota!Add, Quota!Charge, Quota!Refuse, Quota!RefuseAgain,
       Quota!SkipRescan, Quota!BeginRescan, Quota!Walk, Quota!Write, Quota!EndBody, Quota!ReadError,
       Quota!Abandon, Quota!Submit, Quota!Leave, Quota!Done, Quota!Finish, Quota!Cleanup, Quota!scan
  <2> QED BY <2>2, <2>3
<1>f. Quota!Total(Quota!Granted) <= Limit
  BY <1>0, <1>r DEF Quota!GrantsFit
<1>n. /\ Quota!Total(Quota!Granted) \in Nat /\ Quota!Total(Quota!Granted') \in Nat
      /\ Limit \in Nat
  BY <1>s, ChunkCount, QuotaConstants
<1>l. ASSUME \A o \in Bodies : Quota!Granted'[o] <= Quota!Granted[o] PROVE Quota!Total(Quota!Granted)' <= Limit
  <2>1. Quota!Total(Quota!Granted') <= Quota!Total(Quota!Granted)
    BY <1>l, <1>s, ChunkMore
  <2> QED BY <1>f, <1>n, <1>p, <2>1
<1>t. ASSUME NEW s, Quota!To(u, s)
      PROVE  pc'[u] = s /\ \A o \in Bodies : o # u => pc'[o] = pc[o]
  BY <1>0, <1>t DEF Quota!To, Quota!TypeOK
<1>b. \A o \in Bodies : bytes[o] \in Nat
  BY <1>0, QuotaConstants DEF Quota!TypeOK
<1>1. CASE Quota!Add(u)
  <2>1. /\ \E s \in {"adding", "addingAgain"} : Quota!To(u, s)
        /\ ~Quota!Deciding(u) /\ bytes[u] + 1 \in 0..MaxChunks
    BY <1>0, <1>1, QuotaConstants DEF Quota!Add, Quota!Deciding, Quota!Covered, Quota!TypeOK
  <2>2. bytes' = bytes /\ prev' = [prev EXCEPT ![u] = used]
    BY <1>1 DEF Quota!Add
  <2>3. prev'[u] = used /\ \A o \in Bodies : o # u => prev'[o] = prev[o]
    BY <1>0, <2>2 DEF Quota!TypeOK
  <2>4. Quota!Granted[u] = bytes[u]
    BY <2>1 DEF Quota!Granted
  <2>5. CASE Quota!Fits(u)'
    <3>1. Quota!Granted' = [Quota!Granted EXCEPT ![u] = bytes[u] + 1]
      BY <1>t, <2>1, <2>2, <2>3, <2>5 DEF Quota!Granted, Quota!Deciding, Quota!Fits
    <3>2. Quota!Total([Quota!Granted EXCEPT ![u] = bytes[u] + 1])
            = Quota!Total(Quota!Granted) - Quota!Granted[u] + (bytes[u] + 1)
      BY <1>s, <2>1, ChunkSet
    <3>3. Quota!Total(Quota!Granted') = Quota!Total(Quota!Granted) + 1
      BY <1>b, <1>n, <2>4, <3>1, <3>2
    <3>4. Quota!Total(Quota!Granted) <= Quota!Total(Quota!Charged)
      BY <1>0, <1>s, QuotaSizes, ChunkMore
    <3>5. Quota!Total(Quota!Charged) \in Nat /\ Quota!Total(Quota!Charged) < Width - Limit
      BY <1>s, ChunkCount
    <3>6. used = Quota!Total(Quota!Charged)
      <4>1. Quota!Total(Quota!Charged) - recovered = Quota!Total(Quota!Charged)
        BY <1>r, <3>5
      <4>2. Quota!Total(Quota!Charged) \in 0..(Width - 1)
        BY <3>5, QuotaConstants
      <4>3. Quota!Total(Quota!Charged) % Width = Quota!Total(Quota!Charged)
        BY <4>2, QuotaConstants, ModSmall
      <4> QED BY <1>0, <4>1, <4>3 DEF Quota!Conserved
    <3>7. Quota!Total(Quota!Charged) + 1 <= Limit
      <4>1. Quota!Saturating(used) <= Limit
        BY <2>3, <2>5 DEF Quota!Fits, Quota!Saturating
      <4>2. Quota!Total(Quota!Charged) + 1 < Width
        BY <3>5, QuotaConstants
      <4> QED BY <3>6, <4>1, <4>2 DEF Quota!Saturating
    <3> QED BY <1>n, <1>p, <3>3, <3>4, <3>5, <3>7
  <2>6. CASE ~Quota!Fits(u)'
    <3>1. \A o \in Bodies : Quota!Granted'[o] = Quota!Granted[o]
      BY <1>t, <2>1, <2>2, <2>3, <2>4, <2>6 DEF Quota!Granted, Quota!Deciding, Quota!Fits
    <3>2. \A o \in Bodies : Quota!Granted[o] \in Nat
      BY <1>s, QuotaConstants DEF Sizes
    <3> QED BY <1>l, <3>1, <3>2
  <2> QED BY <2>5, <2>6
<1>2. CASE Quota!Charge(u)
  <2>1. /\ Quota!To(u, "write") /\ bytes' = [bytes EXCEPT ![u] = bytes[u] + 1] /\ prev' = prev
        /\ Quota!Deciding(u) /\ Quota!Fits(u)
    BY <1>2 DEF Quota!Charge, Quota!Deciding
  <2>2. \A o \in Bodies : Quota!Granted'[o] = Quota!Granted[o]
    BY <1>0, <1>t, <2>1 DEF Quota!Granted, Quota!Deciding, Quota!Fits, Quota!TypeOK
  <2>3. \A o \in Bodies : Quota!Granted[o] \in Nat
    BY <1>s, QuotaConstants DEF Sizes
  <2> QED BY <1>l, <2>2, <2>3
<1>3. CASE ~Quota!Add(u) /\ ~Quota!Charge(u)
  <2>1. prev' = prev
    BY <1>3, Zenon DEF Quota!Start, Quota!Refuse, Quota!RefuseAgain,
       Quota!SkipRescan, Quota!BeginRescan, Quota!Walk, Quota!Recover, Quota!Write, Quota!EndBody,
       Quota!ReadError, Quota!Abandon, Quota!Submit, Quota!Leave, Quota!Done, Quota!Finish, Quota!Cleanup
  <2>2. \A o \in Bodies : bytes'[o] = bytes[o] \/ (o = u /\ bytes'[o] = 0)
    <3>1. bytes' = bytes \/ bytes' = [bytes EXCEPT ![u] = 0]
      BY <1>3, Zenon DEF Quota!Start, Quota!Refuse, Quota!RefuseAgain, Quota!Drop,
         Quota!SkipRescan, Quota!BeginRescan, Quota!Walk, Quota!Recover, Quota!Write, Quota!EndBody,
         Quota!ReadError, Quota!Abandon, Quota!Submit, Quota!Leave, Quota!Done, Quota!Finish,
         Quota!Cleanup
    <3>2. bytes \in [Bodies -> 0..MaxChunks]
      BY <1>0, Zenon DEF Quota!TypeOK
    <3> QED BY <3>1, <3>2
  <2>3. \A o \in Bodies : Quota!Deciding(o)' => Quota!Deciding(o) /\ pc'[o] = pc[o]
    <3>1. \/ pc' = pc
          \/ \E s \in {"reading", "refused", "retry", "submitted", "walking", "walked", "ended",
                       "waiting", "answered", "orphan"} : Quota!To(u, s)
      BY <1>3 DEF Quota!Start, Quota!Refuse, Quota!RefuseAgain,
         Quota!SkipRescan, Quota!BeginRescan, Quota!Walk, Quota!Recover, Quota!Write, Quota!EndBody,
         Quota!ReadError, Quota!Abandon, Quota!Submit, Quota!Leave, Quota!Done, Quota!Finish,
         Quota!Cleanup
    <3> QED BY <1>t, <3>1 DEF Quota!Deciding
  <2>4. \A o \in Bodies : Quota!Granted'[o] <= Quota!Granted[o]
    BY <1>b, <2>1, <2>2, <2>3 DEF Quota!Granted, Quota!Fits
  <2> QED BY <1>l, <2>4
<1> QED BY <1>1, <1>2, <1>3

(* The invariant of the quota is inductive.                                *)
LEMMA QuotaStep == Quota!IndInv /\ [Quota!Next]_Quota!vars => Quota!IndInv'
<1> SUFFICES ASSUME Quota!IndInv, [Quota!Next]_Quota!vars PROVE Quota!IndInv'
  OBVIOUS
<1>1. CASE Quota!Next
  <2>1. Quota!TypeOK' /\ Quota!Covered'
    BY <1>1, QuotaTypes DEF Quota!IndInv
  <2>2. Quota!Conserved'
    BY <1>1, QuotaConserved DEF Quota!IndInv
  <2>3. Quota!GrantsFit'
    BY <1>1, <2>1, QuotaGrants
  <2> QED BY <2>1, <2>2, <2>3 DEF Quota!IndInv
<1>2. CASE UNCHANGED Quota!vars
  BY <1>2 DEF Quota!vars, Quota!scan, Quota!IndInv, Quota!TypeOK, Quota!Covered, Quota!Conserved,
     Quota!GrantsFit, Quota!Total, Quota!Chunks, Quota!Charged, Quota!Granted, Quota!Deciding,
     Quota!Fits, Quota!Saturating
<1> QED BY <1>1, <1>2

(* It keeps the directory within its limit.                                *)
LEMMA QuotaPromise == Quota!IndInv => Quota!WithinLimit
<1> SUFFICES ASSUME Quota!IndInv, recovered = 0, astray = {} PROVE Quota!Total(disk) <= Limit
  BY DEF Quota!WithinLimit
<1>1. /\ bytes \in Sizes /\ disk \in Sizes /\ Quota!Granted \in Sizes
      /\ \A u \in Bodies : bytes[u] <= Quota!Granted[u]
  BY QuotaSizes DEF Quota!IndInv
<1>2. \A u \in Bodies : disk[u] <= bytes[u]
  BY DEF Quota!IndInv, Quota!Covered
<1>3. Quota!Total(disk) <= Quota!Total(bytes) /\ Quota!Total(bytes) <= Quota!Total(Quota!Granted)
  BY <1>1, <1>2, ChunkMore
<1>4. /\ Quota!Total(disk) \in Nat /\ Quota!Total(bytes) \in Nat /\ Quota!Total(Quota!Granted) \in Nat
      /\ Limit \in Nat
  BY <1>1, ChunkCount, QuotaConstants
<1>5. Quota!Total(Quota!Granted) <= Limit
  BY DEF Quota!IndInv, Quota!GrantsFit
<1> QED BY <1>3, <1>4, <1>5

---------------------------------------------------------------------------
(* The invariant of the part at work.                                      *)
CopiesInv ==
    /\ part = "quota" => Quota!IndInv
    /\ part \in {"copies", "losing"} => Copies!IndInv

(* For every number of uploads, chunks, rescans and faults: the quota's    *)
(* counter is what reservations and unjudged charges hold, less what       *)
(* rescans took off, through every wrap of it, and a directory nobody      *)
(* meddled with keeps its limit; and for every number of nodes, plays and  *)
(* qualities, a node uploads a track once at a time and no row or track    *)
(* speaks of a copy that was never stored.                                 *)
THEOREM CopiesAreSafe == Spec => []CopiesSafe
<1>1. Init => CopiesInv
  BY QuotaInit, CopyInit DEF Init, CopiesInv
<1>2. CopiesInv /\ [Next]_vars => CopiesInv'
  <2> SUFFICES ASSUME CopiesInv, [Next]_vars PROVE CopiesInv'
    OBVIOUS
  <2>p. UNCHANGED part
    BY Zenon DEF Next, vars
  <2>1. ASSUME part = "quota" PROVE Quota!IndInv'
    <3>1. [Quota!Next]_Quota!vars
      BY <2>1 DEF Next, vars, quotaVars, Quota!vars, Quota!scan
    <3> QED BY <2>1, <3>1, QuotaStep DEF CopiesInv
  <2>2. ASSUME part \in {"copies", "losing"} PROVE Copies!IndInv'
    <3>1. [Copies!Next]_Copies!vars
      BY <2>2 DEF Next, vars, copyVars, Copies!vars
    <3> QED BY <2>2, <3>1, CopyStep DEF CopiesInv
  <2> QED BY <2>p, <2>1, <2>2 DEF CopiesInv
<1>3. CopiesInv => CopiesSafe
  BY QuotaPromise, CopyPromise DEF CopiesInv, CopiesSafe, Quota!IndInv, Copies!IndInv
<1> QED BY <1>1, <1>2, <1>3, PTL DEF Spec

---------------------------------------------------------------------------
(* The uploads of the storage service and their events.                    *)

(* The constants of the storage.                                           *)
LEMMA StorageConstants ==
    /\ IsFiniteSet(Uploads) /\ FileOf \in [Uploads -> Files] /\ None \notin Uploads
    /\ BatchSize \in Nat /\ BatchSize > 0 /\ MaxTranscodes \in Nat /\ MaxTranscodes > 0
    /\ Writers \in Nat /\ MaxAttempts \in Nat /\ MaxAttempts > 0 /\ StorageFaults \in Nat
<1>1. Storage!IsFiniteSet(Uploads) <=> IsFiniteSet(Uploads)
  BY DEF Storage!IsFiniteSet, IsFiniteSet
<1> QED BY <1>1, StorageOK DEF Storage!StorageAssumption

(* Sets of uploads and of batches are finite.                              *)
LEMMA StorageFinite ==
    /\ \A S \in SUBSET Uploads :
         IsFiniteSet(S) /\ Storage!Cardinality(S) = Cardinality(S) /\ Cardinality(S) \in Nat
    /\ \A R \in SUBSET (SUBSET Uploads) :
         IsFiniteSet(R) /\ Storage!Cardinality(R) = Cardinality(R) /\ Cardinality(R) \in Nat
<1>1. ASSUME NEW S PROVE Storage!Cardinality(S) = Cardinality(S)
  BY DEF Storage!Cardinality, Cardinality
<1>2. ASSUME NEW S \in SUBSET Uploads PROVE IsFiniteSet(S) /\ Cardinality(S) \in Nat
  BY StorageConstants, FS_Subset, FS_CardinalityType
<1>3. ASSUME NEW R \in SUBSET (SUBSET Uploads) PROVE IsFiniteSet(R) /\ Cardinality(R) \in Nat
  BY StorageConstants, FS_SUBSET, FS_Subset, FS_CardinalityType
<1> QED BY <1>1, <1>2, <1>3

(* One element more, one element less.                                     *)
LEMMA StorageGrow ==
    /\ \A S \in SUBSET Uploads, u \in Uploads :
         Storage!Cardinality(S \cup {u}) <= Storage!Cardinality(S) + 1
    /\ \A R \in SUBSET (SUBSET Uploads), b \in SUBSET Uploads :
         /\ Storage!Cardinality(R \cup {b}) <= Storage!Cardinality(R) + 1
         /\ Storage!Cardinality(R \ {b}) <= Storage!Cardinality(R)
    /\ Storage!Cardinality({}) = 0
<1>1. ASSUME NEW S, NEW u, IsFiniteSet(S) PROVE Cardinality(S \cup {u}) <= Cardinality(S) + 1
  <2>1. Cardinality(S) \in Nat
    BY <1>1, FS_CardinalityType
  <2>2. CASE u \in S
    <3>1. S \cup {u} = S
      BY <2>2
    <3>2. Cardinality(S \cup {u}) = Cardinality(S)
      BY <3>1
    <3> QED BY <2>1, <3>2
  <2>3. CASE u \notin S
    <3>1. Cardinality(S \cup {u}) = Cardinality(S) + 1
      BY <1>1, <2>3, FS_AddElement
    <3> QED BY <2>1, <3>1
  <2> QED BY <2>2, <2>3
<1>2. ASSUME NEW S, NEW u, IsFiniteSet(S) PROVE Cardinality(S \ {u}) <= Cardinality(S)
  BY <1>2, FS_Subset
<1>3. ASSUME NEW S PROVE Storage!Cardinality(S) = Cardinality(S)
  BY DEF Storage!Cardinality, Cardinality
<1>4. Cardinality({}) = 0
  BY FS_EmptySet
<1> QED BY <1>1, <1>2, <1>3, <1>4, StorageFinite

(* The idle service satisfies the invariant.                               *)
LEMMA StorageInit == Storage!Init => Storage!IndInv
<1> SUFFICES ASSUME Storage!Init PROVE Storage!IndInv
  OBVIOUS
<1>1. Storage!TypeOK
  <2>1. Storage!Cardinality({}) <= BatchSize /\ Storage!Cardinality({}) <= MaxTranscodes
    BY StorageGrow, StorageConstants
  <2>2. 0 \in 0..(MaxAttempts - 1) /\ 0 \in 0..StorageFaults
    BY StorageConstants
  <2> QED BY <2>1, <2>2 DEF Storage!Init, Storage!TypeOK, Storage!Stages, Storage!Verdicts
<1>2. Storage!LocksHeld /\ Storage!InStep /\ Storage!InQueues /\ Storage!Tidy
  BY StorageConstants DEF Storage!Init, Storage!LocksHeld, Storage!InStep, Storage!Matches, Storage!InQueues, Storage!Waits,
     Storage!Tidy, Storage!InPipeline
<1>3. Storage!EventsKept /\ Storage!Numbered
  BY DEF Storage!Init, Storage!EventsKept, Storage!Numbered
<1>4. Storage!Truthful
  BY DEF Storage!Init, Storage!Truthful, Storage!Telling, Storage!Told, Storage!NeverTold
<1> QED BY <1>1, <1>2, <1>3, <1>4 DEF Storage!IndInv

(* A job settles: its verdict, its step and its files.                     *)
LEMMA StorageSettles ==
    ASSUME Storage!TypeOK, NEW u \in Uploads, NEW v \in Storage!Verdicts,
           NEW stage \in Storage!Stages, Storage!Settle(u, v, stage)
    PROVE  /\ verdict' \in [Uploads -> Storage!Verdicts] /\ job' \in [Uploads -> Storage!Stages]
           /\ tmp' \subseteq {"source", "result"} \X Uploads
           /\ verdict'[u] = v /\ job'[u] = stage
           /\ \A o \in Uploads : o # u => verdict'[o] = verdict[o] /\ job'[o] = job[o]
           /\ tmp' = tmp \ {Storage!Source(u), Storage!Result(u)}
<1>1. job \in [Uploads -> Storage!Stages] /\ verdict \in [Uploads -> Storage!Verdicts]
  BY DEF Storage!TypeOK
<1>2. tmp \subseteq {"source", "result"} \X Uploads
  BY DEF Storage!TypeOK
<1>3. tmp' = tmp \ {Storage!Source(u), Storage!Result(u)}
  BY DEF Storage!Settle
<1>4. tmp' \subseteq {"source", "result"} \X Uploads
  BY <1>2, <1>3
<1> QED BY <1>1, <1>3, <1>4 DEF Storage!Settle

(* Every step keeps the domains.                                           *)
LEMMA StorageWorkTypes ==
    ASSUME Storage!TypeOK, Storage!InStep, Storage!Numbered, NEW u \in Uploads,
           Storage!Receive(u) \/ Storage!Leave(u) \/ Storage!Work(u)
    PROVE  Storage!TypeOK'
<1>j. job \in [Uploads -> Storage!Stages] /\ verdict \in [Uploads -> Storage!Verdicts]
  BY DEF Storage!TypeOK
<1>s. {"open", "ok", "rejected", "failed"} = Storage!Verdicts
  BY DEF Storage!Verdicts
<1>t. \A stage \in {"queued", "ready", "check", "write", "announce", "push", "reply", "done"} :
        stage \in Storage!Stages /\ [job EXCEPT ![u] = stage] \in [Uploads -> Storage!Stages]
  BY <1>j DEF Storage!Stages
<1>f. ASSUME Storage!Fault \/ UNCHANGED faults PROVE faults' \in 0..StorageFaults
  BY <1>f, StorageConstants DEF Storage!Fault, Storage!TypeOK
<1>x. UNCHANGED Storage!events =>
        UNCHANGED next /\ UNCHANGED drawn /\ UNCHANGED spool /\ UNCHANGED list /\ UNCHANGED stream
  BY DEF Storage!events
<1>d. ASSUME Storage!Reject(u) \/ Storage!Fail(u)
      PROVE  /\ job' \in [Uploads -> Storage!Stages] /\ verdict' \in [Uploads -> Storage!Verdicts]
             /\ tmp' \subseteq {"source", "result"} \X Uploads
  <2>1. "rejected" \in Storage!Verdicts /\ "failed" \in Storage!Verdicts
    BY <1>s
  <2>2. "announce" \in Storage!Stages /\ "reply" \in Storage!Stages
    BY DEF Storage!Stages
  <2> QED BY <1>d, <2>1, <2>2, StorageSettles DEF Storage!Reject, Storage!Fail
<1>1. CASE Storage!Receive(u)
  <2>1. tmp' \subseteq {"source", "result"} \X Uploads
    BY <1>1 DEF Storage!Receive, Storage!Source, Storage!TypeOK
  <2>2. locks' \in [Files -> Uploads \cup {None}] /\ lockOf' \in [Uploads -> Uploads \cup {None}]
    <3>1. locks \in [Files -> Uploads \cup {None}] /\ lockOf \in [Uploads -> Uploads \cup {None}]
      BY DEF Storage!TypeOK
    <3>2. FileOf[u] \in Files
      BY StorageConstants
    <3> QED BY <1>1, <3>1, <3>2 DEF Storage!Receive, Storage!FileLock
  <2>3. handler' \in [Uploads -> {"new", "waiting", "submitted", "gone", "ok", "rejected", "failed"}]
    BY <1>1 DEF Storage!Receive, Storage!TypeOK
  <2> QED BY <1>1, <1>x, <2>1, <2>2, <2>3 DEF Storage!Receive, Storage!TypeOK, Storage!jobs
<1>2. CASE Storage!Leave(u)
  <2>1. blurred' \subseteq Files
    <3>1. FileOf[u] \in Files /\ blurred \subseteq Files
      BY StorageConstants DEF Storage!TypeOK
    <3> QED BY <1>2, <3>1 DEF Storage!Leave
  <2>2. handler' \in [Uploads -> {"new", "waiting", "submitted", "gone", "ok", "rejected", "failed"}]
    BY <1>2 DEF Storage!Leave, Storage!TypeOK
  <2>3. lockOf' \in [Uploads -> Uploads \cup {None}]
    BY <1>2 DEF Storage!Leave, Storage!TypeOK
  <2>4. faults' \in 0..StorageFaults
    BY <1>2, <1>f DEF Storage!Leave
  <2> QED BY <1>2, <1>x, <2>1, <2>2, <2>3, <2>4 DEF Storage!Leave, Storage!TypeOK, Storage!jobs
<1>3. CASE Storage!Submit(u)
  <2>1. queue' \in Seq(Uploads)
    BY <1>3 DEF Storage!Submit, Storage!TypeOK
  <2>2. handler' \in [Uploads -> {"new", "waiting", "submitted", "gone", "ok", "rejected", "failed"}]
    BY <1>3 DEF Storage!Submit, Storage!TypeOK
  <2>3. job' \in [Uploads -> Storage!Stages]
    BY <1>3, <1>t DEF Storage!Submit
  <2> QED BY <1>3, <1>x, <2>1, <2>2, <2>3 DEF Storage!Submit, Storage!TypeOK
<1>4. CASE Storage!Probe(u)
  <2>1. /\ job' \in [Uploads -> Storage!Stages] /\ verdict' \in [Uploads -> Storage!Verdicts]
        /\ tmp' \subseteq {"source", "result"} \X Uploads
    BY <1>4, <1>t, <1>d DEF Storage!Probe, Storage!TypeOK
  <2> QED BY <1>4, <1>x, <2>1 DEF Storage!Probe, Storage!TypeOK
<1>5. CASE Storage!TranscodeAlone(u)
  <2>1. /\ job' \in [Uploads -> Storage!Stages] /\ verdict' \in [Uploads -> Storage!Verdicts]
        /\ tmp' \subseteq {"source", "result"} \X Uploads
    <3>1. CASE tmp' = tmp \cup Storage!Outputs({u}) /\ job' = [job EXCEPT ![u] = "check"] /\ UNCHANGED verdict
      BY <3>1, <1>t DEF Storage!TypeOK, Storage!Outputs, Storage!Result
    <3> QED BY <1>5, <1>d, <3>1 DEF Storage!TranscodeAlone
  <2>2. faults' \in 0..StorageFaults
    BY <1>5, <1>f DEF Storage!TranscodeAlone
  <2> QED BY <1>5, <1>x, <2>1, <2>2 DEF Storage!TranscodeAlone, Storage!TypeOK
<1>6. CASE Storage!Check(u)
  <2>1. /\ job' \in [Uploads -> Storage!Stages] /\ verdict' \in [Uploads -> Storage!Verdicts]
        /\ tmp' \subseteq {"source", "result"} \X Uploads
    BY <1>6, <1>t, <1>d DEF Storage!Check, Storage!TypeOK
  <2>2. faults' \in 0..StorageFaults
    BY <1>6, <1>f DEF Storage!Check
  <2>3. writeQueue' \in Seq(Uploads)
    <3>1. writeQueue \in Seq(Uploads)
      BY DEF Storage!TypeOK
    <3>2. writeQueue' = Append(writeQueue, u) \/ UNCHANGED writeQueue
      BY <1>6, Zenon DEF Storage!Check
    <3> QED BY <3>1, <3>2
  <2> QED BY <1>6, <1>x, <2>1, <2>2, <2>3 DEF Storage!Check, Storage!TypeOK
<1>7. CASE Storage!Put(u)
  <2>1. /\ job' \in [Uploads -> Storage!Stages] /\ verdict' \in [Uploads -> Storage!Verdicts]
        /\ tmp' \subseteq {"source", "result"} \X Uploads
    <3>1. CASE Storage!Settle(u, "ok", "announce")
      BY <3>1, <1>s, <1>t, StorageSettles
    <3>2. CASE UNCHANGED <<verdict, job, tmp>>
      BY <3>2 DEF Storage!TypeOK
    <3> QED BY <1>7, <1>d, <3>1, <3>2 DEF Storage!Put
  <2>2. faults' \in 0..StorageFaults
    BY <1>7, <1>f DEF Storage!Put
  <2>3. object' \in [Files -> Uploads \cup {None}]
    <3>1. Storage!Committed(u) \in [Files -> Uploads \cup {None}]
      BY StorageConstants DEF Storage!Committed, Storage!TypeOK
    <3> QED BY <1>7, <3>1 DEF Storage!Put, Storage!TypeOK
  <2>4. tries' \in [Uploads -> 0..(MaxAttempts - 1)]
    <3>1. tries \in [Uploads -> 0..(MaxAttempts - 1)]
      BY DEF Storage!TypeOK
    <3>2. \/ UNCHANGED tries
          \/ ~(tries[u] + 1 >= MaxAttempts) /\ tries' = [tries EXCEPT ![u] = @ + 1]
      BY <1>7, Zenon DEF Storage!Put
    <3> QED BY <3>1, <3>2, StorageConstants
  <2>5. blurred' \subseteq Files
    BY <1>7, StorageConstants DEF Storage!Put, Storage!TypeOK
  <2> QED BY <1>7, <1>x, <2>1, <2>2, <2>3, <2>4, <2>5 DEF Storage!Put, Storage!TypeOK
<1>8. CASE Storage!Draw(u)
  <2>1. job' \in [Uploads -> Storage!Stages]
    BY <1>8, <1>t DEF Storage!Draw
  <2>2. drawn' \in [Uploads -> Nat] /\ next' \in Nat \ {0}
    BY <1>8 DEF Storage!Draw, Storage!TypeOK
  <2> QED BY <1>8, <2>1, <2>2 DEF Storage!Draw, Storage!TypeOK
<1>9. CASE Storage!Push(u)
  <2>1. job' \in [Uploads -> Storage!Stages]
    BY <1>9, <1>t DEF Storage!Push
  <2>2. faults' \in 0..StorageFaults /\ blurred' \subseteq Files
    <3>1. \/ UNCHANGED <<faults, blurred>>
          \/ Storage!Fault /\ blurred' = blurred \cup {FileOf[u]}
      BY <1>9 DEF Storage!Push
    <3>2. faults \in 0..StorageFaults /\ blurred \subseteq Files /\ FileOf[u] \in Files
      BY StorageConstants DEF Storage!TypeOK
    <3> QED BY <1>f, <3>1, <3>2
  <2>3. spool' \subseteq (Nat \ {0}) \X Storage!Events
    <3>1. Storage!Event(u) \in Storage!Events
      BY <1>9 DEF Storage!Push, Storage!InStep, Storage!Matches, Storage!Event, Storage!Events
    <3>2. drawn[u] \in Nat \ {0}
      BY <1>9 DEF Storage!Push, Storage!TypeOK, Storage!Numbered
    <3> QED BY <1>9, <3>1, <3>2 DEF Storage!Push, Storage!TypeOK
  <2> QED BY <1>9, <2>1, <2>2, <2>3 DEF Storage!Push, Storage!TypeOK
<1>a. CASE Storage!Reply(u)
  <2>1. job' \in [Uploads -> Storage!Stages]
    BY <1>a, <1>t DEF Storage!Reply
  <2>2. verdict[u] \in {"ok", "rejected", "failed"}
    BY <1>a, <1>j, <1>s DEF Storage!Reply, Storage!InStep, Storage!Matches
  <2>3. handler' \in [Uploads -> {"new", "waiting", "submitted", "gone", "ok", "rejected", "failed"}]
    <3>1. handler \in [Uploads -> {"new", "waiting", "submitted", "gone", "ok", "rejected", "failed"}]
      BY DEF Storage!TypeOK
    <3>2. handler' = [handler EXCEPT ![u] = verdict[u]] \/ UNCHANGED handler
      BY <1>a, Zenon DEF Storage!Reply
    <3> QED BY <2>2, <3>1, <3>2
  <2>4. lockOf' \in [Uploads -> Uploads \cup {None}]
    BY <1>a DEF Storage!Reply, Storage!TypeOK
  <2> QED BY <1>a, <1>x, <2>1, <2>3, <2>4 DEF Storage!Reply, Storage!TypeOK
<1> QED BY <1>1, <1>2, <1>3, <1>4, <1>5, <1>6, <1>7, <1>8, <1>9, <1>a DEF Storage!Work

(* Natural numbers have a least one.                                       *)
LEMMA LeastNatural ==
    ASSUME NEW S, S \subseteq Nat, S # {}
    PROVE  \E m \in S : \A k \in S : m <= k
<1> DEFINE R == {ss \in Nat \X Nat : ss[1] < ss[2]}
<1>1. IsWellFoundedOn(R, Nat)
  BY NatLessThanWellFounded DEF OpToRel
<1>2. PICK x \in S : \A y \in S : ~ (<<y, x>> \in R)
  <2> HIDE DEF R
  <2> QED BY <1>1, WFMin
<1>3. \A y \in S : ~ (y < x)
  BY <1>2
<1> QED BY <1>3

(* After a restart the spool numbers on from its last event.               *)
LEMMA StorageReopens ==
    ASSUME Storage!TypeOK, Storage!Numbered
    PROVE  Storage!Reopened \in Nat \ {0} /\ \A s \in spool : s[1] < Storage!Reopened
<1> DEFINE numbers == Storage!Sequences(spool)
<1>0. numbers = {s[1] : s \in spool} /\ spool \subseteq (Nat \ {0}) \X Storage!Events
  BY DEF Storage!Sequences, Storage!TypeOK
<1>1. CASE spool = {}
  BY <1>1 DEF Storage!Reopened
<1>2. CASE spool # {}
  <2>1. next \in Nat /\ \A n \in numbers : n \in Nat /\ n < next
    BY <1>0 DEF Storage!TypeOK, Storage!Numbered
  <2> DEFINE gaps == {next - n : n \in numbers}
  <2>2. gaps \subseteq Nat /\ gaps # {}
    BY <1>0, <1>2, <2>1
  <2>3. PICK g \in gaps : \A k \in gaps : g <= k
    BY <2>2, LeastNatural
  <2>4. PICK m \in numbers : g = next - m
    BY <2>3
  <2>5. \A n \in numbers : n <= m
    <3> SUFFICES ASSUME NEW n \in numbers PROVE n <= m
      OBVIOUS
    <3>1. next - n \in gaps
      OBVIOUS
    <3>2. next - m <= next - n
      BY <2>3, <2>4, <3>1
    <3> HIDE DEF numbers, gaps
    <3>3. n \in Nat /\ m \in Nat /\ next \in Nat
      BY <2>1
    <3> QED BY <3>2, <3>3
  <2> DEFINE last == CHOOSE s \in numbers : \A r \in numbers : r <= s
  <2>6. last \in numbers /\ \A r \in numbers : r <= last
    BY <2>5
  <2>7. Storage!Reopened = 1 + last
    BY <1>2, Zenon DEF Storage!Reopened
  <2>8. \A s \in spool : s[1] \in numbers
    BY <1>0
  <2> HIDE DEF last, numbers
  <2>9. last \in Nat /\ \A s \in spool : s[1] \in Nat /\ s[1] <= last
    BY <2>1, <2>6, <2>8
  <2> QED BY <2>7, <2>9
<1> QED BY <1>1, <1>2

LEMMA StorageRoundTypes ==
    ASSUME Storage!TypeOK, Storage!Round
    PROVE  Storage!TypeOK'
<1>j. job \in [Uploads -> Storage!Stages] /\ verdict \in [Uploads -> Storage!Verdicts]
  BY DEF Storage!TypeOK
<1>t. \A stage \in {"batched", "put", "probe", "check", "alone"} : stage \in Storage!Stages
  BY DEF Storage!Stages
<1>f. ASSUME Storage!Fault \/ UNCHANGED faults PROVE faults' \in 0..StorageFaults
  BY <1>f, StorageConstants DEF Storage!Fault, Storage!TypeOK
<1>x. UNCHANGED Storage!events =>
        UNCHANGED next /\ UNCHANGED drawn /\ UNCHANGED spool /\ UNCHANGED list /\ UNCHANGED stream
  BY DEF Storage!events
<1>1. CASE Storage!Take
  <2>1. Head(queue) \in Uploads /\ queue' \in Seq(Uploads)
    <3>1. queue \in Seq(Uploads) /\ queue # <<>> /\ queue' = Tail(queue)
      BY <1>1 DEF Storage!Take, Storage!TypeOK
    <3> QED BY <3>1
  <2>2. batch' \subseteq Uploads
    BY <1>1, <2>1 DEF Storage!Take, Storage!TypeOK
  <2>3. Storage!Cardinality(batch') <= BatchSize
    <3>1. batch \in SUBSET Uploads /\ batch' = batch \cup {Head(queue)} /\ Storage!Cardinality(batch) < BatchSize
      BY <1>1 DEF Storage!Take, Storage!TypeOK
    <3>2. Storage!Cardinality(batch') <= Storage!Cardinality(batch) + 1
      BY <2>1, <3>1, StorageGrow
    <3>3. Storage!Cardinality(batch) \in Nat /\ Storage!Cardinality(batch') \in Nat
      BY <2>2, <3>1, StorageFinite
    <3> QED BY <3>1, <3>2, <3>3, StorageConstants
  <2>4. job' \in [Uploads -> Storage!Stages]
    BY <1>1, <1>j, <1>t DEF Storage!Take
  <2> QED BY <1>1, <1>x, <2>1, <2>2, <2>3, <2>4 DEF Storage!Take, Storage!TypeOK
<1>2. CASE Storage!Dispatch
  <2>1. runs' \in SUBSET (SUBSET Uploads) /\ Storage!Cardinality(runs') <= MaxTranscodes
    <3>1. /\ runs \in SUBSET (SUBSET Uploads) /\ batch \in SUBSET Uploads /\ runs' = runs \cup {batch}
          /\ Storage!Cardinality(runs) < MaxTranscodes
      BY <1>2 DEF Storage!Dispatch, Storage!TypeOK
    <3>2. Storage!Cardinality(runs') <= Storage!Cardinality(runs) + 1 /\ runs' \in SUBSET (SUBSET Uploads)
      BY <3>1, StorageGrow
    <3>3. Storage!Cardinality(runs) \in Nat /\ Storage!Cardinality(runs') \in Nat
      BY <3>1, <3>2, StorageFinite
    <3> QED BY <3>1, <3>2, <3>3, StorageConstants
  <2>2. batch' \subseteq Uploads /\ Storage!Cardinality(batch') <= BatchSize
    BY <1>2, StorageGrow, StorageConstants DEF Storage!Dispatch
  <2>3. job' \in [Uploads -> Storage!Stages]
    BY <1>2, <1>j, <1>t DEF Storage!Dispatch
  <2> QED BY <1>2, <1>x, <2>1, <2>2, <2>3 DEF Storage!Dispatch, Storage!TypeOK
<1>3. CASE Storage!TakeWrite
  <2>1. writeQueue' \in Seq(Uploads)
    BY <1>3 DEF Storage!TakeWrite, Storage!TypeOK
  <2>2. job' \in [Uploads -> Storage!Stages]
    BY <1>3, <1>j, <1>t DEF Storage!TakeWrite
  <2> QED BY <1>3, <1>x, <2>1, <2>2 DEF Storage!TakeWrite, Storage!TypeOK
<1>4. CASE Storage!Scan
  BY <1>4 DEF Storage!Scan, Storage!TypeOK, Storage!jobs
<1>5. CASE Storage!Publish
  <2>1. PICK s \in list :
          \/ /\ stream' = Storage!Stored(s[2]) /\ spool' = spool \ {s} /\ list' = list \ {s}
             /\ UNCHANGED faults
          \/ /\ Storage!Fault /\ list' = {} /\ stream' \in {stream, Storage!Stored(s[2])}
             /\ UNCHANGED spool
    BY <1>5, Zenon DEF Storage!Publish
  <2>2. stream' \in Seq(Storage!Events)
    <3>1. s[2] \in Storage!Events /\ stream \in Seq(Storage!Events)
      BY DEF Storage!TypeOK
    <3>2. Storage!Stored(s[2]) \in Seq(Storage!Events)
      BY <3>1 DEF Storage!Stored
    <3> QED BY <2>1, <3>1, <3>2
  <2>3. faults' \in 0..StorageFaults
    BY <1>f, <2>1
  <2>4. /\ spool' \subseteq (Nat \ {0}) \X Storage!Events
        /\ list' \subseteq (Nat \ {0}) \X Storage!Events
    BY <2>1 DEF Storage!TypeOK
  <2> QED BY <1>5, <2>2, <2>3, <2>4 DEF Storage!Publish, Storage!TypeOK, Storage!jobs
<1>6. ASSUME NEW b \in runs, Storage!Transcode(b) PROVE Storage!TypeOK'
  <2>0. b \in SUBSET Uploads /\ Storage!Accepted(b) \in SUBSET Uploads
    BY DEF Storage!TypeOK, Storage!Accepted
  <2>1. runs' \in SUBSET (SUBSET Uploads) /\ Storage!Cardinality(runs') <= MaxTranscodes
    <3>1. /\ runs \in SUBSET (SUBSET Uploads) /\ runs' = runs \ {b}
          /\ Storage!Cardinality(runs) <= MaxTranscodes
      BY <1>6 DEF Storage!Transcode, Storage!TypeOK
    <3>2. Storage!Cardinality(runs') <= Storage!Cardinality(runs) /\ runs' \in SUBSET (SUBSET Uploads)
      BY <2>0, <3>1, StorageGrow
    <3>3. Storage!Cardinality(runs) \in Nat /\ Storage!Cardinality(runs') \in Nat
      BY <3>1, <3>2, StorageFinite
    <3> QED BY <3>1, <3>2, <3>3, StorageConstants
  <2>2. /\ job' \in [Uploads -> Storage!Stages] /\ verdict' \in [Uploads -> Storage!Verdicts]
        /\ tmp' \subseteq {"source", "result"} \X Uploads /\ faults' \in 0..StorageFaults
    <3>t. tmp \subseteq {"source", "result"} \X Uploads
      BY DEF Storage!TypeOK
    <3>1. CASE /\ job' = [u \in Uploads |-> IF u \in Storage!Accepted(b) THEN "check" ELSE job[u]]
               /\ tmp' = tmp \cup Storage!Outputs(Storage!Accepted(b)) /\ UNCHANGED <<verdict, faults>>
      <4>1. job' \in [Uploads -> Storage!Stages]
        BY <3>1, <1>j, <1>t
      <4>2. tmp' \subseteq {"source", "result"} \X Uploads
        BY <2>0, <3>1, <3>t DEF Storage!Outputs, Storage!Result
      <4> QED BY <1>f, <1>j, <3>1, <4>1, <4>2
    <3>2. CASE /\ Storage!Fault /\ UNCHANGED <<verdict, tmp>>
               /\ job' = [u \in Uploads |-> IF u \in Storage!Accepted(b) THEN "alone" ELSE job[u]]
      BY <1>f, <1>j, <1>t, <3>2, <3>t
    <3>3. CASE /\ Storage!Fault /\ Storage!Cardinality(Storage!Accepted(b)) = 1
               /\ \A u \in Storage!Accepted(b) : Storage!Fail(u)
      <4>1. Storage!Accepted(b) # {}
        BY <3>3, StorageGrow
      <4>2. PICK u \in Storage!Accepted(b) : Storage!Fail(u)
        BY <3>3, <4>1
      <4>3. "failed" \in Storage!Verdicts /\ "reply" \in Storage!Stages /\ u \in Uploads
        BY <2>0 DEF Storage!Verdicts, Storage!Stages
      <4> QED BY <1>f, <3>3, <4>2, <4>3, StorageSettles DEF Storage!Fail
    <3> QED BY <1>6, <3>1, <3>2, <3>3, Zenon DEF Storage!Transcode
  <2> QED BY <1>6, <1>x, <2>1, <2>2 DEF Storage!Transcode, Storage!TypeOK
<1> QED BY <1>1, <1>2, <1>3, <1>4, <1>5, <1>6 DEF Storage!Round

LEMMA StorageTypes ==
    ASSUME Storage!TypeOK, Storage!InStep, Storage!Numbered, Storage!Next
    PROVE  Storage!TypeOK'
<1>f. ASSUME Storage!Fault PROVE faults' \in 0..StorageFaults
  BY <1>f, StorageConstants DEF Storage!Fault, Storage!TypeOK
<1>1. ASSUME NEW f \in Files, Storage!Delete(f) PROVE Storage!TypeOK'
  <2>1. object' \in [Files -> Uploads \cup {None}] /\ blurred' \subseteq Files
    BY <1>1 DEF Storage!Delete, Storage!TypeOK
  <2> QED BY <1>1, <1>f, <2>1 DEF Storage!Delete, Storage!TypeOK, Storage!jobs, Storage!events
<1>2. CASE Storage!Crash
  <2>1. handler' \in [Uploads -> {"new", "waiting", "submitted", "gone", "ok", "rejected", "failed"}]
    BY <1>2 DEF Storage!Crash, Storage!TypeOK
  <2>2. job' \in [Uploads -> Storage!Stages]
    BY <1>2 DEF Storage!Crash, Storage!TypeOK, Storage!Stages
  <2>3. /\ Storage!Cardinality(batch') <= BatchSize /\ Storage!Cardinality(runs') <= MaxTranscodes
        /\ batch' = {} /\ runs' = {}
    BY <1>2, StorageGrow, StorageConstants DEF Storage!Crash
  <2>4. blurred' \subseteq Files
    <3>1. /\ blurred' = blurred \cup {FileOf[u] : u \in {v \in Uploads : job[v] \in {"put", "announce", "push"}}}
          /\ blurred \subseteq Files
      BY <1>2 DEF Storage!Crash, Storage!TypeOK
    <3> QED BY <3>1, StorageConstants
  <2>5. next' \in Nat \ {0}
    BY <1>2, StorageReopens DEF Storage!Crash
  <2>6. locks' \in [Files -> Uploads \cup {None}] /\ lockOf' \in [Uploads -> Uploads \cup {None}]
    BY <1>2 DEF Storage!Crash
  <2>7. queue' \in Seq(Uploads) /\ writeQueue' \in Seq(Uploads) /\ tmp' = {} /\ list' = {}
    BY <1>2 DEF Storage!Crash
  <2>8. faults' \in 0..StorageFaults /\ UNCHANGED <<verdict, tries, object, drawn, spool, stream>>
    BY <1>2, <1>f DEF Storage!Crash
  <2> QED BY <2>1, <2>2, <2>3, <2>4, <2>5, <2>6, <2>7, <2>8 DEF Storage!TypeOK
<1> QED BY <1>1, <1>2, StorageWorkTypes, StorageRoundTypes DEF Storage!Next

(* How far a step, other than a crash, moves a job.                        *)
Working == {"probe", "ready", "alone", "check", "put"}
Moves(u) ==
    \/ job'[u] = job[u] /\ verdict'[u] = verdict[u]
    \/ /\ verdict'[u] = verdict[u]
       /\ \/ job[u] = "none" /\ job'[u] = "queued" /\ handler'[u] = "submitted"
          \/ job[u] = "queued" /\ job'[u] = "batched"
          \/ job[u] = "batched" /\ job'[u] = "probe"
          \/ job[u] = "probe" /\ job'[u] = "ready"
          \/ job[u] = "ready" /\ job'[u] \in {"check", "alone"}
          \/ job[u] = "alone" /\ job'[u] = "check"
          \/ job[u] = "check" /\ job'[u] = "write"
          \/ job[u] = "write" /\ job'[u] = "put"
          \/ job[u] = "announce" /\ job'[u] = "push"
          \/ job[u] = "push" /\ job'[u] = "reply"
          \/ job[u] = "reply" /\ job'[u] = "done"
    \/ /\ job[u] \in Working /\ job'[u] = "announce"
       /\ verdict'[u] = "rejected" \/ (verdict'[u] = "ok" /\ job[u] = "put")
    \/ job[u] \in Working /\ job'[u] = "reply" /\ verdict'[u] = "failed"

(* One job at most moves in a step of an upload.                           *)
LEMMA StorageWorkMoves ==
    ASSUME Storage!TypeOK, Storage!InStep, NEW u \in Uploads,
           Storage!Receive(u) \/ Storage!Leave(u) \/ Storage!Work(u)
    PROVE  /\ \A o \in Uploads : o # u => job'[o] = job[o] /\ verdict'[o] = verdict[o] /\ handler'[o] = handler[o]
           /\ Moves(u)
<1>t. /\ job \in [Uploads -> Storage!Stages] /\ verdict \in [Uploads -> Storage!Verdicts]
      /\ handler \in [Uploads -> {"new", "waiting", "submitted", "gone", "ok", "rejected", "failed"}]
  BY DEF Storage!TypeOK
<1>s. /\ {"open", "ok", "rejected", "failed"} = Storage!Verdicts
      /\ "announce" \in Storage!Stages /\ "reply" \in Storage!Stages
  BY DEF Storage!Verdicts, Storage!Stages
<1>r. ASSUME Storage!Reject(u)
      PROVE  /\ \A o \in Uploads : o # u => job'[o] = job[o] /\ verdict'[o] = verdict[o]
             /\ job'[u] = "announce" /\ verdict'[u] = "rejected"
  BY <1>r, <1>s, StorageSettles DEF Storage!Reject
<1>f. ASSUME Storage!Fail(u)
      PROVE  /\ \A o \in Uploads : o # u => job'[o] = job[o] /\ verdict'[o] = verdict[o]
             /\ job'[u] = "reply" /\ verdict'[u] = "failed"
  BY <1>f, <1>s, StorageSettles DEF Storage!Fail
<1>1. CASE Storage!Receive(u) \/ Storage!Leave(u)
  BY <1>1, <1>t DEF Storage!Receive, Storage!Leave, Storage!jobs, Moves
<1>2. CASE Storage!Submit(u)
  BY <1>2, <1>t DEF Storage!Submit, Storage!InStep, Storage!Matches, Moves
<1>3. CASE Storage!Probe(u)
  BY <1>3, <1>t, <1>r DEF Storage!Probe, Moves, Working
<1>4. CASE Storage!TranscodeAlone(u)
  BY <1>4, <1>t, <1>f DEF Storage!TranscodeAlone, Moves, Working
<1>5. CASE Storage!Check(u)
  BY <1>5, <1>t, <1>r, <1>f DEF Storage!Check, Moves, Working
<1>6. CASE Storage!Put(u)
  <2>0. job[u] = "put" /\ UNCHANGED handler
    BY <1>6, Zenon DEF Storage!Put
  <2>1. CASE Storage!Settle(u, "ok", "announce")
    <3>1. /\ \A o \in Uploads : o # u => job'[o] = job[o] /\ verdict'[o] = verdict[o]
          /\ job'[u] = "announce" /\ verdict'[u] = "ok"
      BY <1>s, <2>1, StorageSettles
    <3> QED BY <2>0, <3>1 DEF Moves, Working
  <2>2. CASE Storage!Fail(u)
    BY <1>f, <2>0, <2>2 DEF Moves, Working
  <2>3. CASE UNCHANGED <<verdict, job, tmp>>
    BY <2>0, <2>3 DEF Moves
  <2> QED BY <1>6, <2>1, <2>2, <2>3, Zenon DEF Storage!Put
<1>7. CASE Storage!Draw(u)
  BY <1>7, <1>t DEF Storage!Draw, Moves
<1>8. CASE Storage!Push(u)
  BY <1>8, <1>t DEF Storage!Push, Moves
<1>9. CASE Storage!Reply(u)
  BY <1>9, <1>t DEF Storage!Reply, Moves
<1> QED BY <1>1, <1>2, <1>3, <1>4, <1>5, <1>6, <1>7, <1>8, <1>9 DEF Storage!Work

(* Dispatchers, ffmpeg and the writers move the jobs they hold.            *)
LEMMA StorageRoundMoves ==
    ASSUME Storage!TypeOK, Storage!InQueues, Storage!Round
    PROVE  UNCHANGED <<handler, blurred, object>> /\ \A o \in Uploads : Moves(o)
<1>t. job \in [Uploads -> Storage!Stages] /\ verdict \in [Uploads -> Storage!Verdicts]
  BY DEF Storage!TypeOK
<1>u. UNCHANGED <<handler, blurred, object>>
  BY Zenon DEF Storage!Round, Storage!Take, Storage!Dispatch, Storage!TakeWrite, Storage!Scan,
     Storage!Publish, Storage!Transcode
<1>1. CASE Storage!Take
  <2>1. queue \in Seq(Uploads) /\ queue # <<>>
    BY <1>1 DEF Storage!Take, Storage!TypeOK
  <2>2. Head(queue) = queue[1] /\ 1 \in DOMAIN queue
    BY <2>1
  <2>3. job[Head(queue)] = "queued"
    BY <2>2 DEF Storage!InQueues, Storage!Waits
  <2> QED BY <1>1, <1>t, <1>u, <2>3 DEF Storage!Take, Moves
<1>2. CASE Storage!Dispatch
  BY <1>2, <1>t, <1>u DEF Storage!Dispatch, Moves, Storage!InQueues
<1>3. CASE Storage!TakeWrite
  <2>1. writeQueue \in Seq(Uploads) /\ writeQueue # <<>>
    BY <1>3 DEF Storage!TakeWrite, Storage!TypeOK
  <2>2. Head(writeQueue) = writeQueue[1] /\ 1 \in DOMAIN writeQueue
    BY <2>1
  <2>3. job[Head(writeQueue)] = "write"
    BY <2>2 DEF Storage!InQueues, Storage!Waits
  <2> QED BY <1>3, <1>t, <1>u, <2>3 DEF Storage!TakeWrite, Moves
<1>4. CASE Storage!Scan \/ Storage!Publish
  BY <1>4, <1>u DEF Storage!Scan, Storage!Publish, Storage!jobs, Moves
<1>5. ASSUME NEW b \in runs, Storage!Transcode(b)
      PROVE  \A o \in Uploads : Moves(o)
  <2>0. Storage!Accepted(b) \in SUBSET Uploads /\ \A o \in Storage!Accepted(b) : job[o] = "ready"
    BY DEF Storage!TypeOK, Storage!Accepted
  <2>1. CASE /\ job' = [o \in Uploads |-> IF o \in Storage!Accepted(b) THEN "check" ELSE job[o]]
             /\ UNCHANGED <<verdict, faults>>
    BY <1>u, <2>0, <2>1 DEF Moves
  <2>2. CASE /\ job' = [o \in Uploads |-> IF o \in Storage!Accepted(b) THEN "alone" ELSE job[o]]
             /\ UNCHANGED <<verdict, tmp>>
    BY <1>u, <2>0, <2>2 DEF Moves
  <2>3. CASE /\ Storage!Cardinality(Storage!Accepted(b)) = 1
             /\ \A o \in Storage!Accepted(b) : Storage!Fail(o)
    <3>1. Storage!Accepted(b) # {}
      BY <2>3, StorageGrow
    <3>2. PICK u \in Storage!Accepted(b) : Storage!Fail(u)
      BY <2>3, <3>1
    <3>3. "failed" \in Storage!Verdicts /\ "reply" \in Storage!Stages /\ u \in Uploads
      BY <2>0 DEF Storage!Verdicts, Storage!Stages
    <3>4. /\ \A o \in Uploads : o # u => job'[o] = job[o] /\ verdict'[o] = verdict[o]
          /\ job'[u] = "reply" /\ verdict'[u] = "failed"
      BY <3>2, <3>3, StorageSettles DEF Storage!Fail
    <3> QED BY <1>u, <2>0, <3>2, <3>4 DEF Moves, Working
  <2> QED BY <1>5, <2>1, <2>2, <2>3, Zenon DEF Storage!Transcode
<1> QED BY <1>1, <1>2, <1>3, <1>4, <1>5, <1>u DEF Storage!Round

(* A request and its job stay in step.                                     *)
LEMMA StorageMatches ==
    ASSUME Storage!TypeOK, NEW u \in Uploads, Storage!Matches(u), Moves(u),
           FileOf[u] \in blurred => FileOf[u] \in blurred', UNCHANGED handler
    PROVE  Storage!Matches(u)'
<1>1. /\ job \in [Uploads -> Storage!Stages] /\ verdict \in [Uploads -> Storage!Verdicts]
      /\ handler \in [Uploads -> {"new", "waiting", "submitted", "gone", "ok", "rejected", "failed"}]
  BY DEF Storage!TypeOK
<1> QED BY <1>1 DEF Storage!Matches, Storage!InPipeline, Moves, Working

LEMMA StorageInStep ==
    ASSUME Storage!TypeOK, Storage!InStep, Storage!InQueues, Storage!Next
    PROVE  Storage!InStep'
<1>t. /\ job \in [Uploads -> Storage!Stages] /\ verdict \in [Uploads -> Storage!Verdicts]
      /\ handler \in [Uploads -> {"new", "waiting", "submitted", "gone", "ok", "rejected", "failed"}]
  BY DEF Storage!TypeOK
<1>1. ASSUME NEW u \in Uploads, Storage!Receive(u) \/ Storage!Leave(u) \/ Storage!Work(u)
      PROVE  Storage!InStep'
  <2>1. /\ \A o \in Uploads : o # u => job'[o] = job[o] /\ verdict'[o] = verdict[o] /\ handler'[o] = handler[o]
        /\ Moves(u)
    BY <1>1, StorageWorkMoves
  <2>2. blurred \subseteq blurred'
    BY <1>1 DEF Storage!Receive, Storage!Leave, Storage!Work, Storage!Submit, Storage!Probe,
       Storage!TranscodeAlone, Storage!Check, Storage!Put, Storage!Draw, Storage!Push, Storage!Reply
  <2>3. \A o \in Uploads : o # u => Storage!Matches(o)'
    BY <2>1, <2>2 DEF Storage!InStep, Storage!Matches, Storage!InPipeline
  <2>4. Storage!Matches(u)
    BY DEF Storage!InStep
  <2>5. CASE UNCHANGED handler
    BY <2>1, <2>2, <2>3, <2>4, <2>5, StorageMatches DEF Storage!InStep
  <2>6. CASE Storage!Receive(u)
    <3>1. handler[u] = "new" /\ handler'[u] = "waiting" /\ job' = job /\ verdict' = verdict
      BY <1>t, <2>6 DEF Storage!Receive, Storage!jobs
    <3> QED BY <2>3, <2>4, <3>1 DEF Storage!InStep, Storage!Matches, Storage!InPipeline
  <2>7. CASE Storage!Leave(u)
    <3>1. /\ handler[u] \in {"waiting", "submitted"} /\ handler'[u] = "gone" /\ job' = job /\ verdict' = verdict
          /\ handler[u] = "submitted" => FileOf[u] \in blurred'
      BY <1>t, <2>7 DEF Storage!Leave, Storage!jobs
    <3> QED BY <2>3, <2>4, <3>1 DEF Storage!InStep, Storage!Matches, Storage!InPipeline
  <2>8. CASE Storage!Submit(u)
    <3>1. handler'[u] = "submitted" /\ job'[u] = "queued" /\ verdict'[u] = "open"
      BY <1>t, <2>4, <2>8 DEF Storage!Submit, Storage!Matches
    <3> QED BY <2>3, <3>1 DEF Storage!InStep, Storage!Matches, Storage!InPipeline
  <2>9. CASE Storage!Reply(u) /\ handler[u] = "submitted"
    <3>1. /\ job[u] = "reply" /\ job'[u] = "done" /\ handler'[u] = verdict[u] /\ verdict' = verdict
      BY <1>t, <2>9 DEF Storage!Reply
    <3>2. verdict[u] \in {"ok", "rejected", "failed"}
      BY <1>t, <2>4, <3>1 DEF Storage!Matches, Storage!Verdicts
    <3> QED BY <2>3, <3>1, <3>2 DEF Storage!InStep, Storage!Matches, Storage!InPipeline
  <2> QED BY <1>1, <2>5, <2>6, <2>7, <2>8, <2>9, Zenon DEF Storage!Work, Storage!Probe,
        Storage!TranscodeAlone, Storage!Check, Storage!Put, Storage!Draw, Storage!Push, Storage!Reply
<1>2. CASE Storage!Round
  BY <1>2, StorageRoundMoves, StorageMatches DEF Storage!InStep
<1>3. ASSUME NEW f \in Files, Storage!Delete(f) PROVE Storage!InStep'
  BY <1>3 DEF Storage!Delete, Storage!jobs, Storage!InStep, Storage!Matches, Storage!InPipeline
<1>4. CASE Storage!Crash
  <2>1. \A u \in Uploads :
          /\ job'[u] = IF job[u] = "none" THEN "none" ELSE "done"
          /\ handler'[u] = IF handler[u] \in {"waiting", "submitted"} THEN "gone" ELSE handler[u]
          /\ verdict'[u] = verdict[u]
    BY <1>4 DEF Storage!Crash
  <2> QED BY <2>1 DEF Storage!InStep, Storage!Matches, Storage!InPipeline
<1> QED BY <1>1, <1>2, <1>3, <1>4 DEF Storage!Next

(* The lock of a file lets one request submit at a time.                   *)
LEMMA StorageLocks ==
    ASSUME Storage!TypeOK, Storage!InStep, Storage!LocksHeld, Storage!Next
    PROVE  Storage!LocksHeld'
<1>t. /\ handler \in [Uploads -> {"new", "waiting", "submitted", "gone", "ok", "rejected", "failed"}]
      /\ locks \in [Files -> Uploads \cup {None}] /\ lockOf \in [Uploads -> Uploads \cup {None}]
      /\ \A u \in Uploads : FileOf[u] \in Files
      /\ None \notin Uploads
  BY StorageConstants DEF Storage!TypeOK
<1>0. ASSUME UNCHANGED <<handler, locks, lockOf>> PROVE Storage!LocksHeld'
  BY <1>0 DEF Storage!LocksHeld
<1>1. ASSUME NEW u \in Uploads, Storage!Receive(u) PROVE Storage!LocksHeld'
  <2>1. handler[u] = "new" /\ handler' = [handler EXCEPT ![u] = "waiting"] /\ Storage!FileLock(u)
    BY <1>1 DEF Storage!Receive
  <2>2. handler'[u] = "waiting" /\ \A o \in Uploads : o # u => handler'[o] = handler[o]
    BY <1>t, <2>1
  <2>3. \A o \in Uploads : lockOf[o] # None => lockOf[o] \in Uploads /\ lockOf[o] # u
    BY <1>t, <2>1 DEF Storage!LocksHeld
  <2>4. CASE Storage!Alive(locks[FileOf[u]])
    <3>1. lockOf' = [lockOf EXCEPT ![u] = locks[FileOf[u]]] /\ locks' = locks
      BY <2>1, <2>4 DEF Storage!FileLock
    <3>2. lockOf'[u] = locks[FileOf[u]] /\ lockOf'[u] # None /\ \A o \in Uploads : o # u => lockOf'[o] = lockOf[o]
      BY <1>t, <2>4, <3>1 DEF Storage!Alive
    <3> QED BY <1>t, <2>2, <3>1, <3>2 DEF Storage!LocksHeld
  <2>5. CASE ~Storage!Alive(locks[FileOf[u]])
    <3>1. /\ lockOf' = [lockOf EXCEPT ![u] = u]
          /\ locks' = [[g \in Files |-> IF Storage!Alive(locks[g]) THEN locks[g] ELSE None]
                         EXCEPT ![FileOf[u]] = u]
      BY <2>1, <2>5 DEF Storage!FileLock
    <3>2. lockOf'[u] = u /\ \A o \in Uploads : o # u => lockOf'[o] = lockOf[o]
      BY <1>t, <3>1
    <3>3. /\ locks'[FileOf[u]] = u
          /\ \A g \in Files : g # FileOf[u] => locks'[g] = IF Storage!Alive(locks[g]) THEN locks[g] ELSE None
      BY <1>t, <3>1
    <3>4. \A o \in Uploads : lockOf[o] # None => FileOf[o] # FileOf[u] /\ Storage!Alive(locks[FileOf[o]])
      BY <2>5 DEF Storage!LocksHeld, Storage!Alive
    <3>5. \A o \in Uploads : lockOf'[o] # None <=> handler'[o] \in {"waiting", "submitted"}
      BY <1>t, <2>2, <3>2 DEF Storage!LocksHeld
    <3>6. \A o \in Uploads : lockOf'[o] # None => lockOf'[o] = locks'[FileOf[o]]
      BY <1>t, <3>2, <3>3, <3>4 DEF Storage!LocksHeld
    <3>7. \A f \in Files : locks'[f] # None => FileOf[locks'[f]] = f /\ handler'[locks'[f]] # "new"
      BY <1>t, <2>2, <3>3 DEF Storage!LocksHeld
    <3>8. \A o, v \in Uploads :
            handler'[o] = "submitted" /\ handler'[v] = "submitted" /\ lockOf'[o] = lockOf'[v] => o = v
      BY <2>2, <3>2 DEF Storage!LocksHeld
    <3> QED BY <3>5, <3>6, <3>7, <3>8 DEF Storage!LocksHeld
  <2> QED BY <2>4, <2>5
<1>2. ASSUME NEW u \in Uploads, Storage!Leave(u) PROVE Storage!LocksHeld'
  <2>1. /\ handler'[u] = "gone" /\ \A o \in Uploads : o # u => handler'[o] = handler[o]
        /\ lockOf'[u] = None /\ \A o \in Uploads : o # u => lockOf'[o] = lockOf[o]
        /\ locks' = locks
    BY <1>2, <1>t DEF Storage!Leave
  <2> QED BY <1>t, <2>1 DEF Storage!LocksHeld
<1>3. ASSUME NEW u \in Uploads, Storage!Submit(u) PROVE Storage!LocksHeld'
  <2>1. /\ handler[u] = "waiting" /\ handler'[u] = "submitted"
        /\ \A o \in Uploads : o # u => handler'[o] = handler[o]
        /\ lockOf' = lockOf /\ locks' = locks
        /\ \A v \in Uploads : handler[v] = "submitted" => lockOf[v] # lockOf[u]
    BY <1>3, <1>t DEF Storage!Submit
  <2> QED BY <1>t, <2>1 DEF Storage!LocksHeld
<1>4. ASSUME NEW u \in Uploads, Storage!Reply(u), handler[u] = "submitted" PROVE Storage!LocksHeld'
  <2>1. /\ handler'[u] = verdict[u] /\ \A o \in Uploads : o # u => handler'[o] = handler[o]
        /\ lockOf'[u] = None /\ \A o \in Uploads : o # u => lockOf'[o] = lockOf[o]
        /\ locks' = locks /\ job[u] = "reply"
    BY <1>4, <1>t DEF Storage!Reply
  <2>2. verdict[u] \in {"ok", "rejected", "failed"}
    BY <2>1 DEF Storage!InStep, Storage!Matches, Storage!TypeOK, Storage!Verdicts
  <2> QED BY <1>t, <2>1, <2>2 DEF Storage!LocksHeld
<1>5. ASSUME NEW u \in Uploads, Storage!Work(u) PROVE Storage!LocksHeld'
  BY <1>0, <1>3, <1>4, <1>5, Zenon DEF Storage!Work, Storage!Probe, Storage!TranscodeAlone, Storage!Check,
     Storage!Put, Storage!Draw, Storage!Push, Storage!Reply
<1>6. CASE Storage!Round
  BY <1>0, <1>6, Zenon DEF Storage!Round, Storage!Take, Storage!Dispatch, Storage!TakeWrite, Storage!Scan,
     Storage!Publish, Storage!Transcode
<1>7. ASSUME NEW f \in Files, Storage!Delete(f) PROVE Storage!LocksHeld'
  BY <1>0, <1>7, Zenon DEF Storage!Delete
<1>8. CASE Storage!Crash
  <2>1. /\ \A u \in Uploads : handler'[u] \notin {"waiting", "submitted"} /\ lockOf'[u] = None
        /\ \A f \in Files : locks'[f] = None
    BY <1>8 DEF Storage!Crash
  <2> QED BY <2>1 DEF Storage!LocksHeld
<1> QED BY <1>1, <1>2, <1>5, <1>6, <1>7, <1>8 DEF Storage!Next

(* A channel keeps its jobs while they wait.                               *)
LEMMA StorageQueues ==
    ASSUME Storage!TypeOK, Storage!InStep, Storage!InQueues, Storage!Next
    PROVE  Storage!InQueues'
<1> DEFINE Waiting(q, stage) ==
        /\ \A i \in DOMAIN q : job'[q[i]] = stage
        /\ \A i, j \in DOMAIN q : q[i] = q[j] => i = j
<1>t. /\ job \in [Uploads -> Storage!Stages]
      /\ queue \in Seq(Uploads) /\ writeQueue \in Seq(Uploads) /\ batch \subseteq Uploads
      /\ runs \subseteq SUBSET Uploads
  BY DEF Storage!TypeOK
<1>q. /\ \A i \in DOMAIN queue : queue[i] \in Uploads /\ job[queue[i]] = "queued"
      /\ \A i \in DOMAIN writeQueue : writeQueue[i] \in Uploads /\ job[writeQueue[i]] = "write"
      /\ \A u \in batch : u \in Uploads /\ job[u] = "batched"
  BY <1>t DEF Storage!InQueues, Storage!Waits
<1>0. ASSUME UNCHANGED <<queue, batch, writeQueue>>,
             \A o \in Uploads : job[o] \in {"queued", "batched", "write"} => job'[o] = job[o]
      PROVE  Storage!InQueues'
  BY <1>0, <1>q DEF Storage!InQueues, Storage!Waits
<1>a. ASSUME NEW q \in Seq(Uploads), NEW u \in Uploads, NEW stage, job'[u] = stage,
             Storage!Waits(q, stage), job[u] # stage, \A o \in Uploads : o # u => job'[o] = job[o]
      PROVE  Waiting(Append(q, u), stage)
  <2>1. \A i \in DOMAIN q : q[i] \in Uploads /\ q[i] # u /\ job'[q[i]] = stage
    BY <1>a DEF Storage!Waits
  <2>2. \A i \in DOMAIN Append(q, u) : (i \in DOMAIN q /\ Append(q, u)[i] = q[i]) \/ (i = Len(q) + 1 /\ Append(q, u)[i] = u)
    OBVIOUS
  <2> QED BY <1>a, <2>1, <2>2 DEF Storage!Waits
<1>b. ASSUME NEW q \in Seq(Uploads), q # <<>>, NEW stage, Storage!Waits(q, stage),
             \A o \in Uploads : o # Head(q) => job'[o] = job[o]
      PROVE  Waiting(Tail(q), stage) /\ Head(q) \in Uploads /\ job[Head(q)] = stage
  <2>1. \A i \in DOMAIN Tail(q) : Tail(q)[i] = q[i + 1] /\ i + 1 \in DOMAIN q /\ i + 1 # 1 /\ i \in Nat
    BY <1>b
  <2>2. Head(q) = q[1] /\ 1 \in DOMAIN q /\ q[1] \in Uploads
    BY <1>b
  <2>3. \A i \in DOMAIN q : q[i] \in Uploads
    BY <1>b
  <2>4. \A i \in DOMAIN Tail(q) : Tail(q)[i] # Head(q) /\ Tail(q)[i] \in Uploads
    BY <1>b, <2>1, <2>2, <2>3 DEF Storage!Waits
  <2>5. \A i \in DOMAIN Tail(q) : job'[Tail(q)[i]] = stage
    BY <1>b, <2>1, <2>4 DEF Storage!Waits
  <2>6. \A i, j \in DOMAIN Tail(q) : Tail(q)[i] = Tail(q)[j] => i = j
    BY <1>b, <2>1 DEF Storage!Waits
  <2> QED BY <1>b, <2>2, <2>5, <2>6 DEF Storage!Waits
<1>c. ASSUME NEW q \in Seq(Uploads), NEW stage, Storage!Waits(q, stage),
             \A o \in Uploads : job[o] = stage => job'[o] = stage
      PROVE  Waiting(q, stage)
  <2>1. \A i \in DOMAIN q : q[i] \in Uploads
    BY <1>c
  <2> QED BY <1>c, <2>1 DEF Storage!Waits
<1>w. Storage!Waits(queue, "queued") /\ Storage!Waits(writeQueue, "write")
  BY DEF Storage!InQueues
<1>1. ASSUME NEW u \in Uploads, Storage!Receive(u) \/ Storage!Leave(u) \/ Storage!Work(u)
      PROVE  Storage!InQueues'
  <2>1. /\ \A o \in Uploads : o # u => job'[o] = job[o]
        /\ Moves(u)
    BY <1>1, StorageWorkMoves
  <2>2. CASE Storage!Submit(u)
    <3>1. /\ job[u] = "none" /\ job'[u] = "queued" /\ queue' = Append(queue, u)
          /\ UNCHANGED <<writeQueue, batch>>
      BY <1>t, <2>2 DEF Storage!Submit, Storage!InStep, Storage!Matches
    <3>2. Waiting(Append(queue, u), "queued")
      BY <1>a, <1>t, <1>w, <2>1, <3>1
    <3>3. Waiting(writeQueue, "write")
      BY <1>c, <1>t, <1>w, <2>1, <3>1
    <3>4. \A o \in batch' : job'[o] = "batched"
      BY <1>q, <2>1, <3>1
    <3> QED BY <3>1, <3>2, <3>3, <3>4 DEF Storage!InQueues, Storage!Waits
  <2>3. CASE Storage!Check(u) /\ writeQueue' # writeQueue
    <3>1. /\ job[u] = "check" /\ job'[u] = "write" /\ writeQueue' = Append(writeQueue, u)
          /\ UNCHANGED <<queue, batch>>
      BY <1>t, <2>3 DEF Storage!Check
    <3>2. Waiting(Append(writeQueue, u), "write")
      BY <1>a, <1>t, <1>w, <2>1, <3>1
    <3>3. Waiting(queue, "queued")
      BY <1>c, <1>t, <1>w, <2>1, <3>1
    <3>4. \A o \in batch' : job'[o] = "batched"
      BY <1>q, <2>1, <3>1
    <3> QED BY <3>1, <3>2, <3>3, <3>4 DEF Storage!InQueues, Storage!Waits
  <2>4. CASE UNCHANGED <<queue, batch, writeQueue>> /\ job[u] \notin {"queued", "batched", "write"}
    BY <1>0, <2>1, <2>4
  <2>5. CASE UNCHANGED <<queue, batch, writeQueue>> /\ UNCHANGED job
    BY <1>0, <2>5
  <2>6. CASE Storage!Check(u) /\ writeQueue' = writeQueue
    BY <2>4, <2>6 DEF Storage!Check
  <2>7. ASSUME Storage!Receive(u) \/ Storage!Leave(u)
        PROVE  UNCHANGED <<queue, batch, writeQueue, job>>
    BY <2>7, Zenon DEF Storage!Receive, Storage!Leave, Storage!jobs
  <2>8. ASSUME Storage!Probe(u) \/ Storage!TranscodeAlone(u) \/ Storage!Put(u) \/ Storage!Draw(u)
                 \/ Storage!Push(u) \/ Storage!Reply(u)
        PROVE  UNCHANGED <<queue, batch, writeQueue>> /\ job[u] \notin {"queued", "batched", "write"}
    BY <2>8 DEF Storage!Probe, Storage!TranscodeAlone, Storage!Put, Storage!Draw, Storage!Push, Storage!Reply
  <2> QED BY <1>1, <2>2, <2>3, <2>4, <2>5, <2>6, <2>7, <2>8, Zenon DEF Storage!Work
<1>2. CASE Storage!Take
  <2>1. /\ queue # <<>> /\ queue' = Tail(queue) /\ batch' = batch \cup {Head(queue)} /\ UNCHANGED writeQueue
        /\ job' = [job EXCEPT ![Head(queue)] = "batched"]
    BY <1>2 DEF Storage!Take
  <2>2. Waiting(Tail(queue), "queued") /\ Head(queue) \in Uploads /\ job[Head(queue)] = "queued"
    BY <1>b, <1>t, <1>w, <2>1
  <2>3. Waiting(writeQueue, "write")
    BY <1>c, <1>t, <1>w, <2>1, <2>2
  <2>4. \A o \in batch' : job'[o] = "batched"
    BY <1>q, <1>t, <2>1, <2>2
  <2> QED BY <2>1, <2>2, <2>3, <2>4 DEF Storage!InQueues, Storage!Waits
<1>3. CASE Storage!Dispatch
  <2>1. /\ batch' = {} /\ UNCHANGED <<queue, writeQueue>>
        /\ job' = [u \in Uploads |-> IF u \in batch THEN "probe" ELSE job[u]]
    BY <1>3 DEF Storage!Dispatch
  <2>2. \A o \in Uploads : job[o] \in {"queued", "write"} => job'[o] = job[o]
    BY <1>q, <2>1
  <2>3. Waiting(queue, "queued") /\ Waiting(writeQueue, "write")
    BY <1>c, <1>t, <1>w, <2>2
  <2> QED BY <2>1, <2>3 DEF Storage!InQueues, Storage!Waits
<1>4. CASE Storage!TakeWrite
  <2>1. /\ writeQueue # <<>> /\ writeQueue' = Tail(writeQueue) /\ UNCHANGED <<queue, batch>>
        /\ job' = [job EXCEPT ![Head(writeQueue)] = "put"]
    BY <1>4 DEF Storage!TakeWrite
  <2>2. Waiting(Tail(writeQueue), "write") /\ Head(writeQueue) \in Uploads /\ job[Head(writeQueue)] = "write"
    BY <1>b, <1>t, <1>w, <2>1
  <2>3. Waiting(queue, "queued")
    BY <1>c, <1>t, <1>w, <2>1, <2>2
  <2>4. \A o \in batch' : job'[o] = "batched"
    BY <1>q, <1>t, <2>1, <2>2
  <2> QED BY <2>1, <2>2, <2>3, <2>4 DEF Storage!InQueues, Storage!Waits
<1>5. CASE Storage!Scan \/ Storage!Publish
  <2>1. UNCHANGED <<queue, batch, writeQueue, job>>
    BY <1>5, Zenon DEF Storage!Scan, Storage!Publish, Storage!jobs
  <2> QED BY <1>0, <2>1
<1>6. ASSUME NEW b \in runs, Storage!Transcode(b) PROVE Storage!InQueues'
  <2>1. UNCHANGED <<queue, batch, writeQueue>>
    BY <1>6, Zenon DEF Storage!Transcode
  <2>2. \A o \in Storage!Accepted(b) : o \in Uploads /\ job[o] = "ready"
    BY <1>t DEF Storage!Accepted
  <2>3. CASE \E stage : job' = [o \in Uploads |-> IF o \in Storage!Accepted(b) THEN stage ELSE job[o]]
    BY <1>0, <2>1, <2>2, <2>3
  <2>4. CASE /\ Storage!Cardinality(Storage!Accepted(b)) = 1
             /\ \A o \in Storage!Accepted(b) : Storage!Fail(o)
    <3>1. Storage!Accepted(b) # {}
      BY <2>4, StorageGrow
    <3>2. PICK u \in Storage!Accepted(b) : Storage!Fail(u)
      BY <2>4, <3>1
    <3>3. job' = [job EXCEPT ![u] = "reply"]
      BY <3>2 DEF Storage!Fail, Storage!Settle
    <3> QED BY <1>0, <1>t, <2>1, <2>2, <3>3
  <2> QED BY <1>6, <2>3, <2>4, Zenon DEF Storage!Transcode
<1>7. ASSUME NEW f \in Files, Storage!Delete(f) PROVE Storage!InQueues'
  <2>1. UNCHANGED <<queue, batch, writeQueue, job>>
    BY <1>7, Zenon DEF Storage!Delete, Storage!jobs
  <2> QED BY <1>0, <2>1
<1>8. CASE Storage!Crash
  BY <1>8 DEF Storage!Crash, Storage!InQueues, Storage!Waits
<1> QED BY <1>1, <1>2, <1>3, <1>4, <1>5, <1>6, <1>7, <1>8 DEF Storage!Next, Storage!Round

(* A job whose fate is known has no files.                                 *)
LEMMA StorageTidy ==
    ASSUME Storage!TypeOK, Storage!InStep, Storage!InQueues, Storage!Tidy, Storage!Next
    PROVE  Storage!Tidy'
<1> DEFINE Over == {"announce", "push", "reply", "done"}
<1>t. job \in [Uploads -> Storage!Stages] /\ runs \subseteq SUBSET Uploads
  BY DEF Storage!TypeOK
<1>d. \A u, v \in Uploads : u # v =>
        {Storage!Source(u), Storage!Result(u)} \cap {Storage!Source(v), Storage!Result(v)} = {}
  BY DEF Storage!Source, Storage!Result
<1>0. ASSUME tmp' \subseteq tmp, \A o \in Uploads : job'[o] \in Over => job[o] \in Over
      PROVE  Storage!Tidy'
  BY <1>0 DEF Storage!Tidy, Storage!Source, Storage!Result
<1>s. ASSUME NEW u \in Uploads, NEW v, NEW stage, Storage!Settle(u, v, stage)
      PROVE  Storage!Tidy'
  <2>1. /\ tmp' = tmp \ {Storage!Source(u), Storage!Result(u)} /\ job' = [job EXCEPT ![u] = stage]
    BY <1>s DEF Storage!Settle
  <2>2. \A o \in Uploads : o # u => job'[o] = job[o]
    BY <1>t, <2>1
  <2> QED BY <2>1, <2>2 DEF Storage!Tidy, Storage!Source, Storage!Result
<1>1. ASSUME NEW u \in Uploads, Storage!Receive(u) \/ Storage!Leave(u) \/ Storage!Work(u)
      PROVE  Storage!Tidy'
  <2>1. /\ \A o \in Uploads : o # u => job'[o] = job[o]
        /\ Moves(u)
    BY <1>1, StorageWorkMoves
  <2>2. CASE Storage!Receive(u)
    <3>1. tmp' = tmp \cup {Storage!Source(u)} /\ job'[u] = "none" /\ job' = job
      BY <2>2 DEF Storage!Receive, Storage!jobs, Storage!InStep, Storage!Matches
    <3> QED BY <3>1 DEF Storage!Tidy, Storage!Source, Storage!Result
  <2>3. CASE \E v, stage : Storage!Settle(u, v, stage)
    BY <1>s, <2>3
  <2>4. CASE /\ job' = [job EXCEPT ![u] = "check"]
             /\ tmp' = tmp \cup Storage!Outputs({u})
    <3>1. job'[u] = "check" /\ tmp' = tmp \cup {Storage!Result(u)}
      BY <1>t, <2>4 DEF Storage!Outputs
    <3> QED BY <2>1, <3>1 DEF Storage!Tidy, Storage!Source, Storage!Result
  <2>5. CASE UNCHANGED tmp /\ (job'[u] \in Over => job[u] \in Over)
    BY <1>0, <2>1, <2>5
  <2>6. ASSUME Storage!Leave(u) \/ Storage!Submit(u) \/ Storage!Draw(u) \/ Storage!Push(u) \/ Storage!Reply(u)
        PROVE  UNCHANGED tmp /\ (job'[u] \in Over => job[u] \in Over)
    BY <1>t, <2>6 DEF Storage!Leave, Storage!Submit, Storage!Draw, Storage!Push, Storage!Reply, Storage!jobs
  <2>7. CASE Storage!Probe(u)
    <3>1. CASE Storage!Reject(u)
      BY <1>s, <3>1 DEF Storage!Reject
    <3>2. CASE ~Storage!Reject(u)
      BY <1>t, <2>5, <2>7, <3>2 DEF Storage!Probe
    <3> QED BY <3>1, <3>2
  <2>8. CASE Storage!TranscodeAlone(u)
    <3>1. CASE Storage!Fail(u)
      BY <1>s, <3>1 DEF Storage!Fail
    <3>2. CASE ~Storage!Fail(u)
      BY <2>4, <2>8, <3>2, Zenon DEF Storage!TranscodeAlone
    <3> QED BY <3>1, <3>2
  <2>9. CASE Storage!Check(u)
    <3>1. CASE Storage!Fail(u) \/ Storage!Reject(u)
      BY <1>s, <3>1 DEF Storage!Fail, Storage!Reject
    <3>2. CASE ~(Storage!Fail(u) \/ Storage!Reject(u))
      BY <1>t, <2>5, <2>9, <3>2 DEF Storage!Check
    <3> QED BY <3>1, <3>2
  <2>10. CASE Storage!Put(u)
    <3>1. CASE Storage!Fail(u) \/ Storage!Settle(u, "ok", "announce")
      BY <1>s, <3>1 DEF Storage!Fail
    <3>2. CASE UNCHANGED <<verdict, job, tmp>>
      BY <1>t, <2>5, <3>2
    <3> QED BY <2>10, <3>1, <3>2, Zenon DEF Storage!Put
  <2> QED BY <1>1, <2>2, <2>5, <2>6, <2>7, <2>8, <2>9, <2>10, Zenon DEF Storage!Work
<1>2. CASE Storage!Take \/ Storage!Dispatch \/ Storage!TakeWrite \/ Storage!Scan \/ Storage!Publish
  <2>1. tmp' = tmp
    BY <1>2, Zenon DEF Storage!Take, Storage!Dispatch, Storage!TakeWrite, Storage!Scan, Storage!Publish
  <2>2. Storage!Round
    BY <1>2 DEF Storage!Round
  <2>3. \A o \in Uploads : job'[o] \in Over => job[o] \in Over
    <3>1. CASE Storage!Take \/ Storage!Dispatch \/ Storage!TakeWrite
      BY <1>t, <3>1 DEF Storage!Take, Storage!Dispatch, Storage!TakeWrite
    <3>2. CASE Storage!Scan \/ Storage!Publish
      <4>1. job' = job
        BY <3>2, Zenon DEF Storage!Scan, Storage!Publish, Storage!jobs
      <4> QED BY <4>1
    <3> QED BY <1>2, <3>1, <3>2
  <2> QED BY <1>0, <2>1, <2>3
<1>3. ASSUME NEW b \in runs, Storage!Transcode(b) PROVE Storage!Tidy'
  <2>2. \A o \in Storage!Accepted(b) : o \in Uploads /\ job[o] = "ready"
    BY <1>t DEF Storage!Accepted
  <2>3. CASE /\ job' = [o \in Uploads |-> IF o \in Storage!Accepted(b) THEN "check" ELSE job[o]]
             /\ tmp' = tmp \cup Storage!Outputs(Storage!Accepted(b))
    <3>1. \A o \in Uploads : o \notin Storage!Accepted(b) =>
            ({Storage!Source(o), Storage!Result(o)} \cap Storage!Outputs(Storage!Accepted(b)) = {})
      BY DEF Storage!Outputs, Storage!Source, Storage!Result
    <3>2. \A o \in Uploads : job'[o] \in Over => o \notin Storage!Accepted(b) /\ job[o] \in Over
      BY <2>3
    <3> HIDE DEF Over
    <3>3. \A o \in Uploads : job[o] \in Over => {Storage!Source(o), Storage!Result(o)} \cap tmp = {}
      BY DEF Over, Storage!Tidy
    <3>4. \A o \in Uploads : job'[o] \in Over => {Storage!Source(o), Storage!Result(o)} \cap tmp' = {}
      BY <2>3, <3>1, <3>2, <3>3
    <3> QED BY <3>4 DEF Over, Storage!Tidy, Storage!Source, Storage!Result
  <2>4. CASE /\ job' = [o \in Uploads |-> IF o \in Storage!Accepted(b) THEN "alone" ELSE job[o]]
             /\ UNCHANGED <<verdict, tmp>>
    BY <1>0, <2>2, <2>4
  <2>5. CASE /\ Storage!Cardinality(Storage!Accepted(b)) = 1
             /\ \A o \in Storage!Accepted(b) : Storage!Fail(o)
    <3>1. Storage!Accepted(b) # {}
      BY <2>5, StorageGrow
    <3>2. PICK u \in Storage!Accepted(b) : Storage!Fail(u)
      BY <2>5, <3>1
    <3> QED BY <1>s, <2>2, <3>2 DEF Storage!Fail
  <2> QED BY <1>3, <2>3, <2>4, <2>5, Zenon DEF Storage!Transcode
<1>4. ASSUME NEW f \in Files, Storage!Delete(f) PROVE Storage!Tidy'
  <2>1. UNCHANGED <<tmp, job>>
    BY <1>4, Zenon DEF Storage!Delete, Storage!jobs
  <2> QED BY <1>0, <2>1
<1>5. CASE Storage!Crash
  BY <1>5 DEF Storage!Crash, Storage!Tidy
<1> QED BY <1>1, <1>2, <1>3, <1>4, <1>5 DEF Storage!Next, Storage!Round

(* A round neither draws numbers nor pushes events.                        *)
LEMMA StorageRoundStill ==
    ASSUME Storage!TypeOK, Storage!InQueues, Storage!Round
    PROVE  /\ UNCHANGED <<next, drawn>>
           /\ \A o \in Uploads :
                /\ job[o] \in {"announce", "push"} => job'[o] = job[o]
                /\ job'[o] \in {"announce", "push"} => job'[o] = job[o] /\ verdict'[o] = verdict[o]
           /\ Storage!Scan \/ Storage!Publish \/ UNCHANGED <<spool, list, stream>>
<1>t. job \in [Uploads -> Storage!Stages] /\ runs \subseteq SUBSET Uploads
      /\ verdict \in [Uploads -> Storage!Verdicts]
  BY DEF Storage!TypeOK
<1>u. UNCHANGED <<next, drawn>> /\ (Storage!Scan \/ Storage!Publish \/ UNCHANGED <<spool, list, stream>>)
  BY Zenon DEF Storage!Round, Storage!Take, Storage!Dispatch, Storage!TakeWrite, Storage!Scan,
     Storage!Publish, Storage!Transcode, Storage!events
<1>1. CASE Storage!Take
  <2>1. queue \in Seq(Uploads) /\ queue # <<>>
    BY <1>1 DEF Storage!Take, Storage!TypeOK
  <2>2. Head(queue) = queue[1] /\ 1 \in DOMAIN queue
    BY <2>1
  <2>3. job[Head(queue)] = "queued"
    BY <2>2 DEF Storage!InQueues, Storage!Waits
  <2> QED BY <1>1, <1>t, <1>u, <2>3 DEF Storage!Take
<1>2. CASE Storage!Dispatch
  <2>1. \A o \in batch : job[o] = "batched"
    BY DEF Storage!InQueues
  <2> QED BY <1>2, <1>t, <1>u, <2>1 DEF Storage!Dispatch
<1>3. CASE Storage!TakeWrite
  <2>1. writeQueue \in Seq(Uploads) /\ writeQueue # <<>>
    BY <1>3 DEF Storage!TakeWrite, Storage!TypeOK
  <2>2. Head(writeQueue) = writeQueue[1] /\ 1 \in DOMAIN writeQueue
    BY <2>1
  <2>3. job[Head(writeQueue)] = "write"
    BY <2>2 DEF Storage!InQueues, Storage!Waits
  <2> QED BY <1>3, <1>t, <1>u, <2>3 DEF Storage!TakeWrite
<1>4. CASE Storage!Scan \/ Storage!Publish
  <2>1. UNCHANGED <<job, verdict>>
    BY <1>4, Zenon DEF Storage!Scan, Storage!Publish, Storage!jobs
  <2> QED BY <1>u, <2>1
<1>5. ASSUME NEW b \in runs, Storage!Transcode(b)
      PROVE  \A o \in Uploads :
                /\ job[o] \in {"announce", "push"} => job'[o] = job[o]
                /\ job'[o] \in {"announce", "push"} => job'[o] = job[o] /\ verdict'[o] = verdict[o]
  <2>2. \A o \in Storage!Accepted(b) : o \in Uploads /\ job[o] = "ready"
    BY <1>t DEF Storage!Accepted
  <2>3. CASE /\ job' = [o \in Uploads |-> IF o \in Storage!Accepted(b) THEN "check" ELSE job[o]]
             /\ UNCHANGED <<verdict, faults>>
    BY <2>2, <2>3
  <2>4. CASE /\ job' = [o \in Uploads |-> IF o \in Storage!Accepted(b) THEN "alone" ELSE job[o]]
             /\ UNCHANGED <<verdict, tmp>>
    BY <2>2, <2>4
  <2>5. CASE /\ Storage!Cardinality(Storage!Accepted(b)) = 1
             /\ \A o \in Storage!Accepted(b) : Storage!Fail(o)
    <3>1. Storage!Accepted(b) # {}
      BY <2>5, StorageGrow
    <3>2. PICK u \in Storage!Accepted(b) : Storage!Fail(u)
      BY <2>5, <3>1
    <3>3. job' = [job EXCEPT ![u] = "reply"] /\ verdict' = [verdict EXCEPT ![u] = "failed"]
      BY <3>2 DEF Storage!Fail, Storage!Settle
    <3> QED BY <1>t, <2>2, <3>3
  <2> QED BY <1>5, <2>3, <2>4, <2>5, Zenon DEF Storage!Transcode
<1> QED BY <1>1, <1>2, <1>3, <1>4, <1>5, <1>u DEF Storage!Round

(* What the stream holds once it has been sent an event.                   *)
LEMMA StorageStored ==
    ASSUME Storage!TypeOK, NEW e \in Storage!Events
    PROVE  /\ \A i \in DOMAIN stream : i \in DOMAIN Storage!Stored(e) /\ Storage!Stored(e)[i] = stream[i]
           /\ \E i \in DOMAIN Storage!Stored(e) : Storage!Stored(e)[i] = e
           /\ \A i \in DOMAIN Storage!Stored(e) :
                \/ i \in DOMAIN stream
                \/ /\ Storage!Stored(e)[i] = e
                   /\ \A j \in DOMAIN stream : j < i /\ stream[j] # e
                   /\ \A j \in DOMAIN Storage!Stored(e) : j > i => j \in DOMAIN stream
           /\ Storage!Stored(e) \in Seq(Storage!Events)
<1>1. stream \in Seq(Storage!Events)
  BY DEF Storage!TypeOK
<1>2. CASE \E i \in DOMAIN stream : stream[i] = e
  BY <1>1, <1>2 DEF Storage!Stored
<1>3. CASE ~ \E i \in DOMAIN stream : stream[i] = e
  <2>1. Storage!Stored(e) = Append(stream, e)
    BY <1>3 DEF Storage!Stored
  <2>2. /\ Append(stream, e) \in Seq(Storage!Events)
        /\ DOMAIN Append(stream, e) = 1..(Len(stream) + 1) /\ DOMAIN stream = 1..Len(stream) /\ Len(stream) \in Nat
        /\ \A i \in DOMAIN stream : Append(stream, e)[i] = stream[i]
        /\ Append(stream, e)[Len(stream) + 1] = e
    BY <1>1
  <2> QED BY <1>3, <2>1, <2>2
<1> QED BY <1>2, <1>3

(* Events are made once and kept.                                          *)
LEMMA StorageEvents ==
    ASSUME Storage!TypeOK, Storage!InStep, Storage!InQueues, Storage!EventsKept, Storage!Numbered, Storage!Next
    PROVE  Storage!EventsKept'
<1>t. /\ job \in [Uploads -> Storage!Stages] /\ verdict \in [Uploads -> Storage!Verdicts]
      /\ \A s \in spool : s[2] \in Storage!Events /\ s[2].of \in Uploads
      /\ \A s \in list : s[2] \in Storage!Events /\ s[2].of \in Uploads
      /\ \A i \in DOMAIN stream : stream[i].of \in Uploads
  <2>1. /\ job \in [Uploads -> Storage!Stages] /\ verdict \in [Uploads -> Storage!Verdicts]
        /\ spool \subseteq (Nat \ {0}) \X Storage!Events
        /\ list \subseteq (Nat \ {0}) \X Storage!Events
        /\ stream \in Seq(Storage!Events)
    BY DEF Storage!TypeOK
  <2>2. \A i \in DOMAIN stream : stream[i] \in Storage!Events
    BY <2>1
  <2> QED BY <2>1, <2>2 DEF Storage!Events
<1>0. ASSUME UNCHANGED <<spool, stream>>, blurred \subseteq blurred', \A o \in Uploads : Moves(o),
             \A o \in Uploads : job[o] = "push" => job'[o] = "push"
      PROVE  Storage!EventsKept'
  <2>1. \A o \in Uploads : job[o] \in {"reply", "done"} => job'[o] \in {"reply", "done"}
    BY <1>0 DEF Moves, Working
  <2>2. \A o \in Uploads : job'[o] \in {"reply", "done"} /\ verdict'[o] \in {"ok", "rejected"}
          => job[o] \in {"reply", "done"} /\ verdict'[o] = verdict[o]
    BY <1>0 DEF Moves, Working
  <2>3. \A s \in spool' : job'[s[2].of] \in {"reply", "done"}
    BY <1>0, <1>t, <2>1 DEF Storage!EventsKept
  <2>4. \A i \in DOMAIN stream' : job'[stream'[i].of] \in {"reply", "done"}
    BY <1>0, <1>t, <2>1 DEF Storage!EventsKept
  <2>5. \A s, t \in spool' : s[2].of = t[2].of => s = t
    BY <1>0 DEF Storage!EventsKept
  <2>6. ASSUME NEW u \in Uploads, job'[u] \in {"reply", "done"}, verdict'[u] \in {"ok", "rejected"},
               FileOf[u] \notin blurred'
        PROVE  (\E i \in DOMAIN stream' : stream'[i] = Storage!Event(u)') \/ \E s \in spool' : s[2] = Storage!Event(u)'
    <3>1. job[u] \in {"reply", "done"} /\ verdict'[u] = verdict[u] /\ FileOf[u] \notin blurred
      BY <1>0, <2>2, <2>6
    <3>2. Storage!Event(u)' = Storage!Event(u)
      BY <3>1 DEF Storage!Event
    <3>3. (\E i \in DOMAIN stream : stream[i] = Storage!Event(u)) \/ \E s \in spool : s[2] = Storage!Event(u)
      BY <2>6, <3>1 DEF Storage!EventsKept
    <3> QED BY <1>0, <3>2, <3>3
  <2> QED BY <2>3, <2>4, <2>5, <2>6 DEF Storage!EventsKept
<1>1. ASSUME NEW u \in Uploads, Storage!Receive(u) \/ Storage!Leave(u) \/ Storage!Work(u)
      PROVE  Storage!EventsKept'
  <2>1. /\ \A o \in Uploads : o # u => job'[o] = job[o] /\ verdict'[o] = verdict[o]
        /\ Moves(u)
    BY <1>1, StorageWorkMoves
  <2>2. \A o \in Uploads : Moves(o)
    BY <2>1 DEF Moves
  <2>3. blurred \subseteq blurred'
    BY <1>1 DEF Storage!Receive, Storage!Leave, Storage!Work, Storage!Submit, Storage!Probe,
       Storage!TranscodeAlone, Storage!Check, Storage!Put, Storage!Draw, Storage!Push, Storage!Reply
  <2>4. CASE Storage!Push(u)
    <3>1. /\ job[u] = "push" /\ job'[u] = "reply" /\ UNCHANGED <<stream, verdict>>
      BY <1>t, <2>4 DEF Storage!Push
    <3>2. Storage!Event(u).of = u /\ \A o \in Uploads : Storage!Event(o)' = Storage!Event(o)
      BY <3>1 DEF Storage!Event
    <3>3. \A s \in spool : s[2].of # u
      BY <3>1 DEF Storage!EventsKept
    <3>4. \/ spool' = spool \cup {<<drawn[u], Storage!Event(u)>>}
          \/ spool' = spool /\ FileOf[u] \in blurred'
      BY <2>4 DEF Storage!Push
    <3>5. \A s \in spool' : s \in spool \/ s = <<drawn[u], Storage!Event(u)>>
      BY <3>4
    <3>6. \A s \in spool' : job'[s[2].of] \in {"reply", "done"}
      BY <1>t, <2>1, <3>1, <3>2, <3>5 DEF Storage!EventsKept
    <3>7. \A i \in DOMAIN stream' : job'[stream'[i].of] \in {"reply", "done"}
      BY <1>t, <2>1, <3>1 DEF Storage!EventsKept
    <3>8. \A s, t \in spool' : s[2].of = t[2].of => s = t
      BY <3>2, <3>3, <3>5 DEF Storage!EventsKept
    <3>9. ASSUME NEW o \in Uploads, job'[o] \in {"reply", "done"}, verdict'[o] \in {"ok", "rejected"},
                 FileOf[o] \notin blurred'
          PROVE  (\E i \in DOMAIN stream' : stream'[i] = Storage!Event(o)') \/ \E s \in spool' : s[2] = Storage!Event(o)'
      <4>1. CASE o = u
        <5>1. <<drawn[u], Storage!Event(u)>> \in spool'
          BY <3>4, <3>9, <4>1
        <5> QED BY <3>2, <4>1, <5>1
      <4>2. CASE o # u
        <5>1. (\E i \in DOMAIN stream : stream[i] = Storage!Event(o)) \/ \E s \in spool : s[2] = Storage!Event(o)
          BY <2>1, <2>3, <3>9, <4>2 DEF Storage!EventsKept
        <5>2. spool \subseteq spool'
          BY <3>4
        <5> QED BY <3>1, <3>2, <5>1, <5>2
      <4> QED BY <4>1, <4>2
    <3> QED BY <3>6, <3>7, <3>8, <3>9 DEF Storage!EventsKept
  <2>5. CASE ~Storage!Push(u)
    <3>1. UNCHANGED <<spool, stream>>
      BY <1>1, <2>5, Zenon DEF Storage!Receive, Storage!Leave, Storage!Work, Storage!Submit, Storage!Probe,
         Storage!TranscodeAlone, Storage!Check, Storage!Put, Storage!Draw, Storage!Reply, Storage!events
    <3>2. job[u] = "push" => job'[u] = "push"
      BY <1>1, <1>t, <2>5 DEF Storage!Receive, Storage!Leave, Storage!Work, Storage!Submit, Storage!Probe,
         Storage!TranscodeAlone, Storage!Check, Storage!Put, Storage!Draw, Storage!Reply, Storage!jobs,
         Storage!InStep, Storage!Matches
    <3> QED BY <1>0, <2>1, <2>2, <2>3, <3>1, <3>2
  <2> QED BY <2>4, <2>5
<1>2. CASE Storage!Round /\ UNCHANGED <<spool, stream>>
  <2>1. UNCHANGED blurred /\ \A o \in Uploads : Moves(o)
    BY <1>2, StorageRoundMoves
  <2>2. \A o \in Uploads : job[o] = "push" => job'[o] = "push"
    BY <1>2, StorageRoundStill
  <2> QED BY <1>0, <1>2, <2>1, <2>2
<1>3. CASE Storage!Publish
  <2>1. UNCHANGED <<job, verdict, blurred>>
    BY <1>3, Zenon DEF Storage!Publish, Storage!jobs
  <2>2. PICK s \in list :
          \/ stream' = Storage!Stored(s[2]) /\ spool' = spool \ {s}
          \/ stream' \in {stream, Storage!Stored(s[2])} /\ UNCHANGED spool
    BY <1>3, Zenon DEF Storage!Publish
  <2>3. s[2] \in Storage!Events /\ s[2].of \in Uploads /\ s \in spool
    BY <1>t DEF Storage!Numbered
  <2>4. /\ \A i \in DOMAIN stream : i \in DOMAIN stream' /\ stream'[i] = stream[i]
        /\ \A i \in DOMAIN stream' : (i \in DOMAIN stream /\ stream'[i] = stream[i]) \/ stream'[i] = s[2]
        /\ \A r \in spool : r \in spool' \/ \E i \in DOMAIN stream' : stream'[i] = r[2]
        /\ spool' \subseteq spool
    BY <2>2, <2>3, StorageStored
  <2>5. \A r \in spool' : job'[r[2].of] \in {"reply", "done"}
    BY <2>1, <2>4 DEF Storage!EventsKept
  <2>6. \A i \in DOMAIN stream' : job'[stream'[i].of] \in {"reply", "done"}
    BY <2>1, <2>3, <2>4 DEF Storage!EventsKept
  <2>7. \A r, t \in spool' : r[2].of = t[2].of => r = t
    BY <2>4 DEF Storage!EventsKept
  <2>8. \A o \in Uploads : Storage!Event(o)' = Storage!Event(o)
    BY <2>1 DEF Storage!Event
  <2>9. ASSUME NEW o \in Uploads, job'[o] \in {"reply", "done"}, verdict'[o] \in {"ok", "rejected"},
               FileOf[o] \notin blurred'
        PROVE  (\E i \in DOMAIN stream' : stream'[i] = Storage!Event(o)') \/ \E r \in spool' : r[2] = Storage!Event(o)'
    <3>1. (\E i \in DOMAIN stream : stream[i] = Storage!Event(o)) \/ \E r \in spool : r[2] = Storage!Event(o)
      BY <2>1, <2>9 DEF Storage!EventsKept
    <3> QED BY <2>4, <2>8, <3>1
  <2> QED BY <2>5, <2>6, <2>7, <2>9 DEF Storage!EventsKept
<1>4. ASSUME NEW f \in Files, Storage!Delete(f) PROVE Storage!EventsKept'
  <2>1. UNCHANGED <<spool, stream, job, verdict>> /\ blurred \subseteq blurred'
    BY <1>4 DEF Storage!Delete, Storage!jobs, Storage!events
  <2> QED BY <1>0, <2>1 DEF Moves
<1>5. CASE Storage!Crash
  <2>1. /\ UNCHANGED <<spool, stream, verdict>> /\ blurred \subseteq blurred'
        /\ \A o \in Uploads : job[o] \in {"put", "announce", "push"} => FileOf[o] \in blurred'
        /\ \A o \in Uploads : job'[o] = IF job[o] = "none" THEN "none" ELSE "done"
    BY <1>5 DEF Storage!Crash
  <2>2. \A o \in Uploads : Storage!Event(o)' = Storage!Event(o)
    BY <2>1 DEF Storage!Event
  <2>3. \A r \in spool' : job'[r[2].of] \in {"reply", "done"}
    BY <1>t, <2>1 DEF Storage!EventsKept
  <2>4. \A i \in DOMAIN stream' : job'[stream'[i].of] \in {"reply", "done"}
    BY <1>t, <2>1 DEF Storage!EventsKept
  <2>5. \A r, t \in spool' : r[2].of = t[2].of => r = t
    BY <2>1 DEF Storage!EventsKept
  <2>6. ASSUME NEW o \in Uploads, job'[o] \in {"reply", "done"}, verdict'[o] \in {"ok", "rejected"},
               FileOf[o] \notin blurred'
        PROVE  (\E i \in DOMAIN stream' : stream'[i] = Storage!Event(o)') \/ \E r \in spool' : r[2] = Storage!Event(o)'
    <3>1. job[o] \in {"reply", "done"} /\ FileOf[o] \notin blurred /\ verdict[o] \in {"ok", "rejected"}
      BY <2>1, <2>6 DEF Storage!InStep, Storage!Matches
    <3>2. (\E i \in DOMAIN stream : stream[i] = Storage!Event(o)) \/ \E r \in spool : r[2] = Storage!Event(o)
      BY <3>1 DEF Storage!EventsKept
    <3> QED BY <2>1, <2>2, <3>2
  <2> QED BY <2>3, <2>4, <2>5, <2>6 DEF Storage!EventsKept
<1>6. CASE Storage!Scan
  <2>1. UNCHANGED <<spool, stream>> /\ Storage!Round
    BY <1>6, Zenon DEF Storage!Scan, Storage!Round
  <2> QED BY <1>2, <2>1
<1> QED BY <1>1, <1>2, <1>3, <1>4, <1>5, <1>6, StorageRoundStill DEF Storage!Next

(* A file nothing was lost of has one recording in the pipeline.           *)
LEMMA StorageOneJob ==
    ASSUME Storage!TypeOK, Storage!InStep, Storage!LocksHeld, NEW u \in Uploads, NEW v \in Uploads,
           Storage!InPipeline(u), Storage!InPipeline(v), FileOf[u] = FileOf[v], FileOf[u] \notin blurred
    PROVE  u = v
<1>1. handler[u] = "submitted" /\ handler[v] = "submitted"
  BY DEF Storage!InStep, Storage!Matches
<1>2. lockOf[u] = lockOf[v]
  BY <1>1 DEF Storage!LocksHeld
<1> QED BY <1>1, <1>2 DEF Storage!LocksHeld

(* Publishing in the order of the numbers, whatever answer comes back.     *)
LEMMA StoragePublishes ==
    ASSUME Storage!TypeOK, Storage!EventsKept, Storage!Numbered, NEW s \in list, Storage!First(s),
           UNCHANGED blurred, stream' \in {stream, Storage!Stored(s[2])},
           spool' \in {spool, spool \ {s}}, stream' = stream => spool' = spool \/ \E i \in DOMAIN stream : stream[i] = s[2]
    PROVE  \A r \in spool', i \in DOMAIN stream' :
             Storage!Clear(r)' /\ r[2].kind = "ok" /\ stream'[i] = r[2] =>
               /\ \A t \in spool' : Storage!SameFile(r[2].of, t[2].of) /\ t[2].kind = "ok" => r[1] <= t[1]
               /\ \A j \in DOMAIN stream' : j > i => ~ Storage!Tells(stream'[j], FileOf[r[2].of])
<1> SUFFICES ASSUME NEW r \in spool', NEW i \in DOMAIN stream',
                    Storage!Clear(r), r[2].kind = "ok", stream'[i] = r[2]
             PROVE  /\ \A t \in spool' : Storage!SameFile(r[2].of, t[2].of) /\ t[2].kind = "ok" => r[1] <= t[1]
                    /\ \A j \in DOMAIN stream' : j > i => ~ Storage!Tells(stream'[j], FileOf[r[2].of])
  BY DEF Storage!Clear
<1>t. /\ spool \subseteq (Nat \ {0}) \X Storage!Events /\ spool' \subseteq spool /\ s \in spool /\ r \in spool
      /\ s[2] \in Storage!Events
  BY DEF Storage!TypeOK, Storage!Numbered
<1>n. \A t \in spool : t[1] \in Nat
  BY <1>t
<1>s. /\ \A k \in DOMAIN stream : k \in DOMAIN stream' /\ stream'[k] = stream[k]
      /\ \A k \in DOMAIN stream' :
           \/ k \in DOMAIN stream
           \/ /\ stream'[k] = s[2]
              /\ \A j \in DOMAIN stream : j < k /\ stream[j] # s[2]
              /\ \A j \in DOMAIN stream' : j > k => j \in DOMAIN stream
  <2>1. CASE stream' = stream
    BY <2>1
  <2>2. CASE stream' = Storage!Stored(s[2])
    <3>1. s[2] \in Storage!Events
      BY <1>t
    <3> HIDE DEF Storage!Stored
    <3> QED BY <2>2, <3>1, StorageStored
  <2> QED BY <2>1, <2>2
<1>d. stream \in Seq(Storage!Events) /\ stream' \in Seq(Storage!Events) /\ DOMAIN stream \subseteq Nat /\ DOMAIN stream' \subseteq Nat
  <2>1. stream \in Seq(Storage!Events)
    BY DEF Storage!TypeOK
  <2>2. stream' \in Seq(Storage!Events)
    <3>1. Storage!Stored(s[2]) \in Seq(Storage!Events)
      BY <1>t, StorageStored
    <3> QED BY <2>1, <3>1, Zenon
  <2> QED BY <2>1, <2>2
<1>m. ASSUME Storage!SameFile(s[2].of, r[2].of) PROVE s[1] <= r[1]
  <2>1. Storage!Clear(s)
    BY <1>m DEF Storage!SameFile, Storage!Clear
  <2>2. CASE r \in list
    BY <2>2 DEF Storage!First
  <2>3. CASE r \notin list
    <3>1. r \in spool \ list
      BY <1>t, <2>3
    <3>2. s[1] < r[1]
      BY <1>m, <2>1, <3>1 DEF Storage!Numbered
    <3> QED BY <1>n, <1>t, <3>2
  <2> QED BY <2>2, <2>3
<1>e. \A x, y \in spool : x[2].of = y[2].of => x = y
  BY DEF Storage!EventsKept
<1>7. \A x \in spool, k \in DOMAIN stream :
        Storage!Clear(x) /\ x[2].kind = "ok" /\ stream[k] = x[2] =>
          /\ \A t \in spool : Storage!SameFile(x[2].of, t[2].of) /\ t[2].kind = "ok" => x[1] <= t[1]
          /\ \A j \in DOMAIN stream : j > k => ~ Storage!Tells(stream[j], FileOf[x[2].of])
  BY DEF Storage!Numbered
<1>1. CASE i \in DOMAIN stream
  <2>1. stream[i] = r[2]
    BY <1>1, <1>s
  <2>2. /\ \A t \in spool : Storage!SameFile(r[2].of, t[2].of) /\ t[2].kind = "ok" => r[1] <= t[1]
        /\ \A j \in DOMAIN stream : j > i => ~ Storage!Tells(stream[j], FileOf[r[2].of])
    BY <1>1, <1>7, <1>t, <2>1
  <2>3. ASSUME NEW j \in DOMAIN stream', j \notin DOMAIN stream, Storage!Tells(stream'[j], FileOf[r[2].of])
        PROVE  FALSE
    <3>1. stream'[j] = s[2] /\ \A k \in DOMAIN stream : stream[k] # s[2]
      BY <1>s, <2>3
    <3>2. Storage!SameFile(s[2].of, r[2].of) /\ Storage!SameFile(r[2].of, s[2].of) /\ s[2].kind = "ok"
      BY <2>3, <3>1 DEF Storage!Tells, Storage!SameFile
    <3>3. s[1] <= r[1] /\ r[1] <= s[1]
      BY <1>m, <1>t, <2>2, <3>2
    <3>4. s[1] = r[1]
      BY <1>n, <1>t, <3>3
    <3>5. r = s
      BY <1>t, <3>2, <3>4 DEF Storage!Numbered
    <3> QED BY <1>1, <2>1, <3>1, <3>5
  <2>4. \A j \in DOMAIN stream' : j > i => ~ Storage!Tells(stream'[j], FileOf[r[2].of])
    BY <1>s, <2>2, <2>3
  <2> QED BY <1>t, <2>2, <2>4
<1>2. CASE i \notin DOMAIN stream
  <2>1. /\ stream'[i] = s[2] /\ \A j \in DOMAIN stream : j < i
        /\ \A j \in DOMAIN stream' : j > i => j \in DOMAIN stream
    BY <1>2, <1>s
  <2>2. r = s
    BY <1>e, <1>t, <2>1
  <2>3. \A j \in DOMAIN stream' : ~ (j > i)
    BY <1>d, <2>1
  <2>4. ASSUME NEW t \in spool', Storage!SameFile(r[2].of, t[2].of) PROVE r[1] <= t[1]
    <3>1. CASE t \in list
      BY <2>2, <3>1 DEF Storage!First
    <3>2. CASE t \notin list
      <4>1. t \in spool \ list /\ s \in list
        BY <1>t, <3>2
      <4>2. s[1] < t[1]
        BY <2>2, <2>4, <4>1 DEF Storage!Numbered
      <4> QED BY <1>n, <1>t, <2>2, <4>1, <4>2
    <3> QED BY <3>1, <3>2
  <2> QED BY <2>3, <2>4
<1> QED BY <1>1, <1>2

(* The events of a file are numbered as they were made.                    *)
LEMMA StorageNumbered ==
    ASSUME Storage!TypeOK, Storage!InStep, Storage!LocksHeld, Storage!InQueues, Storage!EventsKept,
           Storage!Numbered, Storage!Next
    PROVE  Storage!Numbered'
<1>t. /\ job \in [Uploads -> Storage!Stages] /\ drawn \in [Uploads -> Nat] /\ next \in Nat
      /\ spool \subseteq (Nat \ {0}) \X Storage!Events /\ list \subseteq spool
  BY DEF Storage!TypeOK, Storage!Numbered
<1>n. \A s \in spool : s[1] \in Nat
  BY <1>t
<1>0. ASSUME UNCHANGED <<next, drawn, spool, list, stream>>, blurred \subseteq blurred',
             \A o \in Uploads : job'[o] = "push" => job[o] = "push"
      PROVE  Storage!Numbered'
  <2>1. \A s \in spool' : Storage!Clear(s)' => Storage!Clear(s)
    BY <1>0 DEF Storage!Clear
  <2>2. \A s \in list' : Storage!Clear(s)' => Storage!Clear(s)
    BY <1>0 DEF Storage!Clear
  <2>3. \A s \in spool : s[1] < next
    BY DEF Storage!Numbered
  <2>4. \A o \in Uploads : job[o] = "push" => 0 < drawn[o] /\ drawn[o] < next
    BY DEF Storage!Numbered
  <2>5. \A o \in Uploads, s \in spool' :
          job'[o] = "push" /\ Storage!Clear(s)' /\ Storage!SameFile(o, s[2].of) => s[1] < drawn'[o]
    BY <1>0, <2>1 DEF Storage!Numbered
  <2>6. \A s, t \in spool' : Storage!Clear(s)' /\ Storage!SameFile(s[2].of, t[2].of) /\ s[1] = t[1] => s = t
    BY <1>0, <2>1 DEF Storage!Numbered
  <2>7. \A s \in list', t \in spool' \ list' : Storage!Clear(s)' /\ Storage!SameFile(s[2].of, t[2].of) => s[1] < t[1]
    BY <1>0, <2>2 DEF Storage!Numbered
  <2>8. \A s \in spool', i \in DOMAIN stream' :
          Storage!Clear(s)' /\ s[2].kind = "ok" /\ stream'[i] = s[2] =>
            /\ \A t \in spool' : Storage!SameFile(s[2].of, t[2].of) /\ t[2].kind = "ok" => s[1] <= t[1]
            /\ \A j \in DOMAIN stream' : j > i => ~ Storage!Tells(stream'[j], FileOf[s[2].of])
    BY <1>0, <2>1 DEF Storage!Numbered
  <2> QED BY <1>0, <1>t, <2>3, <2>4, <2>5, <2>6, <2>7, <2>8 DEF Storage!Numbered, Storage!SameFile, Storage!Tells
<1>1. ASSUME NEW u \in Uploads, Storage!Draw(u) PROVE Storage!Numbered'
  <2>1. /\ drawn'[u] = next /\ next' = next + 1 /\ UNCHANGED <<spool, list, stream, blurred>>
        /\ \A o \in Uploads : o # u => job'[o] = job[o] /\ drawn'[o] = drawn[o]
    BY <1>1, <1>t DEF Storage!Draw
  <2>2. \A s \in spool : s[1] < next /\ s[1] < next'
    BY <1>n, <1>t, <2>1 DEF Storage!Numbered
  <2>3. \A o \in Uploads : job'[o] = "push" => 0 < drawn'[o] /\ drawn'[o] < next'
    <3>1. next > 0
      BY DEF Storage!TypeOK
    <3> QED BY <1>t, <2>1, <3>1 DEF Storage!Numbered
  <2>4. \A o \in Uploads, s \in spool :
          job'[o] = "push" /\ Storage!Clear(s) /\ Storage!SameFile(o, s[2].of) => s[1] < drawn'[o]
    BY <2>1, <2>2 DEF Storage!Numbered
  <2> QED BY <2>1, <2>2, <2>3, <2>4 DEF Storage!Numbered, Storage!Clear, Storage!SameFile, Storage!Tells
<1>2. ASSUME NEW u \in Uploads, Storage!Push(u) PROVE Storage!Numbered'
  <2>1. /\ job[u] = "push" /\ job'[u] = "reply" /\ \A o \in Uploads : o # u => job'[o] = job[o]
        /\ UNCHANGED <<next, drawn, list, stream>> /\ blurred \subseteq blurred'
    BY <1>2, <1>t DEF Storage!Push
  <2>2. CASE UNCHANGED spool
    BY <1>0, <2>1, <2>2
  <2>3. CASE spool' # spool
    <3> DEFINE n == <<drawn[u], Storage!Event(u)>>
    <3>1. spool' = spool \cup {n} /\ UNCHANGED blurred
      BY <1>2, <2>3, Zenon DEF Storage!Push
    <3>2. n[1] = drawn[u] /\ n[2].of = u /\ drawn[u] < next
      BY <2>1 DEF Storage!Event, Storage!Numbered
    <3>3. \A i \in DOMAIN stream : stream[i] # n[2]
      BY <2>1, <3>2 DEF Storage!EventsKept
    <3>4. \A s \in spool : Storage!Clear(s) /\ Storage!SameFile(u, s[2].of) => s[1] < n[1]
      BY <2>1, <3>2 DEF Storage!Numbered
    <3>5. \A o \in Uploads : job'[o] = "push" /\ Storage!SameFile(o, u) /\ FileOf[u] \notin blurred => FALSE
      BY <2>1, StorageOneJob DEF Storage!SameFile, Storage!InPipeline
    <3> HIDE DEF n
    <3>6. \A s \in spool' : s[1] < next'
      BY <2>1, <3>1, <3>2 DEF Storage!Numbered
    <3>7. \A o \in Uploads : job'[o] = "push" => 0 < drawn'[o] /\ drawn'[o] < next'
      BY <2>1 DEF Storage!Numbered
    <3>8. \A o \in Uploads, s \in spool' :
            job'[o] = "push" /\ Storage!Clear(s)' /\ Storage!SameFile(o, s[2].of) => s[1] < drawn'[o]
      <4> SUFFICES ASSUME NEW o \in Uploads, NEW s \in spool', job'[o] = "push", Storage!Clear(s)',
                          Storage!SameFile(o, s[2].of)
                   PROVE  s[1] < drawn'[o]
        OBVIOUS
      <4>1. o # u /\ job[o] = "push" /\ Storage!Clear(s)
        BY <2>1, <3>1 DEF Storage!Clear
      <4>2. CASE s \in spool
        BY <2>1, <4>1, <4>2 DEF Storage!Numbered
      <4>3. CASE s = n
        BY <3>2, <3>5, <4>1, <4>3 DEF Storage!Clear
      <4> QED BY <3>1, <4>2, <4>3
    <3>9. \A s, t \in spool' : Storage!Clear(s)' /\ Storage!SameFile(s[2].of, t[2].of) /\ s[1] = t[1] => s = t
      <4> SUFFICES ASSUME NEW s \in spool', NEW t \in spool', Storage!Clear(s)',
                          Storage!SameFile(s[2].of, t[2].of), s[1] = t[1]
                   PROVE  s = t
        OBVIOUS
      <4>1. Storage!Clear(s) /\ Storage!Clear(t)
        BY <3>1 DEF Storage!Clear, Storage!SameFile
      <4>2. CASE s \in spool /\ t \in spool
        BY <4>1, <4>2 DEF Storage!Numbered
      <4>3. CASE s = n /\ t \in spool
        <5>1. t[1] < n[1]
          BY <3>2, <3>4, <4>1, <4>3 DEF Storage!SameFile
        <5> QED BY <1>n, <1>t, <3>2, <4>3, <5>1
      <4>4. CASE t = n /\ s \in spool
        <5>1. s[1] < n[1]
          BY <3>2, <3>4, <4>1, <4>4 DEF Storage!SameFile
        <5> QED BY <1>n, <1>t, <3>2, <4>4, <5>1
      <4> QED BY <3>1, <4>2, <4>3, <4>4
    <3>10. \A s \in list', t \in spool' \ list' : Storage!Clear(s)' /\ Storage!SameFile(s[2].of, t[2].of) => s[1] < t[1]
      <4> SUFFICES ASSUME NEW s \in list, NEW t \in spool' \ list, Storage!Clear(s),
                          Storage!SameFile(s[2].of, t[2].of)
                   PROVE  s[1] < t[1]
        BY <2>1, <3>1 DEF Storage!Clear
      <4>1. CASE t \in spool
        BY <4>1 DEF Storage!Numbered
      <4>2. CASE t = n
        BY <1>t, <3>2, <3>4, <4>2 DEF Storage!SameFile
      <4> QED BY <3>1, <4>1, <4>2
    <3>11. ASSUME NEW s \in spool', NEW i \in DOMAIN stream', Storage!Clear(s)', s[2].kind = "ok", stream'[i] = s[2]
           PROVE  /\ \A t \in spool' : Storage!SameFile(s[2].of, t[2].of) /\ t[2].kind = "ok" => s[1] <= t[1]
                  /\ \A j \in DOMAIN stream' : j > i => ~ Storage!Tells(stream'[j], FileOf[s[2].of])
      <4>1. s \in spool /\ Storage!Clear(s)
        BY <2>1, <3>1, <3>3, <3>11 DEF Storage!Clear
      <4>2. /\ \A t \in spool : Storage!SameFile(s[2].of, t[2].of) /\ t[2].kind = "ok" => s[1] <= t[1]
            /\ \A j \in DOMAIN stream : j > i => ~ Storage!Tells(stream[j], FileOf[s[2].of])
        BY <2>1, <3>11, <4>1 DEF Storage!Numbered
      <4>3. Storage!SameFile(s[2].of, n[2].of) => s[1] < n[1]
        BY <3>2, <3>4, <4>1 DEF Storage!SameFile
      <4>4. n[1] \in Nat /\ s[1] \in Nat
        BY <1>n, <1>t, <3>2, <4>1
      <4>5. Storage!SameFile(s[2].of, n[2].of) => s[1] <= n[1]
        BY <4>3, <4>4
      <4> QED BY <2>1, <3>1, <4>2, <4>5
    <3>12. list' \subseteq spool'
      BY <1>t, <2>1, <3>1
    <3> QED BY <3>6, <3>7, <3>8, <3>9, <3>10, <3>11, <3>12 DEF Storage!Numbered, Storage!SameFile, Storage!Tells
  <2> QED BY <2>2, <2>3
<1>3. ASSUME NEW u \in Uploads, Storage!Receive(u) \/ Storage!Leave(u) \/ Storage!Work(u),
             ~Storage!Draw(u), ~Storage!Push(u)
      PROVE  Storage!Numbered'
  <2>1. UNCHANGED <<next, drawn, spool, list, stream>>
    BY <1>3, Zenon DEF Storage!Receive, Storage!Leave, Storage!Work, Storage!Submit, Storage!Probe,
       Storage!TranscodeAlone, Storage!Check, Storage!Put, Storage!Reply, Storage!events
  <2>2. blurred \subseteq blurred'
    BY <1>3 DEF Storage!Receive, Storage!Leave, Storage!Work, Storage!Submit, Storage!Probe,
       Storage!TranscodeAlone, Storage!Check, Storage!Put, Storage!Draw, Storage!Push, Storage!Reply
  <2>3. \A o \in Uploads : o # u => job'[o] = job[o]
    BY <1>3, StorageWorkMoves
  <2>4. job'[u] = "push" => job[u] = "push"
    <3>1. CASE Storage!Settle(u, "ok", "announce") \/ Storage!Reject(u) \/ Storage!Fail(u)
      BY <1>t, <3>1 DEF Storage!Settle, Storage!Reject, Storage!Fail
    <3>2. CASE UNCHANGED job
      BY <3>2
    <3>3. CASE \E stage : stage # "push" /\ job' = [job EXCEPT ![u] = stage]
      BY <1>t, <3>3
    <3>4. "queued" # "push" /\ "ready" # "push" /\ "check" # "push" /\ "write" # "push" /\ "done" # "push"
      OBVIOUS
    <3> QED BY <1>3, <3>1, <3>2, <3>3, <3>4, Zenon DEF Storage!Receive, Storage!Leave, Storage!Work,
          Storage!Submit, Storage!Probe, Storage!TranscodeAlone, Storage!Check, Storage!Put, Storage!Reply, Storage!jobs
  <2> QED BY <1>0, <2>1, <2>2, <2>3, <2>4
<1>4. CASE Storage!Round /\ UNCHANGED <<spool, list, stream>>
  BY <1>0, <1>4, StorageRoundStill, StorageRoundMoves
<1>5. CASE Storage!Scan
  <2>1. list' = spool /\ UNCHANGED <<job, next, drawn, spool, stream, blurred>>
    BY <1>5, Zenon DEF Storage!Scan, Storage!jobs
  <2> QED BY <2>1 DEF Storage!Numbered, Storage!Clear, Storage!SameFile, Storage!Tells
<1>6. CASE Storage!Publish
  <2>1. UNCHANGED <<job, next, drawn, blurred>>
    BY <1>6, Zenon DEF Storage!Publish, Storage!jobs
  <2>2. PICK s \in list : Storage!First(s) /\
          (\/ stream' = Storage!Stored(s[2]) /\ spool' = spool \ {s} /\ list' = list \ {s}
           \/ list' = {} /\ stream' \in {stream, Storage!Stored(s[2])} /\ UNCHANGED spool)
    BY <1>6, Zenon DEF Storage!Publish
  <2>3. s \in spool /\ s[2] \in Storage!Events
    BY <1>t
  <2>4. \E i \in DOMAIN Storage!Stored(s[2]) : Storage!Stored(s[2])[i] = s[2]
    BY <2>3, StorageStored
  <2>5. \A r \in spool', i \in DOMAIN stream' :
          Storage!Clear(r)' /\ r[2].kind = "ok" /\ stream'[i] = r[2] =>
            /\ \A t \in spool' : Storage!SameFile(r[2].of, t[2].of) /\ t[2].kind = "ok" => r[1] <= t[1]
            /\ \A j \in DOMAIN stream' : j > i => ~ Storage!Tells(stream'[j], FileOf[r[2].of])
    <3>1. stream' \in {stream, Storage!Stored(s[2])} /\ spool' \in {spool, spool \ {s}}
      BY <2>2
    <3>2. stream' = stream => spool' = spool \/ \E i \in DOMAIN stream : stream[i] = s[2]
      BY <2>2, <2>4
    <3> QED BY <2>1, <2>2, <3>1, <3>2, StoragePublishes
  <2>6. /\ spool' \subseteq spool /\ list' \subseteq spool' /\ list' \subseteq list
        /\ \A r \in list', t \in spool' \ list' : t \in spool \ list
    BY <1>t, <2>2
  <2>7. \A r \in spool' : r[1] < next'
    BY <2>1, <2>6 DEF Storage!Numbered
  <2>8. \A o \in Uploads : job'[o] = "push" => 0 < drawn'[o] /\ drawn'[o] < next'
    BY <2>1 DEF Storage!Numbered
  <2>9. \A o \in Uploads, r \in spool' :
          job'[o] = "push" /\ Storage!Clear(r)' /\ Storage!SameFile(o, r[2].of) => r[1] < drawn'[o]
    BY <2>1, <2>6 DEF Storage!Numbered, Storage!Clear
  <2>10. \A r, t \in spool' : Storage!Clear(r)' /\ Storage!SameFile(r[2].of, t[2].of) /\ r[1] = t[1] => r = t
    BY <2>1, <2>6 DEF Storage!Numbered, Storage!Clear
  <2>11. \A r \in list', t \in spool' \ list' : Storage!Clear(r)' /\ Storage!SameFile(r[2].of, t[2].of) => r[1] < t[1]
    BY <2>1, <2>6 DEF Storage!Numbered, Storage!Clear
  <2> QED BY <2>5, <2>6, <2>7, <2>8, <2>9, <2>10, <2>11 DEF Storage!Numbered, Storage!SameFile, Storage!Tells
<1>7. ASSUME NEW f \in Files, Storage!Delete(f) PROVE Storage!Numbered'
  <2>1. UNCHANGED <<job, next, drawn, spool, list, stream>> /\ blurred \subseteq blurred'
    BY <1>7 DEF Storage!Delete, Storage!jobs, Storage!events
  <2> QED BY <1>0, <2>1
<1>8. CASE Storage!Crash
  <2>1. /\ next' = Storage!Reopened /\ list' = {} /\ UNCHANGED <<drawn, spool, stream>>
        /\ blurred \subseteq blurred' /\ \A o \in Uploads : job'[o] # "push"
    BY <1>8 DEF Storage!Crash
  <2>2. \A s \in spool' : s[1] < next'
    BY <2>1, StorageReopens
  <2>3. \A s \in spool' : Storage!Clear(s)' => Storage!Clear(s)
    BY <2>1 DEF Storage!Clear
  <2>4. \A s, t \in spool' : Storage!Clear(s)' /\ Storage!SameFile(s[2].of, t[2].of) /\ s[1] = t[1] => s = t
    BY <2>1, <2>3 DEF Storage!Numbered
  <2>5. \A s \in spool', i \in DOMAIN stream' :
          Storage!Clear(s)' /\ s[2].kind = "ok" /\ stream'[i] = s[2] =>
            /\ \A t \in spool' : Storage!SameFile(s[2].of, t[2].of) /\ t[2].kind = "ok" => s[1] <= t[1]
            /\ \A j \in DOMAIN stream' : j > i => ~ Storage!Tells(stream'[j], FileOf[s[2].of])
    BY <2>1, <2>3 DEF Storage!Numbered
  <2> QED BY <2>1, <2>2, <2>4, <2>5 DEF Storage!Numbered, Storage!SameFile, Storage!Tells
<1> QED BY <1>1, <1>2, <1>3, <1>4, <1>5, <1>6, <1>7, <1>8, StorageRoundStill DEF Storage!Next

(* What is told of a file depends on its own events only.                  *)
LEMMA StorageToldSame ==
    ASSUME NEW f, Storage!Told(f), object'[f] = object[f],
           \A s \in spool : Storage!Tells(s[2], f) => s \in spool',
           \A s \in spool' : Storage!Tells(s[2], f) => s \in spool,
           \A i \in DOMAIN stream : i \in DOMAIN stream' /\ stream'[i] = stream[i],
           \A i \in DOMAIN stream' : i \in DOMAIN stream \/ ~Storage!Tells(stream'[i], f)
    PROVE  Storage!Told(f)'
<1> DEFINE never == /\ \A s \in spool' : ~ Storage!Tells(s[2], f)
                    /\ \A i \in DOMAIN stream' : ~ Storage!Tells(stream'[i], f)
<1>0. /\ Storage!NeverTold(f)' <=> never
      /\ Storage!NeverTold(f) <=> never
  BY DEF Storage!NeverTold, Storage!Tells
<1>1. CASE never
  BY <1>0, <1>1 DEF Storage!Told
<1>2. CASE ~never
  <2>1. Storage!LastTold(f, object[f])
    BY <1>0, <1>2 DEF Storage!Told
  <2>2. CASE \E s \in spool :
          /\ Storage!Tells(s[2], f) /\ s[2].of = object[f]
          /\ \A t \in spool : Storage!Tells(t[2], f) => t[1] <= s[1]
    <3>1. \E s \in spool' :
            /\ Storage!Tells(s[2], f) /\ s[2].of = object'[f]
            /\ \A t \in spool' : Storage!Tells(t[2], f) => t[1] <= s[1]
      BY <2>2
    <3>2. Storage!LastTold(f, object[f])'
      BY <3>1 DEF Storage!LastTold, Storage!Tells
    <3> QED BY <1>0, <1>2, <3>2 DEF Storage!Told
  <2>3. CASE /\ \A s \in spool : ~ Storage!Tells(s[2], f)
             /\ \E i \in DOMAIN stream :
                  /\ Storage!Tells(stream[i], f) /\ stream[i].of = object[f]
                  /\ \A j \in DOMAIN stream : j > i => ~ Storage!Tells(stream[j], f)
    <3>1. \A s \in spool' : ~ Storage!Tells(s[2], f)
      BY <2>3
    <3>2. \E i \in DOMAIN stream' :
            /\ Storage!Tells(stream'[i], f) /\ stream'[i].of = object'[f]
            /\ \A j \in DOMAIN stream' : j > i => ~ Storage!Tells(stream'[j], f)
      BY <2>3
    <3>3. Storage!LastTold(f, object[f])'
      BY <3>1, <3>2 DEF Storage!LastTold, Storage!Tells
    <3> QED BY <1>0, <1>2, <3>3 DEF Storage!Told
  <2> QED BY <2>1, <2>2, <2>3 DEF Storage!LastTold
<1> QED BY <1>1, <1>2

(* Publishing does not change what is told of a file.                      *)
LEMMA StoragePublishTold ==
    ASSUME Storage!TypeOK, Storage!EventsKept, Storage!Numbered, Storage!Publish,
           NEW f \in Files \ blurred, Storage!Told(f)
    PROVE  Storage!Told(f)'
<1>1. UNCHANGED object
  BY Zenon DEF Storage!Publish
<1>2. PICK s \in list : Storage!First(s) /\
        (\/ stream' = Storage!Stored(s[2]) /\ spool' = spool \ {s}
         \/ stream' \in {stream, Storage!Stored(s[2])} /\ UNCHANGED spool)
  BY Zenon DEF Storage!Publish
<1>t. /\ spool \subseteq (Nat \ {0}) \X Storage!Events /\ s \in spool
  BY DEF Storage!TypeOK, Storage!Numbered
<1>n. s[2] \in Storage!Events /\ \A t \in spool : t[1] \in Nat
  BY <1>t
<1>s. /\ \A k \in DOMAIN stream : k \in DOMAIN stream' /\ stream'[k] = stream[k]
      /\ \A k \in DOMAIN stream' :
           \/ k \in DOMAIN stream
           \/ /\ stream'[k] = s[2]
              /\ \A j \in DOMAIN stream' : j > k => j \in DOMAIN stream /\ j < k
  <2>1. CASE stream' = stream
    BY <2>1
  <2>2. CASE stream' = Storage!Stored(s[2])
    BY <1>n, <2>2, StorageStored
  <2> QED BY <1>2, <2>1, <2>2
<1>3. CASE ~Storage!Tells(s[2], f)
  <2>1. \A t \in spool : Storage!Tells(t[2], f) => t \in spool'
    BY <1>2, <1>3
  <2>2. spool' \subseteq spool
    BY <1>2
  <2>3. \A i \in DOMAIN stream' : i \in DOMAIN stream \/ ~Storage!Tells(stream'[i], f)
    BY <1>3, <1>s
  <2> QED BY <1>1, <1>s, <2>1, <2>2, <2>3, StorageToldSame
<1>4. CASE Storage!Tells(s[2], f)
  <2>0. ASSUME NEW t \in spool, Storage!Tells(t[2], f) PROVE s[1] <= t[1] /\ Storage!Clear(t) /\ Storage!Clear(s)
    <3>1. Storage!Clear(s) /\ Storage!Clear(t) /\ Storage!SameFile(s[2].of, t[2].of)
      BY <1>4, <2>0 DEF Storage!Tells, Storage!Clear, Storage!SameFile
    <3>2. CASE t \in list
      BY <1>2, <3>1, <3>2 DEF Storage!First
    <3>3. CASE t \notin list
      <4>1. s[1] < t[1]
        BY <3>1, <3>3 DEF Storage!Numbered
      <4> QED BY <1>n, <1>t, <3>1, <4>1
    <3> QED BY <3>2, <3>3
  <2>1. PICK r \in spool : /\ Storage!Tells(r[2], f) /\ r[2].of = object[f]
                           /\ \A t \in spool : Storage!Tells(t[2], f) => t[1] <= r[1]
    <3>1. ~Storage!NeverTold(f)
      BY <1>4, <1>t DEF Storage!NeverTold
    <3> QED BY <1>4, <1>t, <3>1 DEF Storage!Told, Storage!LastTold
  <2>2. CASE r \in spool'
    <3>1. spool' \subseteq spool
      BY <1>2
    <3>2. Storage!LastTold(f, object[f])'
      BY <1>1, <2>1, <2>2, <3>1 DEF Storage!LastTold, Storage!Tells
    <3>3. ~Storage!NeverTold(f)'
      BY <2>1, <2>2 DEF Storage!NeverTold, Storage!Tells
    <3> QED BY <3>2, <3>3 DEF Storage!Told
  <2>3. CASE r \notin spool'
    <3>1. r = s /\ spool' = spool \ {s} /\ stream' = Storage!Stored(s[2])
      BY <1>2, <2>1, <2>3
    <3>2. \A t \in spool' : ~ Storage!Tells(t[2], f)
      <4> SUFFICES ASSUME NEW t \in spool', Storage!Tells(t[2], f) PROVE FALSE
        OBVIOUS
      <4>1. t \in spool /\ t # s
        BY <3>1
      <4>2. s[1] <= t[1] /\ t[1] <= s[1] /\ Storage!Clear(s)
        BY <2>0, <2>1, <3>1, <4>1
      <4>3. s[1] = t[1] /\ Storage!SameFile(s[2].of, t[2].of)
        BY <1>4, <1>n, <1>t, <4>1, <4>2 DEF Storage!Tells, Storage!SameFile
      <4> QED BY <1>t, <4>1, <4>2, <4>3 DEF Storage!Numbered
    <3>3. PICK i \in DOMAIN stream' : stream'[i] = s[2]
      BY <1>n, <3>1, StorageStored
    <3>4. \A j \in DOMAIN stream' : j > i => ~ Storage!Tells(stream'[j], f)
      <4>1. CASE i \in DOMAIN stream
        <5>1. stream' = stream
          BY <1>s, <3>1, <3>3, <4>1 DEF Storage!Stored
        <5>2. Storage!Clear(s) /\ s[2].kind = "ok" /\ FileOf[s[2].of] = f
          BY <1>4, <1>t, <2>0 DEF Storage!Tells
        <5> QED BY <1>t, <3>3, <5>1, <5>2 DEF Storage!Numbered
      <4>2. CASE i \notin DOMAIN stream
        <5>1. \A j \in DOMAIN stream' : j > i => j < i
          BY <1>s, <4>2
        <5>2. stream' \in Seq(Storage!Events)
          BY <1>n, <3>1, StorageStored
        <5>3. DOMAIN stream' \subseteq Nat
          BY <5>2
        <5> QED BY <5>1, <5>3
      <4> QED BY <4>1, <4>2
    <3>5. Storage!LastTold(f, object[f])'
      BY <1>1, <1>4, <2>1, <3>1, <3>2, <3>3, <3>4 DEF Storage!LastTold, Storage!Tells
    <3>6. ~Storage!NeverTold(f)'
      BY <1>4, <3>3 DEF Storage!NeverTold, Storage!Tells
    <3> QED BY <3>5, <3>6 DEF Storage!Told
  <2> QED BY <2>2, <2>3
<1> QED BY <1>3, <1>4

(* What is stored is what was told last.                                   *)
LEMMA StorageTruthful ==
    ASSUME Storage!TypeOK, Storage!InStep, Storage!LocksHeld, Storage!InQueues, Storage!EventsKept,
           Storage!Numbered, Storage!Truthful, Storage!Next
    PROVE  Storage!Truthful'
<1> DEFINE True(f) ==
        \/ \E u \in Uploads : FileOf[u] = f /\ Storage!Telling(u) /\ object[f] = u
        \/ (\A u \in Uploads : FileOf[u] = f => ~ Storage!Telling(u)) /\ Storage!Told(f)
<1> SUFFICES ASSUME ~Local, NEW f \in Files \ blurred' PROVE True(f)'
  BY DEF Storage!Truthful
<1>t. /\ job \in [Uploads -> Storage!Stages] /\ verdict \in [Uploads -> Storage!Verdicts]
      /\ object \in [Files -> Uploads \cup {None}] /\ \A o \in Uploads : FileOf[o] \in Files
  BY StorageConstants DEF Storage!TypeOK
<1>b. blurred \subseteq blurred'
  <2>1. ASSUME NEW u \in Uploads, Storage!Receive(u) \/ Storage!Leave(u) \/ Storage!Work(u) PROVE blurred \subseteq blurred'
    BY <2>1 DEF Storage!Receive, Storage!Leave, Storage!Work, Storage!Submit, Storage!Probe,
       Storage!TranscodeAlone, Storage!Check, Storage!Put, Storage!Draw, Storage!Push, Storage!Reply
  <2>2. ASSUME Storage!Round PROVE blurred \subseteq blurred'
    BY <2>2, StorageRoundMoves
  <2>3. ASSUME NEW g \in Files, Storage!Delete(g) PROVE blurred \subseteq blurred'
    BY <2>3 DEF Storage!Delete
  <2>4. ASSUME Storage!Crash PROVE blurred \subseteq blurred'
    BY <2>4 DEF Storage!Crash
  <2> QED BY <2>1, <2>2, <2>3, <2>4 DEF Storage!Next
<1>f. f \in Files /\ f \notin blurred /\ True(f)
  BY <1>b DEF Storage!Truthful
<1>0. ASSUME UNCHANGED <<spool, stream>>, object'[f] = object[f],
             \A o \in Uploads : FileOf[o] = f => (Storage!Telling(o)' <=> Storage!Telling(o))
      PROVE  True(f)'
  <2>1. CASE \E u \in Uploads : FileOf[u] = f /\ Storage!Telling(u) /\ object[f] = u
    BY <1>0, <2>1
  <2>2. CASE (\A u \in Uploads : FileOf[u] = f => ~ Storage!Telling(u)) /\ Storage!Told(f)
    <3>1. Storage!Told(f)'
      BY <1>0, <2>2, StorageToldSame
    <3> QED BY <1>0, <2>2, <3>1
  <2> QED BY <1>f, <2>1, <2>2
<1>1. ASSUME NEW u \in Uploads, Storage!Receive(u) \/ Storage!Leave(u) \/ Storage!Work(u) PROVE True(f)'
  <2>1. /\ \A o \in Uploads : o # u => job'[o] = job[o] /\ verdict'[o] = verdict[o]
        /\ Moves(u)
    BY <1>1, StorageWorkMoves
  <2>2. \A o \in Uploads : o # u => (Storage!Telling(o)' <=> Storage!Telling(o))
    BY <2>1 DEF Storage!Telling
  <2>3. CASE Storage!Put(u)
    <3>1. UNCHANGED <<spool, stream>>
      BY <2>3, Zenon DEF Storage!Put, Storage!events
    <3>2. Storage!Committed(u) = [object EXCEPT ![FileOf[u]] = u]
      BY DEF Storage!Committed
    <3>3. \/ object' = Storage!Committed(u) /\ Storage!Settle(u, "ok", "announce")
          \/ object' = Storage!Committed(u) /\ blurred' = blurred \cup {FileOf[u]}
          \/ UNCHANGED object /\ (Storage!Fail(u) \/ UNCHANGED <<verdict, job, tmp>>)
      BY <2>3, Zenon DEF Storage!Put
    <3>4. CASE f # FileOf[u]
      <4>1. object'[f] = object[f]
        BY <1>t, <3>2, <3>3, <3>4
      <4> QED BY <1>0, <2>2, <3>1, <3>4, <4>1
    <3>5. CASE f = FileOf[u] /\ object' = Storage!Committed(u) /\ Storage!Settle(u, "ok", "announce")
      <4>1. object'[f] = u /\ job'[u] = "announce" /\ verdict'[u] = "ok"
        BY <1>f, <1>t, <3>2, <3>5 DEF Storage!Settle
      <4> QED BY <3>5, <4>1 DEF Storage!Telling
    <3>6. CASE f = FileOf[u] /\ UNCHANGED object /\ (Storage!Fail(u) \/ UNCHANGED <<verdict, job, tmp>>)
      <4>1. ~Storage!Telling(u) /\ ~Storage!Telling(u)'
        BY <1>t, <2>3, <3>6 DEF Storage!Telling, Storage!Fail, Storage!Settle, Storage!Put
      <4> QED BY <1>0, <2>2, <3>1, <3>6, <4>1
    <3> QED BY <1>f, <3>3, <3>4, <3>5, <3>6
  <2>4. CASE Storage!Push(u)
    <3> DEFINE n == <<drawn[u], Storage!Event(u)>>
    <3>0. /\ job[u] = "push" /\ job'[u] = "reply" /\ UNCHANGED <<stream, object, verdict>>
      BY <1>t, <2>4 DEF Storage!Push
    <3>1. ~Storage!Telling(u)'
      BY <3>0 DEF Storage!Telling
    <3>2. \/ spool' = spool \cup {n} /\ UNCHANGED blurred
          \/ spool' = spool /\ FileOf[u] \in blurred'
      BY <2>4 DEF Storage!Push
    <3>3. n[1] = drawn[u] /\ n[2].of = u /\ n[2].kind = verdict[u]
      BY DEF Storage!Event
    <3> HIDE DEF n
    <3>4. CASE f # FileOf[u]
      <4>1. ~Storage!Tells(n[2], f)
        BY <3>3, <3>4 DEF Storage!Tells
      <4>2. CASE \E o \in Uploads : FileOf[o] = f /\ Storage!Telling(o) /\ object[f] = o
        BY <2>2, <3>0, <3>4, <4>2
      <4>3. CASE (\A o \in Uploads : FileOf[o] = f => ~ Storage!Telling(o)) /\ Storage!Told(f)
        <5>1. Storage!Told(f)'
          BY <3>0, <3>2, <4>1, <4>3, StorageToldSame
        <5> QED BY <2>2, <3>4, <4>3, <5>1
      <4> QED BY <1>f, <4>2, <4>3
    <3>5. CASE f = FileOf[u]
      <4>1. spool' = spool \cup {n} /\ FileOf[u] \notin blurred
        BY <1>f, <3>2, <3>5
      <4>2. \A o \in Uploads : FileOf[o] = f /\ Storage!Telling(o) => o = u
        BY <3>0, <3>5, <4>1, StorageOneJob DEF Storage!Telling, Storage!InPipeline
      <4>3. \A o \in Uploads : FileOf[o] = f => ~ Storage!Telling(o)'
        BY <2>2, <3>1, <4>2
      <4>4. CASE verdict[u] = "ok"
        <5>1. Storage!Telling(u) /\ object[f] = u
          BY <1>f, <3>0, <3>5, <4>2, <4>4 DEF Storage!Telling
        <5>2. \A t \in spool : Storage!Tells(t[2], f) => t[1] < n[1]
          BY <3>0, <3>3, <3>5, <4>1 DEF Storage!Numbered, Storage!Tells, Storage!Clear, Storage!SameFile
        <5>3. \A t \in spool : t[1] \in Nat
          <6>1. spool \subseteq (Nat \ {0}) \X Storage!Events
            BY DEF Storage!TypeOK
          <6> QED BY <6>1
        <5>4. n[1] \in Nat
          BY <3>3 DEF Storage!TypeOK
        <5>5. \A t \in spool' : Storage!Tells(t[2], f) => t[1] <= n[1]
          BY <4>1, <5>2, <5>3, <5>4
        <5>6. Storage!Tells(n[2], f) /\ n \in spool' /\ n[2].of = object'[f]
          BY <3>0, <3>3, <3>5, <4>1, <4>4, <5>1 DEF Storage!Tells
        <5>7. Storage!LastTold(f, object[f])' /\ ~Storage!NeverTold(f)'
          BY <5>5, <5>6 DEF Storage!LastTold, Storage!NeverTold, Storage!Tells
        <5> QED BY <4>3, <5>7 DEF Storage!Told
      <4>5. CASE verdict[u] # "ok"
        <5>1. \A o \in Uploads : FileOf[o] = f => ~ Storage!Telling(o)
          BY <4>2, <4>5 DEF Storage!Telling
        <5>2. Storage!Told(f) /\ ~Storage!Tells(n[2], f)
          BY <1>f, <3>3, <4>5, <5>1 DEF Storage!Tells
        <5>3. Storage!Told(f)'
          BY <3>0, <4>1, <5>2, StorageToldSame
        <5> QED BY <4>3, <5>3
      <4> QED BY <4>4, <4>5
    <3> QED BY <3>4, <3>5
  <2>5. CASE ~Storage!Put(u) /\ ~Storage!Push(u)
    <3>1. UNCHANGED <<spool, stream, object>>
      BY <1>1, <2>5, Zenon DEF Storage!Receive, Storage!Leave, Storage!Work, Storage!Submit, Storage!Probe,
         Storage!TranscodeAlone, Storage!Check, Storage!Draw, Storage!Reply, Storage!events
    <3>2. Storage!Telling(u)' <=> Storage!Telling(u)
      <4>1. CASE (Storage!Reject(u) \/ Storage!Fail(u)) /\ job[u] \in {"probe", "alone", "check"}
        <5>2. verdict'[u] # "ok"
          BY <1>t, <4>1 DEF Storage!Reject, Storage!Fail, Storage!Settle
        <5> QED BY <4>1, <5>2 DEF Storage!Telling
      <4>2. CASE UNCHANGED <<job, verdict>>
        BY <4>2 DEF Storage!Telling
      <4>3. CASE Storage!Draw(u) \/ Storage!Reply(u) \/ Storage!Submit(u)
        BY <1>t, <4>3 DEF Storage!Draw, Storage!Reply, Storage!Submit, Storage!Telling, Storage!InStep, Storage!Matches
      <4>4. CASE UNCHANGED verdict /\ job[u] \in {"probe", "alone", "check"} /\
                 \E stage \in {"ready", "check", "write"} : job' = [job EXCEPT ![u] = stage]
        BY <1>t, <4>4 DEF Storage!Telling
      <4>5. ASSUME Storage!Receive(u) \/ Storage!Leave(u) PROVE UNCHANGED <<job, verdict>>
        BY <4>5, Zenon DEF Storage!Receive, Storage!Leave, Storage!jobs
      <4>6. ASSUME Storage!Probe(u) \/ Storage!TranscodeAlone(u) \/ Storage!Check(u), ~Storage!Reject(u), ~Storage!Fail(u)
            PROVE  UNCHANGED verdict /\ job[u] \in {"probe", "alone", "check"} /\
                   \E stage \in {"ready", "check", "write"} : job' = [job EXCEPT ![u] = stage]
        BY <4>6 DEF Storage!Probe, Storage!TranscodeAlone, Storage!Check
      <4>7. ASSUME Storage!Probe(u) \/ Storage!TranscodeAlone(u) \/ Storage!Check(u)
            PROVE  job[u] \in {"probe", "alone", "check"}
        BY <4>7 DEF Storage!Probe, Storage!TranscodeAlone, Storage!Check
      <4> QED BY <1>1, <2>5, <4>1, <4>2, <4>3, <4>4, <4>5, <4>6, <4>7, Zenon DEF Storage!Work
    <3> QED BY <1>0, <2>2, <3>1, <3>2
  <2> QED BY <2>3, <2>4, <2>5
<1>2. ASSUME Storage!Round, ~Storage!Publish PROVE True(f)'
  <2>1. UNCHANGED object /\ \A o \in Uploads : Moves(o)
    BY <1>2, StorageRoundMoves
  <2>2. \A o \in Uploads :
          /\ job[o] \in {"announce", "push"} => job'[o] = job[o]
          /\ job'[o] \in {"announce", "push"} => job'[o] = job[o] /\ verdict'[o] = verdict[o]
    BY <1>2, StorageRoundStill
  <2>3. UNCHANGED <<spool, stream>>
    <3>1. Storage!Scan => UNCHANGED <<spool, stream>>
      BY Zenon DEF Storage!Scan
    <3> QED BY <1>2, <3>1, StorageRoundStill
  <2>4. \A o \in Uploads : Storage!Telling(o)' <=> Storage!Telling(o)
    BY <2>2 DEF Storage!Telling
  <2> QED BY <1>0, <2>1, <2>3, <2>4
<1>3. CASE Storage!Publish
  <2>1. UNCHANGED <<job, verdict, object>>
    BY <1>3, Zenon DEF Storage!Publish, Storage!jobs
  <2>2. \A o \in Uploads : Storage!Telling(o)' <=> Storage!Telling(o)
    BY <2>1 DEF Storage!Telling
  <2>3. Storage!Told(f) => Storage!Told(f)'
    BY <1>3, <1>f, StoragePublishTold
  <2> QED BY <1>f, <2>1, <2>2, <2>3
<1>4. ASSUME NEW g \in Files, Storage!Delete(g) PROVE True(f)'
  <2>1. UNCHANGED <<spool, stream, job, verdict>>
    BY <1>4, Zenon DEF Storage!Delete, Storage!events, Storage!jobs
  <2>2. object'[f] = object[f]
    BY <1>4, <1>t DEF Storage!Delete
  <2> QED BY <1>0, <2>1, <2>2 DEF Storage!Telling
<1>5. CASE Storage!Crash
  <2>1. /\ UNCHANGED <<spool, stream, verdict, object>>
        /\ \A o \in Uploads : job[o] \in {"put", "announce", "push"} => FileOf[o] \in blurred'
        /\ \A o \in Uploads : job'[o] = IF job[o] = "none" THEN "none" ELSE "done"
    BY <1>5 DEF Storage!Crash
  <2>2. \A o \in Uploads : FileOf[o] = f => (Storage!Telling(o)' <=> Storage!Telling(o))
    BY <2>1 DEF Storage!Telling
  <2> QED BY <1>0, <2>1, <2>2
<1> QED BY <1>1, <1>2, <1>3, <1>4, <1>5 DEF Storage!Next

(* The invariant is kept by every step.                                    *)
LEMMA StorageStep == Storage!IndInv /\ [Storage!Next]_Storage!vars => Storage!IndInv'
<1> SUFFICES ASSUME Storage!IndInv, [Storage!Next]_Storage!vars PROVE Storage!IndInv'
  OBVIOUS
<1>i. /\ Storage!TypeOK /\ Storage!LocksHeld /\ Storage!InStep /\ Storage!InQueues /\ Storage!Tidy
      /\ Storage!EventsKept /\ Storage!Numbered /\ Storage!Truthful
  BY DEF Storage!IndInv
<1>1. CASE Storage!Next
  <2>1. Storage!TypeOK' /\ Storage!LocksHeld' /\ Storage!InStep'
    BY <1>1, <1>i, StorageTypes, StorageLocks, StorageInStep
  <2>2. Storage!InQueues' /\ Storage!Tidy' /\ Storage!EventsKept'
    BY <1>1, <1>i, StorageQueues, StorageTidy, StorageEvents
  <2>3. Storage!Numbered' /\ Storage!Truthful'
    BY <1>1, <1>i, StorageNumbered, StorageTruthful
  <2> QED BY <2>1, <2>2, <2>3 DEF Storage!IndInv
<1>2. CASE UNCHANGED Storage!vars
  <2>1. UNCHANGED <<handler, locks, lockOf, job, verdict, queue, batch, runs, writeQueue, tries, object, tmp,
                    next, drawn, spool, list, stream, faults, blurred>>
    BY <1>2 DEF Storage!vars, Storage!jobs, Storage!events
  <2>2. Storage!TypeOK'
    BY <1>i, <2>1 DEF Storage!TypeOK
  <2>3. Storage!LocksHeld' /\ Storage!InStep' /\ Storage!InQueues' /\ Storage!Tidy'
    BY <1>i, <2>1 DEF Storage!LocksHeld, Storage!InStep, Storage!Matches, Storage!InPipeline, Storage!InQueues,
       Storage!Waits, Storage!Tidy, Storage!Source, Storage!Result
  <2>4. Storage!EventsKept'
    BY <1>i, <2>1 DEF Storage!EventsKept, Storage!Event
  <2>5. Storage!Numbered'
    BY <1>i, <2>1 DEF Storage!Numbered, Storage!Clear, Storage!SameFile, Storage!Tells
  <2>6. Storage!Truthful'
    <3>1. \A f : Storage!Told(f)' <=> Storage!Told(f)
      BY <2>1 DEF Storage!Told, Storage!NeverTold, Storage!LastTold, Storage!Tells
    <3>2. \A u \in Uploads : Storage!Telling(u)' <=> Storage!Telling(u)
      BY <2>1 DEF Storage!Telling
    <3> QED BY <1>i, <2>1, <3>1, <3>2 DEF Storage!Truthful
  <2> QED BY <2>2, <2>3, <2>4, <2>5, <2>6 DEF Storage!IndInv
<1> QED BY <1>1, <1>2

(* The promises of the storage follow from the invariant.                  *)
LEMMA StoragePromise ==
    ASSUME Storage!IndInv
    PROVE  /\ Storage!TypeOK /\ Storage!OneRecordingAtATime /\ Storage!AnnouncedIsStored
           /\ Storage!NothingLeftOver /\ Storage!AnsweredIsAnnounced
<1>i. /\ Storage!TypeOK /\ Storage!LocksHeld /\ Storage!InStep /\ Storage!Tidy
      /\ Storage!EventsKept /\ Storage!Truthful
  BY DEF Storage!IndInv
<1>1. Storage!OneRecordingAtATime
  <2> SUFFICES ASSUME NEW u \in Uploads, NEW v \in Uploads, u # v, FileOf[u] = FileOf[v],
                      Storage!InPipeline(u), Storage!InPipeline(v)
               PROVE  "gone" \in {handler[u], handler[v]}
    BY DEF Storage!OneRecordingAtATime
  <2>1. handler[u] \in {"submitted", "gone"} /\ handler[v] \in {"submitted", "gone"}
    BY <1>i DEF Storage!InStep, Storage!Matches
  <2> QED BY <1>i, <2>1 DEF Storage!LocksHeld
<1>2. Storage!AnnouncedIsStored
  <2> SUFFICES ASSUME ~Local, NEW f \in Files \ blurred,
                      \A u \in Uploads : FileOf[u] = f => ~Storage!InPipeline(u)
               PROVE  Storage!Told(f)
    BY DEF Storage!AnnouncedIsStored
  <2>1. \A u \in Uploads : FileOf[u] = f => ~Storage!Telling(u)
    BY DEF Storage!Telling, Storage!InPipeline
  <2> QED BY <1>i, <2>1 DEF Storage!Truthful
<1>3. Storage!NothingLeftOver
  BY <1>i DEF Storage!NothingLeftOver, Storage!Tidy
<1>4. Storage!AnsweredIsAnnounced
  <2> SUFFICES ASSUME NEW u \in Uploads, handler[u] \in {"ok", "rejected"}, FileOf[u] \notin blurred
               PROVE  LET e == [of |-> u, kind |-> handler[u]] IN
                      (\E i \in DOMAIN stream : stream[i] = e) \/ \E s \in spool : s[2] = e
    BY Zenon DEF Storage!AnsweredIsAnnounced
  <2>1. job[u] = "done" /\ verdict[u] = handler[u]
    BY <1>i DEF Storage!InStep, Storage!Matches
  <2>2. (\E i \in DOMAIN stream : stream[i] = Storage!Event(u)) \/ \E s \in spool : s[2] = Storage!Event(u)
    BY <1>i, <2>1 DEF Storage!EventsKept
  <2> QED BY <2>1, <2>2 DEF Storage!Event
<1> QED BY <1>i, <1>1, <1>2, <1>3, <1>4

(* For every number of uploads, files, batches, writers, attempts and       *)
(* faults: two recordings of a file are in the pipeline only once a client  *)
(* has left; the last recording announced for a file is the one S3 or Drive *)
(* holds, through retries, rejections, republications and crashes; a        *)
(* finished job leaves no file behind; and whoever was answered has its     *)
(* event in the spool or in the stream.                                     *)
THEOREM StorageIsSafe == Spec => []StorageSafe
<1> DEFINE StorageInv == part = "storage" => Storage!IndInv
<1>1. Init => StorageInv
  BY StorageInit DEF Init
<1>2. StorageInv /\ [Next]_vars => StorageInv'
  <2> SUFFICES ASSUME StorageInv, [Next]_vars, part' = "storage" PROVE Storage!IndInv'
    OBVIOUS
  <2>1. part = "storage"
    BY Zenon DEF Next, vars
  <2>2. [Storage!Next]_Storage!vars
    BY <2>1 DEF Next, vars, storageVars, Storage!vars, Storage!jobs, Storage!events
  <2> QED BY <2>1, <2>2, StorageStep
<1>3. StorageInv => StorageSafe
  BY StoragePromise DEF StorageSafe
<1> QED BY <1>1, <1>2, <1>3, PTL DEF Spec
=============================================================================
