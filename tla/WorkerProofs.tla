---------------------------- MODULE WorkerProofs ----------------------------
(***************************************************************************)
(* Proofs about the worker: a lane of GPU work (WorkerLane), for any number *)
(* of tasks, workers, keys, deliveries and faults, and the pool of engine   *)
(* processes (EnginePool), for any engines, callers and bounds.             *)
(*                                                                         *)
(* Deliveries: a lease that is silent calls itself stale before the         *)
(* consumer gives its task away, so a lease that does not is the only one.  *)
(* Reaps: first deliveries go in stream order, so a task below the horizon  *)
(* was delivered, and one that is not pending has no delivery left.         *)
(* Outcomes: an acknowledgement comes after a result of the same key, one's *)
(* own or that of the owner one waited for.                                 *)
(* Processes: an engine boots when its client is dead, a recycling begins   *)
(* with the client that lives and ends when one of its two is gone, so what *)
(* is up is the client or part of a recycling.  Sleepers: a step frees no   *)
(* client, or wakes them all, or frees the one whose inspection still has   *)
(* its wake to come.                                                        *)
(***************************************************************************)
EXTENDS MCWorker, FiniteSetTheorems, TLAPS

\* The types, of the leases, of the consumer, of the bounds and of the rest.
LeasesTyped ==
    /\ lease \in [Workers -> [Tasks -> LeaseType]]
    /\ owners \in [Workers -> [Keys -> Tasks \cup {None}]]

ConsumerTyped ==
    /\ queued \subseteq Tasks
    /\ deliveries \in [Tasks -> 0..MaxDeliver]
    /\ holder \in [Tasks -> Workers \cup {None}]
    /\ fresh \in [Tasks -> BOOLEAN]
    /\ generation \in 0..MaxReplaced

BudgetTyped == faults \in 0..MaxFaults /\ drains \in 0..MaxDrains

OthersTyped ==
    /\ ConsumerTyped
    /\ BudgetTyped
    /\ trusted \in [Workers -> BOOLEAN]
    /\ draining \in [Workers -> BOOLEAN]
    /\ done \subseteq Tasks \X {"ok", "failed"}
    /\ lost \subseteq Tasks
    /\ advisories \subseteq Tasks
    /\ reap \in [Tasks -> {"idle", "started", "waiting", "confirmed", "applied"}]
    /\ reapOwner \in [Tasks -> 0..MaxReplaced]

\* The owner of a key is a task of that key at work; whoever works is the owner,
\* and whoever waits waits for another.
Owned ==
    \A w \in Workers, t \in Tasks :
        /\ lease[w][t].phase \in {"working", "publishing"} => owners[w][Corr[t]] = t
        /\ lease[w][t].phase = "waiting" => owners[w][Corr[t]] \notin {None, t}
        /\ \A k \in Keys : owners[w][k] = t =>
              Corr[t] = k /\ lease[w][t].phase \in {"working", "publishing", "acking"}

\* A delivery that was not renewed in time has no lease, or a stale one.
SilentIsStale ==
    \A w \in Workers, t \in Tasks :
        holder[t] = w /\ ~fresh[t] => lease[w][t].phase = "none" \/ lease[w][t].stale

\* Only queued tasks have a holder.
HeldIsQueued == \A t \in Tasks : holder[t] # None => t \in queued

\* First deliveries went in stream order.
InOrder == \A t, u \in Tasks : t \in queued /\ t < u /\ deliveries[u] > 0 => deliveries[t] > 0

\* What the reaper is told of, or is busy with, has no delivery left.
Spent ==
    generation = 0 => \A t \in Tasks :
        reap[t] # "idle" \/ t \in advisories =>
            holder[t] = None /\ (t \in queued => deliveries[t] = MaxDeliver)

\* What is rejected is invalid, what is acknowledged is answered, and what was
\* applied is lost.
Settled ==
    /\ \A w \in Workers, t \in Tasks :
        /\ lease[w][t].phase = "rejecting" => t \in Invalid
        /\ lease[w][t].phase = "acking" => Answered(t)
    /\ \A t \in Tasks : reap[t] = "applied" => t \in lost

\* The inductive invariant.
IInv ==
    /\ TypeOK
    /\ Owned
    /\ SilentIsStale /\ FreshLeaseHolds
    /\ HeldIsQueued /\ InOrder /\ Spent
    /\ Settled /\ OutcomeKept

-----------------------------------------------------------------------------
(* What the steps do to the leases.                                         *)

\* The lease of t at w becomes r, and no other changes.
Placed(w, t, r) ==
    /\ lease' \in [Workers -> [Tasks -> LeaseType]]
    /\ lease'[w][t] = r
    /\ \A v \in Workers, u \in Tasks : v # w \/ u # t => lease'[v][u] = lease[v][u]

InPhase(w, t, p) == [lease[w][t] EXCEPT !.phase = p]

\* Assigning one lease changes one lease.
LEMMA PutEffect ==
  ASSUME TypeOK, NEW w \in Workers, NEW t \in Tasks, NEW r \in LeaseType,
         lease' = [lease EXCEPT ![w][t] = r]
  PROVE  Placed(w, t, r)
<1>1. lease \in [Workers -> [Tasks -> LeaseType]]
  BY DEF TypeOK
<1> QED BY <1>1 DEF Placed

\* A lease with another phase is a lease.
LEMMA PhaseTyped ==
  ASSUME TypeOK, NEW w \in Workers, NEW t \in Tasks, NEW p \in Phases
  PROVE  /\ InPhase(w, t, p) \in LeaseType
         /\ InPhase(w, t, p).phase = p
         /\ InPhase(w, t, p).stale = lease[w][t].stale
         /\ InPhase(w, t, p).delivered = lease[w][t].delivered
         /\ InPhase(w, t, p).status = lease[w][t].status
<1>1. lease[w][t] \in LeaseType
  BY DEF TypeOK
<1> QED BY <1>1 DEF InPhase, LeaseType

\* So is one with another delivery.
LEMMA DeliveryTyped ==
  ASSUME NEW r \in LeaseType, NEW b \in BOOLEAN, NEW n \in 0..MaxDeliver
  PROVE  /\ [r EXCEPT !.stale = b] \in LeaseType
         /\ [r EXCEPT !.delivered = n, !.stale = b] \in LeaseType
BY DEF LeaseType

\* A silent delivery: its lease calls itself stale.
LEMMA SilenceEffect ==
  ASSUME TypeOK, NEW t \in Tasks, Silence(t)
  PROVE  /\ holder[t] \in Workers
         /\ \E r \in LeaseType :
               /\ Placed(holder[t], t, r)
               /\ r.phase = lease[holder[t]][t].phase
               /\ r.phase = "none" \/ r.stale
<1> DEFINE h == holder[t]
           b == lease[h][t].stale \/ lease[h][t].phase # "none"
           r == [lease[h][t] EXCEPT !.stale = b]
<1>1. h \in Workers
  BY DEF Silence, TypeOK
<1>2. lease' = [lease EXCEPT ![h][t] = r]
  BY DEF Silence
<1>3. b \in BOOLEAN /\ (lease[h][t].phase = "none" \/ b)
  OBVIOUS
<1> HIDE DEF b
<1>4. lease[h][t] \in LeaseType /\ 0 \in 0..MaxDeliver
  BY <1>1, LaneAssumption DEF TypeOK
<1>5. r \in LeaseType
  BY <1>3, <1>4, DeliveryTyped
<1>6. r.phase = lease[h][t].phase /\ r.stale = b
  BY <1>4 DEF LeaseType
<1>7. Placed(h, t, r)
  BY <1>1, <1>2, <1>5, PutEffect
<1> HIDE DEF h, r
<1> QED BY <1>1, <1>3, <1>5, <1>6, <1>7 DEF h

\* A fetched delivery: a new lease, or one that adopts it.
LEMMA FetchEffect ==
  ASSUME TypeOK, NEW w \in Workers, NEW t \in Tasks, Fetch(w, t)
  PROVE  /\ deliveries[t] + 1 \in 0..MaxDeliver
         /\ \E r \in LeaseType :
               /\ Placed(w, t, r)
               /\ ~r.stale
               /\ \/ lease[w][t].phase # "none" /\ r.phase = lease[w][t].phase
                  \/ lease[w][t].phase = "none" /\ r.phase = "joining"
                  \/ lease[w][t].phase = "none" /\ r.phase = "rejecting" /\ t \in Invalid
<1> DEFINE n == deliveries[t] + 1
           r == Attach(w, t, n)
<1>1. n \in 0..MaxDeliver
  BY LaneAssumption DEF Fetch, Deliverable, TypeOK
<1>2. lease' = [lease EXCEPT ![w][t] = r]
  BY DEF Fetch
<1>3. lease[w][t] \in LeaseType /\ FALSE \in BOOLEAN
  BY DEF TypeOK
<1> HIDE DEF n
<1>4. CASE lease[w][t].phase # "none"
  <2>1. r = [lease[w][t] EXCEPT !.delivered = n, !.stale = FALSE]
    BY <1>4 DEF Attach
  <2>2. r \in LeaseType
    BY <1>1, <1>3, <2>1, DeliveryTyped
  <2>3. r.phase = lease[w][t].phase /\ ~r.stale
    BY <1>3, <2>1 DEF LeaseType
  <2> HIDE DEF r
  <2> QED BY <1>1, <1>2, <1>4, <2>2, <2>3, PutEffect DEF n
<1>5. CASE lease[w][t].phase = "none"
  <2> DEFINE p == IF t \in Invalid THEN "rejecting" ELSE "joining"
  <2>1. r = [phase |-> p, delivered |-> n, stale |-> FALSE, status |-> "ok"]
    BY <1>5 DEF Attach, NoLease
  <2>2. p \in Phases /\ (p = "joining" \/ (p = "rejecting" /\ t \in Invalid))
    BY DEF Phases
  <2> HIDE DEF p
  <2>3. r \in LeaseType /\ r.phase = p /\ ~r.stale
    BY <1>1, <2>1, <2>2 DEF LeaseType
  <2> HIDE DEF r
  <2> QED BY <1>1, <1>2, <1>5, <2>2, <2>3, PutEffect DEF n
<1> QED BY <1>4, <1>5

\* Nothing is left of the lease of a rejected payload.
LEMMA RejectEffect ==
  ASSUME TypeOK, NEW w \in Workers, NEW t \in Tasks, RejectInvalid(w, t)
  PROVE  Placed(w, t, NoLease)
<1>1. NoLease \in LeaseType
  BY LaneAssumption DEF LeaseType, NoLease, Phases
<1> QED BY <1>1, PutEffect DEF RejectInvalid

\* A compact failure keeps the lease as it is.
LEMMA CompactEffect ==
  ASSUME TypeOK, NEW w \in Workers, NEW t \in Tasks, PublishRejected(w, t)
  PROVE  \E r \in LeaseType :
            /\ Placed(w, t, r)
            /\ r.phase = lease[w][t].phase /\ r.stale = lease[w][t].stale
<1> DEFINE r == [lease[w][t] EXCEPT !.status = "failed"]
<1>1. lease[w][t] \in LeaseType
  BY DEF TypeOK
<1>2. r \in LeaseType /\ r.phase = lease[w][t].phase /\ r.stale = lease[w][t].stale
  BY <1>1 DEF LeaseType
<1>3. lease' = [lease EXCEPT ![w][t] = r]
  BY DEF PublishRejected
<1>4. Placed(w, t, r)
  BY <1>2, <1>3, PutEffect
<1> QED BY <1>2, <1>4

\* A new process has neither leases nor owners.
LEMMA RestartEffect ==
  ASSUME TypeOK, NEW w \in Workers, Restarted(w)
  PROVE  /\ lease' \in [Workers -> [Tasks -> LeaseType]]
         /\ owners' \in [Workers -> [Keys -> Tasks \cup {None}]]
         /\ \A u \in Tasks : lease'[w][u] = NoLease
         /\ \A k \in Keys : owners'[w][k] = None
         /\ \A v \in Workers : v # w => lease'[v] = lease[v] /\ owners'[v] = owners[v]
<1>1. NoLease \in LeaseType
  BY LaneAssumption DEF LeaseType, NoLease, Phases
<1> QED BY <1>1 DEF TypeOK, Restarted

\* Inflight.join: the owner works, everybody else waits.
LEMMA JoinEffect ==
  ASSUME TypeOK, NEW w \in Workers, NEW t \in Tasks, Join(w, t)
  PROVE  \/ /\ owners[w][Corr[t]] \in {None, t}
            /\ owners' = [owners EXCEPT ![w][Corr[t]] = t]
            /\ Placed(w, t, InPhase(w, t, "working"))
         \/ /\ owners[w][Corr[t]] \notin {None, t}
            /\ owners' = owners
            /\ Placed(w, t, InPhase(w, t, "waiting"))
<1>1. "working" \in Phases /\ "waiting" \in Phases
  BY DEF Phases
<1>2. CASE owners[w][Corr[t]] \in {None, t}
  <2>1. lease' = [lease EXCEPT ![w][t] = InPhase(w, t, "working")]
    BY <1>2 DEF Join, InPhase
  <2> QED BY <1>1, <1>2, <2>1, PhaseTyped, PutEffect DEF Join
<1>3. CASE owners[w][Corr[t]] \notin {None, t}
  <2>1. lease' = [lease EXCEPT ![w][t] = InPhase(w, t, "waiting")]
    BY <1>3 DEF Join, InPhase
  <2> QED BY <1>1, <1>3, <2>1, PhaseTyped, PutEffect DEF Join
<1> QED BY <1>2, <1>3

\* Outbox.publish: the delivery is acknowledged after the confirmation.
LEMMA PublishEffect ==
  ASSUME TypeOK, NEW w \in Workers, NEW t \in Tasks, Publish(w, t)
  PROVE  lease' = lease \/ Placed(w, t, InPhase(w, t, "acking"))
<1>1. "acking" \in Phases
  BY DEF Phases
<1>2. CASE lease' = [lease EXCEPT ![w][t].phase = "acking"]
  <2>1. lease' = [lease EXCEPT ![w][t] = InPhase(w, t, "acking")]
    BY <1>2 DEF InPhase
  <2> QED BY <1>1, <2>1, PhaseTyped, PutEffect
<1> QED BY <1>2 DEF Publish

\* A result on its way to the outbox.
LEMMA ToPublishEffect ==
  ASSUME TypeOK, NEW w \in Workers, NEW t \in Tasks, NEW status \in {"ok", "failed"},
         ToPublish(w, t, status)
  PROVE  \E r \in LeaseType :
            /\ Placed(w, t, r)
            /\ r.phase = "publishing" /\ r.stale = lease[w][t].stale
<1> DEFINE r == [lease[w][t] EXCEPT !.phase = "publishing", !.status = status]
<1>1. lease[w][t] \in LeaseType
  BY DEF TypeOK
<1>2. r \in LeaseType /\ r.phase = "publishing" /\ r.stale = lease[w][t].stale
  BY <1>1 DEF LeaseType, Phases
<1>3. lease' = [lease EXCEPT ![w][t] = r]
  BY DEF ToPublish
<1>4. Placed(w, t, r)
  BY <1>2, <1>3, PutEffect
<1> QED BY <1>2, <1>4

\* Lease.settle: the lease ends, its key is free, and whoever waited for it is
\* woken.
Settling(w, t, settled) ==
    /\ lease' \in [Workers -> [Tasks -> LeaseType]]
    /\ owners' \in [Workers -> [Keys -> Tasks \cup {None}]]
    /\ lease'[w][t] = NoLease
    /\ \A u \in Tasks : u # t =>
          lease'[w][u] = IF /\ lease[w][u].phase = "waiting"
                            /\ owners[w][Corr[t]] = t
                            /\ Corr[u] = Corr[t]
                         THEN InPhase(w, u, Woken(settled))
                         ELSE lease[w][u]
    /\ \A k \in Keys : owners'[w][k] = IF owners[w][k] = t THEN None ELSE owners[w][k]
    /\ \A v \in Workers : v # w => lease'[v] = lease[v] /\ owners'[v] = owners[v]

\* That is what Settle does.
LEMMA SettleEffect ==
  ASSUME TypeOK, NEW w \in Workers, NEW t \in Tasks, NEW settled, Settle(w, t, settled)
  PROVE  Settling(w, t, settled)
<1>1. lease \in [Workers -> [Tasks -> LeaseType]]
  BY DEF TypeOK
<1>2. owners \in [Workers -> [Keys -> Tasks \cup {None}]]
  BY DEF TypeOK
<1>3. Woken(settled) \in Phases /\ NoLease \in LeaseType
  BY LaneAssumption DEF Woken, Phases, NoLease, LeaseType
<1>4. \A u \in Tasks : InPhase(w, u, Woken(settled)) \in LeaseType
  BY <1>3, PhaseTyped
<1> DEFINE after(u) == IF u = t THEN NoLease
                       ELSE IF /\ lease[w][u].phase = "waiting"
                               /\ owners[w][Corr[t]] = t
                               /\ Corr[u] = Corr[t]
                            THEN InPhase(w, u, Woken(settled))
                            ELSE lease[w][u]
           free(k) == IF owners[w][k] = t THEN None ELSE owners[w][k]
<1>5. \A u \in Tasks : after(u) \in LeaseType
  BY <1>1, <1>3, <1>4
<1>6. \A k \in Keys : free(k) \in Tasks \cup {None}
  BY <1>2
<1>7. lease' = [lease EXCEPT ![w] = [u \in Tasks |-> after(u)]]
  BY DEF Settle, InPhase
<1>8. owners' = [owners EXCEPT ![w] = [k \in Keys |-> free(k)]]
  BY DEF Settle
<1>9. \A u \in Tasks : u # t => after(u) = IF /\ lease[w][u].phase = "waiting"
                                             /\ owners[w][Corr[t]] = t
                                             /\ Corr[u] = Corr[t]
                                          THEN InPhase(w, u, Woken(settled))
                                          ELSE lease[w][u]
  OBVIOUS
<1>10. after(t) = NoLease
  OBVIOUS
<1>11. \A k \in Keys : free(k) = IF owners[w][k] = t THEN None ELSE owners[w][k]
  OBVIOUS
<1> HIDE DEF after, free
<1>12. /\ lease' \in [Workers -> [Tasks -> LeaseType]]
       /\ \A u \in Tasks : lease'[w][u] = after(u)
       /\ \A v \in Workers : v # w => lease'[v] = lease[v]
  BY <1>1, <1>5, <1>7
<1>13. /\ owners' \in [Workers -> [Keys -> Tasks \cup {None}]]
       /\ \A k \in Keys : owners'[w][k] = free(k)
       /\ \A v \in Workers : v # w => owners'[v] = owners[v]
  BY <1>2, <1>6, <1>8
<1> QED BY <1>9, <1>10, <1>11, <1>12, <1>13 DEF Settling

\* Lease.release_transient: the lease ends; the delivery is given back only by
\* a lease that is not stale.
LEMMA ReleaseEffect ==
  ASSUME NEW w \in Workers, NEW t \in Tasks, ReleaseTransient(w, t)
  PROVE  /\ \E settled \in {"dropped", "nacked"} : Settle(w, t, settled)
         /\ \/ UNCHANGED <<consumerVars, advisories>>
            \/ ~lease[w][t].stale /\ t \in queued /\ GiveBack(t)
         /\ UNCHANGED budget \/ Fault
BY DEF ReleaseTransient

\* The consumer's part of a step keeps its types.
LEMMA ConsumerTypes ==
  ASSUME ConsumerTyped, NEW t \in Tasks
  PROVE  /\ RemoveFromStream(t) => ConsumerTyped'
         /\ GiveBack(t) => ConsumerTyped'
BY DEF ConsumerTyped, RemoveFromStream, GiveBack

\* A step that leaves the consumer alone keeps its types.
LEMMA UnchangedConsumer == ConsumerTyped /\ UNCHANGED consumerVars => ConsumerTyped'
BY DEF ConsumerTyped, consumerVars

\* The bounds keep their types.
LEMMA BudgetTypes ==
  ASSUME BudgetTyped
  PROVE  (Fault => BudgetTyped') /\ (UNCHANGED budget => BudgetTyped')
BY LaneAssumption DEF BudgetTyped, Fault, budget

\* Every step keeps the types of the leases.
LEMMA LeaseTypeStep == TypeOK /\ [Next]_vars => LeasesTyped'
<1> SUFFICES ASSUME TypeOK, [Next]_vars PROVE LeasesTyped'
  OBVIOUS
<1> DEFINE Goal == LeasesTyped'
<1> USE LaneAssumption
<1> LeasesTyped
  BY DEF TypeOK, LeasesTyped
<1> USE DEF LeasesTyped, consumerVars, workerVars, reaperVars, budget
<1>1. ASSUME NEW t \in Tasks, Silence(t) PROVE Goal
  BY <1>1, SilenceEffect DEF Silence, Placed
<1>2. ASSUME NEW t \in Tasks, Expire(t) PROVE Goal
  BY <1>2 DEF Expire, GiveBack
<1>3. ASSUME NEW t \in Tasks, AdvisoryLost(t) PROVE Goal
  BY <1>3 DEF AdvisoryLost, Fault
<1>4. ASSUME NEW t \in Tasks, Claim(t) PROVE Goal
  BY <1>4 DEF Claim, Start
<1>5. ASSUME NEW t \in Tasks, Sweep(t) PROVE Goal
  BY <1>5 DEF Sweep, Start
<1>6. ASSUME NEW t \in Tasks, ReadOwner(t) PROVE Goal
  BY <1>6 DEF ReadOwner
<1>7. ASSUME NEW t \in Tasks, Confirm(t) PROVE Goal
  BY <1>7 DEF Confirm
<1>8. ASSUME NEW t \in Tasks, ApplyWorkerLost(t) PROVE Goal
  BY <1>8 DEF ApplyWorkerLost
<1>9. ASSUME NEW t \in Tasks, Forget(t) PROVE Goal
  BY <1>9 DEF Forget, RemoveFromStream
<1>10. ASSUME NEW w \in Workers, NEW t \in Tasks, Fetch(w, t) PROVE Goal
  BY <1>10, FetchEffect DEF Fetch, Placed
<1>11. ASSUME NEW w \in Workers, NEW t \in Tasks, RejectInvalid(w, t) PROVE Goal
  BY <1>11, RejectEffect DEF RejectInvalid, Placed
<1>12. ASSUME NEW w \in Workers, NEW t \in Tasks, Join(w, t) PROVE Goal
  <2>1. Corr[t] \in Keys
    OBVIOUS
  <2>2. owners' = owners \/ owners' = [owners EXCEPT ![w] = [owners[w] EXCEPT ![Corr[t]] = t]]
    BY <1>12, JoinEffect
  <2>3. [owners[w] EXCEPT ![Corr[t]] = t] \in [Keys -> Tasks \cup {None}]
    BY <2>1
  <2>5. owners' \in [Workers -> [Keys -> Tasks \cup {None}]]
    BY <2>2, <2>3
  <2>4. lease' \in [Workers -> [Tasks -> LeaseType]]
    BY <1>12, JoinEffect DEF Placed
  <2> QED BY <2>4, <2>5
<1>13. ASSUME NEW w \in Workers, NEW t \in Tasks, WorkFinished(w, t) PROVE Goal
  <2>1. PICK status \in {"ok", "failed"} : ToPublish(w, t, status)
    BY <1>13 DEF WorkFinished
  <2> QED BY <2>1, ToPublishEffect DEF ToPublish, Placed
<1>14. ASSUME NEW w \in Workers, NEW t \in Tasks, WorkTransient(w, t) PROVE Goal
  <2>1. CASE ReleaseTransient(w, t)
    BY <2>1, ReleaseEffect, SettleEffect DEF Settling
  <2>2. CASE ToPublish(w, t, "failed")
    BY <2>2, ToPublishEffect DEF Placed, ToPublish
  <2> QED BY <1>14, <2>1, <2>2 DEF WorkTransient
<1>15. ASSUME NEW w \in Workers, NEW t \in Tasks, WorkDropped(w, t) PROVE Goal
  BY <1>15, SettleEffect DEF WorkDropped, Settling
<1>16. ASSUME NEW w \in Workers, NEW t \in Tasks, WorkAborted(w, t) PROVE Goal
  <2>1. CASE ReleaseTransient(w, t)
    BY <2>1, ReleaseEffect, SettleEffect DEF Settling
  <2>2. CASE ToPublish(w, t, "failed")
    BY <2>2, ToPublishEffect DEF Placed, ToPublish
  <2> QED BY <1>16, <2>1, <2>2 DEF WorkAborted
<1>17. ASSUME NEW w \in Workers, NEW t \in Tasks, Publish(w, t) PROVE Goal
  BY <1>17, PublishEffect DEF Placed, Publish
<1>18. ASSUME NEW w \in Workers, NEW t \in Tasks, PublishRejected(w, t) PROVE Goal
  BY <1>18, CompactEffect DEF PublishRejected, Placed
<1>19. ASSUME NEW w \in Workers, NEW t \in Tasks, PublishTimedOut(w, t) PROVE Goal
  BY <1>19, ReleaseEffect, SettleEffect DEF PublishTimedOut, Settling
<1>20. ASSUME NEW w \in Workers, NEW t \in Tasks, Ack(w, t) PROVE Goal
  BY <1>20, SettleEffect DEF Ack, Settling
<1>21. ASSUME NEW w \in Workers, ConnectionLost(w) PROVE Goal
  BY <1>21 DEF ConnectionLost, Fault
<1>22. ASSUME NEW w \in Workers, ConnectionTrusted(w) PROVE Goal
  BY <1>22 DEF ConnectionTrusted
<1>23. ASSUME NEW w \in Workers, Drain(w) PROVE Goal
  BY <1>23 DEF Drain
<1>24. ASSUME NEW w \in Workers, Exit(w) PROVE Goal
  BY <1>24, RestartEffect DEF Exit
<1>25. ASSUME NEW w \in Workers, Crash(w) PROVE Goal
  BY <1>25, RestartEffect DEF Crash
<1>26. CASE ReplaceConsumer
  BY <1>26 DEF ReplaceConsumer
<1>27. CASE ReaperRestart
  BY <1>27 DEF ReaperRestart, Fault
<1>28. CASE UNCHANGED vars
  BY <1>28 DEF vars
<1> QED BY <1>1, <1>2, <1>3, <1>4, <1>5, <1>6, <1>7, <1>8, <1>9, <1>10, <1>11, <1>12,
           <1>13, <1>14, <1>15, <1>16, <1>17, <1>18, <1>19, <1>20, <1>21, <1>22, <1>23,
           <1>24, <1>25, <1>26, <1>27, <1>28
        DEF Next, ReaperStep, WorkerStep

\* Every step keeps the types of everything else.
LEMMA OtherTypeStep == TypeOK /\ [Next]_vars => OthersTyped'
<1> SUFFICES ASSUME TypeOK, [Next]_vars PROVE OthersTyped'
  OBVIOUS
<1> DEFINE Goal == OthersTyped'
<1> USE LaneAssumption
<1> LeasesTyped /\ OthersTyped
  BY DEF TypeOK, LeasesTyped, OthersTyped, ConsumerTyped, BudgetTyped
<1> USE DEF OthersTyped, workerVars, reaperVars
<1>1. ASSUME NEW t \in Tasks, Silence(t) PROVE Goal
  <2>1. BudgetTyped'
    BY <1>1, ConsumerTypes, UnchangedConsumer, BudgetTypes DEF Silence
  <2>2. ConsumerTyped'
    BY <1>1 DEF Silence, ConsumerTyped
  <2> QED BY <1>1, <2>1, <2>2 DEF Silence
<1>2. ASSUME NEW t \in Tasks, Expire(t) PROVE Goal
  <2>1. advisories' \subseteq Tasks
    BY <1>2 DEF Expire, GiveBack
  <2> QED BY <1>2, <2>1, ConsumerTypes, UnchangedConsumer, BudgetTypes DEF Expire
<1>3. ASSUME NEW t \in Tasks, AdvisoryLost(t) PROVE Goal
  BY <1>3, ConsumerTypes, UnchangedConsumer, BudgetTypes DEF AdvisoryLost
<1>4. ASSUME NEW t \in Tasks, Claim(t) PROVE Goal
  BY <1>4, ConsumerTypes, UnchangedConsumer, BudgetTypes DEF Claim, Start
<1>5. ASSUME NEW t \in Tasks, Sweep(t) PROVE Goal
  BY <1>5, ConsumerTypes, UnchangedConsumer, BudgetTypes DEF Sweep, Start
<1>6. ASSUME NEW t \in Tasks, ReadOwner(t) PROVE Goal
  <2>1. reapOwner' \in [Tasks -> 0..MaxReplaced]
    BY <1>6 DEF ReadOwner, ConsumerTyped
  <2> QED BY <1>6, <2>1, ConsumerTypes, UnchangedConsumer, BudgetTypes DEF ReadOwner
<1>7. ASSUME NEW t \in Tasks, Confirm(t) PROVE Goal
  BY <1>7, ConsumerTypes, UnchangedConsumer, BudgetTypes DEF Confirm
<1>8. ASSUME NEW t \in Tasks, ApplyWorkerLost(t) PROVE Goal
  BY <1>8, ConsumerTypes, UnchangedConsumer, BudgetTypes DEF ApplyWorkerLost
<1>9. ASSUME NEW t \in Tasks, Forget(t) PROVE Goal
  BY <1>9, ConsumerTypes, UnchangedConsumer, BudgetTypes DEF Forget
<1>10. ASSUME NEW w \in Workers, NEW t \in Tasks, Fetch(w, t) PROVE Goal
  <2>1. deliveries[t] + 1 \in 0..MaxDeliver
    BY <1>10 DEF Fetch, Deliverable, ConsumerTyped
  <2>2. ConsumerTyped'
    BY <1>10, <2>1 DEF Fetch, ConsumerTyped
  <2> QED BY <1>10, <2>2, ConsumerTypes, UnchangedConsumer, BudgetTypes DEF Fetch
<1>11. ASSUME NEW w \in Workers, NEW t \in Tasks, RejectInvalid(w, t) PROVE Goal
  <2>1. ConsumerTyped' /\ BudgetTyped'
    BY <1>11, ConsumerTypes, UnchangedConsumer, BudgetTypes DEF RejectInvalid
  <2> QED BY <1>11, <2>1 DEF RejectInvalid
<1>12. ASSUME NEW w \in Workers, NEW t \in Tasks, Join(w, t) PROVE Goal
  BY <1>12, ConsumerTypes, UnchangedConsumer, BudgetTypes DEF Join
<1>13. ASSUME NEW w \in Workers, NEW t \in Tasks, WorkFinished(w, t) PROVE Goal
  BY <1>13, ConsumerTypes, UnchangedConsumer, BudgetTypes DEF WorkFinished, ToPublish
<1>14. ASSUME NEW w \in Workers, NEW t \in Tasks, WorkTransient(w, t) PROVE Goal
  <2>1. CASE ReleaseTransient(w, t)
    <3>1. ConsumerTyped' /\ BudgetTyped'
      BY <2>1, ReleaseEffect, ConsumerTypes, UnchangedConsumer, BudgetTypes
    <3>2. advisories' \subseteq Tasks
      BY <2>1, ReleaseEffect DEF GiveBack
    <3> QED BY <1>14, <3>1, <3>2 DEF WorkTransient
  <2>2. CASE ToPublish(w, t, "failed")
    BY <1>14, <2>2, UnchangedConsumer, BudgetTypes DEF WorkTransient, ToPublish
  <2> QED BY <1>14, <2>1, <2>2 DEF WorkTransient
<1>15. ASSUME NEW w \in Workers, NEW t \in Tasks, WorkDropped(w, t) PROVE Goal
  BY <1>15, ConsumerTypes, UnchangedConsumer, BudgetTypes DEF WorkDropped
<1>16. ASSUME NEW w \in Workers, NEW t \in Tasks, WorkAborted(w, t) PROVE Goal
  <2>1. CASE ReleaseTransient(w, t)
    <3>1. ConsumerTyped' /\ BudgetTyped'
      BY <2>1, ReleaseEffect, ConsumerTypes, UnchangedConsumer, BudgetTypes
    <3>2. advisories' \subseteq Tasks
      BY <2>1, ReleaseEffect DEF GiveBack
    <3> QED BY <1>16, <3>1, <3>2 DEF WorkAborted
  <2>2. CASE ToPublish(w, t, "failed")
    BY <1>16, <2>2, UnchangedConsumer, BudgetTypes DEF WorkAborted, ToPublish
  <2> QED BY <1>16, <2>1, <2>2 DEF WorkAborted
<1>17. ASSUME NEW w \in Workers, NEW t \in Tasks, Publish(w, t) PROVE Goal
  <2>1. lease[w][t].status \in {"ok", "failed"}
    BY DEF LeasesTyped, LeaseType
  <2>2. done' \subseteq Tasks \X {"ok", "failed"}
    BY <1>17, <2>1 DEF Publish
  <2>3. trusted' \in [Workers -> BOOLEAN]
    BY <1>17 DEF Publish
  <2>4. ConsumerTyped' /\ BudgetTyped'
    BY <1>17, ConsumerTypes, UnchangedConsumer, BudgetTypes DEF Publish
  <2> QED BY <1>17, <2>2, <2>3, <2>4 DEF Publish
<1>18. ASSUME NEW w \in Workers, NEW t \in Tasks, PublishRejected(w, t) PROVE Goal
  BY <1>18, ConsumerTypes, UnchangedConsumer, BudgetTypes DEF PublishRejected
<1>19. ASSUME NEW w \in Workers, NEW t \in Tasks, PublishTimedOut(w, t) PROVE Goal
  <2>1. CASE ReleaseTransient(w, t)
    <3>1. ConsumerTyped' /\ BudgetTyped'
      BY <2>1, ReleaseEffect, ConsumerTypes, UnchangedConsumer, BudgetTypes
    <3>2. advisories' \subseteq Tasks
      BY <2>1, ReleaseEffect DEF GiveBack
    <3> QED BY <1>19, <3>1, <3>2 DEF PublishTimedOut
  <2> QED BY <1>19, <2>1 DEF PublishTimedOut
<1>20. ASSUME NEW w \in Workers, NEW t \in Tasks, Ack(w, t) PROVE Goal
  <2>1. ConsumerTyped' /\ BudgetTyped'
    BY <1>20, ConsumerTypes, UnchangedConsumer, BudgetTypes DEF Ack
  <2>2. trusted' \in [Workers -> BOOLEAN]
    BY <1>20 DEF Ack
  <2> QED BY <1>20, <2>1, <2>2 DEF Ack
<1>21. ASSUME NEW w \in Workers, ConnectionLost(w) PROVE Goal
  BY <1>21, ConsumerTypes, UnchangedConsumer, BudgetTypes DEF ConnectionLost
<1>22. ASSUME NEW w \in Workers, ConnectionTrusted(w) PROVE Goal
  BY <1>22, ConsumerTypes, UnchangedConsumer, BudgetTypes DEF ConnectionTrusted
<1>23. ASSUME NEW w \in Workers, Drain(w) PROVE Goal
  <2>1. BudgetTyped'
    BY <1>23 DEF Drain, BudgetTyped
  <2>2. ConsumerTyped'
    BY <1>23, UnchangedConsumer DEF Drain
  <2> QED BY <1>23, <2>1, <2>2 DEF Drain
<1>24. ASSUME NEW w \in Workers, Exit(w) PROVE Goal
  BY <1>24, ConsumerTypes, UnchangedConsumer, BudgetTypes DEF Exit, Restarted
<1>25. ASSUME NEW w \in Workers, Crash(w) PROVE Goal
  BY <1>25, ConsumerTypes, UnchangedConsumer, BudgetTypes DEF Crash, Restarted
<1>26. CASE ReplaceConsumer
  <2>1. ConsumerTyped'
    BY <1>26 DEF ReplaceConsumer, ConsumerTyped
  <2> QED BY <1>26, <2>1, ConsumerTypes, UnchangedConsumer, BudgetTypes DEF ReplaceConsumer
<1>27. CASE ReaperRestart
  BY <1>27, ConsumerTypes, UnchangedConsumer, BudgetTypes DEF ReaperRestart
<1>28. CASE UNCHANGED vars
  <2>1. UNCHANGED consumerVars /\ UNCHANGED budget
    BY <1>28 DEF vars
  <2>2. ConsumerTyped' /\ BudgetTyped'
    BY <2>1, ConsumerTypes, UnchangedConsumer, BudgetTypes, UnchangedConsumer
  <2> QED BY <1>28, <2>2 DEF vars
<1> QED BY <1>1, <1>2, <1>3, <1>4, <1>5, <1>6, <1>7, <1>8, <1>9, <1>10, <1>11, <1>12,
           <1>13, <1>14, <1>15, <1>16, <1>17, <1>18, <1>19, <1>20, <1>21, <1>22, <1>23,
           <1>24, <1>25, <1>26, <1>27, <1>28
        DEF Next, ReaperStep, WorkerStep

-----------------------------------------------------------------------------
(* One task per correlation key.                                            *)

\* Settling a lease leaves nobody waiting for it.
LEMMA SettleOwned ==
  ASSUME TypeOK, Owned, NEW w \in Workers, NEW t \in Tasks, NEW settled, Settling(w, t, settled)
  PROVE  Owned'
<1>1. \A u \in Tasks : InPhase(w, u, Woken(settled)).phase \in {"acking", "joining"}
  <2>1. Woken(settled) \in Phases /\ Woken(settled) \in {"acking", "joining"}
    BY DEF Woken, Phases
  <2> QED BY <2>1, PhaseTyped
<1>2. Corr \in [Tasks -> Keys] /\ None \notin Tasks
  BY LaneAssumption
<1> SUFFICES ASSUME NEW v \in Workers, NEW u \in Tasks
             PROVE  /\ lease'[v][u].phase \in {"working", "publishing"} => owners'[v][Corr[u]] = u
                    /\ lease'[v][u].phase = "waiting" => owners'[v][Corr[u]] \notin {None, u}
                    /\ \A k \in Keys : owners'[v][k] = u =>
                          Corr[u] = k /\ lease'[v][u].phase \in {"working", "publishing", "acking"}
  BY DEF Owned
<1>3. CASE v # w
  BY <1>3 DEF Owned, Settling
<1>4. CASE v = w /\ u = t
  BY <1>2, <1>4 DEF Settling, NoLease
<1>5. CASE v = w /\ u # t
  <2>1. lease'[w][u] = IF /\ lease[w][u].phase = "waiting"
                          /\ owners[w][Corr[t]] = t
                          /\ Corr[u] = Corr[t]
                       THEN InPhase(w, u, Woken(settled))
                       ELSE lease[w][u]
    BY <1>5 DEF Settling
  <2>2. \A k \in Keys : owners'[w][k] = IF owners[w][k] = t THEN None ELSE owners[w][k]
    BY DEF Settling
  <2>3. lease'[w][u].phase \in {"working", "publishing"} => owners'[w][Corr[u]] = u
    BY <1>1, <1>2, <1>5, <2>1, <2>2 DEF Owned
  <2>4. lease'[w][u].phase = "waiting" => owners'[w][Corr[u]] \notin {None, u}
    BY <1>1, <1>2, <1>5, <2>1, <2>2 DEF Owned
  <2>5. \A k \in Keys : owners'[w][k] = u =>
           Corr[u] = k /\ lease'[w][u].phase \in {"working", "publishing", "acking"}
    BY <1>2, <1>5, <2>1, <2>2 DEF Owned
  <2> QED BY <1>5, <2>3, <2>4, <2>5
<1> QED BY <1>3, <1>4, <1>5

\* One lease that goes from work to its outbox and to its acknowledgement, or
\* that has not joined yet, changes no owner.
LEMMA PlacedOwned ==
  ASSUME Owned, NEW w \in Workers, NEW t \in Tasks, NEW r \in LeaseType,
         Placed(w, t, r), owners' = owners,
         \/ r.phase = lease[w][t].phase
         \/ /\ lease[w][t].phase \in {"working", "publishing"}
            /\ r.phase \in {"publishing", "acking"}
         \/ /\ lease[w][t].phase \in {"none", "joining", "rejecting"}
            /\ r.phase \in {"none", "joining", "rejecting"}
  PROVE  Owned'
<1> SUFFICES ASSUME NEW v \in Workers, NEW u \in Tasks
             PROVE  /\ lease'[v][u].phase \in {"working", "publishing"} => owners[v][Corr[u]] = u
                    /\ lease'[v][u].phase = "waiting" => owners[v][Corr[u]] \notin {None, u}
                    /\ \A k \in Keys : owners[v][k] = u =>
                          Corr[u] = k /\ lease'[v][u].phase \in {"working", "publishing", "acking"}
  BY DEF Owned
<1>1. CASE v # w \/ u # t
  BY <1>1 DEF Owned, Placed
<1>2. CASE v = w /\ u = t
  BY <1>2 DEF Owned, Placed
<1> QED BY <1>1, <1>2

\* A new process owns nothing and waits for nobody.
LEMMA RestartOwned ==
  ASSUME TypeOK, Owned, NEW w \in Workers, Restarted(w)
  PROVE  Owned'
<1>1. /\ \A u \in Tasks : lease'[w][u] = NoLease
      /\ \A k \in Keys : owners'[w][k] = None
      /\ \A v \in Workers : v # w => lease'[v] = lease[v] /\ owners'[v] = owners[v]
  BY RestartEffect
<1> QED BY <1>1, LaneAssumption DEF Owned, NoLease

\* A step elsewhere changes neither leases nor owners.
LEMMA UnchangedOwned == Owned /\ UNCHANGED <<lease, owners>> => Owned'
BY DEF Owned

\* Every step keeps one task per key.
LEMMA OwnedStep == TypeOK /\ Owned /\ [Next]_vars => Owned'
<1> SUFFICES ASSUME TypeOK, Owned, [Next]_vars PROVE Owned'
  OBVIOUS
<1> DEFINE Goal == Owned'
<1> USE LaneAssumption
<1> LeasesTyped
  BY DEF TypeOK, LeasesTyped
<1> USE DEF consumerVars, workerVars, reaperVars, budget
<1>1. ASSUME NEW t \in Tasks, Silence(t) PROVE Goal
  <2>1. owners' = owners
    BY <1>1 DEF Silence
  <2> QED BY <1>1, <2>1, SilenceEffect, PlacedOwned
<1>2. ASSUME NEW t \in Tasks, Expire(t) PROVE Goal
  BY <1>2, UnchangedOwned DEF Expire
<1>3. ASSUME NEW t \in Tasks, AdvisoryLost(t) PROVE Goal
  BY <1>3, UnchangedOwned DEF AdvisoryLost
<1>4. ASSUME NEW t \in Tasks, Claim(t) PROVE Goal
  BY <1>4, UnchangedOwned DEF Claim
<1>5. ASSUME NEW t \in Tasks, Sweep(t) PROVE Goal
  BY <1>5, UnchangedOwned DEF Sweep
<1>6. ASSUME NEW t \in Tasks, ReadOwner(t) PROVE Goal
  BY <1>6, UnchangedOwned DEF ReadOwner
<1>7. ASSUME NEW t \in Tasks, Confirm(t) PROVE Goal
  BY <1>7, UnchangedOwned DEF Confirm
<1>8. ASSUME NEW t \in Tasks, ApplyWorkerLost(t) PROVE Goal
  BY <1>8, UnchangedOwned DEF ApplyWorkerLost
<1>9. ASSUME NEW t \in Tasks, Forget(t) PROVE Goal
  BY <1>9, UnchangedOwned DEF Forget
<1>10. ASSUME NEW w \in Workers, NEW t \in Tasks, Fetch(w, t) PROVE Goal
  <2>1. owners' = owners
    BY <1>10 DEF Fetch
  <2> QED BY <1>10, <2>1, FetchEffect, PlacedOwned
<1>11. ASSUME NEW w \in Workers, NEW t \in Tasks, RejectInvalid(w, t) PROVE Goal
  <2>1. owners' = owners /\ lease[w][t].phase = "rejecting" /\ NoLease.phase = "none"
    BY <1>11 DEF RejectInvalid, NoLease
  <2>2. NoLease \in LeaseType
    BY DEF LeaseType, NoLease, Phases
  <2> QED BY <1>11, <2>1, <2>2, RejectEffect, PlacedOwned
<1>12. ASSUME NEW w \in Workers, NEW t \in Tasks, Join(w, t) PROVE Goal
  <2>1. InPhase(w, t, "working").phase = "working" /\ InPhase(w, t, "waiting").phase = "waiting"
    BY PhaseTyped DEF Phases
  <2>2. lease[w][t].phase = "joining" /\ Corr[t] \in Keys
    BY <1>12 DEF Join
  <2>3. CASE /\ owners[w][Corr[t]] \in {None, t}
             /\ owners' = [owners EXCEPT ![w][Corr[t]] = t]
             /\ Placed(w, t, InPhase(w, t, "working"))
    <3>1. owners'[w][Corr[t]] = t
      BY <2>2, <2>3 DEF LeasesTyped
    <3>2. \A v \in Workers, k \in Keys : v # w \/ k # Corr[t] => owners'[v][k] = owners[v][k]
      BY <2>2, <2>3 DEF LeasesTyped
    <3>3. \A u \in Tasks : u # t => lease[w][u].phase \notin {"working", "publishing"} \/ Corr[u] # Corr[t]
      BY <2>3 DEF Owned
    <3>4. owners[w][Corr[t]] = None
      BY <2>2, <2>3 DEF Owned
    <3> QED BY <2>1, <2>2, <2>3, <3>1, <3>2, <3>3, <3>4 DEF Placed, Owned
  <2>4. CASE /\ owners[w][Corr[t]] \notin {None, t}
             /\ owners' = owners
             /\ Placed(w, t, InPhase(w, t, "waiting"))
    BY <2>1, <2>2, <2>4 DEF Placed, Owned
  <2> QED BY <1>12, <2>3, <2>4, JoinEffect
<1>13. ASSUME NEW w \in Workers, NEW t \in Tasks, WorkFinished(w, t) PROVE Goal
  <2>1. PICK status \in {"ok", "failed"} : ToPublish(w, t, status)
    BY <1>13 DEF WorkFinished
  <2>2. lease[w][t].phase = "working" /\ owners' = owners
    BY <1>13, <2>1 DEF WorkFinished, ToPublish
  <2>3. PICK r \in LeaseType : Placed(w, t, r) /\ r.phase = "publishing"
    BY <2>1, ToPublishEffect
  <2> QED BY <2>2, <2>3, PlacedOwned
<1>14. ASSUME NEW w \in Workers, NEW t \in Tasks, WorkTransient(w, t) PROVE Goal
  <2>1. CASE ReleaseTransient(w, t)
    BY <2>1, ReleaseEffect, SettleEffect, SettleOwned
  <2>2. CASE ToPublish(w, t, "failed")
    <3>1. lease[w][t].phase = "working" /\ owners' = owners
      BY <1>14, <2>2 DEF WorkTransient, ToPublish
    <3> QED BY <2>2, <3>1, ToPublishEffect, PlacedOwned
  <2> QED BY <1>14, <2>1, <2>2 DEF WorkTransient
<1>15. ASSUME NEW w \in Workers, NEW t \in Tasks, WorkDropped(w, t) PROVE Goal
  BY <1>15, SettleEffect, SettleOwned DEF WorkDropped
<1>16. ASSUME NEW w \in Workers, NEW t \in Tasks, WorkAborted(w, t) PROVE Goal
  <2>1. CASE ReleaseTransient(w, t)
    BY <2>1, ReleaseEffect, SettleEffect, SettleOwned
  <2>2. CASE ToPublish(w, t, "failed")
    <3>1. lease[w][t].phase = "working" /\ owners' = owners
      BY <1>16, <2>2 DEF WorkAborted, ToPublish
    <3> QED BY <2>2, <3>1, ToPublishEffect, PlacedOwned
  <2> QED BY <1>16, <2>1, <2>2 DEF WorkAborted
<1>17. ASSUME NEW w \in Workers, NEW t \in Tasks, Publish(w, t) PROVE Goal
  <2>1. InPhase(w, t, "acking") \in LeaseType /\ InPhase(w, t, "acking").phase = "acking"
    BY PhaseTyped DEF Phases
  <2>2. lease[w][t].phase = "publishing" /\ owners' = owners
    BY <1>17 DEF Publish
  <2> QED BY <1>17, <2>1, <2>2, PublishEffect, PlacedOwned, UnchangedOwned
<1>18. ASSUME NEW w \in Workers, NEW t \in Tasks, PublishRejected(w, t) PROVE Goal
  <2>1. owners' = owners
    BY <1>18 DEF PublishRejected
  <2> QED BY <1>18, <2>1, CompactEffect, PlacedOwned
<1>19. ASSUME NEW w \in Workers, NEW t \in Tasks, PublishTimedOut(w, t) PROVE Goal
  BY <1>19, ReleaseEffect, SettleEffect, SettleOwned DEF PublishTimedOut
<1>20. ASSUME NEW w \in Workers, NEW t \in Tasks, Ack(w, t) PROVE Goal
  <2>1. Settle(w, t, "published")
    BY <1>20 DEF Ack
  <2> QED BY <2>1, SettleEffect, SettleOwned
<1>21. ASSUME NEW w \in Workers, ConnectionLost(w) PROVE Goal
  BY <1>21, UnchangedOwned DEF ConnectionLost
<1>22. ASSUME NEW w \in Workers, ConnectionTrusted(w) PROVE Goal
  BY <1>22, UnchangedOwned DEF ConnectionTrusted
<1>23. ASSUME NEW w \in Workers, Drain(w) PROVE Goal
  BY <1>23, UnchangedOwned DEF Drain
<1>24. ASSUME NEW w \in Workers, Exit(w) PROVE Goal
  BY <1>24, RestartOwned DEF Exit
<1>25. ASSUME NEW w \in Workers, Crash(w) PROVE Goal
  BY <1>25, RestartOwned DEF Crash
<1>26. CASE ReplaceConsumer
  BY <1>26, UnchangedOwned DEF ReplaceConsumer
<1>27. CASE ReaperRestart
  BY <1>27, UnchangedOwned DEF ReaperRestart
<1>28. CASE UNCHANGED vars
  BY <1>28, UnchangedOwned DEF vars
<1> QED BY <1>1, <1>2, <1>3, <1>4, <1>5, <1>6, <1>7, <1>8, <1>9, <1>10, <1>11, <1>12,
           <1>13, <1>14, <1>15, <1>16, <1>17, <1>18, <1>19, <1>20, <1>21, <1>22, <1>23,
           <1>24, <1>25, <1>26, <1>27, <1>28
        DEF Next, ReaperStep, WorkerStep

-----------------------------------------------------------------------------
(* Leases that do not call themselves stale.                                *)

Live(w, t) == lease[w][t].phase # "none" /\ ~lease[w][t].stale

\* Settling ends one lease and refreshes none.
LEMMA SettleFades ==
  ASSUME TypeOK, NEW w \in Workers, NEW t \in Tasks, NEW settled, Settling(w, t, settled)
  PROVE  /\ ~Live(w, t)'
         /\ \A v \in Workers, u \in Tasks : Live(v, u)' => Live(v, u)
<1>1. \A u \in Tasks : InPhase(w, u, Woken(settled)).stale = lease[w][u].stale
  <2>1. Woken(settled) \in Phases
    BY DEF Woken, Phases
  <2> QED BY <2>1, PhaseTyped
<1>2. ~Live(w, t)'
  BY DEF Settling, Live, NoLease
<1> SUFFICES ASSUME NEW v \in Workers, NEW u \in Tasks, Live(v, u)'
             PROVE  Live(v, u)
  BY <1>2
<1>3. CASE v # w
  BY <1>3 DEF Live, Settling
<1>4. CASE v = w /\ u # t
  <2>1. lease'[w][u] = IF /\ lease[w][u].phase = "waiting"
                          /\ owners[w][Corr[t]] = t
                          /\ Corr[u] = Corr[t]
                       THEN InPhase(w, u, Woken(settled))
                       ELSE lease[w][u]
    BY <1>4 DEF Settling
  <2> QED BY <1>1, <1>4, <2>1 DEF Live
<1> QED BY <1>2, <1>3, <1>4

\* Only a fetched delivery makes a lease fresh.
LEMMA LiveStep ==
  ASSUME TypeOK, [Next]_vars, NEW v \in Workers, NEW u \in Tasks, Live(v, u)'
  PROVE  Live(v, u) \/ Fetch(v, u)
<1> DEFINE Goal == Live(v, u) \/ Fetch(v, u)
<1> USE LaneAssumption
<1> USE DEF Live, consumerVars, workerVars, reaperVars, budget
<1>1. ASSUME NEW t \in Tasks, Silence(t) PROVE Goal
  BY <1>1, SilenceEffect DEF Placed
<1>2. ASSUME NEW t \in Tasks, Expire(t) PROVE Goal
  BY <1>2 DEF Expire, GiveBack
<1>3. ASSUME NEW t \in Tasks, AdvisoryLost(t) PROVE Goal
  BY <1>3 DEF AdvisoryLost, Fault
<1>4. ASSUME NEW t \in Tasks, Claim(t) PROVE Goal
  BY <1>4 DEF Claim, Start
<1>5. ASSUME NEW t \in Tasks, Sweep(t) PROVE Goal
  BY <1>5 DEF Sweep, Start
<1>6. ASSUME NEW t \in Tasks, ReadOwner(t) PROVE Goal
  BY <1>6 DEF ReadOwner
<1>7. ASSUME NEW t \in Tasks, Confirm(t) PROVE Goal
  BY <1>7 DEF Confirm
<1>8. ASSUME NEW t \in Tasks, ApplyWorkerLost(t) PROVE Goal
  BY <1>8 DEF ApplyWorkerLost
<1>9. ASSUME NEW t \in Tasks, Forget(t) PROVE Goal
  BY <1>9 DEF Forget, RemoveFromStream
<1>10. ASSUME NEW w \in Workers, NEW t \in Tasks, Fetch(w, t) PROVE Goal
  BY <1>10, FetchEffect DEF Placed
<1>11. ASSUME NEW w \in Workers, NEW t \in Tasks, RejectInvalid(w, t) PROVE Goal
  BY <1>11, RejectEffect DEF Placed, NoLease
<1>12. ASSUME NEW w \in Workers, NEW t \in Tasks, Join(w, t) PROVE Goal
  <2>1. /\ InPhase(w, t, "working").stale = lease[w][t].stale
        /\ InPhase(w, t, "waiting").stale = lease[w][t].stale
    BY PhaseTyped DEF Phases
  <2> QED BY <1>12, <2>1, JoinEffect DEF Join, Placed
<1>13. ASSUME NEW w \in Workers, NEW t \in Tasks, WorkFinished(w, t) PROVE Goal
  <2>1. PICK status \in {"ok", "failed"} : ToPublish(w, t, status)
    BY <1>13 DEF WorkFinished
  <2> QED BY <1>13, <2>1, ToPublishEffect DEF WorkFinished, Placed
<1>14. ASSUME NEW w \in Workers, NEW t \in Tasks, WorkTransient(w, t) PROVE Goal
  <2>1. CASE ReleaseTransient(w, t)
    BY <2>1, ReleaseEffect, SettleEffect, SettleFades
  <2>2. CASE ToPublish(w, t, "failed")
    BY <1>14, <2>2, ToPublishEffect DEF WorkTransient, Placed
  <2> QED BY <1>14, <2>1, <2>2 DEF WorkTransient
<1>15. ASSUME NEW w \in Workers, NEW t \in Tasks, WorkDropped(w, t) PROVE Goal
  BY <1>15, SettleEffect, SettleFades DEF WorkDropped
<1>16. ASSUME NEW w \in Workers, NEW t \in Tasks, WorkAborted(w, t) PROVE Goal
  <2>1. CASE ReleaseTransient(w, t)
    BY <2>1, ReleaseEffect, SettleEffect, SettleFades
  <2>2. CASE ToPublish(w, t, "failed")
    BY <1>16, <2>2, ToPublishEffect DEF WorkAborted, Placed
  <2> QED BY <1>16, <2>1, <2>2 DEF WorkAborted
<1>17. ASSUME NEW w \in Workers, NEW t \in Tasks, Publish(w, t) PROVE Goal
  <2>1. InPhase(w, t, "acking").stale = lease[w][t].stale
    BY PhaseTyped DEF Phases
  <2> QED BY <1>17, <2>1, PublishEffect DEF Publish, Placed
<1>18. ASSUME NEW w \in Workers, NEW t \in Tasks, PublishRejected(w, t) PROVE Goal
  BY <1>18, CompactEffect DEF Placed
<1>19. ASSUME NEW w \in Workers, NEW t \in Tasks, PublishTimedOut(w, t) PROVE Goal
  BY <1>19, ReleaseEffect, SettleEffect, SettleFades DEF PublishTimedOut
<1>20. ASSUME NEW w \in Workers, NEW t \in Tasks, Ack(w, t) PROVE Goal
  BY <1>20, SettleEffect, SettleFades DEF Ack
<1>21. ASSUME NEW w \in Workers, ConnectionLost(w) PROVE Goal
  BY <1>21 DEF ConnectionLost, Fault
<1>22. ASSUME NEW w \in Workers, ConnectionTrusted(w) PROVE Goal
  BY <1>22 DEF ConnectionTrusted
<1>23. ASSUME NEW w \in Workers, Drain(w) PROVE Goal
  BY <1>23 DEF Drain
<1>24. ASSUME NEW w \in Workers, Exit(w) PROVE Goal
  BY <1>24, RestartEffect DEF Exit, NoLease
<1>25. ASSUME NEW w \in Workers, Crash(w) PROVE Goal
  BY <1>25, RestartEffect DEF Crash, NoLease
<1>26. CASE ReplaceConsumer
  BY <1>26 DEF ReplaceConsumer
<1>27. CASE ReaperRestart
  BY <1>27 DEF ReaperRestart, Fault
<1>28. CASE UNCHANGED vars
  BY <1>28 DEF vars
<1> QED BY <1>1, <1>2, <1>3, <1>4, <1>5, <1>6, <1>7, <1>8, <1>9, <1>10, <1>11, <1>12,
           <1>13, <1>14, <1>15, <1>16, <1>17, <1>18, <1>19, <1>20, <1>21, <1>22, <1>23,
           <1>24, <1>25, <1>26, <1>27, <1>28
        DEF Next, ReaperStep, WorkerStep

\* Every step keeps silent deliveries stale.
LEMMA SilentStep == TypeOK /\ SilentIsStale /\ [Next]_vars => SilentIsStale'
<1> SUFFICES ASSUME TypeOK, SilentIsStale, [Next]_vars,
                    NEW v \in Workers, NEW u \in Tasks,
                    holder'[u] = v, ~fresh'[u], Live(v, u)'
             PROVE  FALSE
  BY DEF SilentIsStale, Live
<1> DEFINE Goal == FALSE
<1> ConsumerTyped
  BY DEF TypeOK, ConsumerTyped
<1>a. ~Fetch(v, u)
  BY DEF Fetch, ConsumerTyped
<1>b. Live(v, u) /\ (holder[u] # v \/ fresh[u])
  BY <1>a, LiveStep DEF SilentIsStale, Live
<1> USE LaneAssumption
<1> USE DEF consumerVars, workerVars, reaperVars, budget
<1>1. ASSUME NEW t \in Tasks, Silence(t) PROVE Goal
  <2>1. CASE u = t
    <3>1. holder' = holder
      BY <1>1 DEF Silence
    <3>2. holder[t] = v
      BY <2>1, <3>1
    <3>3. lease'[v][u].phase = "none" \/ lease'[v][u].stale
      BY <1>1, <2>1, <3>2, SilenceEffect DEF Placed
    <3> QED BY <3>3 DEF Live
  <2>2. CASE u # t
    BY <1>1, <1>b, <2>2 DEF Silence, ConsumerTyped
  <2> QED BY <2>1, <2>2
<1>2. ASSUME NEW t \in Tasks, Expire(t) PROVE Goal
  BY <1>2, <1>b DEF Expire, GiveBack, ConsumerTyped
<1>3. ASSUME NEW t \in Tasks, AdvisoryLost(t) PROVE Goal
  BY <1>3, <1>b DEF AdvisoryLost, Fault, ConsumerTyped
<1>4. ASSUME NEW t \in Tasks, Claim(t) PROVE Goal
  BY <1>4, <1>b DEF Claim, Start, ConsumerTyped
<1>5. ASSUME NEW t \in Tasks, Sweep(t) PROVE Goal
  BY <1>5, <1>b DEF Sweep, Start, ConsumerTyped
<1>6. ASSUME NEW t \in Tasks, ReadOwner(t) PROVE Goal
  BY <1>6, <1>b DEF ReadOwner, ConsumerTyped
<1>7. ASSUME NEW t \in Tasks, Confirm(t) PROVE Goal
  BY <1>7, <1>b DEF Confirm, ConsumerTyped
<1>8. ASSUME NEW t \in Tasks, ApplyWorkerLost(t) PROVE Goal
  BY <1>8, <1>b DEF ApplyWorkerLost, ConsumerTyped
<1>9. ASSUME NEW t \in Tasks, Forget(t) PROVE Goal
  BY <1>9, <1>b DEF Forget, RemoveFromStream, ConsumerTyped
<1>10. ASSUME NEW w \in Workers, NEW t \in Tasks, Fetch(w, t) PROVE Goal
  <2>1. CASE u = t
    BY <1>10, <2>1 DEF Fetch, ConsumerTyped
  <2>2. CASE u # t
    BY <1>10, <1>b, <2>2 DEF Fetch, ConsumerTyped
  <2> QED BY <2>1, <2>2
<1>11. ASSUME NEW w \in Workers, NEW t \in Tasks, RejectInvalid(w, t) PROVE Goal
  BY <1>11, <1>b DEF RejectInvalid, RemoveFromStream, NoLease, Fault, ConsumerTyped
<1>12. ASSUME NEW w \in Workers, NEW t \in Tasks, Join(w, t) PROVE Goal
  BY <1>12, <1>b DEF Join, ConsumerTyped
<1>13. ASSUME NEW w \in Workers, NEW t \in Tasks, WorkFinished(w, t) PROVE Goal
  BY <1>13, <1>b DEF WorkFinished, ToPublish, ConsumerTyped
<1>14. ASSUME NEW w \in Workers, NEW t \in Tasks, WorkTransient(w, t) PROVE Goal
  <2>1. UNCHANGED consumerVars \/ GiveBack(t)
    BY <1>14, ReleaseEffect DEF WorkTransient, ToPublish
  <2> QED BY <2>1, <1>b DEF GiveBack, ConsumerTyped
<1>15. ASSUME NEW w \in Workers, NEW t \in Tasks, WorkDropped(w, t) PROVE Goal
  BY <1>15, <1>b DEF WorkDropped
<1>16. ASSUME NEW w \in Workers, NEW t \in Tasks, WorkAborted(w, t) PROVE Goal
  <2>1. UNCHANGED consumerVars \/ GiveBack(t)
    BY <1>16, ReleaseEffect DEF WorkAborted, ToPublish
  <2> QED BY <2>1, <1>b DEF GiveBack, ConsumerTyped
<1>17. ASSUME NEW w \in Workers, NEW t \in Tasks, Publish(w, t) PROVE Goal
  BY <1>17, <1>b DEF Publish, Fault, ConsumerTyped
<1>18. ASSUME NEW w \in Workers, NEW t \in Tasks, PublishRejected(w, t) PROVE Goal
  BY <1>18, <1>b DEF PublishRejected, Fault, ConsumerTyped
<1>19. ASSUME NEW w \in Workers, NEW t \in Tasks, PublishTimedOut(w, t) PROVE Goal
  <2>1. UNCHANGED consumerVars \/ GiveBack(t)
    BY <1>19, ReleaseEffect DEF PublishTimedOut
  <2> QED BY <2>1, <1>b DEF GiveBack, ConsumerTyped
<1>20. ASSUME NEW w \in Workers, NEW t \in Tasks, Ack(w, t) PROVE Goal
  BY <1>20, <1>b DEF Ack, RemoveFromStream, ConsumerTyped
<1>21. ASSUME NEW w \in Workers, ConnectionLost(w) PROVE Goal
  BY <1>21, <1>b DEF ConnectionLost, Fault, ConsumerTyped
<1>22. ASSUME NEW w \in Workers, ConnectionTrusted(w) PROVE Goal
  BY <1>22, <1>b DEF ConnectionTrusted, ConsumerTyped
<1>23. ASSUME NEW w \in Workers, Drain(w) PROVE Goal
  BY <1>23, <1>b DEF Drain, ConsumerTyped
<1>24. ASSUME NEW w \in Workers, Exit(w) PROVE Goal
  BY <1>24, <1>b DEF Exit, Restarted, NoLease, ConsumerTyped
<1>25. ASSUME NEW w \in Workers, Crash(w) PROVE Goal
  BY <1>25, <1>b DEF Crash, Restarted, NoLease, Fault, ConsumerTyped
<1>26. CASE ReplaceConsumer
  BY <1>26, LaneAssumption DEF ReplaceConsumer
<1>27. CASE ReaperRestart
  BY <1>27, <1>b DEF ReaperRestart, Fault, ConsumerTyped
<1>28. CASE UNCHANGED vars
  BY <1>28, <1>b DEF vars, ConsumerTyped
<1> QED BY <1>1, <1>2, <1>3, <1>4, <1>5, <1>6, <1>7, <1>8, <1>9, <1>10, <1>11, <1>12,
           <1>13, <1>14, <1>15, <1>16, <1>17, <1>18, <1>19, <1>20, <1>21, <1>22, <1>23,
           <1>24, <1>25, <1>26, <1>27, <1>28
        DEF Next, ReaperStep, WorkerStep

\* Every step keeps the deliveries of fresh leases.
LEMMA FreshStep ==
    TypeOK /\ SilentIsStale /\ FreshLeaseHolds /\ [Next]_vars => FreshLeaseHolds'
<1> SUFFICES ASSUME TypeOK, SilentIsStale, FreshLeaseHolds, [Next]_vars,
                    NEW v \in Workers, NEW u \in Tasks,
                    generation' = 0, Live(v, u)', u \in queued'
             PROVE  holder'[u] = v
  BY DEF FreshLeaseHolds, Live
<1> DEFINE Goal == holder'[u] = v
<1> ConsumerTyped
  BY DEF TypeOK, ConsumerTyped
<1>a. CASE Fetch(v, u)
  BY <1>a DEF Fetch, ConsumerTyped
<1>b. SUFFICES ASSUME ~Fetch(v, u)
               PROVE  Goal
  BY <1>a
<1>c. Live(v, u)
  BY <1>b, LiveStep
<1>d. generation = 0 /\ u \in queued => holder[u] = v
  BY <1>c DEF FreshLeaseHolds, Live
<1> USE LaneAssumption
<1> USE DEF consumerVars, workerVars, reaperVars, budget
<1>1. ASSUME NEW t \in Tasks, Silence(t) PROVE Goal
  BY <1>1, <1>d DEF Silence, Fault, budget, ConsumerTyped
<1>2. ASSUME NEW t \in Tasks, Expire(t) PROVE Goal
  <2>1. u # t
    BY <1>2, <1>c, <1>d DEF Expire, GiveBack, SilentIsStale, Live
  <2> QED BY <1>2, <1>d, <2>1 DEF Expire, GiveBack, ConsumerTyped
<1>3. ASSUME NEW t \in Tasks, AdvisoryLost(t) PROVE Goal
  BY <1>3, <1>d DEF AdvisoryLost, Fault, ConsumerTyped
<1>4. ASSUME NEW t \in Tasks, Claim(t) PROVE Goal
  BY <1>4, <1>d DEF Claim, Start, ConsumerTyped
<1>5. ASSUME NEW t \in Tasks, Sweep(t) PROVE Goal
  BY <1>5, <1>d DEF Sweep, Start, ConsumerTyped
<1>6. ASSUME NEW t \in Tasks, ReadOwner(t) PROVE Goal
  BY <1>6, <1>d DEF ReadOwner, ConsumerTyped
<1>7. ASSUME NEW t \in Tasks, Confirm(t) PROVE Goal
  BY <1>7, <1>d DEF Confirm, ConsumerTyped
<1>8. ASSUME NEW t \in Tasks, ApplyWorkerLost(t) PROVE Goal
  BY <1>8, <1>d DEF ApplyWorkerLost, ConsumerTyped
<1>9. ASSUME NEW t \in Tasks, Forget(t) PROVE Goal
  BY <1>9, <1>d DEF Forget, RemoveFromStream, ConsumerTyped
<1>10. ASSUME NEW w \in Workers, NEW t \in Tasks, Fetch(w, t) PROVE Goal
  <2>1. u # t
    BY <1>10, <1>d DEF Fetch, Deliverable
  <2> QED BY <1>10, <1>d, <2>1 DEF Fetch, ConsumerTyped
<1>11. ASSUME NEW w \in Workers, NEW t \in Tasks, RejectInvalid(w, t) PROVE Goal
  BY <1>11, <1>d DEF RejectInvalid, RemoveFromStream, NoLease, Fault, ConsumerTyped
<1>12. ASSUME NEW w \in Workers, NEW t \in Tasks, Join(w, t) PROVE Goal
  BY <1>12, <1>d DEF Join, ConsumerTyped
<1>13. ASSUME NEW w \in Workers, NEW t \in Tasks, WorkFinished(w, t) PROVE Goal
  BY <1>13, <1>d DEF WorkFinished, ToPublish, ConsumerTyped
<1>14. ASSUME NEW w \in Workers, NEW t \in Tasks, WorkTransient(w, t) PROVE Goal
  <2>1. \/ UNCHANGED consumerVars
        \/ ReleaseTransient(w, t) /\ ~lease[w][t].stale /\ t \in queued /\ GiveBack(t)
    BY <1>14, ReleaseEffect DEF WorkTransient, ToPublish
  <2>2. CASE ReleaseTransient(w, t) /\ ~lease[w][t].stale /\ t \in queued /\ GiveBack(t)
    <3>1. Live(w, t) /\ ~Live(w, t)'
      BY <1>14, <2>2, ReleaseEffect, SettleEffect, SettleFades DEF WorkTransient, Live
    <3>2. generation = 0 /\ queued' = queued
      BY <2>2 DEF GiveBack
    <3>3. holder[t] = w /\ holder[u] = v
      BY <1>d, <2>2, <3>1, <3>2 DEF FreshLeaseHolds, Live
    <3>4. u # t
      BY <3>1, <3>3
    <3> QED BY <2>2, <3>3, <3>4 DEF GiveBack, ConsumerTyped
  <2> QED BY <1>d, <2>1, <2>2
<1>15. ASSUME NEW w \in Workers, NEW t \in Tasks, WorkDropped(w, t) PROVE Goal
  BY <1>15, <1>d DEF WorkDropped
<1>16. ASSUME NEW w \in Workers, NEW t \in Tasks, WorkAborted(w, t) PROVE Goal
  <2>1. \/ UNCHANGED consumerVars
        \/ ReleaseTransient(w, t) /\ ~lease[w][t].stale /\ t \in queued /\ GiveBack(t)
    BY <1>16, ReleaseEffect DEF WorkAborted, ToPublish
  <2>2. CASE ReleaseTransient(w, t) /\ ~lease[w][t].stale /\ t \in queued /\ GiveBack(t)
    <3>1. Live(w, t) /\ ~Live(w, t)'
      BY <1>16, <2>2, ReleaseEffect, SettleEffect, SettleFades DEF WorkAborted, Live
    <3>2. generation = 0 /\ queued' = queued
      BY <2>2 DEF GiveBack
    <3>3. holder[t] = w /\ holder[u] = v
      BY <1>d, <2>2, <3>1, <3>2 DEF FreshLeaseHolds, Live
    <3>4. u # t
      BY <3>1, <3>3
    <3> QED BY <2>2, <3>3, <3>4 DEF GiveBack, ConsumerTyped
  <2> QED BY <1>d, <2>1, <2>2
<1>17. ASSUME NEW w \in Workers, NEW t \in Tasks, Publish(w, t) PROVE Goal
  BY <1>17, <1>d DEF Publish, Fault, ConsumerTyped
<1>18. ASSUME NEW w \in Workers, NEW t \in Tasks, PublishRejected(w, t) PROVE Goal
  BY <1>18, <1>d DEF PublishRejected, Fault, ConsumerTyped
<1>19. ASSUME NEW w \in Workers, NEW t \in Tasks, PublishTimedOut(w, t) PROVE Goal
  <2>1. \/ UNCHANGED consumerVars
        \/ ReleaseTransient(w, t) /\ ~lease[w][t].stale /\ t \in queued /\ GiveBack(t)
    BY <1>19, ReleaseEffect DEF PublishTimedOut
  <2>2. CASE ReleaseTransient(w, t) /\ ~lease[w][t].stale /\ t \in queued /\ GiveBack(t)
    <3>1. Live(w, t) /\ ~Live(w, t)'
      BY <1>19, <2>2, ReleaseEffect, SettleEffect, SettleFades DEF PublishTimedOut, Live
    <3>2. generation = 0 /\ queued' = queued
      BY <2>2 DEF GiveBack
    <3>3. holder[t] = w /\ holder[u] = v
      BY <1>d, <2>2, <3>1, <3>2 DEF FreshLeaseHolds, Live
    <3>4. u # t
      BY <3>1, <3>3
    <3> QED BY <2>2, <3>3, <3>4 DEF GiveBack, ConsumerTyped
  <2> QED BY <1>d, <2>1, <2>2
<1>20. ASSUME NEW w \in Workers, NEW t \in Tasks, Ack(w, t) PROVE Goal
  BY <1>20, <1>d DEF Ack, RemoveFromStream, ConsumerTyped
<1>21. ASSUME NEW w \in Workers, ConnectionLost(w) PROVE Goal
  BY <1>21, <1>d DEF ConnectionLost, Fault, ConsumerTyped
<1>22. ASSUME NEW w \in Workers, ConnectionTrusted(w) PROVE Goal
  BY <1>22, <1>d DEF ConnectionTrusted, ConsumerTyped
<1>23. ASSUME NEW w \in Workers, Drain(w) PROVE Goal
  BY <1>23, <1>d DEF Drain, ConsumerTyped
<1>24. ASSUME NEW w \in Workers, Exit(w) PROVE Goal
  BY <1>24, <1>d DEF Exit, Restarted, NoLease, ConsumerTyped
<1>25. ASSUME NEW w \in Workers, Crash(w) PROVE Goal
  BY <1>25, <1>d DEF Crash, Restarted, NoLease, Fault, ConsumerTyped
<1>26. CASE ReplaceConsumer
  BY <1>26 DEF ReplaceConsumer, ConsumerTyped
<1>27. CASE ReaperRestart
  BY <1>27, <1>d DEF ReaperRestart, Fault, ConsumerTyped
<1>28. CASE UNCHANGED vars
  BY <1>28, <1>d DEF vars, ConsumerTyped
<1> QED BY <1>1, <1>2, <1>3, <1>4, <1>5, <1>6, <1>7, <1>8, <1>9, <1>10, <1>11, <1>12,
           <1>13, <1>14, <1>15, <1>16, <1>17, <1>18, <1>19, <1>20, <1>21, <1>22, <1>23,
           <1>24, <1>25, <1>26, <1>27, <1>28
        DEF Next, ReaperStep, WorkerStep

\* Only queued tasks have a holder, after every step.
LEMMA HeldStep == TypeOK /\ HeldIsQueued /\ [Next]_vars => HeldIsQueued'
<1> SUFFICES ASSUME TypeOK, HeldIsQueued, [Next]_vars PROVE HeldIsQueued'
  OBVIOUS
<1> DEFINE Goal == HeldIsQueued'
<1> USE LaneAssumption
<1> ConsumerTyped
  BY DEF TypeOK, ConsumerTyped
<1> USE DEF ConsumerTyped, HeldIsQueued, consumerVars, workerVars, reaperVars, budget
<1>1. ASSUME NEW t \in Tasks, Silence(t) PROVE Goal
  BY <1>1 DEF Silence, Fault, budget
<1>2. ASSUME NEW t \in Tasks, Expire(t) PROVE Goal
  BY <1>2 DEF Expire, GiveBack
<1>3. ASSUME NEW t \in Tasks, AdvisoryLost(t) PROVE Goal
  BY <1>3 DEF AdvisoryLost, Fault
<1>4. ASSUME NEW t \in Tasks, Claim(t) PROVE Goal
  BY <1>4 DEF Claim, Start
<1>5. ASSUME NEW t \in Tasks, Sweep(t) PROVE Goal
  BY <1>5 DEF Sweep, Start
<1>6. ASSUME NEW t \in Tasks, ReadOwner(t) PROVE Goal
  BY <1>6 DEF ReadOwner
<1>7. ASSUME NEW t \in Tasks, Confirm(t) PROVE Goal
  BY <1>7 DEF Confirm
<1>8. ASSUME NEW t \in Tasks, ApplyWorkerLost(t) PROVE Goal
  BY <1>8 DEF ApplyWorkerLost
<1>9. ASSUME NEW t \in Tasks, Forget(t) PROVE Goal
  BY <1>9 DEF Forget, RemoveFromStream
<1>10. ASSUME NEW w \in Workers, NEW t \in Tasks, Fetch(w, t) PROVE Goal
  BY <1>10 DEF Fetch, Deliverable
<1>11. ASSUME NEW w \in Workers, NEW t \in Tasks, RejectInvalid(w, t) PROVE Goal
  BY <1>11 DEF RejectInvalid, RemoveFromStream
<1>12. ASSUME NEW w \in Workers, NEW t \in Tasks, Join(w, t) PROVE Goal
  BY <1>12 DEF Join
<1>13. ASSUME NEW w \in Workers, NEW t \in Tasks, WorkFinished(w, t) PROVE Goal
  BY <1>13 DEF WorkFinished, ToPublish
<1>14. ASSUME NEW w \in Workers, NEW t \in Tasks, WorkTransient(w, t) PROVE Goal
  <2>1. UNCHANGED <<consumerVars, advisories>> \/ GiveBack(t)
    BY <1>14, ReleaseEffect DEF WorkTransient, ToPublish
  <2>2. reap' = reap
    BY <1>14 DEF WorkTransient
  <2> QED BY <2>1, <2>2 DEF GiveBack
<1>15. ASSUME NEW w \in Workers, NEW t \in Tasks, WorkDropped(w, t) PROVE Goal
  BY <1>15 DEF WorkDropped
<1>16. ASSUME NEW w \in Workers, NEW t \in Tasks, WorkAborted(w, t) PROVE Goal
  <2>1. UNCHANGED <<consumerVars, advisories>> \/ GiveBack(t)
    BY <1>16, ReleaseEffect DEF WorkAborted, ToPublish
  <2>2. reap' = reap
    BY <1>16 DEF WorkAborted
  <2> QED BY <2>1, <2>2 DEF GiveBack
<1>17. ASSUME NEW w \in Workers, NEW t \in Tasks, Publish(w, t) PROVE Goal
  BY <1>17 DEF Publish, Fault
<1>18. ASSUME NEW w \in Workers, NEW t \in Tasks, PublishRejected(w, t) PROVE Goal
  BY <1>18 DEF PublishRejected, Fault
<1>19. ASSUME NEW w \in Workers, NEW t \in Tasks, PublishTimedOut(w, t) PROVE Goal
  <2>1. UNCHANGED <<consumerVars, advisories>> \/ GiveBack(t)
    BY <1>19, ReleaseEffect DEF PublishTimedOut
  <2>2. reap' = reap
    BY <1>19 DEF PublishTimedOut
  <2> QED BY <2>1, <2>2 DEF GiveBack
<1>20. ASSUME NEW w \in Workers, NEW t \in Tasks, Ack(w, t) PROVE Goal
  BY <1>20 DEF Ack, RemoveFromStream
<1>21. ASSUME NEW w \in Workers, ConnectionLost(w) PROVE Goal
  BY <1>21 DEF ConnectionLost, Fault
<1>22. ASSUME NEW w \in Workers, ConnectionTrusted(w) PROVE Goal
  BY <1>22 DEF ConnectionTrusted
<1>23. ASSUME NEW w \in Workers, Drain(w) PROVE Goal
  BY <1>23 DEF Drain
<1>24. ASSUME NEW w \in Workers, Exit(w) PROVE Goal
  BY <1>24 DEF Exit, Restarted, NoLease
<1>25. ASSUME NEW w \in Workers, Crash(w) PROVE Goal
  BY <1>25 DEF Crash, Restarted, NoLease, Fault
<1>26. CASE ReplaceConsumer
  BY <1>26 DEF ReplaceConsumer
<1>27. CASE ReaperRestart
  BY <1>27 DEF ReaperRestart, Fault
<1>28. CASE UNCHANGED vars
  BY <1>28 DEF vars
<1> QED BY <1>1, <1>2, <1>3, <1>4, <1>5, <1>6, <1>7, <1>8, <1>9, <1>10, <1>11, <1>12,
           <1>13, <1>14, <1>15, <1>16, <1>17, <1>18, <1>19, <1>20, <1>21, <1>22, <1>23,
           <1>24, <1>25, <1>26, <1>27, <1>28
        DEF Next, ReaperStep, WorkerStep

\* Every step keeps the order of first deliveries.
LEMMA OrderStep == TypeOK /\ InOrder /\ [Next]_vars => InOrder'
<1> SUFFICES ASSUME TypeOK, InOrder, [Next]_vars PROVE InOrder'
  OBVIOUS
<1> DEFINE Goal == InOrder'
<1> USE LaneAssumption
<1> ConsumerTyped
  BY DEF TypeOK, ConsumerTyped
<1> USE DEF ConsumerTyped, InOrder, consumerVars, workerVars, reaperVars, budget
<1>1. ASSUME NEW t \in Tasks, Silence(t) PROVE Goal
  BY <1>1 DEF Silence, Fault, budget
<1>2. ASSUME NEW t \in Tasks, Expire(t) PROVE Goal
  BY <1>2 DEF Expire, GiveBack
<1>3. ASSUME NEW t \in Tasks, AdvisoryLost(t) PROVE Goal
  BY <1>3 DEF AdvisoryLost, Fault
<1>4. ASSUME NEW t \in Tasks, Claim(t) PROVE Goal
  BY <1>4 DEF Claim, Start
<1>5. ASSUME NEW t \in Tasks, Sweep(t) PROVE Goal
  BY <1>5 DEF Sweep, Start
<1>6. ASSUME NEW t \in Tasks, ReadOwner(t) PROVE Goal
  BY <1>6 DEF ReadOwner
<1>7. ASSUME NEW t \in Tasks, Confirm(t) PROVE Goal
  BY <1>7 DEF Confirm
<1>8. ASSUME NEW t \in Tasks, ApplyWorkerLost(t) PROVE Goal
  BY <1>8 DEF ApplyWorkerLost
<1>9. ASSUME NEW t \in Tasks, Forget(t) PROVE Goal
  BY <1>9 DEF Forget, RemoveFromStream
<1>10. ASSUME NEW w \in Workers, NEW t \in Tasks, Fetch(w, t) PROVE Goal
  BY <1>10 DEF Fetch, Deliverable
<1>11. ASSUME NEW w \in Workers, NEW t \in Tasks, RejectInvalid(w, t) PROVE Goal
  BY <1>11 DEF RejectInvalid, RemoveFromStream
<1>12. ASSUME NEW w \in Workers, NEW t \in Tasks, Join(w, t) PROVE Goal
  BY <1>12 DEF Join
<1>13. ASSUME NEW w \in Workers, NEW t \in Tasks, WorkFinished(w, t) PROVE Goal
  BY <1>13 DEF WorkFinished, ToPublish
<1>14. ASSUME NEW w \in Workers, NEW t \in Tasks, WorkTransient(w, t) PROVE Goal
  <2>1. UNCHANGED <<consumerVars, advisories>> \/ GiveBack(t)
    BY <1>14, ReleaseEffect DEF WorkTransient, ToPublish
  <2>2. reap' = reap
    BY <1>14 DEF WorkTransient
  <2> QED BY <2>1, <2>2 DEF GiveBack
<1>15. ASSUME NEW w \in Workers, NEW t \in Tasks, WorkDropped(w, t) PROVE Goal
  BY <1>15 DEF WorkDropped
<1>16. ASSUME NEW w \in Workers, NEW t \in Tasks, WorkAborted(w, t) PROVE Goal
  <2>1. UNCHANGED <<consumerVars, advisories>> \/ GiveBack(t)
    BY <1>16, ReleaseEffect DEF WorkAborted, ToPublish
  <2>2. reap' = reap
    BY <1>16 DEF WorkAborted
  <2> QED BY <2>1, <2>2 DEF GiveBack
<1>17. ASSUME NEW w \in Workers, NEW t \in Tasks, Publish(w, t) PROVE Goal
  BY <1>17 DEF Publish, Fault
<1>18. ASSUME NEW w \in Workers, NEW t \in Tasks, PublishRejected(w, t) PROVE Goal
  BY <1>18 DEF PublishRejected, Fault
<1>19. ASSUME NEW w \in Workers, NEW t \in Tasks, PublishTimedOut(w, t) PROVE Goal
  <2>1. UNCHANGED <<consumerVars, advisories>> \/ GiveBack(t)
    BY <1>19, ReleaseEffect DEF PublishTimedOut
  <2>2. reap' = reap
    BY <1>19 DEF PublishTimedOut
  <2> QED BY <2>1, <2>2 DEF GiveBack
<1>20. ASSUME NEW w \in Workers, NEW t \in Tasks, Ack(w, t) PROVE Goal
  BY <1>20 DEF Ack, RemoveFromStream
<1>21. ASSUME NEW w \in Workers, ConnectionLost(w) PROVE Goal
  BY <1>21 DEF ConnectionLost, Fault
<1>22. ASSUME NEW w \in Workers, ConnectionTrusted(w) PROVE Goal
  BY <1>22 DEF ConnectionTrusted
<1>23. ASSUME NEW w \in Workers, Drain(w) PROVE Goal
  BY <1>23 DEF Drain
<1>24. ASSUME NEW w \in Workers, Exit(w) PROVE Goal
  BY <1>24 DEF Exit, Restarted, NoLease
<1>25. ASSUME NEW w \in Workers, Crash(w) PROVE Goal
  BY <1>25 DEF Crash, Restarted, NoLease, Fault
<1>26. CASE ReplaceConsumer
  BY <1>26 DEF ReplaceConsumer
<1>27. CASE ReaperRestart
  BY <1>27 DEF ReaperRestart, Fault
<1>28. CASE UNCHANGED vars
  BY <1>28 DEF vars
<1> QED BY <1>1, <1>2, <1>3, <1>4, <1>5, <1>6, <1>7, <1>8, <1>9, <1>10, <1>11, <1>12,
           <1>13, <1>14, <1>15, <1>16, <1>17, <1>18, <1>19, <1>20, <1>21, <1>22, <1>23,
           <1>24, <1>25, <1>26, <1>27, <1>28
        DEF Next, ReaperStep, WorkerStep

\* What the reaper is busy with stays without a delivery.
LEMMA SpentStep == TypeOK /\ HeldIsQueued /\ InOrder /\ Spent /\ [Next]_vars => Spent'
<1> SUFFICES ASSUME TypeOK, HeldIsQueued, InOrder, Spent, [Next]_vars PROVE Spent'
  OBVIOUS
<1> DEFINE Goal == Spent'
<1> USE LaneAssumption
<1> ConsumerTyped
  BY DEF TypeOK, ConsumerTyped
<1> USE DEF ConsumerTyped, Spent, consumerVars, workerVars, reaperVars, budget
<1>1. ASSUME NEW t \in Tasks, Silence(t) PROVE Goal
  BY <1>1 DEF Silence, Fault, budget
<1>2. ASSUME NEW t \in Tasks, Expire(t) PROVE Goal
  BY <1>2 DEF Expire, GiveBack
<1>3. ASSUME NEW t \in Tasks, AdvisoryLost(t) PROVE Goal
  BY <1>3 DEF AdvisoryLost, Fault
<1>4. ASSUME NEW t \in Tasks, Claim(t) PROVE Goal
  BY <1>4 DEF Claim, Start
<1>5. ASSUME NEW t \in Tasks, Sweep(t) PROVE Goal
  <2>1. t \in queued /\ BelowHorizon(t)
    BY <1>5 DEF Sweep, Orphans
  <2>2. t \notin AckPending
    <3>1. ~(t < t)
      BY LaneAssumption
    <3>2. t \in AckPending => \A u \in AckPending : t < u
      BY <2>1, Zenon DEF BelowHorizon
    <3> QED BY <3>1, <3>2
  <2>3. deliveries[t] > 0
    <3>1. CASE AckPending = {}
      <4>1. PICK x \in Tasks : deliveries[x] > 0 /\ t <= x
        BY <2>1, <3>1 DEF BelowHorizon
      <4> QED BY <2>1, <4>1 DEF InOrder
    <3>2. CASE AckPending # {}
      <4>1. PICK x \in AckPending : t < x
        BY <2>1, <3>2 DEF BelowHorizon
      <4>2. x \in Tasks /\ deliveries[x] > 0
        BY <4>1 DEF AckPending
      <4> QED BY <2>1, <4>1, <4>2 DEF InOrder
    <3> QED BY <3>1, <3>2
  <2>4. holder[t] = None /\ deliveries[t] = MaxDeliver
    BY <2>1, <2>2, <2>3 DEF AckPending
  <2> QED BY <1>5, <2>4 DEF Sweep, Start
<1>6. ASSUME NEW t \in Tasks, ReadOwner(t) PROVE Goal
  <2>1. UNCHANGED <<queued, deliveries, holder, generation, advisories>>
    BY <1>6 DEF ReadOwner
  <2>2. \A u \in Tasks : reap'[u] # "idle" => reap[u] # "idle"
    BY <1>6 DEF ReadOwner, TypeOK
  <2> QED BY <2>1, <2>2
<1>7. ASSUME NEW t \in Tasks, Confirm(t) PROVE Goal
  BY <1>7 DEF Confirm
<1>8. ASSUME NEW t \in Tasks, ApplyWorkerLost(t) PROVE Goal
  BY <1>8 DEF ApplyWorkerLost
<1>9. ASSUME NEW t \in Tasks, Forget(t) PROVE Goal
  BY <1>9 DEF Forget, RemoveFromStream
<1>10. ASSUME NEW w \in Workers, NEW t \in Tasks, Fetch(w, t) PROVE Goal
  BY <1>10 DEF Fetch, Deliverable
<1>11. ASSUME NEW w \in Workers, NEW t \in Tasks, RejectInvalid(w, t) PROVE Goal
  BY <1>11 DEF RejectInvalid, RemoveFromStream
<1>12. ASSUME NEW w \in Workers, NEW t \in Tasks, Join(w, t) PROVE Goal
  BY <1>12 DEF Join
<1>13. ASSUME NEW w \in Workers, NEW t \in Tasks, WorkFinished(w, t) PROVE Goal
  BY <1>13 DEF WorkFinished, ToPublish
<1>14. ASSUME NEW w \in Workers, NEW t \in Tasks, WorkTransient(w, t) PROVE Goal
  <2>1. UNCHANGED <<consumerVars, advisories>> \/ GiveBack(t)
    BY <1>14, ReleaseEffect DEF WorkTransient, ToPublish
  <2>2. reap' = reap
    BY <1>14 DEF WorkTransient
  <2> QED BY <2>1, <2>2 DEF GiveBack
<1>15. ASSUME NEW w \in Workers, NEW t \in Tasks, WorkDropped(w, t) PROVE Goal
  BY <1>15 DEF WorkDropped
<1>16. ASSUME NEW w \in Workers, NEW t \in Tasks, WorkAborted(w, t) PROVE Goal
  <2>1. UNCHANGED <<consumerVars, advisories>> \/ GiveBack(t)
    BY <1>16, ReleaseEffect DEF WorkAborted, ToPublish
  <2>2. reap' = reap
    BY <1>16 DEF WorkAborted
  <2> QED BY <2>1, <2>2 DEF GiveBack
<1>17. ASSUME NEW w \in Workers, NEW t \in Tasks, Publish(w, t) PROVE Goal
  BY <1>17 DEF Publish, Fault
<1>18. ASSUME NEW w \in Workers, NEW t \in Tasks, PublishRejected(w, t) PROVE Goal
  BY <1>18 DEF PublishRejected, Fault
<1>19. ASSUME NEW w \in Workers, NEW t \in Tasks, PublishTimedOut(w, t) PROVE Goal
  <2>1. UNCHANGED <<consumerVars, advisories>> \/ GiveBack(t)
    BY <1>19, ReleaseEffect DEF PublishTimedOut
  <2>2. reap' = reap
    BY <1>19 DEF PublishTimedOut
  <2> QED BY <2>1, <2>2 DEF GiveBack
<1>20. ASSUME NEW w \in Workers, NEW t \in Tasks, Ack(w, t) PROVE Goal
  BY <1>20 DEF Ack, RemoveFromStream
<1>21. ASSUME NEW w \in Workers, ConnectionLost(w) PROVE Goal
  BY <1>21 DEF ConnectionLost, Fault
<1>22. ASSUME NEW w \in Workers, ConnectionTrusted(w) PROVE Goal
  BY <1>22 DEF ConnectionTrusted
<1>23. ASSUME NEW w \in Workers, Drain(w) PROVE Goal
  BY <1>23 DEF Drain
<1>24. ASSUME NEW w \in Workers, Exit(w) PROVE Goal
  BY <1>24 DEF Exit, Restarted, NoLease
<1>25. ASSUME NEW w \in Workers, Crash(w) PROVE Goal
  BY <1>25 DEF Crash, Restarted, NoLease, Fault
<1>26. CASE ReplaceConsumer
  BY <1>26 DEF ReplaceConsumer
<1>27. CASE ReaperRestart
  BY <1>27 DEF ReaperRestart, Fault
<1>28. CASE UNCHANGED vars
  BY <1>28 DEF vars
<1> QED BY <1>1, <1>2, <1>3, <1>4, <1>5, <1>6, <1>7, <1>8, <1>9, <1>10, <1>11, <1>12,
           <1>13, <1>14, <1>15, <1>16, <1>17, <1>18, <1>19, <1>20, <1>21, <1>22, <1>23,
           <1>24, <1>25, <1>26, <1>27, <1>28
        DEF Next, ReaperStep, WorkerStep

-----------------------------------------------------------------------------
(* Outcomes.                                                                *)

\* Results stay in the result stream.
LEMMA DoneStays == [Next]_vars => done \subseteq done'
<1> SUFFICES ASSUME [Next]_vars PROVE done \subseteq done'
  OBVIOUS
<1> DEFINE Goal == done \subseteq done'
<1> USE DEF consumerVars, workerVars, reaperVars, budget
<1>1. ASSUME NEW t \in Tasks, Silence(t) PROVE Goal
  BY <1>1 DEF Silence
<1>2. ASSUME NEW t \in Tasks, Expire(t) PROVE Goal
  BY <1>2 DEF Expire
<1>3. ASSUME NEW t \in Tasks, AdvisoryLost(t) PROVE Goal
  BY <1>3 DEF AdvisoryLost
<1>4. ASSUME NEW t \in Tasks, Claim(t) PROVE Goal
  BY <1>4 DEF Claim
<1>5. ASSUME NEW t \in Tasks, Sweep(t) PROVE Goal
  BY <1>5 DEF Sweep
<1>6. ASSUME NEW t \in Tasks, ReadOwner(t) PROVE Goal
  BY <1>6 DEF ReadOwner
<1>7. ASSUME NEW t \in Tasks, Confirm(t) PROVE Goal
  BY <1>7 DEF Confirm
<1>8. ASSUME NEW t \in Tasks, ApplyWorkerLost(t) PROVE Goal
  BY <1>8 DEF ApplyWorkerLost
<1>9. ASSUME NEW t \in Tasks, Forget(t) PROVE Goal
  BY <1>9 DEF Forget
<1>10. ASSUME NEW w \in Workers, NEW t \in Tasks, Fetch(w, t) PROVE Goal
  BY <1>10 DEF Fetch
<1>11. ASSUME NEW w \in Workers, NEW t \in Tasks, RejectInvalid(w, t) PROVE Goal
  BY <1>11 DEF RejectInvalid
<1>12. ASSUME NEW w \in Workers, NEW t \in Tasks, Join(w, t) PROVE Goal
  BY <1>12 DEF Join
<1>13. ASSUME NEW w \in Workers, NEW t \in Tasks, WorkFinished(w, t) PROVE Goal
  BY <1>13 DEF WorkFinished
<1>14. ASSUME NEW w \in Workers, NEW t \in Tasks, WorkTransient(w, t) PROVE Goal
  BY <1>14 DEF WorkTransient
<1>15. ASSUME NEW w \in Workers, NEW t \in Tasks, WorkDropped(w, t) PROVE Goal
  BY <1>15 DEF WorkDropped
<1>16. ASSUME NEW w \in Workers, NEW t \in Tasks, WorkAborted(w, t) PROVE Goal
  BY <1>16 DEF WorkAborted
<1>17. ASSUME NEW w \in Workers, NEW t \in Tasks, Publish(w, t) PROVE Goal
  BY <1>17 DEF Publish
<1>18. ASSUME NEW w \in Workers, NEW t \in Tasks, PublishRejected(w, t) PROVE Goal
  BY <1>18 DEF PublishRejected
<1>19. ASSUME NEW w \in Workers, NEW t \in Tasks, PublishTimedOut(w, t) PROVE Goal
  BY <1>19 DEF PublishTimedOut
<1>20. ASSUME NEW w \in Workers, NEW t \in Tasks, Ack(w, t) PROVE Goal
  BY <1>20 DEF Ack
<1>21. ASSUME NEW w \in Workers, ConnectionLost(w) PROVE Goal
  BY <1>21 DEF ConnectionLost
<1>22. ASSUME NEW w \in Workers, ConnectionTrusted(w) PROVE Goal
  BY <1>22 DEF ConnectionTrusted
<1>23. ASSUME NEW w \in Workers, Drain(w) PROVE Goal
  BY <1>23 DEF Drain
<1>24. ASSUME NEW w \in Workers, Exit(w) PROVE Goal
  BY <1>24 DEF Exit, Restarted
<1>25. ASSUME NEW w \in Workers, Crash(w) PROVE Goal
  BY <1>25 DEF Crash, Restarted
<1>26. CASE ReplaceConsumer
  BY <1>26 DEF ReplaceConsumer
<1>27. CASE ReaperRestart
  BY <1>27 DEF ReaperRestart
<1>28. CASE UNCHANGED vars
  BY <1>28 DEF vars
<1> QED BY <1>1, <1>2, <1>3, <1>4, <1>5, <1>6, <1>7, <1>8, <1>9, <1>10, <1>11, <1>12,
           <1>13, <1>14, <1>15, <1>16, <1>17, <1>18, <1>19, <1>20, <1>21, <1>22, <1>23,
           <1>24, <1>25, <1>26, <1>27, <1>28
        DEF Next, ReaperStep, WorkerStep

\* So an answered key stays answered.
LEMMA AnsweredStays ==
  ASSUME [Next]_vars, NEW u \in Tasks, Answered(u)
  PROVE  Answered(u)'
<1>1. done \subseteq done'
  BY DoneStays
<1> QED BY <1>1 DEF Answered

\* One lease that neither is rejected nor acknowledged anew.
LEMMA PlacedSettled ==
  ASSUME TypeOK, [Next]_vars, Settled, NEW w \in Workers, NEW t \in Tasks, NEW r \in LeaseType,
         Placed(w, t, r), reap' = reap, lost' = lost,
         r.phase = "rejecting" => lease[w][t].phase = "rejecting" \/ t \in Invalid,
         r.phase = "acking" => lease[w][t].phase = "acking" \/ Answered(t)'
  PROVE  Settled'
<1>1. \A u \in Tasks : Answered(u) => Answered(u)'
  BY AnsweredStays
<1> HIDE DEF Answered
<1> QED BY <1>1 DEF Settled, Placed

\* A step that leaves the leases alone, and applies only what is lost.
LEMMA UnchangedSettled ==
  ASSUME [Next]_vars, Settled, UNCHANGED lease, lost \subseteq lost',
         \A t \in Tasks : reap'[t] = "applied" => reap[t] = "applied" \/ t \in lost'
  PROVE  Settled'
<1>1. \A u \in Tasks : Answered(u) => Answered(u)'
  BY AnsweredStays
<1> HIDE DEF Answered
<1> QED BY <1>1 DEF Settled

\* A waiter is woken to acknowledge only what its owner published.
LEMMA SettleSettled ==
  ASSUME TypeOK, [Next]_vars, Settled, NEW w \in Workers, NEW t \in Tasks,
         NEW settled \in {"dropped", "nacked", "published"}, Settling(w, t, settled),
         settled = "published" => Answered(t), reap' = reap, lost' = lost
  PROVE  Settled'
<1>1. \A u \in Tasks : Answered(u) => Answered(u)'
  BY AnsweredStays
<1>2. \A u \in Tasks : Answered(t) /\ Corr[u] = Corr[t] => Answered(u)
  BY DEF Answered
<1>3. \A u \in Tasks : InPhase(w, u, Woken(settled)).phase = Woken(settled)
  BY PhaseTyped DEF Woken, Phases
<1>4. Woken(settled) # "rejecting" /\ (Woken(settled) = "acking" => settled = "published")
  BY DEF Woken
<1> SUFFICES ASSUME NEW v \in Workers, NEW u \in Tasks
             PROVE  /\ lease'[v][u].phase = "rejecting" => u \in Invalid
                    /\ lease'[v][u].phase = "acking" => Answered(u)'
  BY DEF Settled
<1>5. CASE v # w
  BY <1>1, <1>5 DEF Settling, Settled
<1>6. CASE v = w /\ u = t
  BY <1>6 DEF Settling, NoLease
<1>7. CASE v = w /\ u # t
  <2>1. lease'[w][u] = IF /\ lease[w][u].phase = "waiting"
                          /\ owners[w][Corr[t]] = t
                          /\ Corr[u] = Corr[t]
                       THEN InPhase(w, u, Woken(settled))
                       ELSE lease[w][u]
    BY <1>7 DEF Settling
  <2>2. CASE lease'[w][u] = lease[w][u]
    BY <1>1, <1>7, <2>2 DEF Settled
  <2>3. CASE lease'[w][u] = InPhase(w, u, Woken(settled)) /\ Corr[u] = Corr[t]
    BY <1>1, <1>2, <1>3, <1>4, <1>7, <2>3
  <2> QED BY <2>1, <2>2, <2>3
<1> QED BY <1>5, <1>6, <1>7

\* A new process has nothing to settle.
LEMMA RestartSettled ==
  ASSUME TypeOK, [Next]_vars, Settled, NEW w \in Workers, Restarted(w), reap' = reap, lost' = lost
  PROVE  Settled'
<1>1. \A u \in Tasks : Answered(u) => Answered(u)'
  BY AnsweredStays
<1>2. /\ \A u \in Tasks : lease'[w][u] = NoLease
      /\ \A v \in Workers : v # w => lease'[v] = lease[v]
  BY RestartEffect
<1> HIDE DEF Answered
<1> QED BY <1>1, <1>2 DEF Settled, NoLease

\* Every step keeps the causes of what is settled.
LEMMA SettledStep == TypeOK /\ Settled /\ [Next]_vars => Settled'
<1> SUFFICES ASSUME TypeOK, Settled, [Next]_vars PROVE Settled'
  OBVIOUS
<1> DEFINE Goal == Settled'
<1> LeasesTyped /\ reap \in [Tasks -> {"idle", "started", "waiting", "confirmed", "applied"}]
  BY DEF TypeOK, LeasesTyped
<1> USE LaneAssumption
<1> USE DEF consumerVars, workerVars, reaperVars, budget
<1>1. ASSUME NEW t \in Tasks, Silence(t) PROVE Goal
  <2>1. reap' = reap /\ lost' = lost
    BY <1>1 DEF Silence
  <2> QED BY <1>1, <2>1, SilenceEffect, PlacedSettled
<1>2. ASSUME NEW t \in Tasks, Expire(t) PROVE Goal
  BY <1>2, UnchangedSettled DEF Expire
<1>3. ASSUME NEW t \in Tasks, AdvisoryLost(t) PROVE Goal
  BY <1>3, UnchangedSettled DEF AdvisoryLost
<1>4. ASSUME NEW t \in Tasks, Claim(t) PROVE Goal
  BY <1>4, UnchangedSettled DEF Claim, Start
<1>5. ASSUME NEW t \in Tasks, Sweep(t) PROVE Goal
  BY <1>5, UnchangedSettled DEF Sweep, Start
<1>6. ASSUME NEW t \in Tasks, ReadOwner(t) PROVE Goal
  BY <1>6, UnchangedSettled DEF ReadOwner
<1>7. ASSUME NEW t \in Tasks, Confirm(t) PROVE Goal
  BY <1>7, UnchangedSettled DEF Confirm
<1>8. ASSUME NEW t \in Tasks, ApplyWorkerLost(t) PROVE Goal
  BY <1>8, UnchangedSettled DEF ApplyWorkerLost
<1>9. ASSUME NEW t \in Tasks, Forget(t) PROVE Goal
  BY <1>9, UnchangedSettled DEF Forget
<1>10. ASSUME NEW w \in Workers, NEW t \in Tasks, Fetch(w, t) PROVE Goal
  <2>1. reap' = reap /\ lost' = lost
    BY <1>10 DEF Fetch
  <2> QED BY <1>10, <2>1, FetchEffect, PlacedSettled
<1>11. ASSUME NEW w \in Workers, NEW t \in Tasks, RejectInvalid(w, t) PROVE Goal
  <2>1. reap' = reap /\ lost' = lost /\ NoLease.phase = "none"
    BY <1>11 DEF RejectInvalid, NoLease
  <2>2. NoLease \in LeaseType
    BY DEF LeaseType, NoLease, Phases
  <2> QED BY <1>11, <2>1, <2>2, RejectEffect, PlacedSettled
<1>12. ASSUME NEW w \in Workers, NEW t \in Tasks, Join(w, t) PROVE Goal
  <2>1. /\ InPhase(w, t, "working") \in LeaseType /\ InPhase(w, t, "working").phase = "working"
        /\ InPhase(w, t, "waiting") \in LeaseType /\ InPhase(w, t, "waiting").phase = "waiting"
    BY PhaseTyped DEF Phases
  <2>2. reap' = reap /\ lost' = lost
    BY <1>12 DEF Join
  <2> QED BY <1>12, <2>1, <2>2, JoinEffect, PlacedSettled
<1>13. ASSUME NEW w \in Workers, NEW t \in Tasks, WorkFinished(w, t) PROVE Goal
  <2>1. PICK status \in {"ok", "failed"} : ToPublish(w, t, status)
    BY <1>13 DEF WorkFinished
  <2>2. reap' = reap /\ lost' = lost
    BY <1>13 DEF WorkFinished
  <2> QED BY <2>1, <2>2, ToPublishEffect, PlacedSettled
<1>14. ASSUME NEW w \in Workers, NEW t \in Tasks, WorkTransient(w, t) PROVE Goal
  <2>0. reap' = reap /\ lost' = lost
    BY <1>14 DEF WorkTransient
  <2>1. CASE ReleaseTransient(w, t)
    BY <2>0, <2>1, ReleaseEffect, SettleEffect, SettleSettled
  <2>2. CASE ToPublish(w, t, "failed")
    BY <2>0, <2>2, ToPublishEffect, PlacedSettled
  <2> QED BY <1>14, <2>1, <2>2 DEF WorkTransient
<1>15. ASSUME NEW w \in Workers, NEW t \in Tasks, WorkDropped(w, t) PROVE Goal
  <2>1. reap' = reap /\ lost' = lost /\ Settle(w, t, "dropped")
    BY <1>15 DEF WorkDropped
  <2> QED BY <2>1, SettleEffect, SettleSettled
<1>16. ASSUME NEW w \in Workers, NEW t \in Tasks, WorkAborted(w, t) PROVE Goal
  <2>0. reap' = reap /\ lost' = lost
    BY <1>16 DEF WorkAborted
  <2>1. CASE ReleaseTransient(w, t)
    BY <2>0, <2>1, ReleaseEffect, SettleEffect, SettleSettled
  <2>2. CASE ToPublish(w, t, "failed")
    BY <2>0, <2>2, ToPublishEffect, PlacedSettled
  <2> QED BY <1>16, <2>1, <2>2 DEF WorkAborted
<1>17. ASSUME NEW w \in Workers, NEW t \in Tasks, Publish(w, t) PROVE Goal
  <2>1. InPhase(w, t, "acking") \in LeaseType /\ InPhase(w, t, "acking").phase = "acking"
    BY PhaseTyped DEF Phases
  <2>2. reap' = reap /\ lost' = lost /\ <<t, lease[w][t].status>> \in done'
    BY <1>17 DEF Publish
  <2>3. Answered(t)'
    BY <2>2 DEF Answered
  <2> QED BY <1>17, <2>1, <2>2, <2>3, PublishEffect, PlacedSettled, UnchangedSettled
<1>18. ASSUME NEW w \in Workers, NEW t \in Tasks, PublishRejected(w, t) PROVE Goal
  <2>1. reap' = reap /\ lost' = lost
    BY <1>18 DEF PublishRejected
  <2> QED BY <1>18, <2>1, CompactEffect, PlacedSettled
<1>19. ASSUME NEW w \in Workers, NEW t \in Tasks, PublishTimedOut(w, t) PROVE Goal
  <2>1. reap' = reap /\ lost' = lost /\ ReleaseTransient(w, t)
    BY <1>19 DEF PublishTimedOut
  <2> QED BY <2>1, ReleaseEffect, SettleEffect, SettleSettled
<1>20. ASSUME NEW w \in Workers, NEW t \in Tasks, Ack(w, t) PROVE Goal
  <2>1. reap' = reap /\ lost' = lost /\ Settle(w, t, "published") /\ Answered(t)
    BY <1>20 DEF Ack, Settled
  <2> QED BY <2>1, SettleEffect, SettleSettled
<1>21. ASSUME NEW w \in Workers, ConnectionLost(w) PROVE Goal
  BY <1>21, UnchangedSettled DEF ConnectionLost
<1>22. ASSUME NEW w \in Workers, ConnectionTrusted(w) PROVE Goal
  BY <1>22, UnchangedSettled DEF ConnectionTrusted
<1>23. ASSUME NEW w \in Workers, Drain(w) PROVE Goal
  BY <1>23, UnchangedSettled DEF Drain
<1>24. ASSUME NEW w \in Workers, Exit(w) PROVE Goal
  <2>1. reap' = reap /\ lost' = lost /\ Restarted(w)
    BY <1>24 DEF Exit, Restarted
  <2> QED BY <2>1, RestartSettled
<1>25. ASSUME NEW w \in Workers, Crash(w) PROVE Goal
  <2>1. reap' = reap /\ lost' = lost /\ Restarted(w)
    BY <1>25 DEF Crash, Restarted
  <2> QED BY <2>1, RestartSettled
<1>26. CASE ReplaceConsumer
  BY <1>26, UnchangedSettled DEF ReplaceConsumer
<1>27. CASE ReaperRestart
  BY <1>27, UnchangedSettled DEF ReaperRestart
<1>28. CASE UNCHANGED vars
  BY <1>28, UnchangedSettled DEF vars
<1> QED BY <1>1, <1>2, <1>3, <1>4, <1>5, <1>6, <1>7, <1>8, <1>9, <1>10, <1>11, <1>12,
           <1>13, <1>14, <1>15, <1>16, <1>17, <1>18, <1>19, <1>20, <1>21, <1>22, <1>23,
           <1>24, <1>25, <1>26, <1>27, <1>28
        DEF Next, ReaperStep, WorkerStep

\* Every step keeps the outcomes.
LEMMA OutcomeStep == TypeOK /\ Settled /\ OutcomeKept /\ [Next]_vars => OutcomeKept'
<1> SUFFICES ASSUME TypeOK, Settled, OutcomeKept, [Next]_vars PROVE OutcomeKept'
  OBVIOUS
<1> DEFINE Goal == OutcomeKept'
<1> USE LaneAssumption
<1> \A u \in Tasks : Answered(u) => Answered(u)'
  BY AnsweredStays
<1> USE DEF OutcomeKept, consumerVars, workerVars, reaperVars, budget
<1>1. ASSUME NEW t \in Tasks, Silence(t) PROVE Goal
  <2>1. queued' = queued /\ lost' = lost
    BY <1>1 DEF Silence
  <2> QED BY <2>1
<1>2. ASSUME NEW t \in Tasks, Expire(t) PROVE Goal
  <2>1. queued' = queued /\ lost' = lost
    BY <1>2 DEF Expire, GiveBack
  <2> QED BY <2>1
<1>3. ASSUME NEW t \in Tasks, AdvisoryLost(t) PROVE Goal
  <2>1. queued' = queued /\ lost' = lost
    BY <1>3 DEF AdvisoryLost
  <2> QED BY <2>1
<1>4. ASSUME NEW t \in Tasks, Claim(t) PROVE Goal
  <2>1. queued' = queued /\ lost' = lost
    BY <1>4 DEF Claim
  <2> QED BY <2>1
<1>5. ASSUME NEW t \in Tasks, Sweep(t) PROVE Goal
  <2>1. queued' = queued /\ lost' = lost
    BY <1>5 DEF Sweep
  <2> QED BY <2>1
<1>6. ASSUME NEW t \in Tasks, ReadOwner(t) PROVE Goal
  <2>1. queued' = queued /\ lost' = lost
    BY <1>6 DEF ReadOwner
  <2> QED BY <2>1
<1>7. ASSUME NEW t \in Tasks, Confirm(t) PROVE Goal
  <2>1. queued' = queued /\ lost' = lost
    BY <1>7 DEF Confirm
  <2> QED BY <2>1
<1>8. ASSUME NEW t \in Tasks, ApplyWorkerLost(t) PROVE Goal
  BY <1>8 DEF ApplyWorkerLost
<1>9. ASSUME NEW t \in Tasks, Forget(t) PROVE Goal
  <2>1. t \in lost
    BY <1>9 DEF Forget, Settled
  <2> QED BY <1>9, <2>1 DEF Forget, RemoveFromStream
<1>10. ASSUME NEW w \in Workers, NEW t \in Tasks, Fetch(w, t) PROVE Goal
  <2>1. queued' = queued /\ lost' = lost
    BY <1>10 DEF Fetch
  <2> QED BY <2>1
<1>11. ASSUME NEW w \in Workers, NEW t \in Tasks, RejectInvalid(w, t) PROVE Goal
  <2>1. t \in Invalid
    BY <1>11 DEF RejectInvalid, Settled
  <2>2. queued \ {t} \subseteq queued' /\ lost' = lost
    BY <1>11 DEF RejectInvalid, RemoveFromStream
  <2> QED BY <2>1, <2>2
<1>12. ASSUME NEW w \in Workers, NEW t \in Tasks, Join(w, t) PROVE Goal
  <2>1. queued' = queued /\ lost' = lost
    BY <1>12 DEF Join
  <2> QED BY <2>1
<1>13. ASSUME NEW w \in Workers, NEW t \in Tasks, WorkFinished(w, t) PROVE Goal
  <2>1. queued' = queued /\ lost' = lost
    BY <1>13 DEF WorkFinished, ToPublish
  <2> QED BY <2>1
<1>14. ASSUME NEW w \in Workers, NEW t \in Tasks, WorkTransient(w, t) PROVE Goal
  <2>1. queued' = queued /\ lost' = lost
    BY <1>14, ReleaseEffect DEF WorkTransient, GiveBack, ToPublish
  <2> QED BY <2>1
<1>15. ASSUME NEW w \in Workers, NEW t \in Tasks, WorkDropped(w, t) PROVE Goal
  <2>1. queued' = queued /\ lost' = lost
    BY <1>15 DEF WorkDropped
  <2> QED BY <2>1
<1>16. ASSUME NEW w \in Workers, NEW t \in Tasks, WorkAborted(w, t) PROVE Goal
  <2>1. queued' = queued /\ lost' = lost
    BY <1>16, ReleaseEffect DEF WorkAborted, GiveBack, ToPublish
  <2> QED BY <2>1
<1>17. ASSUME NEW w \in Workers, NEW t \in Tasks, Publish(w, t) PROVE Goal
  <2>1. queued' = queued /\ lost' = lost
    BY <1>17 DEF Publish
  <2> QED BY <2>1
<1>18. ASSUME NEW w \in Workers, NEW t \in Tasks, PublishRejected(w, t) PROVE Goal
  <2>1. queued' = queued /\ lost' = lost
    BY <1>18 DEF PublishRejected
  <2> QED BY <2>1
<1>19. ASSUME NEW w \in Workers, NEW t \in Tasks, PublishTimedOut(w, t) PROVE Goal
  <2>1. queued' = queued /\ lost' = lost
    BY <1>19, ReleaseEffect DEF PublishTimedOut, GiveBack
  <2> QED BY <2>1
<1>20. ASSUME NEW w \in Workers, NEW t \in Tasks, Ack(w, t) PROVE Goal
  <2>1. Answered(t)
    BY <1>20 DEF Ack, Settled
  <2>2. queued \ {t} \subseteq queued' /\ lost' = lost
    BY <1>20 DEF Ack, RemoveFromStream
  <2> QED BY <2>1, <2>2
<1>21. ASSUME NEW w \in Workers, ConnectionLost(w) PROVE Goal
  <2>1. queued' = queued /\ lost' = lost
    BY <1>21 DEF ConnectionLost
  <2> QED BY <2>1
<1>22. ASSUME NEW w \in Workers, ConnectionTrusted(w) PROVE Goal
  <2>1. queued' = queued /\ lost' = lost
    BY <1>22 DEF ConnectionTrusted
  <2> QED BY <2>1
<1>23. ASSUME NEW w \in Workers, Drain(w) PROVE Goal
  <2>1. queued' = queued /\ lost' = lost
    BY <1>23 DEF Drain
  <2> QED BY <2>1
<1>24. ASSUME NEW w \in Workers, Exit(w) PROVE Goal
  <2>1. queued' = queued /\ lost' = lost
    BY <1>24 DEF Exit, Restarted
  <2> QED BY <2>1
<1>25. ASSUME NEW w \in Workers, Crash(w) PROVE Goal
  <2>1. queued' = queued /\ lost' = lost
    BY <1>25 DEF Crash, Restarted
  <2> QED BY <2>1
<1>26. CASE ReplaceConsumer
  <2>1. queued' = queued /\ lost' = lost
    BY <1>26 DEF ReplaceConsumer
  <2> QED BY <2>1
<1>27. CASE ReaperRestart
  <2>1. queued' = queued /\ lost' = lost
    BY <1>27 DEF ReaperRestart
  <2> QED BY <2>1
<1>28. CASE UNCHANGED vars
  <2>1. queued' = queued /\ lost' = lost
    BY <1>28 DEF vars
  <2> QED BY <2>1
<1> QED BY <1>1, <1>2, <1>3, <1>4, <1>5, <1>6, <1>7, <1>8, <1>9, <1>10, <1>11, <1>12,
           <1>13, <1>14, <1>15, <1>16, <1>17, <1>18, <1>19, <1>20, <1>21, <1>22, <1>23,
           <1>24, <1>25, <1>26, <1>27, <1>28
        DEF Next, ReaperStep, WorkerStep

-----------------------------------------------------------------------------
\* The initial state satisfies the invariant.
LEMMA InitInv == Init => IInv
<1> SUFFICES ASSUME Init PROVE IInv
  OBVIOUS
<1>1. NoLease \in LeaseType /\ NoLease.phase = "none"
  BY LaneAssumption DEF NoLease, LeaseType, Phases
<1>2. TypeOK
  BY <1>1, LaneAssumption DEF Init, TypeOK
<1>3. \A w \in Workers, t \in Tasks : lease[w][t].phase = "none"
  BY <1>1 DEF Init
<1>4. Owned /\ Settled
  BY <1>3, LaneAssumption DEF Init, Owned, Settled
<1>5. SilentIsStale /\ FreshLeaseHolds
  BY <1>3 DEF SilentIsStale, FreshLeaseHolds
<1>6. HeldIsQueued /\ InOrder /\ Spent /\ OutcomeKept
  BY LaneAssumption DEF Init, HeldIsQueued, InOrder, Spent, OutcomeKept
<1> QED BY <1>2, <1>4, <1>5, <1>6 DEF IInv

\* Every step keeps the types.
LEMMA TypeStep == TypeOK /\ [Next]_vars => TypeOK'
<1> SUFFICES ASSUME TypeOK, [Next]_vars PROVE TypeOK'
  OBVIOUS
<1>1. LeasesTyped' /\ OthersTyped'
  BY LeaseTypeStep, OtherTypeStep
<1> QED BY <1>1 DEF TypeOK, LeasesTyped, OthersTyped, ConsumerTyped, BudgetTyped

\* Every step keeps the invariant.
LEMMA StepInv == IInv /\ [Next]_vars => IInv'
<1> SUFFICES ASSUME IInv, [Next]_vars PROVE IInv'
  OBVIOUS
<1> /\ TypeOK /\ Owned /\ SilentIsStale /\ FreshLeaseHolds /\ HeldIsQueued /\ InOrder
    /\ Spent /\ Settled /\ OutcomeKept
  BY DEF IInv
<1> QED BY TypeStep, OwnedStep, SilentStep, FreshStep, HeldStep, OrderStep, SpentStep,
           SettledStep, OutcomeStep DEF IInv

\* The inductive invariant of a lane: types, owners, stale leases, order of
\* deliveries, spent tasks and causes of what is settled.
THEOREM WorkInvariant == Spec => []IInv
BY InitInv, StepInv, PTL DEF Spec

\* A task leaves the work queue only after its result, or the report that the
\* worker is lost, for any number of tasks, workers, deliveries and faults
\* (_publish_and_ack, Inflight.join and AdvisoryReaper::settle).
THEOREM WorkOutcome == Spec => []OutcomeKept
<1>1. IInv => OutcomeKept
  BY DEF IInv
<1> QED BY <1>1, WorkInvariant, PTL

\* Without a replaced consumer a lease that does not call itself stale holds the
\* only delivery, and what the reaper is busy with is nobody's
\* (Lease.is_stale, release_transient, delivery_horizon and orphans_of).
THEOREM WorkDeliveries == Spec => []DeliveriesKept
<1>1. IInv => DeliveriesKept
  BY DEF IInv, Spent, DeliveriesKept, ReapedHasNoHolder
<1> QED BY <1>1, WorkInvariant, PTL

\* One task of a correlation key is at work in a worker, and nobody waits for an
\* owner that is gone (Inflight.join and _release).
THEOREM WorkOwners == Spec => []OneOwnerPerKey
<1>1. ASSUME IInv PROVE OneOwnerPerKey
  <2> SUFFICES ASSUME NEW w \in Workers, NEW t \in Tasks, lease[w][t].phase = "waiting"
               PROVE  lease[w][owners[w][Corr[t]]].phase # "none"
    BY <1>1 DEF IInv, Owned, OneOwnerPerKey
  <2>1. Corr[t] \in Keys /\ owners[w][Corr[t]] \notin {None, t}
    BY <1>1, LaneAssumption DEF IInv, Owned
  <2>2. owners[w][Corr[t]] \in Tasks
    BY <1>1, <2>1 DEF IInv, TypeOK
  <2> QED BY <1>1, <2>1, <2>2 DEF IInv, Owned
<1> QED BY <1>1, WorkInvariant, PTL

-----------------------------------------------------------------------------
(***************************************************************************)
(* The pool of engine processes.                                           *)
(***************************************************************************)

LEMMA PoolIds == /\ Pool!NoId \notin Pool!Clients /\ "none" \notin Engines
                 /\ Pool!NoId \in Pool!Ids /\ Pool!Clients \subseteq Pool!Ids
                 /\ \A k \in Pool!Ids : k # Pool!NoId => k \in Pool!Clients
                 /\ Urgent \subseteq Callers
BY PoolOK DEF Pool!EnginePoolAssumption, Pool!NoId, Pool!Clients, Pool!Ids

\* The rows of the pool's tables.
PoolRows ==
    /\ eng \in [Engines -> Pool!EngineRows] /\ cl \in [Pool!Clients -> Pool!ClientRows]
    /\ recycle \in [Engines -> Pool!Recyclings] /\ acq \in [Callers -> Pool!CallerRows]
    /\ house \in Pool!Inspections

LEMMA PoolFields ==
    ASSUME PoolRows
    PROVE  /\ \A e \in Engines : /\ eng[e].client \in Pool!Ids
                                 /\ recycle[e].old \in Pool!Ids /\ recycle[e].fresh \in Pool!Ids
           /\ \A k \in Pool!Clients : cl[k].of \in Engines \cup {"none"} /\ cl[k].up \in BOOLEAN
           /\ \A a \in Callers : acq[a].cl \in Pool!Ids
           /\ house.cl \in Pool!Ids
BY DEF PoolRows, Pool!EngineRows, Pool!ClientRows, Pool!Recyclings, Pool!CallerRows, Pool!Inspections

\* What a change of one client does to the table of clients.
Cmds == {"none", "boot", "ping", "load", "unload", "stop"}

LEMMA CmdChange ==
    ASSUME cl \in [Pool!Clients -> Pool!ClientRows], NEW k \in Pool!Clients, NEW c \in Cmds,
           cl' = [cl EXCEPT ![k].cmd = c]
    PROVE  /\ cl' \in [Pool!Clients -> Pool!ClientRows]
           /\ \A j \in Pool!Clients : j # k => cl'[j] = cl[j]
           /\ cl'[k].of = cl[k].of /\ cl'[k].up = cl[k].up /\ cl'[k].loaded = cl[k].loaded
           /\ cl'[k].planned = cl[k].planned /\ cl'[k].cmd = c
BY DEF Pool!ClientRows, Cmds

LEMMA LoadChange ==
    ASSUME cl \in [Pool!Clients -> Pool!ClientRows], NEW k \in Pool!Clients, NEW l \in BOOLEAN,
           \/ cl' = [cl EXCEPT ![k].loaded = l, ![k].cmd = "none"]
           \/ cl' = [cl EXCEPT ![k].cmd = "none", ![k].loaded = l]
    PROVE  /\ cl' \in [Pool!Clients -> Pool!ClientRows]
           /\ \A j \in Pool!Clients : j # k => cl'[j] = cl[j]
           /\ cl'[k].of = cl[k].of /\ cl'[k].up = cl[k].up /\ cl'[k].loaded = l
           /\ cl'[k].planned = cl[k].planned /\ cl'[k].cmd = "none"
<1>1. cl' = [cl EXCEPT ![k] = [cl[k] EXCEPT !.loaded = l, !.cmd = "none"]]
  <2>1. CASE cl' = [cl EXCEPT ![k].loaded = l, ![k].cmd = "none"]
    BY <2>1 DEF Pool!ClientRows
  <2>2. CASE cl' = [cl EXCEPT ![k].cmd = "none", ![k].loaded = l]
    BY <2>2 DEF Pool!ClientRows
  <2>3. QED
    BY <2>1, <2>2
<1>2. [cl[k] EXCEPT !.loaded = l, !.cmd = "none"] \in Pool!ClientRows
  <2>1. cl[k] \in Pool!ClientRows
    OBVIOUS
  <2>2. \A r \in Pool!ClientRows : [r EXCEPT !.loaded = l] \in Pool!ClientRows
    BY DEF Pool!ClientRows
  <2>3. \A r \in Pool!ClientRows : [r EXCEPT !.cmd = "none"] \in Pool!ClientRows
    BY DEF Pool!ClientRows
  <2>4. [[cl[k] EXCEPT !.loaded = l] EXCEPT !.cmd = "none"] \in Pool!ClientRows
    BY <2>1, <2>2, <2>3
  <2>5. QED
    BY <2>1, <2>4 DEF Pool!ClientRows
<1>3. QED
  BY <1>1, <1>2 DEF Pool!ClientRows

LEMMA KillChange ==
    ASSUME cl \in [Pool!Clients -> Pool!ClientRows], NEW k \in Pool!Clients, NEW p \in BOOLEAN,
           cl' = [cl EXCEPT ![k] = Pool!Ended(k, p)]
    PROVE  /\ cl' \in [Pool!Clients -> Pool!ClientRows]
           /\ \A j \in Pool!Clients : j # k => cl'[j] = cl[j]
           /\ cl'[k].of = cl[k].of /\ ~cl'[k].up /\ ~cl'[k].loaded
           /\ cl'[k].cmd = "none"
<1>1. /\ Pool!Ended(k, p) \in Pool!ClientRows /\ Pool!Ended(k, p).of = cl[k].of
      /\ ~Pool!Ended(k, p).up /\ ~Pool!Ended(k, p).loaded /\ Pool!Ended(k, p).cmd = "none"
  BY DEF Pool!ClientRows, Pool!Ended
<1>2. QED
  BY <1>1

LEMMA BootChange ==
    ASSUME cl \in [Pool!Clients -> Pool!ClientRows], NEW k \in Pool!Clients, NEW e \in Engines,
           cl' = [cl EXCEPT ![k] = Pool!Booting(e)]
    PROVE  /\ cl' \in [Pool!Clients -> Pool!ClientRows]
           /\ \A j \in Pool!Clients : j # k => cl'[j] = cl[j]
           /\ cl'[k].of = e /\ cl'[k].up /\ ~cl'[k].loaded
           /\ cl'[k].cmd = "boot"
<1>1. /\ Pool!Booting(e) \in Pool!ClientRows /\ Pool!Booting(e).of = e
      /\ Pool!Booting(e).up /\ ~Pool!Booting(e).loaded /\ Pool!Booting(e).cmd = "boot"
  BY DEF Pool!ClientRows, Pool!Booting
<1>2. QED
  BY <1>1

\* A step in which no process starts and no engine changes its client.
NoStart ==
    /\ cl' \in [Pool!Clients -> Pool!ClientRows]
    /\ \A k \in Pool!Clients : cl'[k].of = cl[k].of /\ (cl'[k].up => cl[k].up)
    /\ eng' \in [Engines -> Pool!EngineRows]
    /\ \A e \in Engines : eng'[e].client = eng[e].client
    /\ recycle' = recycle /\ stopping' = stopping

\* What the task of an engine may do in such a step.
Runs ==
    \A e \in Engines :
        \/ eng'[e].run = eng[e].run
        \/ eng[e].run = "up" /\ eng'[e].run = "await"
        \/ /\ eng'[e].run \in {"boot", "pause"}
           /\ eng[e].run \in {"boot", "pause"} \/ ~cl[eng[e].client].up

Fleet == Pool!Processes /\ (\A e \in Engines : Pool!Recycled(e)) /\ Pool!NoOrphans

LEMMA FleetFrame ==
    ASSUME PoolRows, Fleet, NoStart, Runs,
           \A k \in leased' : k \in leased \/ (k \in Pool!Clients /\ cl[k].of # "none")
    PROVE  Fleet'
<1>0. /\ eng \in [Engines -> Pool!EngineRows] /\ cl \in [Pool!Clients -> Pool!ClientRows]
      /\ recycle \in [Engines -> Pool!Recyclings]
  BY DEF PoolRows
<1>1. Pool!Processes'
  <2> USE <1>0
  <2>1. \A k \in Pool!Clients : cl'[k].up \/ k \in leased' => cl'[k].of # "none"
    BY DEF Fleet, Pool!Processes, Pool!Started, NoStart
  <2>2. \A e \in Engines : eng'[e].client # Pool!NoId => cl'[eng'[e].client].of = e
    BY PoolIds, PoolFields DEF Fleet, Pool!Processes, NoStart
  <2>3. \A e \in Engines :
           eng'[e].run \in {"boot", "pause"} => eng'[e].client = Pool!NoId \/ ~cl'[eng'[e].client].up
    BY PoolIds, PoolFields DEF Fleet, Pool!Processes, NoStart, Runs
  <2>4. \A e \in Engines : eng'[e].run \in {"up", "await"} => eng'[e].client # Pool!NoId
    BY PoolIds, PoolFields DEF Fleet, Pool!Processes, NoStart, Runs
  <2>5. stopping' = "stopped" => \A k \in Pool!Clients : ~cl'[k].up
    BY DEF Fleet, Pool!Processes, NoStart
  <2>6. QED
    BY <2>1, <2>2, <2>3, <2>4, <2>5 DEF Pool!Processes, Pool!Started, Pool!NoId, Pool!Clients
<1>2. ASSUME NEW e \in Engines PROVE Pool!Recycled(e)'
  <2>1. Pool!Recycled(e)
    BY DEF Fleet
  <2>2. recycle[e].old \in Pool!Ids /\ recycle[e].fresh \in Pool!Ids
    BY PoolFields
  <2>3. recycle'[e] = recycle[e] /\ stopping' = stopping /\ eng'[e].client = eng[e].client
    BY DEF NoStart
  <2>4. \A k \in Pool!Ids : k # Pool!NoId => cl'[k].of = cl[k].of /\ (cl'[k].up => cl[k].up)
    BY PoolIds DEF NoStart
  <2>5. recycle[e].pc \in {"start", "fresh", "retire", "stop"} => recycle[e].old # Pool!NoId
    BY <2>1 DEF Pool!Recycled
  <2>6. QED
    BY <2>1, <2>2, <2>3, <2>4, <2>5 DEF Pool!Recycled, Pool!NoRecycle, Pool!NoId
<1>3. Pool!NoOrphans'
  <2> SUFFICES ASSUME NEW k \in Pool!Clients, cl'[k].up
               PROVE  \/ k = eng'[cl'[k].of].client
                      \/ stopping' = "no" /\ k \in {recycle'[cl'[k].of].old, recycle'[cl'[k].of].fresh}
                      \/ stopping' = "yes"
    BY DEF Pool!NoOrphans, Pool!Clients
  <2>1. cl[k].up /\ cl'[k].of = cl[k].of
    BY DEF NoStart
  <2>2. cl[k].of \in Engines
    BY <1>0, <2>1, PoolFields DEF Fleet, Pool!Processes, Pool!Started
  <2>3. QED
    BY <2>1, <2>2 DEF Fleet, Pool!NoOrphans, NoStart
<1>4. QED
  BY <1>1, <1>2, <1>3 DEF Fleet

LEMMA LeasesFrame ==
    ASSUME Pool!Leases, UNCHANGED <<acq, leased, loose>>
    PROVE  Pool!Leases'
BY DEF Pool!Leases

LEMMA HandsOffFrame ==
    ASSUME Pool!HandsOff, stopping' = stopping,
           \A k \in leased' : \/ k \in leased /\ cl'[k].cmd \in {cl[k].cmd, "none"}
                              \/ cl'[k].cmd \in {"none", "load"}
    PROVE  Pool!HandsOff'
BY DEF Pool!HandsOff

LEMMA HousedFrame ==
    ASSUME PoolRows, Pool!Housed, NoStart,
           \/ house' = house
           \/ house'.cl = house.cl /\ house.pc # "sleep" /\ house'.pc # "sleep"
              /\ house.pc \in {"ping", "inspect", "unload"}
           \/ house'.cl = Pool!NoId /\ house'.pc = "sleep"
    PROVE  Pool!Housed'
<1>1. house.cl \in Pool!Ids
  BY PoolFields
<1>2. \A k \in Pool!Ids : k # Pool!NoId => cl'[k].of = cl[k].of
  BY PoolIds DEF NoStart
<1>3. recycle' = recycle /\ stopping' = stopping
  BY DEF NoStart
<1>4. QED
  BY <1>1, <1>2, <1>3 DEF Pool!Housed, Pool!Started, Pool!NoId

\* No client becomes idle but the one that is inspected.
NoneFreed ==
    /\ \A e \in Engines : eng'[e].client = eng[e].client /\ eng'[e].state = eng[e].state
    /\ \A a \in Callers : acq[a].pc = "call" => acq'[a] = acq[a]
    /\ \A k \in Pool!Clients :
         /\ cl'[k].up /\ cl'[k].cmd = "none" /\ k \notin leased' /\ k \notin retiring'
         /\ k # house'.cl
         => cl[k].up /\ cl[k].cmd = "none" /\ k \notin leased /\ k \notin retiring

LEMMA IdleFrame ==
    ASSUME PoolRows, NoneFreed
    PROVE  Pool!Idle' \subseteq Pool!Idle \cup {house'.cl}
<1> SUFFICES ASSUME NEW k \in Pool!Idle', k # house'.cl PROVE k \in Pool!Idle
  OBVIOUS
<1>1. /\ k \in Pool!Current' /\ Pool!IsIdle(k)'
  BY DEF Pool!Idle
<1>2. PICK e \in Engines : eng'[e].state = "ready" /\ k = eng'[e].client /\ k # Pool!NoId
  BY <1>1 DEF Pool!Current, Pool!NoId
<1>3. k = eng[e].client /\ eng[e].state = "ready"
  BY <1>2 DEF NoneFreed
<1>4. k \in Pool!Current
  BY <1>2, <1>3 DEF Pool!Current
<1>5. k \in Pool!Clients
  BY <1>2, <1>3, PoolIds, PoolFields
<1>6. cl'[k].up /\ cl'[k].cmd = "none" /\ k \notin leased' /\ k \notin retiring'
  BY <1>1 DEF Pool!IsIdle, Pool!Busy
<1>7. cl[k].up /\ cl[k].cmd = "none" /\ k \notin leased /\ k \notin retiring
  BY <1>5, <1>6 DEF NoneFreed
<1>8. ~Pool!Calling(k)
  <2> SUFFICES ASSUME NEW a \in Callers, acq[a] = [pc |-> "call", cl |-> k] PROVE FALSE
    BY DEF Pool!Calling
  <2>1. acq'[a] = acq[a]
    BY DEF NoneFreed
  <2>2. QED
    BY <1>1, <2>1 DEF Pool!IsIdle, Pool!Busy, Pool!Calling
<1>9. QED
  BY <1>4, <1>7, <1>8 DEF Pool!Idle, Pool!IsIdle, Pool!Busy

LEMMA ToldFrame ==
    ASSUME PoolRows, Pool!Told, NoneFreed, asleep' \subseteq asleep, stopping' = stopping,
           counted' = {} => counted = {}, house.cl \in {Pool!NoId, house'.cl}
    PROVE  Pool!Told'
<1> SUFFICES ASSUME NEW a \in asleep', stopping' # "yes"
             PROVE  /\ Pool!Open(a)' \subseteq {house'.cl}
                    /\ ~Pool!All("broken")' /\ ~Pool!All("stopped")'
  BY DEF Pool!Told
<1>1. /\ Pool!Open(a) \subseteq {house.cl} /\ ~Pool!All("broken") /\ ~Pool!All("stopped")
  BY DEF Pool!Told
<1>2. ~Pool!All("broken")' /\ ~Pool!All("stopped")'
  BY <1>1 DEF Pool!All, NoneFreed
<1>3. Pool!NoId \notin Pool!Idle
  BY DEF Pool!Idle, Pool!Current
<1>4. Pool!Idle' \subseteq Pool!Idle \cup {house'.cl}
  BY IdleFrame
<1>5. Pool!Open(a)' \subseteq {house'.cl}
  BY <1>1, <1>3, <1>4 DEF Pool!Open
<1>6. QED
  BY <1>2, <1>5

LEMMA ToldAll == ASSUME asleep' = {} PROVE Pool!Told'
BY DEF Pool!Told

LEMMA PoolParts ==
    ASSUME Pool!IndInv
    PROVE  /\ PoolRows /\ Fleet /\ Pool!TypeOK /\ Pool!Leases /\ Pool!HandsOff
           /\ Pool!PreemptsBulk /\ Pool!Housed /\ Pool!Told
BY DEF Pool!IndInv, Pool!TypeOK, PoolRows, Fleet

LEMMA PoolWhole ==
    ASSUME Pool!TypeOK', Pool!Leases', Pool!HandsOff', Pool!PreemptsBulk', Fleet', Pool!Housed',
           Pool!Told'
    PROVE  Pool!IndInv'
BY DEF Pool!IndInv, Fleet

\* The end of a process, by itself or by the supervisor.
LEMMA PoolKills ==
    ASSUME Pool!IndInv, NEW k \in Pool!Clients, NEW p \in BOOLEAN, Pool!Kill(k, p),
           mishaps' \in 0 .. PoolFaults, eng' \in [Engines -> Pool!EngineRows],
           \A e \in Engines : eng'[e].client = eng[e].client /\ eng'[e].state = eng[e].state, Runs,
           house' \in Pool!Inspections,
           house' = house \/ (/\ house'.cl = house.cl /\ house'.pc = "done"
                              /\ house.pc \in {"ping", "inspect", "unload"}),
           UNCHANGED <<deaths, leased, bulk, preempt, retiring, recycle, acq, counted, asleep, loose,
                       stopping, inspected>>
    PROVE  Pool!IndInv'
<1>0. /\ PoolRows /\ Fleet /\ Pool!TypeOK /\ Pool!Leases /\ Pool!HandsOff
      /\ Pool!PreemptsBulk /\ Pool!Housed /\ Pool!Told
  BY PoolParts
<1>1. /\ cl' \in [Pool!Clients -> Pool!ClientRows]
      /\ \A j \in Pool!Clients : j # k => cl'[j] = cl[j]
      /\ cl'[k].of = cl[k].of /\ ~cl'[k].up /\ ~cl'[k].loaded
      /\ cl'[k].cmd = "none"
  BY <1>0, KillChange DEF Pool!Kill, PoolRows
<1>2. Pool!TypeOK'
  BY <1>0, <1>1 DEF Pool!TypeOK, Pool!Clients
<1>3. NoStart
  BY <1>1 DEF NoStart
<1>4. Fleet'
  BY <1>0, <1>3, FleetFrame
<1>5. Pool!HandsOff'
  <2>1. \A j \in leased' : j \in leased /\ cl'[j].cmd \in {cl[j].cmd, "none"}
    BY <1>0, <1>1 DEF Pool!TypeOK
  <2>2. QED
    BY <1>0, <2>1, HandsOffFrame
<1>6. Pool!Housed'
  BY <1>0, <1>3, HousedFrame
<1>7. Pool!Told'
  <2>1. NoneFreed
    BY <1>1 DEF NoneFreed
  <2>2. QED
    BY <1>0, <2>1, ToldFrame
<1>8. Pool!Leases' /\ Pool!PreemptsBulk'
  BY <1>0, LeasesFrame DEF Pool!PreemptsBulk
<1>9. QED
  BY <1>2, <1>4, <1>5, <1>6, <1>7, <1>8, PoolWhole

LEMMA PoolCrash == ASSUME Pool!IndInv, NEW k \in Pool!Clients, Pool!Crash(k) PROVE Pool!IndInv'
<1>0. PoolRows /\ mishaps' \in 0 .. PoolFaults
  BY PoolParts, PoolOK DEF Pool!Crash, Pool!Fault, Pool!TypeOK, Pool!EnginePoolAssumption
<1>1. Runs
  BY DEF Runs, Pool!Crash
<1>2. QED
  BY <1>0, <1>1, PoolKills DEF Pool!Crash, PoolRows

LEMMA PoolLoadTimeout ==
    ASSUME Pool!IndInv, NEW k \in Pool!Clients, Pool!LoadTimeout(k) PROVE Pool!IndInv'
<1>0. PoolRows /\ mishaps' \in 0 .. PoolFaults
  BY PoolParts, PoolOK DEF Pool!LoadTimeout, Pool!Fault, Pool!TypeOK, Pool!EnginePoolAssumption
<1>1. Runs
  BY DEF Runs, Pool!LoadTimeout
<1>2. QED
  BY <1>0, <1>1, PoolKills DEF Pool!LoadTimeout, PoolRows

LEMMA PoolStopClient ==
    ASSUME Pool!IndInv, NEW k \in Pool!Clients, Pool!StopClient(k) PROVE Pool!IndInv'
<1>0. PoolRows /\ mishaps' \in 0 .. PoolFaults
  BY PoolParts DEF Pool!StopClient, Pool!TypeOK
<1>1. Runs
  BY DEF Runs, Pool!StopClient
<1>2. QED
  BY <1>0, <1>1, PoolKills DEF Pool!StopClient, PoolRows

LEMMA PoolCallDeadline ==
    ASSUME Pool!IndInv, NEW a \in Callers, Pool!CallDeadline(a) PROVE Pool!IndInv'
<1>0. PoolRows /\ mishaps' \in 0 .. PoolFaults
  BY PoolParts, PoolOK DEF Pool!CallDeadline, Pool!Fault, Pool!TypeOK, Pool!EnginePoolAssumption
<1>1. Runs
  BY DEF Runs, Pool!CallDeadline
<1>2. acq[a].cl \in Pool!Clients
  BY <1>0, PoolParts, PoolIds, PoolFields DEF Pool!CallDeadline, Pool!Leases
<1>3. QED
  BY <1>0, <1>1, <1>2, PoolKills DEF Pool!CallDeadline, PoolRows

LEMMA PoolBootFails ==
    ASSUME Pool!IndInv, NEW e \in Engines, Pool!BootFails(e) PROVE Pool!IndInv'
<1>0. PoolRows /\ mishaps' \in 0 .. PoolFaults
  BY PoolParts, PoolOK DEF Pool!BootFails, Pool!Fault, Pool!TypeOK, Pool!EnginePoolAssumption
<1>1. /\ eng' \in [Engines -> Pool!EngineRows]
      /\ \A d \in Engines : eng'[d].client = eng[d].client /\ eng'[d].state = eng[d].state
      /\ Runs
  BY <1>0 DEF PoolRows, Pool!BootFails, Pool!EngineRows, Runs
<1>2. eng[e].client \in Pool!Clients
  BY <1>0, PoolParts, PoolIds, PoolFields DEF Pool!BootFails, Fleet, Pool!Processes
<1>3. QED
  BY <1>0, <1>1, <1>2, PoolKills DEF Pool!BootFails, PoolRows

\* The housekeeper kills what does not answer it.
LEMMA PoolHouseKills ==
    ASSUME Pool!IndInv, Pool!PingTimeout \/ Pool!UnloadTimeout PROVE Pool!IndInv'
<1>a. Pool!Fault
  BY Zenon DEF Pool!PingTimeout, Pool!UnloadTimeout
<1>0. PoolRows /\ mishaps' \in 0 .. PoolFaults
  BY <1>a, PoolParts, PoolOK DEF Pool!Fault, Pool!TypeOK, Pool!EnginePoolAssumption
<1>1. Runs
  BY DEF Runs, Pool!PingTimeout, Pool!UnloadTimeout
<1>2. house.cl \in Pool!Clients
  BY <1>0, PoolParts, PoolIds, PoolFields DEF Pool!PingTimeout, Pool!UnloadTimeout, Pool!Housed
<1>3. /\ house' \in Pool!Inspections /\ house'.cl = house.cl /\ house'.pc = "done"
      /\ house.pc \in {"ping", "inspect", "unload"}
  BY <1>0 DEF PoolRows, Pool!PingTimeout, Pool!UnloadTimeout, Pool!Inspections
<1>4. QED
  BY <1>0, <1>1, <1>2, <1>3, PoolKills DEF Pool!PingTimeout, Pool!UnloadTimeout, PoolRows

\* An engine's task that starts no process.
LEMMA PoolTask ==
    ASSUME Pool!IndInv, cl' = cl, eng' \in [Engines -> Pool!EngineRows],
           deaths' \in [Engines -> Nat],
           \A e \in Engines : eng'[e].client = eng[e].client, Runs,
           asleep' = {} \/ (asleep' = asleep /\ \A e \in Engines : eng'[e].state = eng[e].state),
           UNCHANGED <<leased, bulk, preempt, retiring, recycle, acq, counted, loose, house,
                       stopping, inspected, mishaps>>
    PROVE  Pool!IndInv'
<1>0. /\ PoolRows /\ Fleet /\ Pool!TypeOK /\ Pool!Leases /\ Pool!HandsOff
      /\ Pool!PreemptsBulk /\ Pool!Housed /\ Pool!Told
  BY PoolParts
<1>2. Pool!TypeOK'
  BY <1>0 DEF Pool!TypeOK, Pool!Clients
<1>3. NoStart
  BY <1>0 DEF NoStart, PoolRows
<1>4. Fleet'
  BY <1>0, <1>3, FleetFrame
<1>5. Pool!HandsOff'
  BY <1>0 DEF Pool!HandsOff
<1>6. Pool!Housed'
  BY <1>0, <1>3, HousedFrame
<1>7. Pool!Told'
  <2>1. CASE asleep' = {}
    BY <2>1, ToldAll
  <2>2. CASE asleep' = asleep /\ \A e \in Engines : eng'[e].state = eng[e].state
    <3>1. NoneFreed
      BY <2>2 DEF NoneFreed
    <3>2. QED
      BY <1>0, <2>2, <3>1, ToldFrame
  <2>3. QED
    BY <2>1, <2>2
<1>8. Pool!Leases' /\ Pool!PreemptsBulk'
  BY <1>0, LeasesFrame DEF Pool!PreemptsBulk
<1>9. QED
  BY <1>2, <1>4, <1>5, <1>6, <1>7, <1>8, PoolWhole

LEMMA PoolAfterDeath ==
    ASSUME Pool!IndInv, NEW e \in Engines, Pool!AfterDeath(e) PROVE Pool!IndInv'
<1>0. PoolRows /\ deaths \in [Engines -> Nat]
  BY PoolParts DEF Pool!TypeOK
<1>1. \E s \in {"restarting", "broken"}, r \in {"boot", "pause"} :
        \/ eng' = [eng EXCEPT ![e].state = s, ![e].run = r]
        \/ eng' = [eng EXCEPT ![e].run = r, ![e].state = s]
  BY DEF Pool!AfterDeath
<1>2. PICK s \in {"restarting", "broken"}, r \in {"boot", "pause"} :
        \/ eng' = [eng EXCEPT ![e].state = s, ![e].run = r]
        \/ eng' = [eng EXCEPT ![e].run = r, ![e].state = s]
  BY <1>1
<1>3. /\ eng' \in [Engines -> Pool!EngineRows]
      /\ \A d \in Engines : eng'[d].client = eng[d].client
      /\ \A d \in Engines : d # e => eng'[d] = eng[d]
      /\ eng'[e].run \in {"boot", "pause"}
  <2>1. CASE eng' = [eng EXCEPT ![e].state = s, ![e].run = r]
    BY <1>0, <2>1 DEF PoolRows, Pool!EngineRows
  <2>2. CASE eng' = [eng EXCEPT ![e].run = r, ![e].state = s]
    BY <1>0, <2>2 DEF PoolRows, Pool!EngineRows
  <2>3. QED
    BY <1>2, <2>1, <2>2
<1>4. Runs
  BY <1>3 DEF Runs, Pool!AfterDeath, Pool!CurrentExit
<1>5. deaths' \in [Engines -> Nat]
  BY <1>0 DEF Pool!AfterDeath
<1>6. asleep' = {}
  BY DEF Pool!AfterDeath, Pool!Notify
<1>7. QED
  BY <1>3, <1>4, <1>5, <1>6, PoolTask DEF Pool!AfterDeath

LEMMA PoolPauseEnds ==
    ASSUME Pool!IndInv, NEW e \in Engines, Pool!PauseEnds(e) PROVE Pool!IndInv'
<1>0. PoolRows /\ deaths \in [Engines -> Nat]
  BY PoolParts DEF Pool!TypeOK
<1>1. /\ eng' \in [Engines -> Pool!EngineRows]
      /\ \A d \in Engines : eng'[d].client = eng[d].client /\ eng'[d].state = eng[d].state
  BY <1>0 DEF PoolRows, Pool!PauseEnds, Pool!EngineRows
<1>2. Runs
  BY <1>0 DEF PoolRows, Pool!PauseEnds, Pool!EngineRows, Runs
<1>3. deaths' \in [Engines -> Nat]
  BY <1>0 DEF Pool!PauseEnds
<1>4. QED
  BY <1>1, <1>2, <1>3, PoolTask DEF Pool!PauseEnds

LEMMA PoolBootDone ==
    ASSUME Pool!IndInv, NEW e \in Engines, Pool!BootDone(e) PROVE Pool!IndInv'
<1>0. /\ PoolRows /\ Fleet /\ Pool!TypeOK /\ Pool!Leases /\ Pool!HandsOff
      /\ Pool!PreemptsBulk /\ Pool!Housed /\ Pool!Told
  BY PoolParts
<1> DEFINE k == eng[e].client
<1>1. k \in Pool!Clients
  BY <1>0, PoolIds, PoolFields DEF Pool!BootDone, Fleet, Pool!Processes
<1>2. /\ eng' \in [Engines -> Pool!EngineRows]
      /\ \A d \in Engines : eng'[d].client = eng[d].client
      /\ Runs
  BY <1>0 DEF PoolRows, Pool!BootDone, Pool!EngineRows, Runs
<1>3. CASE cl[k].up
  <2>1. cl' = [cl EXCEPT ![k].loaded = TRUE, ![k].cmd = "none"] /\ asleep' = {}
    BY <1>3 DEF Pool!BootDone, Pool!Notify
  <2>2. /\ cl' \in [Pool!Clients -> Pool!ClientRows]
        /\ \A j \in Pool!Clients : j # k => cl'[j] = cl[j]
        /\ cl'[k].of = cl[k].of /\ cl'[k].up = cl[k].up /\ cl'[k].cmd = "none"
    BY <1>0, <1>1, <2>1, LoadChange DEF PoolRows
  <2>3. UNCHANGED <<deaths, leased, bulk, preempt, retiring, recycle, acq, counted, loose, house,
                    stopping, inspected, mishaps>>
    BY DEF Pool!BootDone
  <2>4. Pool!TypeOK'
    BY <1>0, <1>2, <1>3, <2>1, <2>2, <2>3 DEF Pool!TypeOK, Pool!Clients
  <2>5. NoStart
    BY <1>2, <2>2, <2>3 DEF NoStart
  <2>6. Fleet' /\ Pool!Housed'
    BY <1>0, <1>2, <2>3, <2>5, FleetFrame, HousedFrame
  <2>7. Pool!HandsOff'
    <3>1. \A j \in leased' : j \in leased /\ cl'[j].cmd \in {cl[j].cmd, "none"}
      BY <1>0, <2>2, <2>3 DEF Pool!TypeOK
    <3>2. QED
      BY <1>0, <2>3, <3>1, HandsOffFrame
  <2>8. Pool!Leases' /\ Pool!PreemptsBulk' /\ Pool!Told'
    BY <1>0, <2>1, <2>3, LeasesFrame, ToldAll DEF Pool!PreemptsBulk
  <2>9. QED
    BY <2>4, <2>6, <2>7, <2>8, PoolWhole
<1>4. CASE ~cl[k].up
  <2>1. \A d \in Engines : eng'[d].state = eng[d].state
    BY <1>0, <1>4 DEF PoolRows, Pool!BootDone, Pool!EngineRows
  <2>2. deaths' \in [Engines -> Nat]
    BY <1>0 DEF Pool!BootDone, Pool!TypeOK
  <2>3. QED
    BY <1>2, <1>4, <2>1, <2>2, PoolTask DEF Pool!BootDone
<1>5. QED
  BY <1>3, <1>4

LEMMA PoolBoot ==
    ASSUME Pool!IndInv, NEW e \in Engines, Pool!Boot(e) PROVE Pool!IndInv'
<1>0. /\ PoolRows /\ Fleet /\ Pool!TypeOK /\ Pool!Leases /\ Pool!HandsOff
      /\ Pool!PreemptsBulk /\ Pool!Housed /\ Pool!Told
  BY PoolParts
<1>1. PICK k \in Pool!Clients : /\ Pool!Unused(k) /\ cl' = [cl EXCEPT ![k] = Pool!Booting(e)]
                                /\ eng' = [eng EXCEPT ![e] = [client |-> k, state |-> "loading",
                                                              run |-> "up"]]
  BY DEF Pool!Boot, Pool!Clients
<1>2. /\ cl' \in [Pool!Clients -> Pool!ClientRows]
      /\ \A j \in Pool!Clients : j # k => cl'[j] = cl[j]
      /\ cl'[k].of = e /\ cl'[k].up /\ ~cl'[k].loaded /\ cl'[k].cmd = "boot"
  BY <1>0, <1>1, BootChange DEF PoolRows
<1>3. UNCHANGED <<deaths, leased, bulk, preempt, retiring, recycle, acq, counted, loose, house,
                  stopping, inspected, mishaps>>
  BY DEF Pool!Boot
<1>4. /\ eng' \in [Engines -> Pool!EngineRows]
      /\ \A d \in Engines : d # e => eng'[d] = eng[d]
      /\ eng'[e].client = k /\ eng'[e].run = "up"
  BY <1>0, <1>1, PoolIds DEF PoolRows, Pool!EngineRows
<1>5. asleep' = {} /\ stopping = "no" /\ eng[e].run = "boot"
  BY DEF Pool!Boot, Pool!Notify
<1>6. /\ cl[k].of = "none" /\ k \notin leased /\ ~cl[k].up /\ k # Pool!NoId
  BY <1>0, <1>1, PoolIds, PoolFields DEF Pool!Unused, Fleet, Pool!Processes, Pool!Started
<1>7. eng[e].client = Pool!NoId \/ ~cl[eng[e].client].up
  BY <1>0, <1>5 DEF Fleet, Pool!Processes
<1>8. \A j \in Pool!Ids : j # Pool!NoId /\ cl[j].of # "none" => cl'[j] = cl[j] /\ j # k
  BY <1>2, <1>6, PoolIds
<1>9. \A d \in Engines : d # "none"
  BY PoolIds
<1>10. Pool!TypeOK'
  BY <1>0, <1>2, <1>3, <1>4, <1>5 DEF Pool!TypeOK, Pool!Clients
<1>11. Pool!Processes'
  <2>1. \A j \in Pool!Clients : cl'[j].up \/ j \in leased' => cl'[j].of # "none"
    BY <1>0, <1>2, <1>3, <1>9 DEF Fleet, Pool!Processes, Pool!Started
  <2>2. \A d \in Engines : eng'[d].client # Pool!NoId => cl'[eng'[d].client].of = d
    <3>1. \A d \in Engines : eng[d].client # Pool!NoId => cl[eng[d].client].of = d
      BY <1>0 DEF Fleet, Pool!Processes
    <3>2. \A d \in Engines : eng[d].client \in Pool!Ids
      BY <1>0, PoolFields
    <3>3. QED
      BY <3>1, <3>2, <1>2, <1>4, <1>8, <1>9
  <2>3. \A d \in Engines :
           eng'[d].run \in {"boot", "pause"} => eng'[d].client = Pool!NoId \/ ~cl'[eng'[d].client].up
    <3>1. \A d \in Engines : eng[d].client # Pool!NoId => cl[eng[d].client].of # "none"
      BY <1>0, <1>9 DEF Fleet, Pool!Processes
    <3>2. \A d \in Engines : eng[d].client \in Pool!Ids
      BY <1>0, PoolFields
    <3>3. \A d \in Engines :
           eng[d].run \in {"boot", "pause"} => eng[d].client = Pool!NoId \/ ~cl[eng[d].client].up
      BY <1>0 DEF Fleet, Pool!Processes
    <3>4. QED
      BY <3>1, <3>2, <3>3, <1>4, <1>8
  <2>4. \A d \in Engines : eng'[d].run \in {"up", "await"} => eng'[d].client # Pool!NoId
    BY <1>0, <1>4, <1>6 DEF Fleet, Pool!Processes
  <2>5. stopping' # "stopped"
    BY <1>3, <1>5
  <2>6. QED
    BY <2>1, <2>2, <2>3, <2>4, <2>5 DEF Pool!Processes, Pool!Started, Pool!NoId, Pool!Clients
<1>12. ASSUME NEW d \in Engines PROVE Pool!Recycled(d)'
  <2>1. Pool!Recycled(d) /\ recycle'[d] = recycle[d] /\ stopping' = stopping
    BY <1>0, <1>3 DEF Fleet
  <2>2. recycle[d].old \in Pool!Ids /\ recycle[d].fresh \in Pool!Ids
    BY <1>0, PoolFields
  <2>3. recycle[d].old # Pool!NoId /\ recycle[d].pc # "none" => cl'[recycle[d].old] = cl[recycle[d].old]
    BY <2>1, <2>2, <1>8, <1>9 DEF Pool!Recycled
  <2>4. recycle[d].fresh # Pool!NoId => cl'[recycle[d].fresh] = cl[recycle[d].fresh]
    BY <2>1, <2>2, <1>8, <1>9 DEF Pool!Recycled
  <2>5. CASE d # e
    BY <2>1, <2>3, <2>4, <2>5, <1>4 DEF Pool!Recycled, Pool!NoRecycle, Pool!NoId
  <2>6. CASE d = e
    BY <2>1, <2>3, <2>4, <2>6, <1>7 DEF Pool!Recycled, Pool!NoRecycle, Pool!NoId
  <2>7. QED
    BY <2>5, <2>6
<1>13. Pool!NoOrphans'
  <2> SUFFICES ASSUME NEW j \in Pool!Clients, cl'[j].up
               PROVE  \/ j = eng'[cl'[j].of].client
                      \/ stopping' = "no" /\ j \in {recycle'[cl'[j].of].old, recycle'[cl'[j].of].fresh}
                      \/ stopping' = "yes"
    BY DEF Pool!NoOrphans, Pool!Clients
  <2>1. CASE j = k
    BY <2>1, <1>2, <1>4
  <2>2. CASE j # k
    <3>1. cl'[j] = cl[j] /\ cl[j].up
      BY <1>2, <2>2
    <3>2. cl[j].of \in Engines
      BY <1>0, <3>1, PoolFields DEF Fleet, Pool!Processes, Pool!Started
    <3>3. \/ j = eng[cl[j].of].client
          \/ stopping = "no" /\ j \in {recycle[cl[j].of].old, recycle[cl[j].of].fresh}
      BY <1>0, <1>5, <3>1 DEF Fleet, Pool!NoOrphans
    <3>4. j # Pool!NoId
      BY PoolIds
    <3>5. QED
      BY <1>3, <1>4, <1>7, <3>1, <3>2, <3>3, <3>4
  <2>3. QED
    BY <2>1, <2>2
<1>14. Pool!HandsOff'
  BY <1>0, <1>2, <1>3, <1>6 DEF Pool!HandsOff, Pool!TypeOK
<1>15. Pool!Housed'
  <2>1. house.cl \in Pool!Ids
    BY <1>0, PoolFields
  <2>2. house.pc \in {"ping", "inspect", "unload"} => cl'[house.cl] = cl[house.cl]
    BY <1>0, <1>8, <2>1 DEF Pool!Housed, Pool!Started
  <2>3. QED
    BY <1>0, <1>3, <2>2 DEF Pool!Housed, Pool!Started, Pool!NoId
<1>16. Pool!Leases' /\ Pool!PreemptsBulk' /\ Pool!Told'
  BY <1>0, <1>3, <1>5, LeasesFrame, ToldAll DEF Pool!PreemptsBulk
<1>17. QED
  BY <1>10, <1>11, <1>12, <1>13, <1>14, <1>15, <1>16, PoolWhole DEF Fleet

\* Leases are taken, kept, given back and left to the load.
LEMMA LeaseTaken ==
    ASSUME Pool!Leases, acq \in [Callers -> Pool!CallerRows], NEW a \in Callers, NEW k \in Pool!Clients,
           NEW p \in {"load", "held"}, acq[a].cl = Pool!NoId, k \notin leased, leased \subseteq Pool!Clients,
           leased' = leased \cup {k}, acq' = [acq EXCEPT ![a] = [pc |-> p, cl |-> k]], loose' = loose
    PROVE  Pool!Leases' /\ acq' \in [Callers -> Pool!CallerRows]
<1>1. k # Pool!NoId /\ k \in Pool!Ids
  BY PoolIds
<1>2. /\ acq' \in [Callers -> Pool!CallerRows]
      /\ acq'[a].cl = k /\ acq'[a].pc = p
      /\ \A b \in Callers : b # a => acq'[b] = acq[b]
  BY <1>1 DEF Pool!CallerRows
<1>3. \A b \in Callers : acq'[b].cl = Pool!NoId <=> acq'[b].pc \in {"new", "wait", "ended"}
  BY <1>1, <1>2 DEF Pool!Leases
<1>4. k \notin loose /\ \A b \in Callers : acq[b].cl # Pool!NoId => acq[b].cl # k
  BY DEF Pool!Leases
<1>5. \A b \in Callers : acq'[b].cl # Pool!NoId => acq'[b].cl \in leased' \ loose'
  BY <1>2, <1>4 DEF Pool!Leases
<1>6. \A b, c \in Callers : acq'[b].cl # Pool!NoId /\ acq'[b].cl = acq'[c].cl => b = c
  BY <1>1, <1>2, <1>4 DEF Pool!Leases
<1>7. loose' \subseteq leased'
  BY DEF Pool!Leases
<1>8. \A j \in leased' \ loose' : \E b \in Callers : acq'[b].cl = j
  <2> SUFFICES ASSUME NEW j \in leased' \ loose' PROVE \E b \in Callers : acq'[b].cl = j
    OBVIOUS
  <2>1. CASE j = k
    BY <2>1, <1>2
  <2>2. CASE j # k
    <3>1. PICK b \in Callers : acq[b].cl = j
      BY <2>2 DEF Pool!Leases
    <3>2. CASE b # a
      BY <3>1, <3>2, <1>2
    <3>3. CASE b = a
      <4>1. j = Pool!NoId
        BY <3>1, <3>3
      <4>2. QED
        BY <4>1, <2>2, PoolIds
    <3>4. QED
      BY <3>2, <3>3
  <2>3. QED
    BY <2>1, <2>2
<1>9. QED
  BY <1>2, <1>3, <1>5, <1>6, <1>7, <1>8 DEF Pool!Leases, Pool!NoId

LEMMA LeaseKept ==
    ASSUME Pool!Leases, acq \in [Callers -> Pool!CallerRows], NEW a \in Callers,
           NEW p \in {"new", "wait", "load", "held", "call", "ended"},
           acq' = [acq EXCEPT ![a].pc = p],
           acq[a].pc \in {"new", "wait", "ended"} <=> p \in {"new", "wait", "ended"},
           leased' = leased, loose' = loose
    PROVE  Pool!Leases' /\ acq' \in [Callers -> Pool!CallerRows]
<1>1. /\ acq' \in [Callers -> Pool!CallerRows]
      /\ acq'[a].cl = acq[a].cl /\ acq'[a].pc = p
      /\ \A b \in Callers : b # a => acq'[b] = acq[b]
  BY DEF Pool!CallerRows
<1>2. \A b \in Callers : acq'[b].cl = acq[b].cl
  BY <1>1
<1>3. QED
  BY <1>1, <1>2 DEF Pool!Leases, Pool!NoId

LEMMA LeaseGiven ==
    ASSUME Pool!Leases, acq \in [Callers -> Pool!CallerRows], NEW a \in Callers,
           NEW p \in {"wait", "ended"}, acq[a].cl # Pool!NoId,
           acq' = [acq EXCEPT ![a] = [pc |-> p, cl |-> Pool!NoId]],
           \/ leased' = leased \ {acq[a].cl} /\ loose' = loose
           \/ leased' = leased /\ loose' = loose \cup {acq[a].cl}
    PROVE  Pool!Leases' /\ acq' \in [Callers -> Pool!CallerRows]
<1>1. /\ acq' \in [Callers -> Pool!CallerRows]
      /\ acq'[a].cl = Pool!NoId /\ acq'[a].pc = p
      /\ \A b \in Callers : b # a => acq'[b] = acq[b]
  BY PoolIds DEF Pool!CallerRows
<1>2. \A b \in Callers : b # a /\ acq[b].cl # Pool!NoId => acq[b].cl # acq[a].cl
  BY DEF Pool!Leases
<1>3. acq[a].cl \in leased
  BY DEF Pool!Leases
<1>4. QED
  BY <1>1, <1>2, <1>3 DEF Pool!Leases, Pool!NoId

LEMMA LooseGiven ==
    ASSUME Pool!Leases, NEW K \in SUBSET loose, leased' = leased \ K, loose' = loose \ K, acq' = acq
    PROVE  Pool!Leases'
BY DEF Pool!Leases

\* A step of a caller leaves the engines, their recycling and the housekeeper alone.
CallerStep ==
    /\ UNCHANGED <<eng, deaths, retiring, recycle, house, stopping, inspected>>
    /\ mishaps' \in 0 .. PoolFaults
    /\ cl' \in [Pool!Clients -> Pool!ClientRows]
    /\ \A k \in Pool!Clients :
         /\ cl'[k].of = cl[k].of /\ (cl'[k].up <=> cl[k].up)
         /\ cl'[k].cmd # "none" \/ cl'[k].loaded => cl'[k].up
    /\ \A k \in leased' : /\ k \in leased \/ (k \in Pool!Clients /\ cl[k].up)
                          /\ \/ k \in leased /\ cl'[k].cmd \in {cl[k].cmd, "none"}
                             \/ cl'[k].cmd \in {"none", "load"}
    /\ bulk' \subseteq leased' /\ preempt' \subseteq bulk'
    /\ acq' \in [Callers -> Pool!CallerRows]
    /\ counted' \subseteq Urgent /\ asleep' \subseteq Callers

LEMMA PoolCaller ==
    ASSUME Pool!IndInv, CallerStep, Pool!Leases', Pool!Told'
    PROVE  Pool!IndInv'
<1>0. /\ PoolRows /\ Fleet /\ Pool!TypeOK /\ Pool!Leases /\ Pool!HandsOff
      /\ Pool!PreemptsBulk /\ Pool!Housed /\ Pool!Told
  BY PoolParts
<1>1. \A k \in leased' : k \in leased \/ (k \in Pool!Clients /\ cl[k].of # "none")
  BY <1>0 DEF Fleet, Pool!Processes, Pool!Started, CallerStep
<1>2. Pool!TypeOK'
  <2>1. leased' \subseteq Pool!Clients
    BY <1>0, <1>1 DEF Pool!TypeOK
  <2>2. QED
    BY <1>0, <2>1 DEF Pool!TypeOK, Pool!Clients, CallerStep
<1>3. NoStart /\ Runs
  BY <1>0 DEF NoStart, Runs, CallerStep, PoolRows
<1>4. Fleet' /\ Pool!Housed'
  BY <1>0, <1>1, <1>3, FleetFrame, HousedFrame DEF CallerStep
<1>5. Pool!HandsOff'
  BY <1>0, HandsOffFrame DEF CallerStep
<1>6. Pool!PreemptsBulk'
  BY DEF CallerStep, Pool!PreemptsBulk
<1>7. QED
  BY <1>2, <1>4, <1>5, <1>6, PoolWhole

\* What a caller may lease.
LEMMA IdleClients ==
    ASSUME PoolRows, NEW k \in Pool!Idle
    PROVE  /\ k \in Pool!Clients /\ cl[k].up /\ cl[k].cmd = "none"
           /\ k \notin leased /\ k \notin retiring
<1>1. k \in Pool!Clients
  BY PoolIds, PoolFields DEF Pool!Idle, Pool!Current
<1>2. QED
  BY <1>1 DEF Pool!Idle, Pool!IsIdle, Pool!Busy

LEMMA OpenIdle == ASSUME NEW a PROVE Pool!Open(a) \subseteq Pool!Idle
BY DEF Pool!Open

\* A caller that leaves the queue wakes the others if it was counted.
LEMMA Uncounted ==
    ASSUME NEW a, Pool!Uncount(a), Pool!Wakes(a), Pool!TypeOK
    PROVE  /\ counted' \subseteq Urgent /\ asleep' \subseteq Callers
           /\ asleep' = {} \/ (asleep' \subseteq asleep /\ counted' = counted)
BY DEF Pool!Uncount, Pool!Wakes, Pool!TypeOK

LEMMA PoolLease == ASSUME Pool!IndInv, NEW a \in Callers, Pool!Lease(a) PROVE Pool!IndInv'
<1>0. /\ PoolRows /\ Fleet /\ Pool!TypeOK /\ Pool!Leases /\ Pool!HandsOff
      /\ Pool!PreemptsBulk /\ Pool!Housed /\ Pool!Told
  BY PoolParts
<1>1. PICK k \in Pool!Open(a) :
        /\ leased' = leased \cup {k}
        /\ \/ /\ cl[k].loaded
              /\ acq' = [acq EXCEPT ![a] = [pc |-> "held", cl |-> k]]
              /\ Pool!NoteLease(a, k) /\ Pool!Uncount(a) /\ Pool!Wakes(a)
              /\ UNCHANGED cl
           \/ /\ acq' = [acq EXCEPT ![a] = [pc |-> "load", cl |-> k]]
              /\ cl' = [cl EXCEPT ![k].cmd = "load"]
              /\ UNCHANGED <<bulk, counted, asleep>>
  BY DEF Pool!Lease
<1>2. /\ k \in Pool!Clients /\ cl[k].up /\ cl[k].cmd = "none"
      /\ k \notin leased /\ k \notin retiring
  BY <1>0, OpenIdle, IdleClients
<1>3. acq[a].cl = Pool!NoId /\ acq[a].pc # "call"
  BY <1>0 DEF Pool!Lease, Pool!Leases
<1>4. Pool!Leases' /\ acq' \in [Callers -> Pool!CallerRows]
  <2>1. leased \subseteq Pool!Clients /\ loose' = loose
    BY <1>0 DEF Pool!TypeOK, Pool!Lease
  <2>2. QED
    BY <1>0, <1>1, <1>2, <1>3, <2>1, LeaseTaken DEF PoolRows
<1>5. /\ cl' \in [Pool!Clients -> Pool!ClientRows]
      /\ \A j \in Pool!Clients : j # k => cl'[j] = cl[j]
      /\ cl'[k].of = cl[k].of /\ cl'[k].up = cl[k].up
      /\ cl'[k].cmd \in {"none", "load"}
  BY <1>0, <1>1, <1>2, CmdChange DEF PoolRows, Cmds
<1>6. UNCHANGED <<eng, deaths, preempt, retiring, recycle, loose, house, stopping, inspected, mishaps>>
  BY DEF Pool!Lease
<1>7. /\ counted' \subseteq Urgent /\ asleep' \subseteq Callers
      /\ asleep' = {} \/ (asleep' \subseteq asleep /\ counted' = counted)
  BY <1>0, <1>1, Uncounted DEF Pool!TypeOK
<1>8. bulk \subseteq bulk' /\ bulk' \subseteq bulk \cup {k}
  BY <1>1 DEF Pool!NoteLease
<1>9. CallerStep
  <2>1. mishaps' \in 0 .. PoolFaults
    BY <1>0, <1>6 DEF Pool!TypeOK
  <2>2. \A j \in Pool!Clients :
         /\ cl'[j].of = cl[j].of /\ (cl'[j].up <=> cl[j].up)
         /\ cl'[j].cmd # "none" \/ cl'[j].loaded => cl'[j].up
    BY <1>0, <1>2, <1>5 DEF Pool!TypeOK
  <2>3. \A j \in leased' : /\ j \in leased \/ (j \in Pool!Clients /\ cl[j].up)
                           /\ \/ j \in leased /\ cl'[j].cmd \in {cl[j].cmd, "none"}
                              \/ cl'[j].cmd \in {"none", "load"}
    BY <1>0, <1>1, <1>2, <1>5 DEF Pool!TypeOK
  <2>4. bulk' \subseteq leased' /\ preempt' \subseteq bulk'
    BY <1>0, <1>1, <1>6, <1>8 DEF Pool!TypeOK, Pool!PreemptsBulk
  <2>5. QED
    BY <1>4, <1>5, <1>6, <1>7, <2>1, <2>2, <2>3, <2>4 DEF CallerStep
<1>10. Pool!Told'
  <2>1. \A b \in Callers : acq[b].pc = "call" => acq'[b] = acq[b]
    BY <1>0, <1>1, <1>3 DEF PoolRows
  <2>2. NoneFreed
    BY <2>1, <1>1, <1>5, <1>6 DEF NoneFreed
  <2>3. QED
    BY <1>0, <1>6, <1>7, <2>2, ToldFrame, ToldAll
<1>11. QED
  BY <1>4, <1>9, <1>10, PoolCaller

\* A step of a caller that changes no client.
LEMMA PoolQuiet ==
    ASSUME Pool!IndInv, NEW a \in Callers, acq[a].pc # "call",
           UNCHANGED <<eng, deaths, cl, leased, bulk, retiring, recycle, house, stopping, inspected>>,
           mishaps' \in 0 .. PoolFaults, preempt' \subseteq bulk,
           \A b \in Callers : b # a => acq'[b] = acq[b],
           Pool!Leases' /\ acq' \in [Callers -> Pool!CallerRows],
           counted' \subseteq Urgent /\ asleep' \subseteq Callers
    PROVE  /\ NoneFreed
           /\ Pool!Told' => Pool!IndInv'
<1>0. /\ PoolRows /\ Fleet /\ Pool!TypeOK /\ Pool!Leases /\ Pool!HandsOff
      /\ Pool!PreemptsBulk /\ Pool!Housed /\ Pool!Told
  BY PoolParts
<1>1. CallerStep
  <2>1. \A k \in Pool!Clients : cl[k].cmd # "none" \/ cl[k].loaded => cl[k].up
    BY <1>0 DEF Pool!TypeOK
  <2>2. bulk \subseteq leased
    BY <1>0 DEF Pool!TypeOK
  <2>3. QED
    BY <1>0, <2>1, <2>2 DEF CallerStep, PoolRows
<1>2. NoneFreed
  BY DEF NoneFreed
<1>3. QED
  BY <1>1, <1>2, PoolCaller

LEMMA PoolWait == ASSUME Pool!IndInv, NEW a \in Callers, Pool!Wait(a) PROVE Pool!IndInv'
<1>0. /\ PoolRows /\ Fleet /\ Pool!TypeOK /\ Pool!Leases /\ Pool!HandsOff
      /\ Pool!PreemptsBulk /\ Pool!Housed /\ Pool!Told
  BY PoolParts
<1>1. UNCHANGED <<eng, deaths, cl, leased, bulk, retiring, recycle, loose, house, stopping,
                  inspected, mishaps>>
  BY DEF Pool!Wait
<1>2. acq[a].pc \in {"new", "wait"} /\ Pool!Open(a) = {}
  BY DEF Pool!Wait
<1>3. mishaps' \in 0 .. PoolFaults
  BY <1>0, <1>1 DEF Pool!TypeOK
<1>4. PICK p \in {"wait", "ended"} : acq' = [acq EXCEPT ![a].pc = p]
  BY DEF Pool!Wait
<1>5. /\ \A b \in Callers : b # a => acq'[b] = acq[b]
      /\ Pool!Leases' /\ acq' \in [Callers -> Pool!CallerRows]
  BY <1>0, <1>1, <1>2, <1>4, LeaseKept DEF PoolRows
<1>6. preempt' \subseteq bulk
  BY <1>0 DEF Pool!Wait, Pool!PreemptsBulk
<1>7. CASE Pool!All("broken") \/ Pool!All("stopped")
  <2>1. /\ counted' \subseteq Urgent /\ asleep' \subseteq Callers
        /\ asleep' = {} \/ (asleep' \subseteq asleep /\ counted' = counted)
    BY <1>0, <1>7, Uncounted DEF Pool!Wait
  <2>2. NoneFreed /\ (Pool!Told' => Pool!IndInv')
    BY <1>1, <1>2, <1>3, <1>5, <1>6, <2>1, PoolQuiet
  <2>3. QED
    BY <1>0, <1>1, <2>1, <2>2, ToldFrame, ToldAll
<1>8. CASE ~(Pool!All("broken") \/ Pool!All("stopped"))
  <2>1. /\ asleep' = asleep \cup {a}
        /\ counted' = IF a \in Urgent THEN counted \cup {a} ELSE counted
    BY <1>8 DEF Pool!Wait
  <2>2. counted' \subseteq Urgent /\ asleep' \subseteq Callers
    BY <1>0, <2>1 DEF Pool!TypeOK
  <2>3. NoneFreed /\ (Pool!Told' => Pool!IndInv')
    BY <1>1, <1>2, <1>3, <1>5, <1>6, <2>2, PoolQuiet
  <2>4. Pool!Idle' \subseteq Pool!Idle \cup {house.cl}
    BY <1>0, <1>1, <2>3, IdleFrame
  <2>5. /\ ~Pool!All("broken")' /\ ~Pool!All("stopped")'
    BY <1>1, <1>8 DEF Pool!All
  <2>6. Pool!Open(a)' \subseteq {house'.cl}
    BY <1>1, <1>2, <2>1, <2>4 DEF Pool!Open
  <2>7. ASSUME NEW b \in asleep, stopping # "yes" PROVE Pool!Open(b)' \subseteq {house'.cl}
    <3>1. Pool!Open(b) \subseteq {house.cl}
      BY <1>0, <2>7 DEF Pool!Told
    <3>2. QED
      BY <1>1, <2>1, <2>4, <3>1 DEF Pool!Open
  <2>8. Pool!Told'
    BY <1>1, <2>1, <2>5, <2>6, <2>7 DEF Pool!Told
  <2>9. QED
    BY <2>3, <2>8
<1>9. QED
  BY <1>7, <1>8

LEMMA PoolLate == ASSUME Pool!IndInv, NEW a \in Callers, Pool!Late(a) PROVE Pool!IndInv'
<1>0. /\ PoolRows /\ Fleet /\ Pool!TypeOK /\ Pool!Leases /\ Pool!HandsOff
      /\ Pool!PreemptsBulk /\ Pool!Housed /\ Pool!Told
  BY PoolParts
<1>1. UNCHANGED <<eng, deaths, cl, leased, bulk, preempt, retiring, recycle, loose, house, stopping,
                  inspected, mishaps>>
  BY DEF Pool!Late
<1>2. acq[a].pc \in {"new", "wait"} /\ acq' = [acq EXCEPT ![a].pc = "ended"]
  BY DEF Pool!Late
<1>3. mishaps' \in 0 .. PoolFaults /\ preempt' \subseteq bulk
  BY <1>0, <1>1 DEF Pool!TypeOK, Pool!PreemptsBulk
<1>4. /\ \A b \in Callers : b # a => acq'[b] = acq[b]
      /\ Pool!Leases' /\ acq' \in [Callers -> Pool!CallerRows]
  BY <1>0, <1>1, <1>2, LeaseKept DEF PoolRows
<1>5. /\ counted' \subseteq Urgent /\ asleep' \subseteq Callers
      /\ asleep' = {} \/ (asleep' \subseteq asleep /\ counted' = counted)
  BY <1>0, Uncounted DEF Pool!Late
<1>6. NoneFreed /\ (Pool!Told' => Pool!IndInv')
  BY <1>1, <1>2, <1>3, <1>4, <1>5, PoolQuiet
<1>7. QED
  BY <1>0, <1>1, <1>5, <1>6, ToldFrame, ToldAll

LEMMA PoolLoadLate == ASSUME Pool!IndInv, NEW a \in Callers, Pool!LoadLate(a) PROVE Pool!IndInv'
<1>0. /\ PoolRows /\ Fleet /\ Pool!TypeOK /\ Pool!Leases /\ Pool!HandsOff
      /\ Pool!PreemptsBulk /\ Pool!Housed /\ Pool!Told
  BY PoolParts
<1>1. UNCHANGED <<eng, deaths, cl, leased, bulk, preempt, retiring, recycle, house, stopping, inspected>>
  BY DEF Pool!LoadLate
<1>2. /\ acq[a].pc = "load" /\ acq' = [acq EXCEPT ![a] = [pc |-> "ended", cl |-> Pool!NoId]]
      /\ loose' = loose \cup {acq[a].cl}
  BY DEF Pool!LoadLate
<1>3. mishaps' \in 0 .. PoolFaults /\ preempt' \subseteq bulk
  BY <1>0, <1>1, PoolOK DEF Pool!LoadLate, Pool!Fault, Pool!TypeOK, Pool!PreemptsBulk, Pool!EnginePoolAssumption
<1>4. acq[a].cl # Pool!NoId
  BY <1>0, <1>2 DEF Pool!Leases
<1>5. /\ \A b \in Callers : b # a => acq'[b] = acq[b]
      /\ Pool!Leases' /\ acq' \in [Callers -> Pool!CallerRows]
  BY <1>0, <1>1, <1>2, <1>4, LeaseGiven DEF PoolRows
<1>6. /\ counted' \subseteq Urgent /\ asleep' \subseteq Callers
      /\ asleep' = {} \/ (asleep' \subseteq asleep /\ counted' = counted)
  BY <1>0, Uncounted DEF Pool!LoadLate
<1>7. NoneFreed /\ (Pool!Told' => Pool!IndInv')
  BY <1>1, <1>2, <1>3, <1>5, <1>6, PoolQuiet
<1>8. QED
  BY <1>0, <1>1, <1>6, <1>7, ToldFrame, ToldAll

\* What a release leaves.
LEMMA Released ==
    ASSUME Pool!IndInv, NEW k, Pool!Release(k)
    PROVE  /\ leased' \subseteq leased /\ bulk' \subseteq leased' /\ preempt' \subseteq bulk'
           /\ asleep' = {}
BY PoolParts DEF Pool!Release, Pool!Notify, Pool!TypeOK, Pool!PreemptsBulk

\* A caller is done with its client, or has none any more.
LEMMA PoolGivesBack ==
    ASSUME Pool!IndInv, NEW a \in Callers, NEW p \in {"wait", "ended"},
           acq[a].pc \in {"load", "held", "call"},
           acq' = [acq EXCEPT ![a] = [pc |-> p, cl |-> Pool!NoId]],
           \/ cl' = cl
           \/ cl[acq[a].cl].up /\ cl' = [cl EXCEPT ![acq[a].cl].loaded = TRUE, ![acq[a].cl].cmd = "none"],
           Pool!Release(acq[a].cl), counted' \subseteq counted,
           UNCHANGED <<eng, deaths, retiring, recycle, loose, house, stopping, inspected, mishaps>>
    PROVE  Pool!IndInv'
<1>0. /\ PoolRows /\ Fleet /\ Pool!TypeOK /\ Pool!Leases /\ Pool!HandsOff
      /\ Pool!PreemptsBulk /\ Pool!Housed /\ Pool!Told
  BY PoolParts
<1> DEFINE k == acq[a].cl
<1>1. k # Pool!NoId /\ k \in Pool!Clients
  BY <1>0, PoolIds, PoolFields DEF Pool!Leases
<1>2. Pool!Leases' /\ acq' \in [Callers -> Pool!CallerRows]
  BY <1>0, <1>1, LeaseGiven DEF PoolRows, Pool!Release
<1>3. /\ cl' \in [Pool!Clients -> Pool!ClientRows]
      /\ \A j \in Pool!Clients : j # k => cl'[j] = cl[j]
      /\ cl'[k].of = cl[k].of /\ cl'[k].up = cl[k].up
      /\ cl'[k].cmd \in {cl[k].cmd, "none"}
      /\ cl' = cl \/ cl[k].up
  BY <1>0, <1>1, LoadChange DEF PoolRows
<1>4. /\ leased' \subseteq leased /\ bulk' \subseteq leased' /\ preempt' \subseteq bulk'
      /\ asleep' = {}
  BY Released
<1>5. CallerStep
  <2>1. mishaps' \in 0 .. PoolFaults /\ counted' \subseteq Urgent
    BY <1>0 DEF Pool!TypeOK
  <2>2. \A j \in Pool!Clients :
         /\ cl'[j].of = cl[j].of /\ (cl'[j].up <=> cl[j].up)
         /\ cl'[j].cmd # "none" \/ cl'[j].loaded => cl'[j].up
    BY <1>0, <1>3 DEF Pool!TypeOK
  <2>3. \A j \in leased' : j \in leased /\ cl'[j].cmd \in {cl[j].cmd, "none"}
    BY <1>0, <1>3, <1>4 DEF Pool!TypeOK
  <2>4. QED
    BY <1>2, <1>3, <1>4, <2>1, <2>2, <2>3 DEF CallerStep
<1>6. QED
  BY <1>2, <1>4, <1>5, PoolCaller, ToldAll

LEMMA PoolLoadedLate ==
    ASSUME Pool!IndInv, NEW a \in Callers, Pool!LoadedLate(a) PROVE Pool!IndInv'
BY PoolGivesBack DEF Pool!LoadedLate, Pool!Uncount

LEMMA PoolCallEnds ==
    ASSUME Pool!IndInv, NEW a \in Callers, Pool!CallEnds(a) PROVE Pool!IndInv'
BY PoolGivesBack DEF Pool!CallEnds

LEMMA PoolCall == ASSUME Pool!IndInv, NEW a \in Callers, Pool!Call(a) PROVE Pool!IndInv'
<1>0. /\ PoolRows /\ Fleet /\ Pool!TypeOK /\ Pool!Leases /\ Pool!HandsOff
      /\ Pool!PreemptsBulk /\ Pool!Housed /\ Pool!Told
  BY PoolParts
<1>1. CASE ~cl[acq[a].cl].up
  BY <1>1, PoolGivesBack DEF Pool!Call
<1>2. CASE cl[acq[a].cl].up
  <2>1. /\ UNCHANGED <<eng, deaths, cl, leased, bulk, preempt, retiring, recycle, counted, asleep,
                       loose, house, stopping, inspected, mishaps>>
        /\ acq[a].pc = "held" /\ acq' = [acq EXCEPT ![a].pc = "call"]
    BY <1>2 DEF Pool!Call
  <2>2. mishaps' \in 0 .. PoolFaults /\ preempt' \subseteq bulk
        /\ counted' \subseteq Urgent /\ asleep' \subseteq Callers
    BY <1>0, <2>1 DEF Pool!TypeOK, Pool!PreemptsBulk
  <2>3. /\ \A b \in Callers : b # a => acq'[b] = acq[b]
        /\ Pool!Leases' /\ acq' \in [Callers -> Pool!CallerRows]
    BY <1>0, <2>1, LeaseKept DEF PoolRows
  <2>4. NoneFreed /\ (Pool!Told' => Pool!IndInv')
    BY <2>1, <2>2, <2>3, PoolQuiet
  <2>5. QED
    BY <1>0, <2>1, <2>4, ToldFrame
<1>3. QED
  BY <1>1, <1>2

LEMMA PoolLoaded == ASSUME Pool!IndInv, NEW a \in Callers, Pool!Loaded(a) PROVE Pool!IndInv'
<1>0. /\ PoolRows /\ Fleet /\ Pool!TypeOK /\ Pool!Leases /\ Pool!HandsOff
      /\ Pool!PreemptsBulk /\ Pool!Housed /\ Pool!Told
  BY PoolParts
<1> DEFINE k == acq[a].cl
<1>1. CASE ~cl[k].up
  BY <1>1, PoolGivesBack DEF Pool!Loaded
<1>2. CASE cl[k].up
  <2>1. /\ UNCHANGED <<eng, deaths, leased, preempt, retiring, recycle, loose, house, stopping,
                       inspected, mishaps>>
        /\ acq[a].pc = "load" /\ acq' = [acq EXCEPT ![a].pc = "held"]
        /\ cl' = [cl EXCEPT ![k].loaded = TRUE, ![k].cmd = "none"]
        /\ Pool!NoteLease(a, k) /\ Pool!Uncount(a) /\ asleep' = {}
    BY <1>2 DEF Pool!Loaded, Pool!Notify
  <2>2. k \in Pool!Clients /\ k \in leased
    BY <1>0, <2>1, PoolIds, PoolFields DEF Pool!Leases
  <2>3. Pool!Leases' /\ acq' \in [Callers -> Pool!CallerRows]
    BY <1>0, <2>1, LeaseKept DEF PoolRows
  <2>4. /\ cl' \in [Pool!Clients -> Pool!ClientRows]
        /\ \A j \in Pool!Clients : j # k => cl'[j] = cl[j]
        /\ cl'[k].of = cl[k].of /\ cl'[k].up = cl[k].up /\ cl'[k].cmd = "none"
    BY <1>0, <2>1, <2>2, LoadChange DEF PoolRows
  <2>5. /\ bulk' \subseteq leased' /\ preempt' \subseteq bulk'
    BY <1>0, <2>1, <2>2 DEF Pool!NoteLease, Pool!TypeOK, Pool!PreemptsBulk
  <2>6. CallerStep
    <3>1. mishaps' \in 0 .. PoolFaults /\ counted' \subseteq Urgent
      BY <1>0, <2>1 DEF Pool!TypeOK, Pool!Uncount
    <3>2. \A j \in Pool!Clients :
           /\ cl'[j].of = cl[j].of /\ (cl'[j].up <=> cl[j].up)
           /\ cl'[j].cmd # "none" \/ cl'[j].loaded => cl'[j].up
      BY <1>0, <1>2, <2>4 DEF Pool!TypeOK
    <3>3. \A j \in leased' : j \in leased /\ cl'[j].cmd \in {cl[j].cmd, "none"}
      BY <1>0, <2>1, <2>4 DEF Pool!TypeOK
    <3>4. QED
      BY <2>1, <2>3, <2>4, <2>5, <3>1, <3>2, <3>3 DEF CallerStep
  <2>7. QED
    BY <2>1, <2>3, <2>6, PoolCaller, ToldAll
<1>3. QED
  BY <1>1, <1>2

LEMMA PoolLooseDone ==
    ASSUME Pool!IndInv, NEW k \in Pool!Clients, Pool!LooseDone(k) PROVE Pool!IndInv'
<1>0. /\ PoolRows /\ Fleet /\ Pool!TypeOK /\ Pool!Leases /\ Pool!HandsOff
      /\ Pool!PreemptsBulk /\ Pool!Housed /\ Pool!Told
  BY PoolParts
<1>1. /\ UNCHANGED <<eng, deaths, retiring, recycle, acq, counted, house, stopping, inspected, mishaps>>
      /\ k \in loose /\ loose' = loose \ {k} /\ leased' = leased \ {k} /\ Pool!Release(k)
      /\ cl' = cl \/ (cl[k].up /\ cl' = [cl EXCEPT ![k].loaded = TRUE, ![k].cmd = "none"])
  BY DEF Pool!LooseDone, Pool!Release
<1>2. Pool!Leases'
  BY <1>0, <1>1, LooseGiven
<1>3. /\ cl' \in [Pool!Clients -> Pool!ClientRows]
      /\ \A j \in Pool!Clients : j # k => cl'[j] = cl[j]
      /\ cl'[k].of = cl[k].of /\ cl'[k].up = cl[k].up
      /\ cl'[k].cmd \in {cl[k].cmd, "none"}
      /\ cl' = cl \/ cl[k].up
  BY <1>0, <1>1, LoadChange DEF PoolRows
<1>4. /\ leased' \subseteq leased /\ bulk' \subseteq leased' /\ preempt' \subseteq bulk'
      /\ asleep' = {}
  BY <1>1, Released
<1>5. CallerStep
  <2>1. mishaps' \in 0 .. PoolFaults /\ counted' \subseteq Urgent
    BY <1>0, <1>1 DEF Pool!TypeOK
  <2>2. \A j \in Pool!Clients :
         /\ cl'[j].of = cl[j].of /\ (cl'[j].up <=> cl[j].up)
         /\ cl'[j].cmd # "none" \/ cl'[j].loaded => cl'[j].up
    BY <1>0, <1>3 DEF Pool!TypeOK
  <2>3. \A j \in leased' : j \in leased /\ cl'[j].cmd \in {cl[j].cmd, "none"}
    BY <1>0, <1>3, <1>4 DEF Pool!TypeOK
  <2>4. QED
    BY <1>0, <1>1, <1>3, <1>4, <2>1, <2>2, <2>3 DEF CallerStep, PoolRows
<1>6. QED
  BY <1>2, <1>4, <1>5, PoolCaller, ToldAll

\* A step of the housekeeper that begins no recycling.
LEMMA PoolHouse ==
    ASSUME Pool!IndInv,
           UNCHANGED <<eng, deaths, leased, bulk, preempt, retiring, recycle, acq, counted, loose,
                       stopping, mishaps>>,
           inspected' \in 0 .. MaxInspect, asleep' \subseteq asleep, house' \in Pool!Inspections,
           cl' \in [Pool!Clients -> Pool!ClientRows],
           \A k \in Pool!Clients :
             /\ cl'[k].of = cl[k].of /\ (cl'[k].up <=> cl[k].up)
             /\ cl'[k].cmd # "none" \/ cl'[k].loaded => cl'[k].up,
           \A k \in leased : cl'[k].cmd \in {cl[k].cmd, "none"},
           Pool!Housed', Pool!Told'
    PROVE  Pool!IndInv'
<1>0. /\ PoolRows /\ Fleet /\ Pool!TypeOK /\ Pool!Leases /\ Pool!HandsOff
      /\ Pool!PreemptsBulk /\ Pool!Housed /\ Pool!Told
  BY PoolParts
<1>1. Pool!TypeOK'
  BY <1>0 DEF Pool!TypeOK, Pool!Clients
<1>2. NoStart /\ Runs
  BY <1>0 DEF NoStart, Runs, PoolRows
<1>3. Fleet'
  BY <1>0, <1>2, FleetFrame
<1>4. Pool!HandsOff'
  BY <1>0, HandsOffFrame
<1>5. Pool!Leases' /\ Pool!PreemptsBulk'
  BY <1>0, LeasesFrame DEF Pool!PreemptsBulk
<1>6. QED
  BY <1>1, <1>3, <1>4, <1>5, PoolWhole

LEMMA PoolPing == ASSUME Pool!IndInv, NEW e \in Engines, Pool!Ping(e) PROVE Pool!IndInv'
<1>0. /\ PoolRows /\ Fleet /\ Pool!TypeOK /\ Pool!Leases /\ Pool!HandsOff
      /\ Pool!PreemptsBulk /\ Pool!Housed /\ Pool!Told
  BY PoolParts
<1> DEFINE k == eng[e].client
<1>1. /\ UNCHANGED <<eng, deaths, leased, bulk, preempt, retiring, recycle, acq, counted, asleep,
                     loose, stopping, mishaps>>
      /\ house.pc = "sleep" /\ stopping = "no" /\ inspected < MaxInspect /\ inspected' = inspected + 1
      /\ recycle[e].pc = "none" /\ k # Pool!NoId /\ cl' = [cl EXCEPT ![k].cmd = "ping"]
      /\ house' = [pc |-> "ping", cl |-> k]
  BY DEF Pool!Ping
<1>2. cl[k].up /\ k \notin leased
  BY DEF Pool!Ping, Pool!IsIdle
<1>3. k \in Pool!Clients /\ k \in Pool!Ids
  BY <1>0, <1>1, PoolIds, PoolFields
<1>4. /\ cl' \in [Pool!Clients -> Pool!ClientRows]
      /\ \A j \in Pool!Clients : j # k => cl'[j] = cl[j]
      /\ cl'[k].of = cl[k].of /\ cl'[k].up = cl[k].up /\ cl'[k].cmd = "ping"
  BY <1>0, <1>1, <1>3, CmdChange DEF PoolRows, Cmds
<1>5. cl[k].of = e
  BY <1>0, <1>1 DEF Fleet, Pool!Processes
<1>6. house' \in Pool!Inspections /\ house'.cl = k /\ house'.pc = "ping"
  BY <1>1, <1>3 DEF Pool!Inspections
<1>7. Pool!Housed'
  <2>1. cl'[house'.cl].of = e /\ e # "none"
    BY <1>4, <1>5, <1>6, PoolIds
  <2>2. QED
    BY <1>1, <1>6, <2>1 DEF Pool!Housed, Pool!Started, Pool!NoId
<1>8. Pool!Told'
  <2>1. house.cl = Pool!NoId
    BY <1>0, <1>1 DEF Pool!Housed
  <2>2. NoneFreed
    BY <1>1, <1>4 DEF NoneFreed
  <2>3. QED
    BY <1>0, <1>1, <2>1, <2>2, ToldFrame
<1>9. inspected' \in 0 .. MaxInspect
  BY <1>0, <1>1, PoolOK DEF Pool!TypeOK, Pool!EnginePoolAssumption
<1>10. \A j \in Pool!Clients :
         /\ cl'[j].of = cl[j].of /\ (cl'[j].up <=> cl[j].up)
         /\ cl'[j].cmd # "none" \/ cl'[j].loaded => cl'[j].up
  BY <1>0, <1>2, <1>4 DEF Pool!TypeOK
<1>11. \A j \in leased : cl'[j].cmd \in {cl[j].cmd, "none"}
  BY <1>0, <1>2, <1>4 DEF Pool!TypeOK
<1>12. QED
  BY <1>1, <1>4, <1>6, <1>7, <1>8, <1>9, <1>10, <1>11, PoolHouse

\* The housekeeper goes on with the client it inspects.
LEMMA HouseGoesOn ==
    ASSUME PoolRows, NEW p \in {"inspect", "unload", "done"}, house' = [house EXCEPT !.pc = p]
    PROVE  house' \in Pool!Inspections /\ house'.cl = house.cl /\ house'.pc = p
BY DEF PoolRows, Pool!Inspections

LEMMA PoolPong == ASSUME Pool!IndInv, Pool!Pong PROVE Pool!IndInv'
<1>0. /\ PoolRows /\ Fleet /\ Pool!TypeOK /\ Pool!Leases /\ Pool!HandsOff
      /\ Pool!PreemptsBulk /\ Pool!Housed /\ Pool!Told
  BY PoolParts
<1> DEFINE k == house.cl
<1>1. /\ UNCHANGED <<eng, deaths, leased, bulk, preempt, retiring, recycle, acq, counted, asleep,
                     loose, stopping, inspected, mishaps>>
      /\ house.pc = "ping" /\ cl' = [cl EXCEPT ![k].cmd = "none"]
  BY DEF Pool!Pong
<1>2. PICK p \in {"inspect", "done"} : house' = [house EXCEPT !.pc = p]
  BY DEF Pool!Pong
<1>3. house' \in Pool!Inspections /\ house'.cl = k /\ house'.pc = p
  BY <1>0, <1>2, HouseGoesOn
<1>4. k \in Pool!Clients
  BY <1>0, <1>1, PoolIds, PoolFields DEF Pool!Housed
<1>5. /\ cl' \in [Pool!Clients -> Pool!ClientRows]
      /\ \A j \in Pool!Clients : j # k => cl'[j] = cl[j]
      /\ cl'[k].of = cl[k].of /\ cl'[k].up = cl[k].up /\ cl'[k].cmd = "none"
      /\ cl'[k].loaded = cl[k].loaded
  BY <1>0, <1>1, <1>4, CmdChange DEF PoolRows, Cmds
<1>6. \A j \in Pool!Clients :
         /\ cl'[j].of = cl[j].of /\ (cl'[j].up <=> cl[j].up)
         /\ cl'[j].cmd # "none" \/ cl'[j].loaded => cl'[j].up
  BY <1>0, <1>5 DEF Pool!TypeOK
<1>7. NoStart
  BY <1>0, <1>1, <1>5, <1>6 DEF NoStart, PoolRows
<1>8. Pool!Housed'
  BY <1>0, <1>1, <1>3, <1>7, HousedFrame
<1>9. Pool!Told'
  <2>1. NoneFreed
    BY <1>1, <1>3, <1>5 DEF NoneFreed
  <2>2. QED
    BY <1>0, <1>1, <1>3, <2>1, ToldFrame
<1>10. inspected' \in 0 .. MaxInspect
  BY <1>0, <1>1 DEF Pool!TypeOK
<1>11. \A j \in leased : cl'[j].cmd \in {cl[j].cmd, "none"}
  BY <1>0, <1>5 DEF Pool!TypeOK
<1>12. QED
  BY <1>1, <1>3, <1>5, <1>6, <1>8, <1>9, <1>10, <1>11, PoolHouse

LEMMA PoolUnloaded == ASSUME Pool!IndInv, Pool!Unloaded PROVE Pool!IndInv'
<1>0. /\ PoolRows /\ Fleet /\ Pool!TypeOK /\ Pool!Leases /\ Pool!HandsOff
      /\ Pool!PreemptsBulk /\ Pool!Housed /\ Pool!Told
  BY PoolParts
<1> DEFINE k == house.cl
<1>1. /\ UNCHANGED <<eng, deaths, leased, bulk, preempt, retiring, recycle, acq, counted,
                     loose, stopping, inspected, mishaps>>
      /\ house.pc = "unload" /\ cl' = [cl EXCEPT ![k].cmd = "none", ![k].loaded = FALSE]
      /\ house' = [house EXCEPT !.pc = "done"] /\ asleep' = {}
  BY DEF Pool!Unloaded, Pool!Notify
<1>3. house' \in Pool!Inspections /\ house'.cl = k /\ house'.pc = "done"
  BY <1>0, <1>1, HouseGoesOn
<1>4. k \in Pool!Clients
  BY <1>0, <1>1, PoolIds, PoolFields DEF Pool!Housed
<1>5. /\ cl' \in [Pool!Clients -> Pool!ClientRows]
      /\ \A j \in Pool!Clients : j # k => cl'[j] = cl[j]
      /\ cl'[k].of = cl[k].of /\ cl'[k].up = cl[k].up /\ cl'[k].cmd = "none"
      /\ cl'[k].loaded = FALSE
  BY <1>0, <1>1, <1>4, LoadChange DEF PoolRows
<1>6. \A j \in Pool!Clients :
         /\ cl'[j].of = cl[j].of /\ (cl'[j].up <=> cl[j].up)
         /\ cl'[j].cmd # "none" \/ cl'[j].loaded => cl'[j].up
  BY <1>0, <1>5 DEF Pool!TypeOK
<1>7. NoStart
  BY <1>0, <1>1, <1>5, <1>6 DEF NoStart, PoolRows
<1>8. Pool!Housed'
  BY <1>0, <1>1, <1>3, <1>7, HousedFrame
<1>9. inspected' \in 0 .. MaxInspect
  BY <1>0, <1>1 DEF Pool!TypeOK
<1>10. \A j \in leased : cl'[j].cmd \in {cl[j].cmd, "none"}
  BY <1>0, <1>5 DEF Pool!TypeOK
<1>11. QED
  BY <1>1, <1>3, <1>5, <1>6, <1>8, <1>9, <1>10, ToldAll, PoolHouse

LEMMA PoolHouseDone == ASSUME Pool!IndInv, Pool!HouseDone PROVE Pool!IndInv'
<1>0. /\ PoolRows /\ Fleet /\ Pool!TypeOK /\ Pool!Leases /\ Pool!HandsOff
      /\ Pool!PreemptsBulk /\ Pool!Housed /\ Pool!Told
  BY PoolParts
<1>1. /\ UNCHANGED <<eng, deaths, cl, leased, bulk, preempt, retiring, recycle, acq, counted,
                     loose, stopping, inspected, mishaps>>
      /\ house' = [pc |-> "sleep", cl |-> Pool!NoId] /\ asleep' = {}
  BY DEF Pool!HouseDone, Pool!Notify
<1>2. house' \in Pool!Inspections /\ house'.cl = Pool!NoId /\ house'.pc = "sleep"
  BY <1>1, PoolIds DEF Pool!Inspections
<1>3. Pool!Housed'
  BY <1>2 DEF Pool!Housed, Pool!NoId
<1>4. inspected' \in 0 .. MaxInspect
  BY <1>0, <1>1 DEF Pool!TypeOK
<1>5. \A j \in Pool!Clients :
         /\ cl'[j].of = cl[j].of /\ (cl'[j].up <=> cl[j].up)
         /\ cl'[j].cmd # "none" \/ cl'[j].loaded => cl'[j].up
  BY <1>0, <1>1 DEF Pool!TypeOK
<1>6. QED
  BY <1>0, <1>1, <1>2, <1>3, <1>4, <1>5, ToldAll, PoolHouse DEF PoolRows

LEMMA PoolInspect == ASSUME Pool!IndInv, Pool!Inspect PROVE Pool!IndInv'
<1>0. /\ PoolRows /\ Fleet /\ Pool!TypeOK /\ Pool!Leases /\ Pool!HandsOff
      /\ Pool!PreemptsBulk /\ Pool!Housed /\ Pool!Told
  BY PoolParts
<1> DEFINE k == house.cl
           e == cl[k].of
<1>1. /\ UNCHANGED <<eng, deaths, leased, bulk, preempt, retiring, acq, counted, asleep, loose,
                     stopping, inspected, mishaps>>
      /\ house.pc = "inspect"
  BY DEF Pool!Inspect
<1>2. PICK p \in {"unload", "done"} : house' = [house EXCEPT !.pc = p]
  BY DEF Pool!Inspect
<1>3. house' \in Pool!Inspections /\ house'.cl = k /\ house'.pc = p
  BY <1>0, <1>2, HouseGoesOn
<1>4. k \in Pool!Clients /\ k # Pool!NoId /\ e # "none" /\ recycle[e].pc = "none" /\ stopping = "no"
  BY <1>0, <1>1, PoolIds, PoolFields DEF Pool!Housed, Pool!Started
<1>5. e \in Engines
  BY <1>0, <1>4, PoolFields
<1>6. inspected' \in 0 .. MaxInspect
  BY <1>0, <1>1 DEF Pool!TypeOK
<1>7. CASE cl' = cl /\ recycle' = recycle
  <2>1. NoStart
    BY <1>0, <1>1, <1>7 DEF NoStart, PoolRows
  <2>2. Pool!Housed'
    BY <1>0, <1>1, <1>3, <2>1, HousedFrame
  <2>3. NoneFreed
    BY <1>1, <1>7 DEF NoneFreed
  <2>4. Pool!Told'
    BY <1>0, <1>1, <1>3, <2>3, ToldFrame
  <2>5. \A j \in Pool!Clients :
         /\ cl'[j].of = cl[j].of /\ (cl'[j].up <=> cl[j].up)
         /\ cl'[j].cmd # "none" \/ cl'[j].loaded => cl'[j].up
    BY <1>0, <1>7 DEF Pool!TypeOK
  <2>6. QED
    BY <1>0, <1>1, <1>3, <1>6, <1>7, <2>2, <2>4, <2>5, PoolHouse DEF PoolRows
<1>8. CASE Pool!IsIdle(k) /\ cl' = [cl EXCEPT ![k].cmd = "unload"] /\ recycle' = recycle
  <2>1. cl[k].up /\ k \notin leased
    BY <1>8 DEF Pool!IsIdle
  <2>2. /\ cl' \in [Pool!Clients -> Pool!ClientRows]
        /\ \A j \in Pool!Clients : j # k => cl'[j] = cl[j]
        /\ cl'[k].of = cl[k].of /\ cl'[k].up = cl[k].up /\ cl'[k].cmd = "unload"
    BY <1>0, <1>4, <1>8, CmdChange DEF PoolRows, Cmds
  <2>3. \A j \in Pool!Clients :
         /\ cl'[j].of = cl[j].of /\ (cl'[j].up <=> cl[j].up)
         /\ cl'[j].cmd # "none" \/ cl'[j].loaded => cl'[j].up
    BY <1>0, <2>1, <2>2 DEF Pool!TypeOK
  <2>4. NoStart
    BY <1>0, <1>1, <1>8, <2>2, <2>3 DEF NoStart, PoolRows
  <2>5. Pool!Housed'
    BY <1>0, <1>1, <1>3, <2>4, HousedFrame
  <2>6. NoneFreed
    BY <1>1, <2>2 DEF NoneFreed
  <2>7. Pool!Told'
    BY <1>0, <1>1, <1>3, <2>6, ToldFrame
  <2>8. \A j \in leased : cl'[j].cmd \in {cl[j].cmd, "none"}
    BY <1>0, <2>1, <2>2 DEF Pool!TypeOK
  <2>9. QED
    BY <1>1, <1>3, <1>6, <1>8, <2>2, <2>3, <2>5, <2>7, <2>8, PoolHouse
<1>9. CASE /\ recycle' = [recycle EXCEPT ![e] = [pc |-> "start", old |-> k, fresh |-> Pool!NoId]]
           /\ cl' = cl /\ p = "done"
  <2>1. /\ recycle' \in [Engines -> Pool!Recyclings]
        /\ \A d \in Engines : d # e => recycle'[d] = recycle[d]
        /\ recycle'[e].pc = "start" /\ recycle'[e].old = k /\ recycle'[e].fresh = Pool!NoId
    BY <1>0, <1>4, <1>5, <1>9, PoolIds DEF PoolRows, Pool!Recyclings
  <2>2. recycle[e].old = Pool!NoId /\ recycle[e].fresh = Pool!NoId
    BY <1>0, <1>4, <1>5 DEF Fleet, Pool!Recycled, Pool!NoRecycle
  <2>3. ASSUME NEW j \in Pool!Clients, cl[j].up, cl[j].of = e PROVE j = eng[e].client
    BY <1>0, <1>4, <1>5, <2>2, <2>3, PoolIds DEF Fleet, Pool!NoOrphans
  <2>4. Pool!TypeOK'
    BY <1>0, <1>1, <1>3, <1>9, <2>1 DEF Pool!TypeOK, Pool!Clients
  <2>5. Pool!Processes'
    BY <1>0, <1>1, <1>9 DEF Fleet, Pool!Processes, Pool!Started
  <2>6. ASSUME NEW d \in Engines PROVE Pool!Recycled(d)'
    <3>1. CASE d # e
      BY <1>0, <1>1, <1>9, <2>1, <3>1 DEF Fleet, Pool!Recycled
    <3>2. CASE d = e
      BY <1>1, <1>4, <1>9, <2>1, <2>3, <3>2 DEF Pool!Recycled, Pool!NoId
    <3>3. QED
      BY <3>1, <3>2
  <2>7. Pool!NoOrphans'
    <3> SUFFICES ASSUME NEW j \in Pool!Clients, cl[j].up
                 PROVE  \/ j = eng[cl[j].of].client
                        \/ j \in {recycle'[cl[j].of].old, recycle'[cl[j].of].fresh}
      BY <1>1, <1>4, <1>9 DEF Pool!NoOrphans, Pool!Clients
    <3>1. cl[j].of \in Engines
      BY <1>0, PoolFields DEF Fleet, Pool!Processes, Pool!Started
    <3>2. CASE cl[j].of = e
      BY <2>3, <3>2
    <3>3. CASE cl[j].of # e
      BY <1>0, <1>4, <2>1, <3>1, <3>3 DEF Fleet, Pool!NoOrphans
    <3>4. QED
      BY <3>2, <3>3
  <2>8. Pool!Housed'
    BY <1>0, <1>1, <1>3, <1>4, <1>9 DEF Pool!Housed, Pool!NoId
  <2>9. Pool!HandsOff' /\ Pool!Leases' /\ Pool!PreemptsBulk'
    BY <1>0, <1>1, <1>9, LeasesFrame DEF Pool!HandsOff, Pool!PreemptsBulk
  <2>10. Pool!Told'
    <3>1. NoneFreed
      BY <1>1, <1>9 DEF NoneFreed
    <3>2. QED
      BY <1>0, <1>1, <1>3, <3>1, ToldFrame
  <2>11. QED
    BY <2>4, <2>5, <2>6, <2>7, <2>8, <2>9, <2>10, PoolWhole DEF Fleet
<1>10. QED
  <2>1. \/ recycle' = [recycle EXCEPT ![e] = [pc |-> "start", old |-> k, fresh |-> Pool!NoId]]
           /\ cl' = cl /\ house' = [house EXCEPT !.pc = "done"]
        \/ Pool!IsIdle(k) /\ cl' = [cl EXCEPT ![k].cmd = "unload"] /\ recycle' = recycle
        \/ cl' = cl /\ recycle' = recycle
    BY DEF Pool!Inspect
  <2>2. house' = [house EXCEPT !.pc = "done"] => p = "done"
    BY <1>0, <1>3, HouseGoesOn
  <2>3. QED
    BY <1>7, <1>8, <1>9, <2>1, <2>2

\* A step of the recycling of one engine.
OneEngine(e) ==
    /\ UNCHANGED <<deaths, leased, bulk, preempt, acq, counted, loose, house, stopping, inspected>>
    /\ mishaps' \in 0 .. PoolFaults /\ asleep' \subseteq asleep /\ retiring' \subseteq Pool!Clients
    /\ eng' \in [Engines -> Pool!EngineRows] /\ recycle' \in [Engines -> Pool!Recyclings]
    /\ \A d \in Engines : d # e => eng'[d] = eng[d] /\ recycle'[d] = recycle[d]

\* What it may do to the clients.
ItsClients(e) ==
    /\ cl' \in [Pool!Clients -> Pool!ClientRows]
    /\ \A k \in Pool!Clients :
         /\ cl'[k].cmd # "none" \/ cl'[k].loaded => cl'[k].up
         /\ cl[k].of # "none" => cl'[k].of = cl[k].of /\ (cl'[k].up => cl[k].up)
         /\ cl[k].of = "none" => ~cl'[k].up \/ cl'[k].of = e
    /\ \A k \in leased : cl'[k].cmd \in {cl[k].cmd, "none"}

LEMMA ItsClientsKept ==
    ASSUME NEW e, cl' \in [Pool!Clients -> Pool!ClientRows], PoolRows, Fleet,
           \A k \in Pool!Clients :
             /\ cl'[k].cmd # "none" \/ cl'[k].loaded => cl'[k].up
             /\ cl'[k].of = cl[k].of /\ (cl'[k].up => cl[k].up),
           \A k \in leased : cl'[k].cmd \in {cl[k].cmd, "none"}
    PROVE  ItsClients(e)
BY DEF ItsClients, Fleet, Pool!Processes, Pool!Started

\* The processes of an engine that is recycled are its client, the old and the new one.
Housing(e) ==
    /\ eng'[e].client # Pool!NoId => cl'[eng'[e].client].of = e
    /\ eng'[e].run \in {"boot", "pause"} => eng'[e].client = Pool!NoId \/ ~cl'[eng'[e].client].up
    /\ eng'[e].run \in {"up", "await"} => eng'[e].client # Pool!NoId
    /\ \A k \in Pool!Clients : cl'[k].up /\ cl'[k].of = e =>
         k \in {eng'[e].client, recycle'[e].old, recycle'[e].fresh}
    /\ Pool!Recycled(e)'

LEMMA PoolRecycling ==
    ASSUME Pool!IndInv, NEW e \in Engines, recycle[e].pc # "none", OneEngine(e), ItsClients(e),
           Housing(e), Pool!Told'
    PROVE  Pool!IndInv'
<1>0. /\ PoolRows /\ Fleet /\ Pool!TypeOK /\ Pool!Leases /\ Pool!HandsOff
      /\ Pool!PreemptsBulk /\ Pool!Housed /\ Pool!Told
  BY PoolParts
<1>1. stopping = "no" /\ stopping' = "no"
  BY <1>0 DEF Fleet, Pool!Recycled, OneEngine
<1>2. \A k \in Pool!Ids : k # Pool!NoId /\ cl[k].of # "none" =>
                            cl'[k].of = cl[k].of /\ (cl'[k].up => cl[k].up)
  BY PoolIds DEF ItsClients
<1>3. \A d \in Engines : d # "none"
  BY PoolIds
<1>4. Pool!TypeOK'
  BY <1>0 DEF Pool!TypeOK, OneEngine, ItsClients, Pool!Clients
<1>5. Pool!Processes'
  <2>1. \A j \in Pool!Clients : cl'[j].up \/ j \in leased' => cl'[j].of # "none"
    BY <1>0, <1>3 DEF Fleet, Pool!Processes, Pool!Started, OneEngine, ItsClients
  <2>2. ASSUME NEW d \in Engines
        PROVE  /\ eng'[d].client # Pool!NoId => cl'[eng'[d].client].of = d
               /\ eng'[d].run \in {"boot", "pause"} =>
                    eng'[d].client = Pool!NoId \/ ~cl'[eng'[d].client].up
               /\ eng'[d].run \in {"up", "await"} => eng'[d].client # Pool!NoId
    <3>1. CASE d = e
      BY <3>1 DEF Housing
    <3>2. CASE d # e
      <4>1. eng'[d] = eng[d] /\ eng[d].client \in Pool!Ids
        BY <1>0, <3>2, PoolFields DEF OneEngine
      <4>2. eng[d].client # Pool!NoId => cl[eng[d].client].of = d
        BY <1>0 DEF Fleet, Pool!Processes
      <4>3. QED
        BY <1>0, <1>2, <1>3, <4>1, <4>2 DEF Fleet, Pool!Processes
    <3>3. QED
      BY <3>1, <3>2
  <2>3. QED
    BY <1>1, <2>1, <2>2 DEF Pool!Processes, Pool!Started, Pool!NoId, Pool!Clients
<1>6. ASSUME NEW d \in Engines PROVE Pool!Recycled(d)'
  <2>1. CASE d = e
    BY <2>1 DEF Housing
  <2>2. CASE d # e
    <3>1. eng'[d] = eng[d] /\ recycle'[d] = recycle[d] /\ stopping' = stopping
      BY <2>2 DEF OneEngine
    <3>2. recycle[d].old \in Pool!Ids /\ recycle[d].fresh \in Pool!Ids
      BY <1>0, PoolFields
    <3>3. Pool!Recycled(d)
      BY <1>0 DEF Fleet
    <3>4. recycle[d].pc # "none" => /\ cl'[recycle[d].old].of = d
                                    /\ cl'[recycle[d].old].up => cl[recycle[d].old].up
      BY <1>2, <1>3, <3>2, <3>3 DEF Pool!Recycled
    <3>5. recycle[d].fresh # Pool!NoId => /\ cl'[recycle[d].fresh].of = d
                                          /\ cl'[recycle[d].fresh].up => cl[recycle[d].fresh].up
      BY <1>2, <1>3, <3>2, <3>3 DEF Pool!Recycled
    <3>6. QED
      BY <3>1, <3>3, <3>4, <3>5 DEF Pool!Recycled, Pool!NoRecycle, Pool!NoId
  <2>3. QED
    BY <2>1, <2>2
<1>7. Pool!NoOrphans'
  <2> SUFFICES ASSUME NEW j \in Pool!Clients, cl'[j].up
               PROVE  \/ j = eng'[cl'[j].of].client
                      \/ j \in {recycle'[cl'[j].of].old, recycle'[cl'[j].of].fresh}
    BY <1>1 DEF Pool!NoOrphans, Pool!Clients
  <2>1. CASE cl'[j].of = e
    BY <2>1 DEF Housing
  <2>2. CASE cl'[j].of # e
    <3>1. cl[j].up /\ cl'[j].of = cl[j].of
      BY <1>0, <2>2 DEF ItsClients, Fleet, Pool!Processes, Pool!Started
    <3>2. cl[j].of \in Engines
      BY <1>0, <3>1, PoolFields DEF Fleet, Pool!Processes, Pool!Started
    <3>3. \/ j = eng[cl[j].of].client
          \/ j \in {recycle[cl[j].of].old, recycle[cl[j].of].fresh}
      BY <1>0, <1>1, <3>1 DEF Fleet, Pool!NoOrphans
    <3>4. QED
      BY <2>2, <3>1, <3>2, <3>3 DEF OneEngine
  <2>3. QED
    BY <2>1, <2>2
<1>8. Pool!Housed'
  <2>1. house.cl \in Pool!Ids /\ house' = house
    BY <1>0, PoolFields DEF OneEngine
  <2>2. house.pc \in {"ping", "inspect", "unload"} =>
           /\ house.cl \in Pool!Clients /\ cl[house.cl].of # "none" /\ cl[house.cl].of # e
    BY <1>0, <2>1, PoolIds DEF Pool!Housed, Pool!Started
  <2>3. house.pc \in {"ping", "inspect", "unload"} =>
           /\ cl'[house.cl].of = cl[house.cl].of /\ cl[house.cl].of \in Engines
           /\ recycle'[cl[house.cl].of] = recycle[cl[house.cl].of]
    BY <1>0, <1>2, <2>1, <2>2, PoolIds, PoolFields DEF OneEngine
  <2>4. QED
    BY <1>0, <1>1, <2>1, <2>2, <2>3 DEF Pool!Housed, Pool!Started, Pool!NoId
<1>9. Pool!HandsOff'
  BY <1>0, HandsOffFrame DEF OneEngine, ItsClients
<1>10. Pool!Leases' /\ Pool!PreemptsBulk'
  BY <1>0, LeasesFrame DEF Pool!PreemptsBulk, OneEngine
<1>11. QED
  BY <1>4, <1>5, <1>6, <1>7, <1>8, <1>9, <1>10, PoolWhole DEF Fleet

\* What is known of an engine whose recycling is under way.
LEMMA UnderWay ==
    ASSUME Pool!IndInv, NEW e \in Engines, recycle[e].pc # "none"
    PROVE  /\ stopping = "no"
           /\ recycle[e].old \in Pool!Clients /\ cl[recycle[e].old].of = e
           /\ recycle[e].fresh \in Pool!Ids
           /\ recycle[e].fresh # Pool!NoId => recycle[e].fresh \in Pool!Clients /\ cl[recycle[e].fresh].of = e
           /\ eng[e].client \in Pool!Ids
           /\ eng[e].client # Pool!NoId => eng[e].client \in Pool!Clients /\ cl[eng[e].client].of = e
           /\ eng[e].run \in {"boot", "pause"} => eng[e].client = Pool!NoId \/ ~cl[eng[e].client].up
           /\ eng[e].run \in {"up", "await"} => eng[e].client # Pool!NoId
           /\ \A k \in Pool!Clients : cl[k].up /\ cl[k].of = e =>
                k \in {eng[e].client, recycle[e].old, recycle[e].fresh}
           /\ \A k \in Pool!Clients : cl[k].of = e => cl[k].of # "none"
<1>0. PoolRows /\ Fleet
  BY PoolParts
<1>1. Pool!Recycled(e) /\ recycle[e].old \in Pool!Ids /\ recycle[e].fresh \in Pool!Ids
      /\ eng[e].client \in Pool!Ids
  BY <1>0, PoolFields DEF Fleet
<1>2. stopping = "no" /\ recycle[e].old \in Pool!Clients /\ cl[recycle[e].old].of = e
  BY <1>1, PoolIds DEF Pool!Recycled
<1>3. recycle[e].fresh # Pool!NoId => recycle[e].fresh \in Pool!Clients /\ cl[recycle[e].fresh].of = e
  BY <1>1, PoolIds DEF Pool!Recycled
<1>4. eng[e].client # Pool!NoId => eng[e].client \in Pool!Clients /\ cl[eng[e].client].of = e
  BY <1>0, <1>1, PoolIds DEF Fleet, Pool!Processes
<1>5. /\ eng[e].run \in {"boot", "pause"} => eng[e].client = Pool!NoId \/ ~cl[eng[e].client].up
      /\ eng[e].run \in {"up", "await"} => eng[e].client # Pool!NoId
  BY <1>0 DEF Fleet, Pool!Processes
<1>6. \A k \in Pool!Clients : cl[k].up /\ cl[k].of = e =>
                k \in {eng[e].client, recycle[e].old, recycle[e].fresh}
  BY <1>0, <1>2 DEF Fleet, Pool!NoOrphans
<1>7. QED
  BY <1>1, <1>2, <1>3, <1>4, <1>5, <1>6, PoolIds

LEMMA PoolRecycle == ASSUME Pool!IndInv, NEW e \in Engines, Pool!Recycle(e) PROVE Pool!IndInv'
<1>0. /\ PoolRows /\ Fleet /\ Pool!TypeOK /\ Pool!Leases /\ Pool!HandsOff
      /\ Pool!PreemptsBulk /\ Pool!Housed /\ Pool!Told
  BY PoolParts
<1> DEFINE r == recycle[e]
<1>1. /\ UNCHANGED <<eng, deaths, leased, bulk, preempt, acq, counted, asleep, loose, house, stopping,
                     inspected, mishaps>>
      /\ r.pc = "start"
  BY DEF Pool!Recycle
<1>2. /\ stopping = "no"
      /\ r.old \in Pool!Clients /\ cl[r.old].of = e
      /\ eng[e].client \in Pool!Ids
      /\ eng[e].client # Pool!NoId => eng[e].client \in Pool!Clients /\ cl[eng[e].client].of = e
      /\ eng[e].run \in {"boot", "pause"} => eng[e].client = Pool!NoId \/ ~cl[eng[e].client].up
      /\ eng[e].run \in {"up", "await"} => eng[e].client # Pool!NoId
      /\ \A k \in Pool!Clients : cl[k].up /\ cl[k].of = e =>
                k \in {eng[e].client, recycle[e].old, recycle[e].fresh}
  BY <1>1, UnderWay
<1>3. r.fresh = Pool!NoId /\ (cl[r.old].up => eng[e].client = r.old)
  BY <1>0, <1>1 DEF Fleet, Pool!Recycled
<1>4. e # "none" /\ Pool!NoId \notin Pool!Clients
  BY PoolIds
<1>5. mishaps' \in 0 .. PoolFaults /\ retiring \subseteq Pool!Clients
      /\ \A k \in Pool!Clients : cl[k].cmd # "none" \/ cl[k].loaded => cl[k].up
  BY <1>0, <1>1 DEF Pool!TypeOK
<1>6. CASE \E k \in Pool!Clients :
            /\ Pool!Unused(k)
            /\ cl' = [cl EXCEPT ![k] = Pool!Booting(e)]
            /\ recycle' = [recycle EXCEPT ![e].pc = "fresh", ![e].fresh = k]
            /\ UNCHANGED retiring
  <2>1. PICK k \in Pool!Clients :
            /\ Pool!Unused(k)
            /\ cl' = [cl EXCEPT ![k] = Pool!Booting(e)]
            /\ recycle' = [recycle EXCEPT ![e].pc = "fresh", ![e].fresh = k]
            /\ UNCHANGED retiring
    BY <1>6
  <2>2. /\ cl' \in [Pool!Clients -> Pool!ClientRows]
        /\ \A j \in Pool!Clients : j # k => cl'[j] = cl[j]
        /\ cl'[k].of = e /\ cl'[k].up /\ ~cl'[k].loaded /\ cl'[k].cmd = "boot"
    BY <1>0, <2>1, BootChange DEF PoolRows
  <2>3. cl[k].of = "none" /\ k \notin leased /\ ~cl[k].up
    BY <1>0, <2>1, PoolFields DEF Pool!Unused, Fleet, Pool!Processes, Pool!Started
  <2>4. /\ recycle' \in [Engines -> Pool!Recyclings]
        /\ \A d \in Engines : d # e => recycle'[d] = recycle[d]
        /\ recycle'[e].pc = "fresh" /\ recycle'[e].fresh = k /\ recycle'[e].old = r.old
    BY <1>0, <2>1, PoolIds DEF PoolRows, Pool!Recyclings
  <2>5. OneEngine(e) /\ ItsClients(e)
    <3>1. \A j \in Pool!Clients :
         /\ cl'[j].cmd # "none" \/ cl'[j].loaded => cl'[j].up
         /\ cl[j].of # "none" => cl'[j].of = cl[j].of /\ (cl'[j].up => cl[j].up)
         /\ cl[j].of = "none" => ~cl'[j].up \/ cl'[j].of = e
      BY <1>0, <1>5, <2>2, <2>3 DEF Fleet, Pool!Processes, Pool!Started
    <3>2. \A j \in leased : cl'[j].cmd \in {cl[j].cmd, "none"}
      BY <1>0, <2>2, <2>3 DEF Pool!TypeOK
    <3>3. ItsClients(e)
      BY <2>2, <3>1, <3>2 DEF ItsClients
    <3>4. OneEngine(e)
      BY <1>0, <1>1, <1>5, <2>1, <2>4 DEF OneEngine, PoolRows
    <3>5. QED
      BY <3>3, <3>4
  <2>6. Housing(e)
    <3>1. r.old # k /\ (eng[e].client # Pool!NoId => eng[e].client # k)
      BY <1>2, <1>4, <2>3
    <3>2. Pool!Recycled(e)'
      BY <1>1, <1>2, <1>3, <1>4, <2>2, <2>4, <3>1 DEF Pool!Recycled, Pool!NoId
    <3>3. \A j \in Pool!Clients : cl'[j].up /\ cl'[j].of = e =>
             j \in {eng'[e].client, recycle'[e].old, recycle'[e].fresh}
      BY <1>1, <1>2, <1>3, <1>4, <2>2, <2>4
    <3>4. QED
      BY <1>1, <1>2, <2>2, <3>1, <3>2, <3>3 DEF Housing
  <2>7. NoneFreed
    BY <1>1, <2>1, <2>2 DEF NoneFreed
  <2>8. Pool!Told'
    BY <1>0, <1>1, <2>7, ToldFrame
  <2>9. QED
    BY <1>1, <2>5, <2>6, <2>8, PoolRecycling
<1>7. CASE /\ recycle' = [recycle EXCEPT ![e].pc = "retire"]
           /\ retiring' = retiring \cup {r.old}
           /\ UNCHANGED cl
  <2>1. /\ recycle' \in [Engines -> Pool!Recyclings]
        /\ \A d \in Engines : d # e => recycle'[d] = recycle[d]
        /\ recycle'[e].pc = "retire" /\ recycle'[e].fresh = r.fresh /\ recycle'[e].old = r.old
    BY <1>0, <1>7 DEF PoolRows, Pool!Recyclings
  <2>2. OneEngine(e) /\ ItsClients(e)
    <3>1. OneEngine(e)
      BY <1>0, <1>1, <1>2, <1>5, <1>7, <2>1 DEF OneEngine, PoolRows
    <3>2. ItsClients(e)
      BY <1>0, <1>5, <1>7, ItsClientsKept DEF PoolRows
    <3>3. QED
      BY <3>1, <3>2
  <2>3. Pool!Recycled(e)'
    BY <1>1, <1>2, <1>3, <1>4, <1>7, <2>1 DEF Pool!Recycled, Pool!NoId
  <2>4. Housing(e)
    BY <1>1, <1>2, <1>7, <2>1, <2>3 DEF Housing
  <2>5. NoneFreed
    BY <1>1, <1>7 DEF NoneFreed
  <2>6. Pool!Told'
    BY <1>0, <1>1, <2>5, ToldFrame
  <2>7. QED
    BY <1>1, <2>2, <2>4, <2>6, PoolRecycling
<1>8. QED
  BY <1>6, <1>7 DEF Pool!Recycle, Pool!Clients

LEMMA PoolReplace == ASSUME Pool!IndInv, NEW e \in Engines, Pool!Replace(e) PROVE Pool!IndInv'
<1>0. /\ PoolRows /\ Fleet /\ Pool!TypeOK /\ Pool!Leases /\ Pool!HandsOff
      /\ Pool!PreemptsBulk /\ Pool!Housed /\ Pool!Told
  BY PoolParts
<1> DEFINE r == recycle[e]
           k == recycle[e].fresh
<1>1. /\ UNCHANGED <<deaths, leased, bulk, preempt, acq, counted, loose, house, stopping,
                     inspected, mishaps>>
      /\ r.pc = "fresh" /\ cl[k].up
      /\ cl' = [cl EXCEPT ![k].loaded = TRUE, ![k].cmd = "none"]
  BY DEF Pool!Replace
<1>2. /\ stopping = "no"
      /\ r.old \in Pool!Clients /\ cl[r.old].of = e
      /\ k # Pool!NoId => k \in Pool!Clients /\ cl[k].of = e
      /\ eng[e].client \in Pool!Ids
      /\ eng[e].client # Pool!NoId => eng[e].client \in Pool!Clients /\ cl[eng[e].client].of = e
      /\ eng[e].run \in {"boot", "pause"} => eng[e].client = Pool!NoId \/ ~cl[eng[e].client].up
      /\ eng[e].run \in {"up", "await"} => eng[e].client # Pool!NoId
      /\ \A j \in Pool!Clients : cl[j].up /\ cl[j].of = e => j \in {eng[e].client, r.old, k}
  BY <1>1, UnderWay
<1>3. k # Pool!NoId /\ (cl[r.old].up => eng[e].client = r.old)
  BY <1>0, <1>1 DEF Fleet, Pool!Recycled
<1>4. e # "none" /\ Pool!NoId \notin Pool!Clients /\ k \in Pool!Ids
  BY <1>2, <1>3, PoolIds
<1>5. mishaps' \in 0 .. PoolFaults /\ retiring \subseteq Pool!Clients
      /\ \A j \in Pool!Clients : cl[j].cmd # "none" \/ cl[j].loaded => cl[j].up
  BY <1>0, <1>1 DEF Pool!TypeOK
<1>6. /\ cl' \in [Pool!Clients -> Pool!ClientRows]
      /\ \A j \in Pool!Clients : j # k => cl'[j] = cl[j]
      /\ cl'[k].of = cl[k].of /\ cl'[k].up = cl[k].up /\ cl'[k].cmd = "none"
  BY <1>0, <1>1, <1>2, <1>3, LoadChange DEF PoolRows
<1>7. /\ \A j \in Pool!Clients :
           /\ cl'[j].cmd # "none" \/ cl'[j].loaded => cl'[j].up
           /\ cl'[j].of = cl[j].of /\ cl'[j].up = cl[j].up
      /\ \A j \in leased : cl'[j].cmd \in {cl[j].cmd, "none"}
  BY <1>0, <1>1, <1>5, <1>6 DEF Pool!TypeOK
<1>8. CASE Pool!StillOld(e)
  <2>1. /\ eng' = [eng EXCEPT ![e].client = k]
        /\ recycle' = [recycle EXCEPT ![e].pc = "retire"]
        /\ retiring' = retiring \cup {r.old} /\ asleep' = {}
    BY <1>8 DEF Pool!Replace, Pool!Notify
  <2>2. /\ recycle' \in [Engines -> Pool!Recyclings]
        /\ \A d \in Engines : d # e => recycle'[d] = recycle[d]
        /\ recycle'[e].pc = "retire" /\ recycle'[e].fresh = k /\ recycle'[e].old = r.old
    BY <1>0, <2>1 DEF PoolRows, Pool!Recyclings
  <2>3. /\ eng' \in [Engines -> Pool!EngineRows]
        /\ \A d \in Engines : d # e => eng'[d] = eng[d]
        /\ eng'[e].client = k /\ eng'[e].run = eng[e].run
    BY <1>0, <1>4, <2>1 DEF PoolRows, Pool!EngineRows
  <2>4. eng[e].client = r.old /\ cl[r.old].up
    BY <1>8 DEF Pool!StillOld
  <2>5. OneEngine(e) /\ ItsClients(e)
    <3>1. retiring' \subseteq Pool!Clients /\ asleep' \subseteq asleep
      BY <1>2, <1>5, <2>1
    <3>2. QED
      BY <1>0, <1>1, <1>5, <1>6, <1>7, <2>2, <2>3, <3>1, ItsClientsKept DEF OneEngine
  <2>6. Pool!Recycled(e)'
    <3>1. stopping' = "no" /\ cl'[r.old].of = e /\ cl'[k].of = e /\ r.old # Pool!NoId
      BY <1>1, <1>2, <1>3, <1>4, <1>7
    <3>2. QED
      BY <1>3, <2>2, <2>3, <3>1 DEF Pool!Recycled, Pool!NoId
  <2>7. eng'[e].run \notin {"boot", "pause"}
    BY <1>2, <1>4, <2>3, <2>4
  <2>8. \A j \in Pool!Clients : cl'[j].up /\ cl'[j].of = e =>
             j \in {eng'[e].client, recycle'[e].old, recycle'[e].fresh}
    BY <1>2, <1>7, <2>2, <2>3, <2>4
  <2>9. Housing(e)
    BY <1>2, <1>3, <1>6, <2>3, <2>6, <2>7, <2>8 DEF Housing
  <2>10. QED
    BY <1>1, <2>1, <2>5, <2>9, ToldAll, PoolRecycling
<1>9. CASE ~Pool!StillOld(e)
  <2>1. /\ recycle' = [recycle EXCEPT ![e].pc = "retire", ![e].old = k]
        /\ retiring' = retiring \cup {k} /\ asleep' = asleep /\ eng' = eng
    BY <1>9 DEF Pool!Replace
  <2>2. /\ recycle' \in [Engines -> Pool!Recyclings]
        /\ \A d \in Engines : d # e => recycle'[d] = recycle[d]
        /\ recycle'[e].pc = "retire" /\ recycle'[e].fresh = k /\ recycle'[e].old = k
    BY <1>0, <1>4, <2>1 DEF PoolRows, Pool!Recyclings
  <2>3. OneEngine(e) /\ ItsClients(e)
    <3>1. OneEngine(e)
      BY <1>0, <1>1, <1>2, <1>3, <1>5, <2>1, <2>2 DEF OneEngine, PoolRows
    <3>2. QED
      BY <1>0, <1>6, <1>7, <3>1, ItsClientsKept
  <2>4. Pool!Recycled(e)'
    <3>1. stopping' = "no" /\ cl'[k].of = e
      BY <1>1, <1>2, <1>3, <1>7
    <3>2. QED
      BY <1>3, <2>2, <3>1 DEF Pool!Recycled, Pool!NoId
  <2>5. \A j \in Pool!Clients : cl'[j].up /\ cl'[j].of = e =>
             j \in {eng'[e].client, recycle'[e].old, recycle'[e].fresh}
    BY <1>2, <1>3, <1>7, <2>1, <2>2
  <2>6. Housing(e)
    BY <1>2, <1>7, <2>1, <2>4, <2>5 DEF Housing
  <2>7. NoneFreed
    BY <1>1, <1>6, <1>7, <2>1 DEF NoneFreed
  <2>8. Pool!Told'
    BY <1>0, <1>1, <2>1, <2>7, ToldFrame
  <2>9. QED
    BY <1>1, <2>3, <2>6, <2>8, PoolRecycling
<1>10. QED
  BY <1>8, <1>9

LEMMA PoolReplaceFails ==
    ASSUME Pool!IndInv, NEW e \in Engines, Pool!ReplaceFails(e) PROVE Pool!IndInv'
<1>0. /\ PoolRows /\ Fleet /\ Pool!TypeOK /\ Pool!Leases /\ Pool!HandsOff
      /\ Pool!PreemptsBulk /\ Pool!Housed /\ Pool!Told
  BY PoolParts
<1> DEFINE r == recycle[e]
           k == recycle[e].fresh
<1>1. /\ UNCHANGED <<eng, deaths, leased, bulk, preempt, acq, counted, asleep, loose, house, stopping,
                     inspected>>
      /\ r.pc = "fresh"
      /\ recycle' = [recycle EXCEPT ![e].pc = "retire"]
      /\ retiring' = retiring \cup {r.old}
  BY DEF Pool!ReplaceFails
<1>2. /\ stopping = "no"
      /\ r.old \in Pool!Clients /\ cl[r.old].of = e
      /\ k # Pool!NoId => k \in Pool!Clients /\ cl[k].of = e
      /\ eng[e].client \in Pool!Ids
      /\ eng[e].client # Pool!NoId => eng[e].client \in Pool!Clients /\ cl[eng[e].client].of = e
      /\ eng[e].run \in {"boot", "pause"} => eng[e].client = Pool!NoId \/ ~cl[eng[e].client].up
      /\ eng[e].run \in {"up", "await"} => eng[e].client # Pool!NoId
      /\ \A j \in Pool!Clients : cl[j].up /\ cl[j].of = e => j \in {eng[e].client, r.old, k}
  BY <1>1, UnderWay
<1>3. k # Pool!NoId /\ k \in Pool!Clients
  BY <1>0, <1>1, <1>2 DEF Fleet, Pool!Recycled
<1>4. e # "none" /\ Pool!NoId \notin Pool!Clients
  BY PoolIds
<1>5. /\ retiring' \subseteq Pool!Clients
      /\ \A j \in Pool!Clients : cl[j].cmd # "none" \/ cl[j].loaded => cl[j].up
  BY <1>0, <1>1, <1>2 DEF Pool!TypeOK
<1>6. mishaps' \in 0 .. PoolFaults
  <2>1. mishaps \in 0 .. PoolFaults /\ PoolFaults \in Nat
    BY <1>0, PoolOK DEF Pool!TypeOK, Pool!EnginePoolAssumption
  <2>2. mishaps' = mishaps \/ (mishaps < PoolFaults /\ mishaps' = mishaps + 1)
    BY Zenon DEF Pool!ReplaceFails, Pool!Fault
  <2>3. QED
    BY <2>1, <2>2
<1>7. /\ cl' \in [Pool!Clients -> Pool!ClientRows]
      /\ \A j \in Pool!Clients : cl'[j] = cl[j] \/ (cl'[j].cmd = "none" /\ ~cl'[j].up /\ ~cl'[j].loaded)
      /\ \A j \in Pool!Clients : cl'[j].of = cl[j].of
      /\ ~cl'[k].up
  <2>1. CASE cl[k].up
    <3>1. cl' = [cl EXCEPT ![k] = Pool!Ended(k, TRUE)]
      BY <2>1 DEF Pool!ReplaceFails, Pool!Kill
    <3>2. /\ cl' \in [Pool!Clients -> Pool!ClientRows]
          /\ \A j \in Pool!Clients : j # k => cl'[j] = cl[j]
          /\ cl'[k].of = cl[k].of /\ ~cl'[k].up /\ ~cl'[k].loaded /\ cl'[k].cmd = "none"
      BY <1>0, <1>3, <3>1, KillChange DEF PoolRows
    <3>3. QED
      BY <3>2
  <2>2. CASE ~cl[k].up
    <3>1. cl' = cl
      BY <2>2 DEF Pool!ReplaceFails
    <3>2. QED
      BY <1>0, <2>2, <3>1 DEF PoolRows
  <2>3. QED
    BY <2>1, <2>2
<1>8. \A j \in Pool!Clients : cl'[j].up => cl[j].up
  BY <1>7
<1>9. /\ recycle' \in [Engines -> Pool!Recyclings]
      /\ \A d \in Engines : d # e => recycle'[d] = recycle[d]
      /\ recycle'[e].pc = "retire" /\ recycle'[e].fresh = k /\ recycle'[e].old = r.old
  BY <1>0, <1>1 DEF PoolRows, Pool!Recyclings
<1>10. OneEngine(e) /\ ItsClients(e)
  <2>1. \A j \in leased : cl'[j].cmd \in {cl[j].cmd, "none"}
    BY <1>0, <1>7 DEF Pool!TypeOK
  <2>2. \A j \in Pool!Clients : cl'[j].cmd # "none" \/ cl'[j].loaded => cl'[j].up
    BY <1>5, <1>7
  <2>3. QED
    BY <1>0, <1>1, <1>5, <1>6, <1>7, <1>8, <1>9, <2>1, <2>2, ItsClientsKept DEF OneEngine, PoolRows
<1>11. Pool!Recycled(e)'
  <2>1. stopping' = "no" /\ cl'[r.old].of = e /\ cl'[k].of = e /\ r.old # Pool!NoId
    BY <1>1, <1>2, <1>3, <1>4, <1>7
  <2>2. QED
    BY <1>3, <1>7, <1>9, <2>1 DEF Pool!Recycled, Pool!NoId
<1>12. \A j \in Pool!Clients : cl'[j].up /\ cl'[j].of = e =>
             j \in {eng'[e].client, recycle'[e].old, recycle'[e].fresh}
  BY <1>1, <1>2, <1>7, <1>8, <1>9
<1>13. Housing(e)
  BY <1>1, <1>2, <1>7, <1>8, <1>11, <1>12 DEF Housing
<1>14. NoneFreed
  BY <1>1, <1>7, <1>8 DEF NoneFreed
<1>15. Pool!Told'
  BY <1>0, <1>1, <1>14, ToldFrame
<1>16. QED
  BY <1>1, <1>10, <1>13, <1>15, PoolRecycling

\* The end of a recycling: the old client is gone.
LEMMA PoolRecycled ==
    ASSUME Pool!IndInv, NEW e \in Engines, recycle[e].pc \in {"retire", "stop"},
           cl' \in [Pool!Clients -> Pool!ClientRows],
           \A j \in Pool!Clients : cl'[j] = cl[j] \/ (cl'[j].cmd = "none" /\ ~cl'[j].up /\ ~cl'[j].loaded),
           \A j \in Pool!Clients : cl'[j].of = cl[j].of,
           ~cl'[recycle[e].old].up,
           recycle' = [recycle EXCEPT ![e] = Pool!NoRecycle],
           retiring' = retiring \ {recycle[e].old},
           UNCHANGED <<eng, deaths, leased, bulk, preempt, acq, counted, asleep, loose, house, stopping,
                       inspected, mishaps>>
    PROVE  Pool!IndInv'
<1>0. /\ PoolRows /\ Fleet /\ Pool!TypeOK /\ Pool!Leases /\ Pool!HandsOff
      /\ Pool!PreemptsBulk /\ Pool!Housed /\ Pool!Told
  BY PoolParts
<1> DEFINE r == recycle[e]
<1>2. /\ stopping = "no"
      /\ r.old \in Pool!Clients /\ cl[r.old].of = e
      /\ r.fresh # Pool!NoId => r.fresh \in Pool!Clients /\ cl[r.fresh].of = e
      /\ eng[e].client \in Pool!Ids
      /\ eng[e].client # Pool!NoId => eng[e].client \in Pool!Clients /\ cl[eng[e].client].of = e
      /\ eng[e].run \in {"boot", "pause"} => eng[e].client = Pool!NoId \/ ~cl[eng[e].client].up
      /\ eng[e].run \in {"up", "await"} => eng[e].client # Pool!NoId
      /\ \A j \in Pool!Clients : cl[j].up /\ cl[j].of = e => j \in {eng[e].client, r.old, r.fresh}
  BY UnderWay
<1>3. e # "none" /\ Pool!NoId \notin Pool!Clients
  BY PoolIds
<1>4. r.fresh # Pool!NoId /\ cl[r.fresh].up => r.fresh \in {eng[e].client, r.old}
  BY <1>0 DEF Fleet, Pool!Recycled
<1>5. \A j \in Pool!Clients : cl'[j].up => cl[j].up
  OBVIOUS
<1>6. /\ recycle' \in [Engines -> Pool!Recyclings]
      /\ \A d \in Engines : d # e => recycle'[d] = recycle[d]
      /\ recycle'[e] = Pool!NoRecycle
  BY <1>0, PoolIds DEF PoolRows, Pool!Recyclings, Pool!NoRecycle
<1>7. OneEngine(e) /\ ItsClients(e)
  <2>1. \A j \in leased : cl'[j].cmd \in {cl[j].cmd, "none"}
    BY <1>0 DEF Pool!TypeOK
  <2>2. /\ retiring' \subseteq Pool!Clients /\ mishaps' \in 0 .. PoolFaults
        /\ \A j \in Pool!Clients : cl'[j].cmd # "none" \/ cl'[j].loaded => cl'[j].up
    BY <1>0 DEF Pool!TypeOK
  <2>3. QED
    BY <1>0, <1>5, <1>6, <2>1, <2>2, ItsClientsKept DEF OneEngine, PoolRows
<1>8. Pool!Recycled(e)'
  BY <1>6 DEF Pool!Recycled, Pool!NoRecycle, Pool!NoId
<1>9. \A j \in Pool!Clients : cl'[j].up /\ cl'[j].of = e => j = eng'[e].client
  BY <1>2, <1>3, <1>4, <1>5
<1>10. Housing(e)
  BY <1>2, <1>5, <1>8, <1>9 DEF Housing
<1>11. NoneFreed
  BY <1>2, <1>5 DEF NoneFreed
<1>12. Pool!Told'
  BY <1>0, <1>11, ToldFrame
<1>13. QED
  BY <1>7, <1>10, <1>12, PoolRecycling

LEMMA PoolRetired == ASSUME Pool!IndInv, NEW e \in Engines, Pool!Retired(e) PROVE Pool!IndInv'
<1>0. PoolRows
  BY PoolParts
<1> DEFINE k == recycle[e].old
<1>1. /\ UNCHANGED <<eng, deaths, leased, bulk, preempt, acq, counted, asleep, loose, house, stopping,
                     inspected, mishaps>>
      /\ recycle[e].pc = "stop"
      /\ recycle' = [recycle EXCEPT ![e] = Pool!NoRecycle] /\ retiring' = retiring \ {k}
  BY DEF Pool!Retired
<1>2. k \in Pool!Clients
  BY <1>1, UnderWay
<1>3. CASE cl[k].up
  <2>1. cl' = [cl EXCEPT ![k] = Pool!Ended(k, TRUE)]
    BY <1>3 DEF Pool!Retired, Pool!Kill
  <2>2. /\ cl' \in [Pool!Clients -> Pool!ClientRows]
        /\ \A j \in Pool!Clients : j # k => cl'[j] = cl[j]
        /\ cl'[k].of = cl[k].of /\ ~cl'[k].up /\ ~cl'[k].loaded /\ cl'[k].cmd = "none"
    BY <1>0, <1>2, <2>1, KillChange DEF PoolRows
  <2>3. QED
    BY <1>1, <2>2, PoolRecycled
<1>4. CASE ~cl[k].up
  <2>1. cl' = cl
    BY <1>4 DEF Pool!Retired
  <2>2. QED
    BY <1>0, <1>1, <1>4, <2>1, PoolRecycled DEF PoolRows
<1>5. QED
  BY <1>3, <1>4

LEMMA PoolRetire == ASSUME Pool!IndInv, NEW e \in Engines, Pool!Retire(e) PROVE Pool!IndInv'
<1>0. /\ PoolRows /\ Fleet /\ Pool!TypeOK /\ Pool!Leases /\ Pool!HandsOff
      /\ Pool!PreemptsBulk /\ Pool!Housed /\ Pool!Told
  BY PoolParts
<1> DEFINE r == recycle[e]
           k == recycle[e].old
<1>1. /\ UNCHANGED <<eng, deaths, leased, bulk, preempt, acq, counted, asleep, loose, house, stopping,
                     inspected, mishaps>>
      /\ r.pc = "retire"
  BY DEF Pool!Retire
<1>2. CASE ~cl[k].up
  <2>1. /\ cl' = cl /\ recycle' = [recycle EXCEPT ![e] = Pool!NoRecycle] /\ retiring' = retiring \ {k}
    BY <1>2 DEF Pool!Retire
  <2>2. QED
    BY <1>0, <1>1, <1>2, <2>1, PoolRecycled DEF PoolRows
<1>3. CASE cl[k].up
  <2>1. /\ cl' = [cl EXCEPT ![k].cmd = "stop"] /\ retiring' = retiring /\ k \notin leased
        /\ recycle' = [recycle EXCEPT ![e].pc = "stop"]
    BY <1>3 DEF Pool!Retire, Pool!Free
  <2>2. /\ stopping = "no"
        /\ k \in Pool!Clients /\ cl[k].of = e
        /\ r.fresh \in Pool!Ids
        /\ r.fresh # Pool!NoId => r.fresh \in Pool!Clients /\ cl[r.fresh].of = e
        /\ eng[e].client \in Pool!Ids
        /\ eng[e].client # Pool!NoId => eng[e].client \in Pool!Clients /\ cl[eng[e].client].of = e
        /\ eng[e].run \in {"boot", "pause"} => eng[e].client = Pool!NoId \/ ~cl[eng[e].client].up
        /\ eng[e].run \in {"up", "await"} => eng[e].client # Pool!NoId
        /\ \A j \in Pool!Clients : cl[j].up /\ cl[j].of = e => j \in {eng[e].client, k, r.fresh}
    BY <1>1, UnderWay
  <2>3. e # "none" /\ Pool!NoId \notin Pool!Clients
    BY PoolIds
  <2>4. /\ cl' \in [Pool!Clients -> Pool!ClientRows]
        /\ \A j \in Pool!Clients : j # k => cl'[j] = cl[j]
        /\ cl'[k].of = cl[k].of /\ cl'[k].up = cl[k].up /\ cl'[k].cmd = "stop"
    BY <1>0, <2>1, <2>2, CmdChange DEF PoolRows, Cmds
  <2>5. \A j \in Pool!Clients : cl'[j].of = cl[j].of /\ cl'[j].up = cl[j].up
    BY <2>4
  <2>6. /\ recycle' \in [Engines -> Pool!Recyclings]
        /\ \A d \in Engines : d # e => recycle'[d] = recycle[d]
        /\ recycle'[e].pc = "stop" /\ recycle'[e].fresh = r.fresh /\ recycle'[e].old = k
    BY <1>0, <2>1 DEF PoolRows, Pool!Recyclings
  <2>7. OneEngine(e) /\ ItsClients(e)
    <3>1. \A j \in leased : cl'[j].cmd \in {cl[j].cmd, "none"}
      BY <1>0, <2>1, <2>4 DEF Pool!TypeOK
    <3>2. /\ retiring' \subseteq Pool!Clients /\ mishaps' \in 0 .. PoolFaults
          /\ \A j \in Pool!Clients : cl'[j].cmd # "none" \/ cl'[j].loaded => cl'[j].up
      BY <1>0, <1>1, <1>3, <2>1, <2>4 DEF Pool!TypeOK
    <3>3. QED
      BY <1>0, <1>1, <2>4, <2>5, <2>6, <3>1, <3>2, ItsClientsKept DEF OneEngine, PoolRows
  <2>8. Pool!Recycled(e)'
    <3>1. r.fresh # Pool!NoId /\ cl[r.fresh].up => r.fresh \in {eng[e].client, k}
      BY <1>0, <1>1 DEF Fleet, Pool!Recycled
    <3>2. /\ stopping' = "no" /\ cl'[k].of = e /\ k # Pool!NoId /\ eng' = eng
          /\ r.fresh # Pool!NoId => cl'[r.fresh].of = e /\ cl'[r.fresh].up = cl[r.fresh].up
      BY <1>1, <2>2, <2>3, <2>5
    <3>3. QED
      BY <2>6, <3>1, <3>2 DEF Pool!Recycled, Pool!NoId
  <2>9. Housing(e)
    BY <1>1, <2>2, <2>5, <2>6, <2>8 DEF Housing
  <2>10. NoneFreed
    BY <1>1, <2>1, <2>4 DEF NoneFreed
  <2>11. Pool!Told'
    BY <1>0, <1>1, <2>10, ToldFrame
  <2>12. QED
    BY <1>1, <2>7, <2>9, <2>11, PoolRecycling
<1>4. QED
  BY <1>2, <1>3

LEMMA PoolStop == ASSUME Pool!IndInv, Pool!Stop PROVE Pool!IndInv'
<1>0. /\ PoolRows /\ Fleet /\ Pool!TypeOK /\ Pool!Leases /\ Pool!HandsOff
      /\ Pool!PreemptsBulk /\ Pool!Housed /\ Pool!Told
  BY PoolParts
<1>1. /\ UNCHANGED <<eng, deaths, acq, counted, inspected, mishaps>>
      /\ stopping' = "yes" /\ house' = [pc |-> "sleep", cl |-> Pool!NoId]
      /\ recycle' = [e \in Engines |-> Pool!NoRecycle] /\ retiring' = {}
      /\ leased' = leased \ loose /\ bulk' = bulk \ loose /\ preempt' = preempt \ loose
      /\ loose' = {} /\ asleep' = {}
  BY DEF Pool!Stop, Pool!Notify
<1>2. /\ cl' \in [Pool!Clients -> Pool!ClientRows]
      /\ \A k \in Pool!Clients :
           /\ cl'[k].of = cl[k].of /\ (cl'[k].up => cl[k].up)
           /\ cl'[k].cmd # "none" \/ cl'[k].loaded => cl'[k].up
  <2>1. \A k \in Pool!Clients :
          /\ Pool!Ended(k, TRUE) \in Pool!ClientRows /\ Pool!Ended(k, TRUE).of = cl[k].of
          /\ ~Pool!Ended(k, TRUE).up /\ ~Pool!Ended(k, TRUE).loaded /\ Pool!Ended(k, TRUE).cmd = "none"
    BY <1>0 DEF PoolRows, Pool!ClientRows, Pool!Ended
  <2>2. \A k \in Pool!Clients :
          /\ [cl[k] EXCEPT !.cmd = "none"] \in Pool!ClientRows
          /\ [cl[k] EXCEPT !.cmd = "none"].of = cl[k].of
          /\ [cl[k] EXCEPT !.cmd = "none"].up = cl[k].up
          /\ [cl[k] EXCEPT !.cmd = "none"].loaded = cl[k].loaded
          /\ [cl[k] EXCEPT !.cmd = "none"].cmd = "none"
    BY <1>0 DEF PoolRows, Pool!ClientRows
  <2>3. /\ cl' = [k \in Pool!Clients |-> cl'[k]]
        /\ \A k \in Pool!Clients : cl'[k] \in {Pool!Ended(k, TRUE), [cl[k] EXCEPT !.cmd = "none"], cl[k]}
    BY DEF Pool!Stop
  <2>4. \A k \in Pool!Clients : cl'[k] \in Pool!ClientRows
    BY <1>0, <2>1, <2>2, <2>3 DEF PoolRows
  <2>5. \A k \in Pool!Clients : cl[k].cmd # "none" \/ cl[k].loaded => cl[k].up
    BY <1>0 DEF Pool!TypeOK
  <2>6. QED
    BY <2>1, <2>2, <2>3, <2>4, <2>5
<1>3. house' \in Pool!Inspections /\ house'.cl = Pool!NoId /\ house'.pc = "sleep"
  BY <1>1, PoolIds DEF Pool!Inspections
<1>4. recycle' \in [Engines -> Pool!Recyclings]
  BY <1>1, PoolIds DEF Pool!Recyclings, Pool!NoRecycle
<1>5. Pool!TypeOK'
  BY <1>0, <1>1, <1>2, <1>3, <1>4 DEF Pool!TypeOK, Pool!Clients
<1>6. Pool!Leases'
  BY <1>0, <1>1, LooseGiven
<1>7. Pool!Processes'
  <2>1. \A j \in Pool!Clients : cl'[j].up \/ j \in leased' => cl'[j].of # "none"
    BY <1>0, <1>1, <1>2 DEF Fleet, Pool!Processes, Pool!Started
  <2>2. \A d \in Engines : eng[d].client \in Pool!Ids
    BY <1>0, PoolFields
  <2>3. \A j \in Pool!Ids : j # Pool!NoId => cl'[j].of = cl[j].of /\ (cl'[j].up => cl[j].up)
    BY <1>2, PoolIds
  <2>4. QED
    BY <1>0, <1>1, <2>1, <2>2, <2>3 DEF Fleet, Pool!Processes, Pool!Started, Pool!NoId, Pool!Clients
<1>8. ASSUME NEW d \in Engines PROVE Pool!Recycled(d)'
  <2>1. recycle'[d] = Pool!NoRecycle
    BY <1>1
  <2>2. QED
    BY <2>1 DEF Pool!Recycled, Pool!NoRecycle, Pool!NoId
<1>9. Pool!NoOrphans' /\ Pool!HandsOff'
  BY <1>1 DEF Pool!NoOrphans, Pool!HandsOff
<1>10. Pool!Housed'
  BY <1>3 DEF Pool!Housed, Pool!NoId
<1>11. Pool!PreemptsBulk' /\ Pool!Told'
  BY <1>0, <1>1, ToldAll DEF Pool!PreemptsBulk
<1>12. QED
  BY <1>5, <1>6, <1>7, <1>8, <1>9, <1>10, <1>11, PoolWhole DEF Fleet

LEMMA PoolStopped == ASSUME Pool!IndInv, Pool!Stopped PROVE Pool!IndInv'
<1>0. /\ PoolRows /\ Fleet /\ Pool!TypeOK /\ Pool!Leases /\ Pool!HandsOff
      /\ Pool!PreemptsBulk /\ Pool!Housed /\ Pool!Told
  BY PoolParts
<1>1. /\ UNCHANGED <<deaths, cl, leased, bulk, preempt, retiring, recycle, acq, counted, loose, house,
                     inspected, mishaps>>
      /\ stopping = "yes" /\ stopping' = "stopped" /\ asleep' = {}
      /\ \A k \in Pool!Clients : ~cl[k].up
      /\ eng' = [e \in Engines |-> [eng[e] EXCEPT !.state = "stopped", !.run = "end"]]
  BY DEF Pool!Stopped, Pool!Notify, Pool!Clients
<1>2. /\ eng' \in [Engines -> Pool!EngineRows]
      /\ \A e \in Engines : eng'[e].client = eng[e].client /\ eng'[e].run = "end"
  <2>1. \A q \in Pool!EngineRows :
          /\ [q EXCEPT !.state = "stopped", !.run = "end"] \in Pool!EngineRows
          /\ [q EXCEPT !.state = "stopped", !.run = "end"].client = q.client
          /\ [q EXCEPT !.state = "stopped", !.run = "end"].run = "end"
    BY DEF Pool!EngineRows
  <2>2. QED
    BY <1>0, <1>1, <2>1 DEF PoolRows
<1>3. Pool!TypeOK'
  BY <1>0, <1>1, <1>2 DEF Pool!TypeOK, Pool!Clients
<1>4. Pool!Processes'
  BY <1>0, <1>1, <1>2 DEF Fleet, Pool!Processes, Pool!Started, Pool!NoId, Pool!Clients
<1>5. ASSUME NEW d \in Engines PROVE Pool!Recycled(d)'
  <2>1. recycle'[d] = Pool!NoRecycle
    BY <1>0, <1>1 DEF Fleet, Pool!Recycled
  <2>2. QED
    BY <2>1 DEF Pool!Recycled, Pool!NoRecycle, Pool!NoId
<1>6. Pool!NoOrphans' /\ Pool!HandsOff'
  BY <1>1 DEF Pool!NoOrphans, Pool!HandsOff, Pool!Clients
<1>7. Pool!Housed'
  BY <1>0, <1>1 DEF Pool!Housed, Pool!NoId
<1>8. Pool!PreemptsBulk' /\ Pool!Told' /\ Pool!Leases'
  BY <1>0, <1>1, ToldAll, LeasesFrame DEF Pool!PreemptsBulk
<1>9. QED
  BY <1>3, <1>4, <1>5, <1>6, <1>7, <1>8, PoolWhole DEF Fleet

LEMMA PoolBegins == Pool!Init => Pool!IndInv
<1> SUFFICES ASSUME Pool!Init PROVE Pool!IndInv
  OBVIOUS
<1>1. /\ [client |-> Pool!NoId, state |-> "loading", run |-> "boot"] \in Pool!EngineRows
      /\ Pool!NoClient \in Pool!ClientRows /\ Pool!NoRecycle \in Pool!Recyclings
      /\ [pc |-> "new", cl |-> Pool!NoId] \in Pool!CallerRows
      /\ [pc |-> "sleep", cl |-> Pool!NoId] \in Pool!Inspections
  BY PoolIds DEF Pool!EngineRows, Pool!ClientRows, Pool!NoClient, Pool!NoRecycle, Pool!Recyclings,
                 Pool!CallerRows, Pool!Inspections
<1>2. Pool!TypeOK
  <2>1. \A k \in Pool!Clients : cl[k].cmd = "none" /\ ~cl[k].loaded
    BY DEF Pool!Init, Pool!NoClient
  <2>2. inspected \in 0 .. MaxInspect /\ mishaps \in 0 .. PoolFaults
    BY PoolOK DEF Pool!Init, Pool!EnginePoolAssumption
  <2>3. QED
    BY <1>1, <2>1, <2>2 DEF Pool!Init, Pool!TypeOK
<1>3. \A k \in Pool!Clients : ~cl[k].up
  BY DEF Pool!Init, Pool!NoClient
<1>4. Pool!Leases /\ Pool!HandsOff /\ Pool!PreemptsBulk /\ Pool!Told /\ Pool!Housed
  BY DEF Pool!Init, Pool!Leases, Pool!HandsOff, Pool!PreemptsBulk, Pool!Told, Pool!Housed
<1>5. Pool!Processes
  BY <1>3 DEF Pool!Init, Pool!Processes
<1>6. \A e \in Engines : Pool!Recycled(e)
  BY DEF Pool!Init, Pool!Recycled, Pool!NoRecycle
<1>7. Pool!NoOrphans
  BY <1>3 DEF Pool!NoOrphans
<1>8. QED
  BY <1>2, <1>4, <1>5, <1>6, <1>7 DEF Pool!IndInv

LEMMA PoolStep == Pool!IndInv /\ Pool!Next => Pool!IndInv'
<1> SUFFICES ASSUME Pool!IndInv, Pool!Next PROVE Pool!IndInv'
  OBVIOUS
<1>1. CASE Pool!House
  BY <1>1, PoolPong, PoolHouseKills, PoolInspect, PoolUnloaded, PoolHouseDone DEF Pool!House
<1>2. CASE \E e \in Engines : Pool!Engine(e)
  BY <1>2, PoolBoot, PoolBootDone, PoolBootFails, PoolAfterDeath, PoolPauseEnds, PoolRecycle,
     PoolReplace, PoolReplaceFails, PoolRetire, PoolRetired, PoolPing DEF Pool!Engine
<1>3. CASE \E a \in Callers : Pool!Caller(a)
  BY <1>3, PoolLease, PoolWait, PoolLate, PoolLoaded, PoolLoadedLate, PoolLoadLate, PoolCall,
     PoolCallEnds, PoolCallDeadline DEF Pool!Caller
<1>4. CASE \E k \in Pool!Clients :
             Pool!Crash(k) \/ Pool!LoadTimeout(k) \/ Pool!LooseDone(k) \/ Pool!StopClient(k)
  BY <1>4, PoolCrash, PoolLoadTimeout, PoolLooseDone, PoolStopClient
<1>5. QED
  BY <1>1, <1>2, <1>3, <1>4, PoolStop, PoolStopped DEF Pool!Next

LEMMA PoolStutter == Pool!IndInv /\ UNCHANGED <<poolVars, mishaps>> => Pool!IndInv'
<1> SUFFICES ASSUME Pool!IndInv, UNCHANGED <<poolVars, mishaps>> PROVE Pool!IndInv'
  OBVIOUS
<1>0. /\ PoolRows /\ Fleet /\ Pool!TypeOK /\ Pool!Leases /\ Pool!HandsOff
      /\ Pool!PreemptsBulk /\ Pool!Housed /\ Pool!Told
  BY PoolParts
<1>1. Runs /\ deaths' = deaths
  BY DEF Runs, poolVars
<1>2. QED
  BY <1>0, <1>1, PoolTask DEF poolVars, PoolRows, Pool!TypeOK

\* One user for every lease, from who has which client.
LEMMA OneUserOfALease == Pool!IndInv => Pool!OneUser
<1> SUFFICES ASSUME Pool!IndInv PROVE Pool!OneUser
  OBVIOUS
<1>0. Pool!Leases /\ Pool!TypeOK /\ Pool!NoId \notin leased
  BY PoolParts, PoolIds DEF Pool!TypeOK
<1>1. ASSUME NEW k \in leased
      PROVE  Pool!Cardinality(Pool!Holder(k)) + Pool!Cardinality(loose \cap {k}) = 1
  <2>0. \A S : Pool!Cardinality(S) = Cardinality(S)
    BY DEF Pool!Cardinality, Cardinality
  <2>1. Cardinality({}) = 0 /\ Cardinality({k}) = 1
    BY FS_EmptySet, FS_Singleton
  <2>2. CASE k \in loose
    <3>1. Pool!Holder(k) = {}
      BY <1>0, <2>2 DEF Pool!Leases, Pool!Holder
    <3>2. loose \cap {k} = {k}
      BY <2>2
    <3>3. QED
      BY <2>0, <2>1, <3>1, <3>2
  <2>3. CASE k \notin loose
    <3>1. PICK a \in Callers : acq[a].cl = k
      BY <1>0, <2>3 DEF Pool!Leases
    <3>2. Pool!Holder(k) = {a}
      BY <1>0, <3>1 DEF Pool!Leases, Pool!Holder
    <3>3. loose \cap {k} = {} /\ Cardinality({a}) = 1
      BY <2>3, FS_Singleton
    <3>4. QED
      BY <2>0, <2>1, <3>2, <3>3
  <2>4. QED
    BY <2>2, <2>3
<1>2. QED
  BY <1>0, <1>1 DEF Pool!OneUser, Pool!Leases

\* The pool of engine processes is safe, for every set of engines and
\* callers and every bound: a leased process has one user, only its load touches
\* it, only bulk leases are asked to make room, nobody sleeps beside a client it
\* could have and no process is left over (supervisor.py).
THEOREM PoolIsSafe == PartSpec => []PoolSafe
<1>1. PartInit => Pool!IndInv
  BY PoolBegins DEF PartInit
<1>2. (part = "pool" => Pool!IndInv) => PoolSafe
  BY OneUserOfALease DEF PoolSafe, Pool!IndInv
<1>3. (part = "pool" => Pool!IndInv) /\ [PartNext]_partVars => (part = "pool" => Pool!IndInv)'
  <2> SUFFICES ASSUME part = "pool" => Pool!IndInv, [PartNext]_partVars, part' = "pool"
               PROVE  Pool!IndInv'
    OBVIOUS
  <2>1. part = "pool"
    BY Zenon DEF PartNext, partVars
  <2>2. CASE Pool!Next
    BY <2>1, <2>2, PoolStep
  <2>3. CASE UNCHANGED partVars
    <3>1. UNCHANGED <<poolVars, mishaps>>
      BY <2>3, Zenon DEF partVars
    <3>2. QED
      BY <2>1, <3>1, PoolStutter
  <2>4. Pool!Next \/ UNCHANGED partVars
    BY <2>1, Zenon DEF PartNext
  <2>5. QED
    BY <2>2, <2>3, <2>4
<1>4. QED
  BY <1>1, <1>2, <1>3, PTL DEF PartSpec
=============================================================================
