------------------------------ MODULE MCWorker ------------------------------
(***************************************************************************)
(* The worker, for TLC: the lane that brings its tasks, the pool of engine *)
(* processes (Pool) and the batcher in front of it (Batch).  A behaviour   *)
(* works on one part and leaves the others as they began: the parts share  *)
(* no state (pool and batcher count their mishaps in one variable), so     *)
(* interleaving them would only multiply the states.                       *)
(***************************************************************************)
EXTENDS WorkerLane, TLC

CONSTANTS
    Parts, w1, w2, e1, a1, a2, a3,
    Engines, Callers, Urgent, MaxClients, BreakerDeaths, MaxInspect, PoolFaults,
    Subs, Bad, Hanging, BatchFaults

VARIABLES part, mishaps,
    eng, deaths, cl, leased, bulk, preempt, retiring, recycle, acq, counted, asleep,
    loose, house, stopping, inspected,
    sub, row, high, normal, loop, calls, wake, arrived, limit, shrunk, soloTime, slow,
    closed, now

Pool == INSTANCE EnginePool WITH MaxFaults <- PoolFaults, faults <- mishaps

Batch == INSTANCE Batcher WITH
    RowsOf <- [s \in Subs |-> IF s = "bulk" THEN 2 ELSE 1],
    CostOf <- [s \in Subs |-> 1],
    Deadline <- [s \in Subs |-> IF s = "odd" THEN 1 ELSE 2],
    FormOf <- [s \in Subs |-> 1],
    Priority <- {"urgent"}, MaxBatch <- 3, MaxPreemptions <- 1,
    PromptCalls <- TRUE, MaxTime <- 2, MaxFaults <- BatchFaults,
    faults <- mishaps

ASSUME PoolOK == Pool!EnginePoolAssumption
ASSUME BatchOK == Batch!BatcherAssumption

SameKey == [t \in Tasks |-> "a"]
Interchange == Permutations(Workers) \cup Permutations(Callers \ Urgent)

laneVars == <<queued, deliveries, holder, fresh, generation, lease, owners, trusted,
              draining, done, lost, advisories, reap, reapOwner, faults, drains>>
poolVars == <<eng, deaths, cl, leased, bulk, preempt, retiring, recycle, acq, counted,
              asleep, loose, house, stopping, inspected>>
batchVars == <<sub, row, high, normal, loop, calls, wake, arrived, limit, shrunk,
               soloTime, slow, closed, now>>
partVars == <<part, mishaps, laneVars, poolVars, batchVars>>

PartInit == part \in Parts /\ Init /\ Pool!Init /\ Batch!Init

PartNext ==
    /\ \/ part = "lane" /\ Next /\ UNCHANGED <<mishaps, poolVars, batchVars>>
       \/ part = "pool" /\ Pool!Next /\ UNCHANGED <<laneVars, batchVars>>
       \/ part = "batch" /\ Batch!Next /\ UNCHANGED <<laneVars, poolVars>>
    /\ UNCHANGED part

PartSpec == PartInit /\ [][PartNext]_partVars

\* The fairness of each part, while it is the one at work.
FairLane ==
    /\ \A t \in Tasks :
        /\ WF_laneVars(part = "lane" /\ \E w \in Workers : Fetch(w, t))
        /\ WF_laneVars(part = "lane" /\ Silence(t))
        /\ WF_laneVars(part = "lane" /\ Expire(t))
        /\ WF_laneVars(part = "lane" /\ Claim(t))
        /\ SF_laneVars(part = "lane" /\ Sweep(t))
        /\ WF_laneVars(part = "lane" /\ ReadOwner(t))
        /\ WF_laneVars(part = "lane" /\ Confirm(t))
        /\ WF_laneVars(part = "lane" /\ ApplyWorkerLost(t))
        /\ WF_laneVars(part = "lane" /\ Forget(t))
        /\ \A w \in Workers : WF_laneVars(part = "lane" /\ WorkerStep(w, t))
    /\ \A w \in Workers : /\ WF_laneVars(part = "lane" /\ ConnectionTrusted(w))
                          /\ WF_laneVars(part = "lane" /\ Exit(w))

FairPool ==
    /\ WF_poolVars(part = "pool" /\ (Pool!Pong \/ Pool!Inspect \/ Pool!Unloaded \/ Pool!HouseDone))
    /\ WF_poolVars(part = "pool" /\ Pool!Stopped)
    /\ \A e \in Engines :
        /\ WF_poolVars(part = "pool" /\ (\/ Pool!Boot(e) \/ Pool!BootDone(e)
                                         \/ Pool!AfterDeath(e) \/ Pool!PauseEnds(e)))
        /\ WF_poolVars(part = "pool" /\ (\/ Pool!Recycle(e) \/ Pool!Replace(e)
                                         \/ Pool!ReplaceFails(e) \/ Pool!Retire(e)
                                         \/ Pool!Retired(e)))
    /\ \A a \in Callers :
        WF_poolVars(part = "pool" /\ (\/ Pool!Lease(a) \/ Pool!Wait(a) \/ Pool!Loaded(a)
                                      \/ Pool!Call(a) \/ Pool!CallEnds(a)))
    /\ \A k \in 1 .. MaxClients : /\ WF_poolVars(part = "pool" /\ Pool!LooseDone(k))
                                  /\ WF_poolVars(part = "pool" /\ Pool!StopClient(k))

FairBatch ==
    /\ WF_batchVars(part = "batch" /\ Batch!Loop)
    /\ WF_batchVars(part = "batch" /\ Batch!Tick)
    /\ \A e \in Engines :
        WF_batchVars(part = "batch" /\ (\/ Batch!Start(e) \/ Batch!Reply(e)
                                        \/ Batch!Refused(e) \/ Batch!Killed(e)
                                        \/ Batch!CallExpired(e)))

FairParts == PartSpec /\ FairLane /\ FairPool /\ FairBatch

-----------------------------------------------------------------------------
(* The properties of the pool and of the batcher, stated in EnginePool and *)
(* Batcher.  Those of the lane are WorkerLane's own.                       *)

\* A lease of an engine process has one user, only the load touches a leased
\* client, only bulk leases are asked to make room, no caller sleeps beside
\* a client it could have, no process is left over (EnginePool).
PoolSafe ==
    part = "pool" =>
        /\ Pool!TypeOK /\ Pool!OneUser /\ Pool!HandsOff
        /\ Pool!PreemptsBulk /\ Pool!Told /\ Pool!NoOrphans

\* A submitted row is in one place until it is settled, a neighbour of a
\* refused submission does not fail with it, and nothing fails for a deadline
\* before it (Batcher).
BatchSafe ==
    part = "batch" => /\ Batch!TypeOK /\ Batch!RowsKept
                      /\ Batch!OnlyGuilty /\ Batch!OnlyLate

\* Every task leaves the queue (WorkerLane; none comes back, so there is none
\* again and again), every caller of an engine gets a client or an error
\* (EnginePool), every submission is answered (Batcher).
WorkSettles ==
    /\ []<>(part = "lane" => queued = {})
    /\ []<>(part = "pool" => Pool!AllEnded)
    /\ Batch!EverySubmissionSettles
=============================================================================
