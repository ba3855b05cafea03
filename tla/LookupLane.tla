---------------------------- MODULE LookupLane ----------------------------
(***************************************************************************)
(* The concurrency of lyrics lookups: LookupLane shares its slots between  *)
(* targeted lookups (one queue job each, claimed by LookupWorker) and the  *)
(* lookups of the sweep job, under a cap that WriteGovernor moves with the *)
(* pressure on the database.                                               *)
(*                                                                         *)
(* The lane's own counters (targeted, reserved, sweep, wants, waiting) are *)
(* kept apart from the LookupSlot values that really exist: slots in the   *)
(* worker's vector, lookups in its tasks, running in the sweep.  A slot    *)
(* gives its count back when it is dropped, and a sweep may be dropped     *)
(* at any await.  Every lock of `held` is one step; the cap is read before *)
(* the lock, so it may be stale inside.                                    *)
(*                                                                         *)
(* Abstractions.  The jobs that wait for a targeted lookup are a free      *)
(* choice of what a claim returns.  A waiting sweep looks again after      *)
(* SLOT_RECHECK at the latest, so `freed` only makes it look earlier.      *)
(***************************************************************************)
EXTENDS Naturals

CONSTANTS
    Concurrency,  \* lyrics.concurrency, the lane's base
    Ceiling,      \* the governor's ceiling
    Batch,        \* most lookups one sweep claims
    Sweeps,       \* bound on sweeps
    Moves         \* bound on the governor's changes

LaneAssumption ==
    /\ Concurrency \in Nat /\ Ceiling \in Nat
    /\ Batch \in Nat /\ Sweeps \in Nat /\ Moves \in Nat

Most(a, b)  == IF a >= b THEN a ELSE b
Least(a, b) == IF a <= b THEN a ELSE b
Minus(a, b) == IF a >= b THEN a - b ELSE 0    \* saturating_sub
CeilDiv(a, b) == (a + b - 1) \div b

Base == Most(Concurrency, 1)
Floor == Least(2, Ceiling)

VARIABLES
    limit,     \* WriteGovernor.limit
    targeted, reserved, sweep, wants, waiting,   \* Held
    worker,    \* where LookupWorker::run is
    cap,       \* the cap it read for targeted_slots
    slots,     \* LookupSlots in its vector
    asked,     \* how many jobs its claim asked for
    jobs,      \* how many the claim returned
    lookups,   \* spawned targeted lookups, each with its slot
    batch,     \* where process_batch of the sweep is, "none" without a sweep
    sweepCap,  \* the cap it read for sweep_slot
    queue,     \* its claims that have no slot yet
    running,   \* its lookups that run, each with its slot
    sweeps, moves

lane == <<targeted, reserved, sweep, wants, waiting>>
work == <<worker, cap, slots, asked, jobs, lookups>>
batches == <<batch, sweepCap, queue, running, sweeps>>
vars == <<limit, lane, work, batches, moves>>

WorkerSteps == {"idle", "take", "claim", "drop", "settle"}
BatchSteps == {"none", "demand", "cap", "take", "wait", "drop"}

Init ==
    /\ limit = Floor
    /\ targeted = 0 /\ reserved = 0 /\ sweep = 0 /\ wants = 0
    /\ waiting = FALSE
    /\ worker = "idle"
    /\ cap = 0 /\ slots = 0 /\ asked = 0 /\ jobs = 0 /\ lookups = 0
    /\ batch = "none"
    /\ sweepCap = 0 /\ queue = 0 /\ running = 0
    /\ sweeps = Sweeps
    /\ moves = Moves

---------------------------------------------------------------------------
(* The governor.  Readings of the database are free, the 20 s and 30 s     *)
(* between two changes are the bound on moves.                             *)

Lowered == Most(limit \div 2, Floor)

Raised  == Least(limit + 1, Ceiling)

Adjust ==
    /\ moves > 0
    /\ moves' = moves - 1
    /\ limit' \in {Lowered, Raised} \ {limit}
    /\ UNCHANGED <<lane, work, batches>>

(* LookupLane::cap                                                         *)
Cap == Least(Most(CeilDiv(Base * limit, Most(Ceiling, 1)), 1), Base)

SweepShare(c) == CeilDiv(c, 4)

SweepLimit(c, targetedWaiting) ==
    IF targetedWaiting THEN SweepShare(c) ELSE Most(Minus(c, 1), SweepShare(c))

---------------------------------------------------------------------------
(* LookupWorker::run.                                                      *)

ReadCap ==
    /\ worker = "idle"
    /\ worker' = "take"
    /\ cap' = Cap
    /\ UNCHANGED <<limit, lane, slots, asked, jobs, lookups, batches, moves>>

(* Mutant: nothing is kept for the sweep.                                  *)
KeptForSweepNever(c) == 0

(* The reserve of targeted_slots.                                          *)
KeptForSweep(c) == Minus(Least(wants, SweepShare(c)), sweep)

Room(c) == Minus(c, targeted + sweep + KeptForSweep(c))

TargetedSlots ==
    /\ worker = "take"
    /\ LET room == Room(cap)
       IN  /\ targeted' = targeted + room
           /\ reserved' = reserved + room
           /\ slots' = room
           /\ asked' = room
           /\ worker' = IF room = 0 THEN "idle" ELSE "claim"
    /\ UNCHANGED <<limit, sweep, wants, waiting, cap, jobs, lookups, batches, moves>>

(* The claim returns jobs for some of the slots, and truncate drops the    *)
(* others; or it fails, and `?` drops them all and leaves waiting alone.   *)
ClaimReturns ==
    /\ worker = "claim"
    /\ jobs' \in 0..slots
    /\ worker' = "settle"
    /\ UNCHANGED <<limit, lane, cap, slots, asked, lookups, batches, moves>>

ClaimFails ==
    /\ worker = "claim"
    /\ jobs' = 0
    /\ worker' = "drop"
    /\ UNCHANGED <<limit, lane, cap, slots, asked, lookups, batches, moves>>

(* Mutant: a slot that got no job forgets that it was reserved.            *)
DropSlotUnreserved ==
    /\ worker \in {"drop", "settle"}
    /\ slots > jobs
    /\ slots' = slots - 1
    /\ targeted' = Minus(targeted, 1)
    /\ UNCHANGED <<limit, reserved, sweep, wants, waiting, worker, cap, asked, jobs, lookups,
                   batches, moves>>

(* Drop of a LookupSlot that is still reserved.                            *)
DropSlot ==
    /\ worker \in {"drop", "settle"}
    /\ slots > jobs
    /\ slots' = slots - 1
    /\ targeted' = Minus(targeted, 1)
    /\ reserved' = Minus(reserved, 1)
    /\ UNCHANGED <<limit, sweep, wants, waiting, worker, cap, asked, jobs, lookups, batches,
                   moves>>

ClaimGivenUp ==
    /\ worker = "drop"
    /\ slots = 0
    /\ worker' = "idle"
    /\ UNCHANGED <<limit, lane, cap, slots, asked, jobs, lookups, batches, moves>>

(* The rest of claim_targeted, and spawn_job for every job.                *)
SettleClaim ==
    /\ worker = "settle"
    /\ slots = jobs
    /\ reserved' = Minus(reserved, slots)
    /\ waiting' = (asked > 0 /\ jobs = asked)
    /\ lookups' = lookups + slots
    /\ slots' = 0
    /\ worker' = "idle"
    /\ UNCHANGED <<limit, targeted, sweep, wants, cap, asked, jobs, batches, moves>>

(* A task ends, by itself, by its deadline or by a panic.                  *)
LookupEnds ==
    /\ lookups > 0
    /\ lookups' = lookups - 1
    /\ targeted' = Minus(targeted, 1)
    /\ UNCHANGED <<limit, reserved, sweep, wants, waiting, worker, cap, slots, asked, jobs,
                   batches, moves>>

---------------------------------------------------------------------------
(* LookupWorker::start_sweep and process_batch of the sweep.               *)

StartSweep ==
    /\ worker = "idle"
    /\ batch = "none"
    /\ sweeps > 0
    /\ sweeps' = sweeps - 1
    /\ queue' \in 0..Batch
    /\ batch' = "demand"
    /\ UNCHANGED <<limit, lane, work, sweepCap, running, moves>>

Demand ==
    /\ batch = "demand"
    /\ wants' = queue + running
    /\ batch' = "cap"
    /\ UNCHANGED <<limit, targeted, reserved, sweep, waiting, work, sweepCap, queue, running,
                   sweeps, moves>>

(* Each turn of the inner loop calls sweep_slot, which reads the cap.      *)
ReadSweepCap ==
    /\ batch = "cap"
    /\ queue > 0
    /\ batch' = "take"
    /\ sweepCap' = Cap
    /\ UNCHANGED <<limit, lane, work, queue, running, sweeps, moves>>

SweepSlot ==
    /\ batch = "take"
    /\ LET refused == \/ sweep >= SweepLimit(sweepCap, waiting)
                      \/ targeted + sweep >= sweepCap
       IN  IF refused
           THEN /\ batch' = "wait"
                /\ UNCHANGED <<sweep, queue, running>>
           ELSE /\ batch' = "cap"
                /\ sweep' = sweep + 1
                /\ queue' = queue - 1
                /\ running' = running + 1
    /\ UNCHANGED <<limit, targeted, reserved, wants, waiting, work, sweepCap, sweeps, moves>>

(* The queue is empty: wait for what runs, or return and drop the demand.  *)
NothingQueued ==
    /\ batch = "cap"
    /\ queue = 0
    /\ IF running > 0
       THEN batch' = "wait" /\ UNCHANGED wants
       ELSE batch' = "none" /\ wants' = 0
    /\ UNCHANGED <<limit, targeted, reserved, sweep, waiting, work, sweepCap, queue, running,
                   sweeps, moves>>

SweepLookupEnds ==
    /\ batch = "wait"
    /\ running > 0
    /\ running' = running - 1
    /\ sweep' = Minus(sweep, 1)
    /\ batch' = "demand"
    /\ UNCHANGED <<limit, targeted, reserved, wants, waiting, work, sweepCap, queue, sweeps,
                   moves>>

LookAgain ==
    /\ batch = "wait"
    /\ queue > 0
    /\ batch' = "demand"
    /\ UNCHANGED <<limit, lane, work, sweepCap, queue, running, sweeps, moves>>

(* The execution of the sweep job is dropped at its await: the job lost    *)
(* its lease, or reached its limit.  Slots go first, the demand last.      *)
SweepCancelled ==
    /\ batch = "wait"
    /\ batch' = "drop"
    /\ UNCHANGED <<limit, lane, work, sweepCap, queue, running, sweeps, moves>>

DropSweep ==
    /\ batch = "drop"
    /\ IF running > 0
       THEN /\ running' = running - 1
            /\ sweep' = Minus(sweep, 1)
            /\ UNCHANGED <<wants, queue, batch>>
       ELSE /\ wants' = 0
            /\ queue' = 0
            /\ batch' = "none"
            /\ UNCHANGED <<sweep, running>>
    /\ UNCHANGED <<limit, targeted, reserved, waiting, work, sweepCap, sweeps, moves>>

---------------------------------------------------------------------------
Worker ==
    \/ ReadCap
    \/ TargetedSlots
    \/ ClaimReturns
    \/ ClaimFails
    \/ DropSlot
    \/ ClaimGivenUp
    \/ SettleClaim

Sweeping ==
    \/ Demand
    \/ ReadSweepCap
    \/ SweepSlot
    \/ NothingQueued
    \/ LookAgain
    \/ DropSweep

Next ==
    \/ Adjust
    \/ Worker
    \/ LookupEnds
    \/ StartSweep
    \/ Sweeping
    \/ SweepLookupEnds
    \/ SweepCancelled

(* Both loops run on, and every lookup ends (LOOKUP_DEADLINE).  A lookup   *)
(* of the sweep ends only while process_batch awaits, which it does again  *)
(* and again: strong fairness.  Nothing forces a claim to return jobs, a   *)
(* sweep to start or to be cancelled, or the governor to move.             *)
Fairness ==
    /\ WF_vars(Worker)
    /\ WF_vars(LookupEnds)
    /\ WF_vars(Sweeping)
    /\ SF_vars(SweepLookupEnds)

Spec == Init /\ [][Next]_vars
FairSpec == Spec /\ Fairness

---------------------------------------------------------------------------
(* Properties.                                                             *)

(* Every variable keeps its domain: the governor's limit stays between its *)
(* floor and its ceiling and the caps within the configured concurrency.   *)
TypeOK ==
    /\ limit \in Floor..Ceiling
    /\ targeted \in Nat /\ reserved \in Nat /\ sweep \in Nat /\ wants \in Nat
    /\ waiting \in BOOLEAN
    /\ worker \in WorkerSteps
    /\ cap \in 0..Base /\ sweepCap \in 0..Base
    /\ slots \in Nat /\ asked \in Nat /\ jobs \in Nat /\ lookups \in Nat
    /\ batch \in BatchSteps
    /\ queue \in Nat /\ running \in Nat
    /\ sweeps \in Nat /\ moves \in Nat

(* The counters are exactly the slots that exist, through partial claims,  *)
(* failed claims, panics and dropped sweeps: no slot is lost or given back *)
(* twice, and none of the saturating subtractions ever saturates.          *)
SlotsAccounted ==
    /\ targeted = slots + lookups
    /\ reserved = slots
    /\ sweep = running

(* However the cap moves between its reading and its use, never more       *)
(* lookups are in flight than the configured concurrency.                  *)
WithinConcurrency == targeted + sweep <= Base

(* A sweep that is over, finished or dropped at any await, keeps nothing   *)
(* of the lane: no slot and no reserve.                                    *)
SweepGivesAllBack == batch = "none" => sweep = 0 /\ wants = 0 /\ queue = 0

(* The lane's books, whatever is dropped, lost or lowered: its variables   *)
(* keep their domains, its slots are accounted for, stay within the        *)
(* concurrency, and an ended sweep keeps none.                             *)
LaneInv == TypeOK /\ SlotsAccounted /\ WithinConcurrency /\ SweepGivesAllBack

GrantStep ==
    /\ targeted' > targeted
       => targeted' + Most(sweep, Least(wants, SweepShare(cap))) <= cap
    /\ sweep' > sweep
       => /\ targeted + sweep' <= sweepCap
          /\ waiting => sweep' <= SweepShare(sweepCap)

(* What is granted fits the cap that was read: targeted lookups never take *)
(* the share of a sweep that wants it, a sweep never takes more than its   *)
(* share while targeted lookups wait, and neither makes the other exceed.  *)
GrantsKeepShares == [][GrantStep]_vars
=============================================================================
