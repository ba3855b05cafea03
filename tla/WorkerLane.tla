----------------------------- MODULE WorkerLane -----------------------------
(***************************************************************************)
(* One lane of GPU work, from its JetStream work queue to its result.       *)
(*                                                                         *)
(*   consumer  src/jobs/src/bus/worker_consumers.rs provisions a durable    *)
(*             pull consumer with explicit acks: a delivery that is neither *)
(*             acknowledged nor renewed within ack_wait is given to another *)
(*             worker, at most max_deliver times.                          *)
(*   workers   src/worker/src/worker/bus: LaneRunner fetches, Leases track  *)
(*             the deliveries, Inflight lets one task per correlation key   *)
(*             work at a time, Outbox publishes the result until the stream *)
(*             confirms it, and only then the delivery is acknowledged.    *)
(*   reaper    src/jobs/src/bus/advisory.rs declares a task whose           *)
(*             deliveries ran out lost, from an advisory that may not       *)
(*             arrive or from a sweep of the queue.                        *)
(*                                                                         *)
(* Time.  A lease calls itself stale once it has been silent for           *)
(* ack_wait - heartbeat; the consumer gives the task away only after        *)
(* ack_wait.  Silence is the first of the two moments and Expire the        *)
(* second: that they come in this order is what heartbeat_s is for.         *)
(* Results are a set: their Nats-Msg-Id is lane, correlation, stream        *)
(* sequence and status, and the stream drops a repeated one.               *)
(***************************************************************************)
EXTENDS Integers, FiniteSets

CONSTANTS
    Tasks,          \* stream sequences of the lane's tasks
    Workers,        \* worker processes bound to the lane's durable
    Keys,           \* correlation keys
    Corr,           \* the correlation key of a task's payload
    Invalid,        \* tasks whose payload does not parse
    Capacity,       \* tasks a worker handles at a time
    MaxResults,     \* results the outbox holds before the lane pauses
    MaxDeliver,     \* the consumer's max_deliver
    MaxFaults,      \* bound: crashes, outages, lost answers and lost advisories
    MaxDrains,      \* bound: orderly shutdowns of a worker
    MaxReplaced,    \* bound: times the durable is deleted and created again
    None            \* model value: nobody holds the task

ASSUME LaneAssumption ==
    /\ Tasks \subseteq Nat \ {0}
    /\ Corr \in [Tasks -> Keys]
    /\ Invalid \subseteq Tasks
    /\ {Capacity, MaxResults, MaxDeliver} \subseteq Nat \ {0}
    /\ {MaxFaults, MaxDrains, MaxReplaced} \subseteq Nat
    /\ None \notin Workers \cup Tasks

VARIABLES
    queued,         \* tasks still in the stream
    deliveries,     \* deliveries of a task the present consumer has counted
    holder,         \* the worker whose delivery of a task is outstanding
    fresh,          \* the outstanding delivery was renewed in time so far
    generation,     \* creations of the durable
    lease,          \* what each worker holds of each task
    owners,         \* Inflight._owners of each worker
    trusted,        \* the worker is connected and its connection not suspicious
    draining,       \* LaneRunner._stop of a worker
    done,           \* results in the result stream
    lost,           \* tasks apply_worker_lost was called for
    advisories,     \* MAX_DELIVERIES advisories on their way
    reap,           \* where the reaper stands with a task
    reapOwner,      \* the consumer generation a reap read first
    faults, drains

consumerVars == <<queued, deliveries, holder, fresh, generation>>
workerVars == <<lease, owners, trusted, draining>>
reaperVars == <<lost, advisories, reap, reapOwner>>
budget == <<faults, drains>>
vars == <<consumerVars, workerVars, done, reaperVars, budget>>

NoLease == [phase |-> "none", delivered |-> 0, stale |-> FALSE, status |-> "ok"]

Phases == {"none", "joining", "waiting", "working", "publishing", "acking", "rejecting"}

LeaseType == [phase: Phases, delivered: 0..MaxDeliver, stale: BOOLEAN, status: {"ok", "failed"}]

TypeOK ==
    /\ queued \subseteq Tasks
    /\ deliveries \in [Tasks -> 0..MaxDeliver]
    /\ holder \in [Tasks -> Workers \cup {None}]
    /\ fresh \in [Tasks -> BOOLEAN]
    /\ generation \in 0..MaxReplaced
    /\ lease \in [Workers -> [Tasks -> LeaseType]]
    /\ owners \in [Workers -> [Keys -> Tasks \cup {None}]]
    /\ trusted \in [Workers -> BOOLEAN]
    /\ draining \in [Workers -> BOOLEAN]
    /\ done \subseteq Tasks \X {"ok", "failed"}
    /\ lost \subseteq Tasks
    /\ advisories \subseteq Tasks
    /\ reap \in [Tasks -> {"idle", "started", "waiting", "confirmed", "applied"}]
    /\ reapOwner \in [Tasks -> 0..MaxReplaced]
    /\ faults \in 0..MaxFaults
    /\ drains \in 0..MaxDrains

Init ==
    /\ queued = Tasks
    /\ deliveries = [t \in Tasks |-> 0]
    /\ holder = [t \in Tasks |-> None]
    /\ fresh = [t \in Tasks |-> FALSE]
    /\ generation = 0
    /\ lease = [w \in Workers |-> [t \in Tasks |-> NoLease]]
    /\ owners = [w \in Workers |-> [k \in Keys |-> None]]
    /\ trusted = [w \in Workers |-> TRUE]
    /\ draining = [w \in Workers |-> FALSE]
    /\ done = {}
    /\ lost = {}
    /\ advisories = {}
    /\ reap = [t \in Tasks |-> "idle"]
    /\ reapOwner = [t \in Tasks |-> 0]
    /\ faults = 0
    /\ drains = 0

Fault == faults < MaxFaults /\ faults' = faults + 1 /\ UNCHANGED drains

-----------------------------------------------------------------------------
(* The consumer, external: what the code relies on JetStream for.           *)

\* A task that left the stream is nobody's.
RemoveFromStream(t) ==
    /\ queued' = queued \ {t}
    /\ holder' = [holder EXCEPT ![t] = None]
    /\ fresh' = [fresh EXCEPT ![t] = FALSE]
    /\ UNCHANGED <<deliveries, generation>>

\* A task that may be delivered again, or ran out of deliveries.
GiveBack(t) ==
    /\ holder' = [holder EXCEPT ![t] = None]
    /\ fresh' = [fresh EXCEPT ![t] = FALSE]
    /\ advisories' = IF deliveries[t] = MaxDeliver THEN advisories \cup {t} ELSE advisories
    /\ UNCHANGED <<queued, deliveries, generation>>

\* First deliveries go in stream order, repeated ones when they are due.
Deliverable(t) ==
    /\ t \in queued
    /\ holder[t] = None
    /\ deliveries[t] < MaxDeliver
    /\ deliveries[t] = 0 => \A u \in queued : u < t => deliveries[u] > 0

\* Nobody has renewed the delivery for ack_wait - heartbeat: the handler is
\* gone, the connection is not trusted, or the process was held up.
Silence(t) ==
    /\ holder[t] # None
    /\ fresh[t]
    /\ \/ lease[holder[t]][t].phase = "none" /\ UNCHANGED budget
       \/ ~trusted[holder[t]] /\ UNCHANGED budget
       \/ lease[holder[t]][t].phase # "none" /\ trusted[holder[t]] /\ Fault
    /\ fresh' = [fresh EXCEPT ![t] = FALSE]
    /\ lease' = [lease EXCEPT ![holder[t]][t].stale = @ \/ lease[holder[t]][t].phase # "none"]
    /\ UNCHANGED <<queued, deliveries, holder, generation,
                   owners, trusted, draining, done, reaperVars>>

\* ack_wait is over.
Expire(t) ==
    /\ holder[t] # None
    /\ ~fresh[t]
    /\ GiveBack(t)
    /\ UNCHANGED <<workerVars, done, lost, reap, reapOwner, budget>>

\* Somebody deletes the durable, or an update the server refuses makes
\* ensure_worker_consumer delete and create it: the new one delivers every
\* queued task from the start.
ReplaceConsumer ==
    /\ generation < MaxReplaced
    /\ generation' = generation + 1
    /\ deliveries' = [t \in Tasks |-> 0]
    /\ holder' = [t \in Tasks |-> None]
    /\ fresh' = [t \in Tasks |-> FALSE]
    /\ UNCHANGED <<queued, workerVars, done, reaperVars, budget>>

-----------------------------------------------------------------------------
(* A worker's lane.                                                         *)

Active(w) == {t \in Tasks : lease[w][t].phase # "none"}
Publishing(w) == {t \in Tasks : lease[w][t].phase = "publishing"}

\* LaneRunner.state: a full outbox pauses the lane.
Serving(w) == ~draining[w] /\ Cardinality(Publishing(w)) < MaxResults

IsLastDelivery(w, t) == lease[w][t].delivered >= MaxDeliver

\* Leases.attach: a lease that is not settled adopts the new delivery.
Attach(w, t, n) ==
    IF lease[w][t].phase # "none"
    THEN [lease[w][t] EXCEPT !.delivered = n, !.stale = FALSE]
    ELSE [NoLease EXCEPT !.delivered = n,
                         !.phase = IF t \in Invalid THEN "rejecting" ELSE "joining"]

\* LaneRunner.run and _spawn, QueueHandler.handle up to its first await.
Fetch(w, t) ==
    /\ Serving(w)
    /\ trusted[w]
    /\ Cardinality(Active(w)) < Capacity
    /\ Deliverable(t)
    /\ deliveries' = [deliveries EXCEPT ![t] = @ + 1]
    /\ holder' = [holder EXCEPT ![t] = w]
    /\ fresh' = [fresh EXCEPT ![t] = TRUE]
    /\ lease' = [lease EXCEPT ![w][t] = Attach(w, t, deliveries[t] + 1)]
    /\ UNCHANGED <<queued, generation, owners, trusted, draining, done, reaperVars, budget>>

\* QueueHandler._reject_invalid: the event may be lost, the task is ended.
RejectInvalid(w, t) ==
    /\ lease[w][t].phase = "rejecting"
    /\ lease' = [lease EXCEPT ![w][t] = NoLease]
    /\ \/ RemoveFromStream(t) /\ UNCHANGED budget
       \/ Fault /\ UNCHANGED consumerVars
    /\ UNCHANGED <<owners, trusted, draining, done, reaperVars>>

\* Mutant: the owner of the key is replaced instead of waited for.
JoinAtOnce(w, t) ==
    /\ lease[w][t].phase = "joining"
    /\ owners' = [owners EXCEPT ![w][Corr[t]] = t]
    /\ lease' = [lease EXCEPT ![w][t].phase = "working"]
    /\ UNCHANGED <<consumerVars, trusted, draining, done, reaperVars, budget>>

\* Inflight.join: wait for the owner of the correlation key, or become it.
Join(w, t) ==
    LET owner == owners[w][Corr[t]]
    IN  /\ lease[w][t].phase = "joining"
        /\ IF owner \in {None, t}
           THEN /\ owners' = [owners EXCEPT ![w][Corr[t]] = t]
                /\ lease' = [lease EXCEPT ![w][t].phase = "working"]
           ELSE /\ lease' = [lease EXCEPT ![w][t].phase = "waiting"]
                /\ UNCHANGED owners
        /\ UNCHANGED <<consumerVars, trusted, draining, done, reaperVars, budget>>

\* Mutant: a waiter acknowledges however its owner settled.
WokenToAck(settled) == "acking"

\* A waiter acknowledges what its owner published, and tries again otherwise.
Woken(settled) == IF settled = "published" THEN "acking" ELSE "joining"

\* Lease.settle with its callbacks: Leases._forget, Inflight._release and the
\* waiters of Inflight.join.
Settle(w, t, settled) ==
    /\ lease' = [lease EXCEPT ![w] =
            [u \in Tasks |->
                IF u = t THEN NoLease
                ELSE IF /\ lease[w][u].phase = "waiting"
                        /\ owners[w][Corr[t]] = t
                        /\ Corr[u] = Corr[t]
                     THEN [lease[w][u] EXCEPT !.phase = Woken(settled)]
                     ELSE lease[w][u]]]
    /\ owners' = [owners EXCEPT ![w] =
            [k \in Keys |-> IF owners[w][k] = t THEN None ELSE owners[w][k]]]

\* Mutant: a stale lease sends its nak.
ReleaseWhileStale(w, t) ==
    IF ~trusted[w] \/ IsLastDelivery(w, t)
    THEN Settle(w, t, "dropped") /\ UNCHANGED <<consumerVars, advisories, budget>>
    ELSE /\ Settle(w, t, "nacked")
         /\ IF t \in queued /\ holder[t] # None
            THEN GiveBack(t) ELSE UNCHANGED <<consumerVars, advisories>>
         /\ UNCHANGED budget

\* Lease.release_transient: a nak, unless the lease may already be another's.
ReleaseTransient(w, t) ==
    IF lease[w][t].stale \/ ~trusted[w] \/ IsLastDelivery(w, t)
    THEN Settle(w, t, "dropped") /\ UNCHANGED <<consumerVars, advisories, budget>>
    ELSE \/ /\ Settle(w, t, "nacked")
            /\ IF t \in queued /\ holder[t] # None
               THEN GiveBack(t) ELSE UNCHANGED <<consumerVars, advisories>>
            /\ UNCHANGED budget
         \/ /\ Settle(w, t, "dropped")      \* the nak could not be sent
            /\ Fault
            /\ UNCHANGED <<consumerVars, advisories>>

ToPublish(w, t, status) ==
    /\ lease' = [lease EXCEPT ![w][t].phase = "publishing", ![w][t].status = status]
    /\ UNCHANGED <<owners, consumerVars, advisories, budget>>

\* QueueHandler._outcome: the processor returned a result.
WorkFinished(w, t) ==
    /\ lease[w][t].phase = "working"
    /\ \E status \in {"ok", "failed"} : ToPublish(w, t, status)
    /\ UNCHANGED <<trusted, draining, done, lost, reap, reapOwner>>

\* A transient failure: retried, unless this was the last delivery.
WorkTransient(w, t) ==
    /\ lease[w][t].phase = "working"
    /\ IF IsLastDelivery(w, t) /\ ~lease[w][t].stale
       THEN ToPublish(w, t, "failed")
       ELSE ReleaseTransient(w, t)
    /\ UNCHANGED <<trusted, draining, done, lost, reap, reapOwner>>

\* drop_if_stale inside the processor.
WorkDropped(w, t) ==
    /\ lease[w][t].phase = "working"
    /\ lease[w][t].stale
    /\ Settle(w, t, "dropped")
    /\ UNCHANGED <<consumerVars, trusted, draining, done, reaperVars, budget>>

\* _abort_outcome: a drain gives the task back while a delivery is left over.
WorkAborted(w, t) ==
    /\ lease[w][t].phase = "working"
    /\ draining[w]
    /\ IF lease[w][t].delivered < MaxDeliver - 1
       THEN ReleaseTransient(w, t)
       ELSE ToPublish(w, t, "failed")
    /\ UNCHANGED <<trusted, draining, done, lost, reap, reapOwner>>

\* Outbox.publish: the stream has the result; its confirmation may be lost,
\* which makes the connection suspicious and the publish repeat.
Publish(w, t) ==
    /\ lease[w][t].phase = "publishing"
    /\ done' = done \cup {<<t, lease[w][t].status>>}
    /\ \/ /\ trusted' = [trusted EXCEPT ![w] = TRUE]
          /\ lease' = [lease EXCEPT ![w][t].phase = "acking"]
          /\ UNCHANGED budget
       \/ /\ trusted' = [trusted EXCEPT ![w] = FALSE]
          /\ Fault
          /\ UNCHANGED lease
    /\ UNCHANGED <<consumerVars, owners, draining, reaperVars>>

\* The stream refuses the result: a compact failure takes its place.
PublishRejected(w, t) ==
    /\ lease[w][t].phase = "publishing"
    /\ Fault
    /\ lease' = [lease EXCEPT ![w][t].status = "failed"]
    /\ UNCHANGED <<consumerVars, owners, trusted, draining, done, reaperVars>>

\* No confirmation within PUBLISH_GIVE_UP_S: not on the last delivery.
PublishTimedOut(w, t) ==
    /\ lease[w][t].phase = "publishing"
    /\ ~IsLastDelivery(w, t)
    /\ ~trusted[w] \/ faults < MaxFaults
    /\ ReleaseTransient(w, t)
    /\ UNCHANGED <<trusted, draining, done, lost, reap, reapOwner>>

\* Lease.ack.  The consumer drops a task by its stream sequence, whoever
\* acknowledges it; what it does with a task it no longer has pending is open.
Ack(w, t) ==
    /\ lease[w][t].phase = "acking"
    /\ Settle(w, t, "published")
    /\ \/ RemoveFromStream(t) /\ UNCHANGED <<trusted, budget>>
       \/ holder[t] = None /\ UNCHANGED <<consumerVars, trusted, budget>>
       \/ /\ holder[t] # None                 \* every attempt went unanswered
          /\ Fault
          /\ trusted' = [trusted EXCEPT ![w] = FALSE]
          /\ UNCHANGED consumerVars
    /\ UNCHANGED <<draining, done, reaperVars>>

\* Connection: an outage or a suspicion, and its end.
ConnectionLost(w) ==
    /\ trusted[w]
    /\ Fault
    /\ trusted' = [trusted EXCEPT ![w] = FALSE]
    /\ UNCHANGED <<consumerVars, lease, owners, draining, done, reaperVars>>

ConnectionTrusted(w) ==
    /\ ~trusted[w]
    /\ trusted' = [trusted EXCEPT ![w] = TRUE]
    /\ UNCHANGED <<consumerVars, lease, owners, draining, done, reaperVars, budget>>

\* LaneRunner.drain, and the process that ends after it with whatever is left.
Drain(w) ==
    /\ ~draining[w]
    /\ drains < MaxDrains
    /\ drains' = drains + 1
    /\ draining' = [draining EXCEPT ![w] = TRUE]
    /\ UNCHANGED <<consumerVars, lease, owners, trusted, done, reaperVars, faults>>

Restarted(w) ==
    /\ lease' = [lease EXCEPT ![w] = [t \in Tasks |-> NoLease]]
    /\ owners' = [owners EXCEPT ![w] = [k \in Keys |-> None]]
    /\ trusted' = [trusted EXCEPT ![w] = TRUE]
    /\ draining' = [draining EXCEPT ![w] = FALSE]
    /\ UNCHANGED <<consumerVars, done, reaperVars>>

Exit(w) == draining[w] /\ Restarted(w) /\ UNCHANGED budget
Crash(w) == Active(w) # {} /\ Restarted(w) /\ Fault

-----------------------------------------------------------------------------
(* The reaper.                                                              *)

\* Tasks the consumer has given out and may still hear of.
AckPending == {t \in queued : deliveries[t] > 0 /\ (holder[t] # None \/ deliveries[t] < MaxDeliver)}

\* delivery_horizon: everything delivered, or everything below the first
\* task that is not answered for.
BelowHorizon(t) ==
    IF AckPending = {}
    THEN \E u \in Tasks : deliveries[u] > 0 /\ t <= u
    ELSE \A u \in AckPending : t < u

\* orphans_of: queued tasks that no delivery will follow.
Orphans == {t \in queued : BelowHorizon(t)}

Start(t) == reap' = [reap EXCEPT ![t] = IF @ = "idle" THEN "started" ELSE @]

\* run: an advisory, or one task of an upkeep sweep; a reap of the same task
\* that is under way is not started again.
Claim(t) ==
    /\ t \in advisories
    /\ advisories' = advisories \ {t}
    /\ Start(t)
    /\ UNCHANGED <<consumerVars, workerVars, done, lost, reapOwner, budget>>

Sweep(t) ==
    /\ t \in Orphans
    /\ reap[t] = "idle"
    /\ Start(t)
    /\ UNCHANGED <<consumerVars, workerVars, done, lost, advisories, reapOwner, budget>>

\* confirm_lost up to its sleep of ack_wait + SETTLE_MARGIN.
ReadOwner(t) ==
    /\ reap[t] = "started"
    /\ reap' = [reap EXCEPT ![t] = IF t \in queued THEN "waiting" ELSE "idle"]
    /\ reapOwner' = [reapOwner EXCEPT ![t] = IF t \in queued THEN generation ELSE @]
    /\ UNCHANGED <<consumerVars, workerVars, done, lost, advisories, budget>>

\* confirm_lost after it: settled meanwhile, given to a new consumer, or lost.
Confirm(t) ==
    /\ reap[t] = "waiting"
    /\ reap' = [reap EXCEPT ![t] =
                    IF t \in queued /\ generation = reapOwner[t] THEN "confirmed" ELSE "idle"]
    /\ UNCHANGED <<consumerVars, workerVars, done, lost, advisories, reapOwner, budget>>

\* apply, repeated until the receiver has taken it, then forget.
ApplyWorkerLost(t) ==
    /\ reap[t] = "confirmed"
    /\ lost' = lost \cup {t}
    /\ reap' = [reap EXCEPT ![t] = "applied"]
    /\ UNCHANGED <<consumerVars, workerVars, done, advisories, reapOwner, budget>>

Forget(t) ==
    /\ reap[t] = "applied"
    /\ RemoveFromStream(t)
    /\ reap' = [reap EXCEPT ![t] = "idle"]
    /\ UNCHANGED <<workerVars, done, lost, advisories, reapOwner, budget>>

\* Advisories are plain messages: one nobody hears is gone, and a restart of
\* jobs forgets every reap under way.
AdvisoryLost(t) ==
    /\ t \in advisories
    /\ Fault
    /\ advisories' = advisories \ {t}
    /\ UNCHANGED <<consumerVars, workerVars, done, lost, reap, reapOwner>>

ReaperRestart ==
    /\ \E t \in Tasks : reap[t] # "idle"
    /\ Fault
    /\ reap' = [t \in Tasks |-> "idle"]
    /\ advisories' = {}
    /\ UNCHANGED <<consumerVars, workerVars, done, lost, reapOwner>>

-----------------------------------------------------------------------------
WorkerStep(w, t) ==
    \/ RejectInvalid(w, t) \/ Join(w, t)
    \/ WorkFinished(w, t) \/ WorkTransient(w, t) \/ WorkDropped(w, t) \/ WorkAborted(w, t)
    \/ Publish(w, t) \/ PublishRejected(w, t) \/ PublishTimedOut(w, t) \/ Ack(w, t)

ReaperStep(t) ==
    \/ Claim(t) \/ Sweep(t) \/ ReadOwner(t) \/ Confirm(t) \/ ApplyWorkerLost(t) \/ Forget(t)

Next ==
    \/ \E t \in Tasks :
        \/ Silence(t) \/ Expire(t) \/ AdvisoryLost(t)
        \/ ReaperStep(t)
        \/ \E w \in Workers : Fetch(w, t) \/ WorkerStep(w, t)
    \/ \E w \in Workers :
        ConnectionLost(w) \/ ConnectionTrusted(w) \/ Drain(w) \/ Exit(w) \/ Crash(w)
    \/ ReplaceConsumer
    \/ ReaperRestart

Spec == Init /\ [][Next]_vars

\* Handlers run to their end, a connection comes back, a draining process is
\* restarted, a delivery nobody renews expires, some worker fetches what is
\* due, and jobs sweeps every minute.
FairSpec ==
    /\ Spec
    /\ \A t \in Tasks :
        /\ WF_vars(\E w \in Workers : Fetch(w, t))
        /\ WF_vars(Silence(t)) /\ WF_vars(Expire(t))
        /\ WF_vars(Claim(t)) /\ SF_vars(Sweep(t)) /\ WF_vars(ReadOwner(t))
        /\ WF_vars(Confirm(t)) /\ WF_vars(ApplyWorkerLost(t)) /\ WF_vars(Forget(t))
    /\ \A w \in Workers : WF_vars(ConnectionTrusted(w)) /\ WF_vars(Exit(w))
    /\ \A w \in Workers, t \in Tasks : WF_vars(WorkerStep(w, t))

-----------------------------------------------------------------------------
(* Properties.                                                              *)

Answered(t) == \E d \in done : Corr[d[1]] = Corr[t]

\* A task leaves the work queue only after a result for its correlation key is
\* in the result stream, or after its receiver was told that the worker is
\* lost: _publish_and_ack, Inflight.join and AdvisoryReaper::settle, against
\* crashes, lost confirmations and late acknowledgements.
OutcomeKept == \A t \in Tasks \ (queued \cup Invalid) : Answered(t) \/ t \in lost

\* As long as the consumer is not replaced, a lease that does not call itself
\* stale holds the task's only delivery, so its nak and its heartbeats never
\* speak for another worker's (Lease.is_stale, adopt and release_transient).
FreshLeaseHolds ==
    generation = 0 => \A w \in Workers, t \in Tasks :
        lease[w][t].phase # "none" /\ ~lease[w][t].stale /\ t \in queued => holder[t] = w

\* Within a worker one task of a correlation key is processed or published at
\* a time, and the others wait for a lease that is still open: nobody waits
\* for an owner that is gone (Inflight.join and _release).
OneOwnerPerKey ==
    \A w \in Workers, t \in Tasks :
        /\ lease[w][t].phase \in {"working", "publishing"} => owners[w][Corr[t]] = t
        /\ lease[w][t].phase = "waiting" =>
             /\ owners[w][Corr[t]] \notin {None, t}
             /\ lease[w][owners[w][Corr[t]]].phase # "none"

\* As long as the consumer is not replaced, no worker holds a delivery of a task
\* the reaper is busy with, from the advisory or the sweep that named it to the
\* report that it is lost: delivery_horizon never counts a task that is worked
\* on (orphans_of and confirm_lost).
ReapedHasNoHolder ==
    generation = 0 => \A t \in Tasks : reap[t] # "idle" => holder[t] = None

\* Leases and reaps do not speak for a delivery of somebody else.
DeliveriesKept == FreshLeaseHolds /\ ReapedHasNoHolder

=============================================================================
