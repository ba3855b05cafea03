----------------------------- MODULE AudioIndex -----------------------------
(***************************************************************************)
(* The audio index of one track: storage announces an upload, the jobs     *)
(* service dispatches the upload to the worker lane, the worker answers    *)
(* with vectors or with a failure, and the vectors are written to Qdrant   *)
(* (two points) between the claim and the commit of the answer.  Uploads,  *)
(* dispatches, answers and appliers of answers interleave freely: the rows *)
(* `tracks` and `audio_index_wire_state` are what orders them.             *)
(*                                                                         *)
(* Sources: jobs/src/handlers/indexing.rs and handlers/indexing/*.rs, with *)
(* the statements under jobs/queries/indexing.  Every statement is one     *)
(* transaction that locks the rows it reads, hence one step here.          *)
(***************************************************************************)
EXTENDS Naturals, FiniteSets

CONSTANTS
    Handlers,       \* concurrent appliers of ok answers (bus consumers)
    MaxGen,         \* bound: uploads of the track
    MaxAttempts,    \* MAX_DISPATCH_ATTEMPTS
    AttemptCap,     \* bound: attempts of one generation, quarantines included
    MaxOks,         \* bound: ok answers
    Budgets,        \* bound: how many uploads, faults (crashes, failed publishes,
                    \* lost or late answers, lost acks), redeliveries of an
                    \* answer that is being applied, leases that expire under a
                    \* running applier, and losses of the stored file or its
                    \* duration a behaviour has: one of these
    Failures        \* the kinds of failure the worker lane reports here

ASSUME AudioAssumption ==
    /\ Handlers # {} /\ "none" \notin Handlers /\ "gone" \notin Handlers
    /\ MaxGen \in Nat \ {0} /\ MaxAttempts \in Nat \ {0}
    /\ AttemptCap \in Nat \ {0} /\ MaxOks \in Nat
    /\ Budgets \subseteq [uploads : 1..MaxGen, faults : Nat, overlaps : Nat,
                           expiries : Nat, losses : Nat]
    /\ Failures \subseteq {"lost", "transient", "storage", "forbidden", "permanent"}

VARIABLES
    track,     \* tracks: storage, index, unresolved, long, held (pipeline_held)
    gen,       \* storage_event_state.uploaded_generation, 0 before an upload
    wire,      \* audio_index_wire_state
    job,       \* generation of the queued indexing.dispatch_audio job, or 0
    pub,       \* what the job and the reaper are publishing
    requests,  \* tasks on the worker lane, as <<generation, attempt>>
    results,   \* answers not yet acknowledged
    oks,       \* ok answers so far: their stream sequence
    receipts,  \* pipeline_event_receipts: sequences of settled ok answers
    point,     \* the generation of the MERT and of the CLAP vectors in Qdrant
    applier,   \* what each applier of ok answers is doing
    budget,    \* the bounds of this behaviour
    used       \* how much of each has been used

moving == <<track, gen, wire, job, pub, requests, results, oks, receipts,
            point, applier, used>>
vars == <<moving, budget>>

Gens == 1..MaxGen
Attempts == 1..AttemptCap
Nobody == [gen |-> 0, attempt |-> 0]
NoMessage == [kind |-> "none", gen |-> 0, attempt |-> 0, seq |-> 0]
Idle == [pc |-> "idle", m |-> NoMessage]
Sources == {"job", "reaper"}
Open == {"pending", "terminal", "reopenable"}

(* The outcome of an attempt: who may replace whom (outcome_rank). *)
Rank(reason) ==
    CASE reason = "none" -> 0
      [] reason \in {"publish", "lost"} -> 1
      [] reason \in {"transient", "storage"} -> 2
      [] reason \in {"forbidden", "permanent"} -> 3

(* A failure leaves the attempt reopenable or terminal (wire_status). *)
WireStatus(kind) == IF kind = "lost" THEN "reopenable" ELSE "terminal"

Leased == wire.lease # "none" /\ wire.live
Servable == track.storage = "ok" /\ ~track.unresolved
Wanted == track.index \notin {"indexed", "too_long"}
Left(what) == used[what] < budget[what]
Spend(what) == used' = [used EXCEPT ![what] = @ + 1]

Init ==
    /\ \E u, held \in BOOLEAN :
          track = [storage |-> "pending", index |-> "pending",
                   unresolved |-> u, long |-> FALSE, held |-> held]
    /\ gen = 0
    /\ wire = [status |-> "absent", gen |-> 0, attempt |-> 0,
               reason |-> "none", lease |-> "none", live |-> FALSE,
               by |-> 0, aged |-> FALSE]
    /\ job = 0
    /\ pub = [s \in Sources |-> Nobody]
    /\ requests = {}
    /\ results = {}
    /\ oks = 0
    /\ receipts = {}
    /\ point = [mert |-> 0, clap |-> 0]
    /\ applier = [h \in Handlers |-> Idle]
    /\ budget \in Budgets
    /\ used = [faults |-> 0, overlaps |-> 0, expiries |-> 0, losses |-> 0]

-----------------------------------------------------------------------------
(* Uploads and the state of the stored file *)

TooLong == track.storage = "too_long" \/ track.index = "too_long" \/ track.long

(* The pending attempt of a replaced upload is quarantined. *)
CloseReplaced ==
    wire' = IF wire.status = "pending"
            THEN [wire EXCEPT !.status = "quarantined"] ELSE wire

(* apply_upload: a new generation; the attempt of the old one is closed, an
   indexed or failed track is pending again, and a dispatch is queued. *)
Upload ==
    /\ gen < budget.uploads
    /\ gen' = gen + 1
    /\ track' = [track EXCEPT
          !.storage = IF TooLong THEN "too_long" ELSE "ok",
          !.index = IF TooLong THEN "too_long"
                    ELSE IF @ \in {"indexed", "failed"} THEN "pending" ELSE @]
    /\ job' = IF ~TooLong /\ ~track.unresolved THEN gen + 1 ELSE job
    /\ CloseReplaced
    /\ UNCHANGED <<pub, requests, results, oks, receipts, point, applier, used>>

(* The duration resolver learns the duration (duration/apply.sql). *)
ResolveDuration(long) ==
    /\ track.unresolved
    /\ track' = [storage |-> IF long THEN "too_long"
                             ELSE IF track.storage = "too_long" THEN "pending"
                             ELSE track.storage,
                 index |-> IF long THEN "too_long"
                           ELSE IF track.index = "too_long" THEN "pending"
                           ELSE track.index,
                 unresolved |-> FALSE, long |-> long, held |-> track.held]
    /\ UNCHANGED <<gen, wire, job, pub, requests, results, oks, receipts,
                   point, applier, used>>

(* The catalogue observes the track again without a usable duration. *)
DurationUnknown ==
    /\ Left("losses") /\ ~track.unresolved
    /\ Spend("losses")
    /\ track' = [track EXCEPT !.unresolved = TRUE]
    /\ UNCHANGED <<gen, wire, job, pub, requests, results, oks, receipts,
                   point, applier>>

(* Streaming reports that the stored file is gone. *)
StorageLost ==
    /\ Left("losses") /\ track.storage = "ok"
    /\ Spend("losses")
    /\ track' = [track EXCEPT !.storage = "pending"]
    /\ UNCHANGED <<gen, wire, job, pub, requests, results, oks, receipts,
                   point, applier>>

(* Somebody opens a track that the catalogue only holds: tracks are held when
   they are first observed, and released once. *)
OpenTrack ==
    /\ track.held
    /\ track' = [track EXCEPT !.held = FALSE]
    /\ UNCHANGED <<gen, wire, job, pub, requests, results, oks, receipts,
                   point, applier, used>>

(* A check of the object store finds the file after all. *)
StorageFound ==
    /\ gen > 0 /\ track.storage = "pending"
    /\ track' = [track EXCEPT !.storage = "ok"]
    /\ UNCHANGED <<gen, wire, job, pub, requests, results, oks, receipts,
                   point, applier, used>>

-----------------------------------------------------------------------------
(* Dispatches to the worker lane *)

(* Mutant: a quarantined attempt of the same upload is never opened again. *)
DispatchableOnce(g) ==
    /\ g = gen /\ Servable /\ Wanted
    /\ \/ wire.gen # g
       \/ wire.status = "pending"
       \/ wire.status = "reopenable" /\ wire.reason = "publish"

(* dispatch_audio.sql: opens an attempt of generation g, if it may. *)
Dispatchable(g) ==
    /\ g = gen /\ Servable /\ Wanted
    /\ \/ wire.gen # g
       \/ wire.status \in {"pending", "quarantined"}
       \/ wire.status = "reopenable" /\ wire.reason = "publish"

NextAttempt(g) ==
    IF wire.gen # g THEN 1
    ELSE IF wire.status = "quarantined" THEN wire.attempt + 1
    ELSE wire.attempt

(* Mutant: a dispatch forgets the lease of the applier that is writing. *)
DispatchDropsLease(g, s) ==
    /\ NextAttempt(g) <= AttemptCap
    /\ wire' = [status |-> "pending", gen |-> g, attempt |-> NextAttempt(g),
                reason |-> "none", lease |-> "none", live |-> FALSE,
                by |-> 0, aged |-> FALSE]
    /\ pub' = [pub EXCEPT ![s] = [gen |-> g, attempt |-> NextAttempt(g)]]

(* A live lease outlives the dispatch, so that the next generation waits for
   the applier of the previous one. *)
OpenDispatch(g, s) ==
    /\ NextAttempt(g) <= AttemptCap
    /\ wire' = [status |-> "pending", gen |-> g, attempt |-> NextAttempt(g),
                reason |-> "none",
                lease |-> IF Leased THEN wire.lease ELSE "none",
                live |-> Leased,
                by |-> IF Leased THEN wire.by ELSE 0, aged |-> FALSE]
    /\ pub' = [pub EXCEPT ![s] = [gen |-> g, attempt |-> NextAttempt(g)]]

(* The queued dispatch: nothing to do, no room on the lane, or an attempt. *)
RunJob ==
    /\ job # 0 /\ pub["job"] = Nobody
    /\ \/ /\ job' = 0
          /\ UNCHANGED <<wire, pub>>
       \/ /\ Dispatchable(job)
          /\ OpenDispatch(job, "job")
          /\ UNCHANGED job
    /\ UNCHANGED <<track, gen, requests, results, oks, receipts, point, applier, used>>

(* The backfill picks a servable pending track that is not held and that
   nothing shields.  A file in storage is a verified one (s3_verified_at comes
   and goes with the state ok); the age of the track and the pause after a
   failed job are waits that end. *)
Backfill ==
    /\ pub["reaper"] = Nobody
    /\ gen > 0 /\ track.index = "pending" /\ Servable /\ ~track.held /\ job = 0
    /\ ~(wire.gen = gen /\ wire.status \in {"terminal", "reopenable"})
    /\ ~(wire.status = "pending" /\ ~wire.aged)
    /\ Dispatchable(gen)
    /\ OpenDispatch(gen, "reaper")
    /\ UNCHANGED <<track, gen, job, requests, results, oks, receipts, point,
                   applier, used>>

(* reopen_dispatches.sql: another attempt after the cooldown.  A failure of
   the storage side or of the audio itself is final. *)
Reopenable ==
    /\ \/ wire.status = "reopenable"
       \/ wire.status = "terminal" /\ wire.reason \in {"forbidden", "transient"}
    /\ wire.gen = gen /\ ~Leased

ReopenDispatch ==
    /\ pub["reaper"] = Nobody
    /\ Reopenable /\ wire.attempt < MaxAttempts /\ wire.attempt < AttemptCap
    /\ Servable /\ Wanted
    /\ wire' = [wire EXCEPT !.status = "pending", !.attempt = @ + 1,
                            !.reason = "none", !.lease = "none",
                            !.live = FALSE, !.by = 0, !.aged = FALSE]
    /\ track' = [track EXCEPT !.index = IF @ = "failed" THEN "pending" ELSE @]
    /\ pub' = [pub EXCEPT !["reaper"] = [gen |-> wire.gen, attempt |-> wire.attempt + 1]]
    /\ UNCHANGED <<gen, job, requests, results, oks, receipts, point, applier, used>>

(* A track whose last attempt was given up has failed, unless the attempt
   was of a replaced upload. *)
FailExhausted ==
    track' = [track EXCEPT !.index =
                IF wire.gen = gen /\ @ = "pending" THEN "failed" ELSE @]

(* settle_unreopenable_dispatches.sql: exhausted or superseded attempts. *)
SettleUnreopenable ==
    /\ \/ wire.status = "reopenable"
       \/ wire.status = "terminal" /\ wire.reason = "forbidden"
    /\ wire.attempt >= MaxAttempts \/ wire.gen # gen
    /\ ~Leased
    /\ wire' = [wire EXCEPT !.status = "quarantined", !.lease = "none", !.live = FALSE]
    /\ FailExhausted
    /\ UNCHANGED <<gen, job, pub, requests, results, oks, receipts, point,
                   applier, used>>

(* publish_audio_index: the task reaches the stream. *)
Publish(s) ==
    /\ pub[s] # Nobody
    /\ requests' = requests \cup {<<pub[s].gen, pub[s].attempt>>}
    /\ pub' = [pub EXCEPT ![s] = Nobody]
    /\ job' = IF s = "job" /\ job = pub[s].gen THEN 0 ELSE job
    /\ UNCHANGED <<track, gen, wire, results, oks, receipts, point, applier, used>>

(* The publish fails, whether or not the task reached the stream, and the
   claim is given up (abandon_audio_dispatch) unless an applier holds it; the
   job may have been on its last try. *)
PublishFails(s) ==
    /\ pub[s] # Nobody /\ Left("faults")
    /\ Spend("faults")
    /\ requests' \in {requests, requests \cup {<<pub[s].gen, pub[s].attempt>>}}
    /\ pub' = [pub EXCEPT ![s] = Nobody]
    /\ job' \in {job, IF s = "job" /\ job = pub[s].gen THEN 0 ELSE job}
    /\ wire' = IF /\ wire.status = "pending" /\ ~Leased
                  /\ wire.gen = pub[s].gen /\ wire.attempt = pub[s].attempt
               THEN [wire EXCEPT !.status = "reopenable", !.reason = "publish"]
               ELSE wire
    /\ UNCHANGED <<track, gen, results, oks, receipts, point, applier>>

(* The service stops between the claim of a dispatch and its publish. *)
PublisherCrashes(s) ==
    /\ pub[s] # Nobody /\ Left("faults")
    /\ Spend("faults")
    /\ pub' = [pub EXCEPT ![s] = Nobody]
    /\ UNCHANGED <<track, gen, wire, job, requests, results, oks, receipts,
                   point, applier>>

(* The task of the open attempt is on its way, or its answer is. *)
Awaited ==
    \/ <<wire.gen, wire.attempt>> \in requests
    \/ \E m \in results : m.gen = wire.gen /\ m.attempt = wire.attempt
    \/ \E s \in Sources : pub[s] = [gen |-> wire.gen, attempt |-> wire.attempt]

(* AUDIO_INDEX_QUARANTINE_SECONDS pass without an outcome, by a fault also
   when the answer is only late: the attempt no longer shields its track. *)
DispatchAges ==
    /\ wire.status = "pending" /\ ~wire.aged
    /\ IF Awaited THEN Left("faults") /\ Spend("faults")
       ELSE UNCHANGED used
    /\ wire' = [wire EXCEPT !.aged = TRUE]
    /\ UNCHANGED <<track, gen, job, pub, requests, results, oks, receipts,
                   point, applier>>

-----------------------------------------------------------------------------
(* The worker lane (see WorkerLane), reduced to its answers *)

Answer(r) ==
    /\ r \in requests /\ oks < MaxOks
    /\ oks' = oks + 1
    /\ results' = results \cup
          {[kind |-> "ok", gen |-> r[1], attempt |-> r[2], seq |-> oks + 1]}
    /\ requests' = requests \ {r}
    /\ UNCHANGED <<track, gen, wire, job, pub, receipts, point, applier, used>>

Fail(r, kind) ==
    /\ r \in requests
    /\ results' = results \cup
          {[kind |-> kind, gen |-> r[1], attempt |-> r[2], seq |-> 0]}
    /\ requests' = requests \ {r}
    /\ UNCHANGED <<track, gen, wire, job, pub, oks, receipts, point, applier, used>>

(* The bus declares a task lost while a worker still computes its answer. *)
LostTooEarly(r) ==
    /\ r \in requests /\ "lost" \in Failures /\ Left("faults")
    /\ Spend("faults")
    /\ results' = results \cup
          {[kind |-> "lost", gen |-> r[1], attempt |-> r[2], seq |-> 0]}
    /\ UNCHANGED <<track, gen, wire, job, pub, requests, oks, receipts, point, applier>>

(* A task or its answer disappears with the stream. *)
RequestVanishes(r) ==
    /\ r \in requests /\ Left("faults")
    /\ Spend("faults")
    /\ requests' = requests \ {r}
    /\ UNCHANGED <<track, gen, wire, job, pub, results, oks, receipts, point, applier>>

-----------------------------------------------------------------------------
(* Applying an answer *)

(* The message is acknowledged; the acknowledgement may be lost. *)
Acknowledge(m) ==
    \/ results' = results \ {m} /\ UNCHANGED used
    \/ results' = results /\ Left("faults") /\ Spend("faults")

(* The failure answers the open attempt, and nothing stronger did. *)
Settles(m) ==
    /\ wire.gen = m.gen /\ wire.attempt = m.attempt /\ wire.status \in Open
    /\ Rank(wire.reason) < Rank(m.kind)

(* settle.sql: the failure is recorded, and a final failure of the current
   upload fails the track. *)
Settle(m) ==
    /\ wire' = IF Settles(m)
               THEN [wire EXCEPT !.status = WireStatus(m.kind), !.reason = m.kind]
               ELSE wire
    /\ track' = [track EXCEPT !.index =
          IF /\ Settles(m) /\ m.gen = gen /\ m.kind \notin {"lost", "forbidden"}
             /\ @ = "pending"
          THEN "failed" ELSE @]

ApplyFailure(m) ==
    /\ m \in results /\ m.kind # "ok"
    /\ Settle(m)
    /\ Acknowledge(m)
    /\ UNCHANGED <<gen, job, pub, requests, oks, receipts, point, applier>>

(* claim.sql: the answer is the first one to the open attempt, and wanted. *)
Correlated(m) ==
    /\ m.seq \notin receipts
    /\ wire.status \in Open /\ wire.gen = m.gen /\ wire.attempt = m.attempt
    /\ Wanted

(* Progress acknowledgements keep an answer that is being applied from being
   redelivered, unless they fail. *)
Free(m) == \A h \in Handlers : applier[h].m # m
Delivered(m) == m \in results /\ m.kind = "ok" /\ (Free(m) \/ budget.overlaps > 0)

(* claim.sql, the answer may be applied: the lease is free, expired or held
   for this very message. *)
Claim(h, m) ==
    /\ Delivered(m) /\ applier[h] = Idle
    /\ IF Free(m) THEN UNCHANGED used
       ELSE Left("overlaps") /\ Spend("overlaps")
    /\ Correlated(m) /\ Servable
    /\ ~Leased \/ wire.by = m.seq
    /\ wire' = [wire EXCEPT !.lease = h, !.live = TRUE, !.by = m.seq]
    /\ applier' = [applier EXCEPT ![h] = [pc |-> "mert", m |-> m]]
    /\ UNCHANGED <<track, gen, job, pub, requests, results, oks, receipts, point>>

(* claim.sql, the track cannot be served now: the message is retried, and
   the row remembers that the worker answered. *)
Postpone(m) ==
    /\ Delivered(m)
    /\ Correlated(m) /\ ~Servable /\ wire.by # m.seq
    /\ wire' = [wire EXCEPT !.by = m.seq]
    /\ UNCHANGED <<track, gen, job, pub, requests, results, oks, receipts,
                   point, applier, used>>

(* An answer of another generation may have overwritten the point. *)
Demotes(m) ==
    /\ m.seq \notin receipts /\ ~Correlated(m)
    /\ track.index = "indexed" /\ wire.gen # m.gen

(* claim.sql, the answer belongs to a closed attempt: it is settled with a
   receipt; an answer of another generation may have overwritten the point
   of an indexed track, which is demoted. *)
Dismiss(m) ==
    /\ Delivered(m) /\ ~Correlated(m)
    /\ track' = [track EXCEPT !.index = IF Demotes(m) THEN "pending" ELSE @]
    /\ wire' = IF Demotes(m) /\ wire.status # "pending"
               THEN [wire EXCEPT !.status = "quarantined"] ELSE wire
    /\ receipts' = receipts \cup {m.seq}
    /\ Acknowledge(m)
    /\ UNCHANGED <<gen, job, pub, requests, oks, point, applier>>

(* upsert_audio: the MERT point, then the CLAP point. *)
UpsertMert(h) ==
    /\ applier[h].pc = "mert"
    /\ point' = [point EXCEPT !.mert = applier[h].m.gen]
    /\ applier' = [applier EXCEPT ![h].pc = "clap"]
    /\ UNCHANGED <<track, gen, wire, job, pub, requests, results, oks, receipts, used>>

UpsertClap(h) ==
    /\ applier[h].pc = "clap"
    /\ point' = [point EXCEPT !.clap = applier[h].m.gen]
    /\ applier' = [applier EXCEPT ![h].pc = "commit"]
    /\ UNCHANGED <<track, gen, wire, job, pub, requests, results, oks, receipts, used>>

(* commit.sql: the applier still holds a live lease of the open attempt. *)
Owned(h, m) ==
    /\ m.seq \notin receipts
    /\ wire.status \in Open /\ wire.gen = m.gen /\ wire.attempt = m.attempt
    /\ wire.lease = h /\ wire.live
    /\ Servable /\ Wanted

(* commit.sql: the vectors may have overwritten those of another epoch. *)
Invalidating(h, m) ==
    /\ m.seq \notin receipts /\ ~Owned(h, m)
    /\ wire.status # "pending"
    /\ ~(wire.status = "done" /\ wire.gen = m.gen)
    /\ ~(/\ wire.status \in {"terminal", "reopenable"}
         /\ wire.gen = m.gen /\ wire.attempt = m.attempt
         /\ wire.lease = h \/ ~Leased)

Commit(h) ==
    LET m == applier[h].m
    IN /\ applier[h].pc = "commit"
       /\ applier' = [applier EXCEPT ![h] = Idle]
       /\ \/ /\ m.seq \in receipts
             /\ wire' = [wire EXCEPT !.lease = IF @ = h THEN "gone" ELSE @]
             /\ Acknowledge(m)
             /\ UNCHANGED <<track, receipts>>
          \/ /\ Owned(h, m)
             /\ wire' = [wire EXCEPT !.status = "done", !.reason = "none",
                                     !.lease = "none", !.live = FALSE]
             /\ track' = [track EXCEPT !.index = "indexed"]
             /\ receipts' = receipts \cup {m.seq}
             /\ Acknowledge(m)
          \/ /\ Invalidating(h, m)
             /\ wire' = [wire EXCEPT !.status = "quarantined",
                                     !.lease = IF @ = h THEN "none" ELSE @,
                                     !.live = @ /\ wire.lease # h]
             /\ track' = [track EXCEPT !.index = IF @ = "too_long" THEN @ ELSE "pending"]
             /\ receipts' = receipts \cup {m.seq}
             /\ Acknowledge(m)
          \/ /\ m.seq \notin receipts /\ ~Owned(h, m) /\ ~Invalidating(h, m)
             /\ wire' = [wire EXCEPT !.lease = IF @ = h THEN "none" ELSE @,
                                     !.live = @ /\ wire.lease # h]
             /\ UNCHANGED <<track, receipts, results, used>>
       /\ UNCHANGED <<gen, job, pub, requests, oks, point>>

(* Qdrant or the database refuses, or the service stops: the message will be
   redelivered, the lease stays until it expires. *)
ApplierFails(h) ==
    /\ applier[h] # Idle /\ Left("faults")
    /\ Spend("faults")
    /\ wire' = [wire EXCEPT !.lease = IF @ = h THEN "gone" ELSE @]
    /\ applier' = [applier EXCEPT ![h] = Idle]
    /\ UNCHANGED <<track, gen, job, pub, requests, results, oks, receipts, point>>

(* RESULT_CLAIM_SECONDS pass. *)
LeaseExpires ==
    /\ Leased
    /\ IF wire.lease = "gone" THEN UNCHANGED used
       ELSE Left("expiries") /\ Spend("expiries")
    /\ wire' = [wire EXCEPT !.live = FALSE]
    /\ UNCHANGED <<track, gen, job, pub, requests, results, oks, receipts,
                   point, applier>>

-----------------------------------------------------------------------------
ApplySteps ==
    \/ \E m \in results : ApplyFailure(m) \/ Postpone(m) \/ Dismiss(m)
    \/ \E h \in Handlers, m \in results : Claim(h, m)
    \/ \E h \in Handlers :
          UpsertMert(h) \/ UpsertClap(h) \/ Commit(h) \/ ApplierFails(h)
    \/ LeaseExpires

DispatchSteps ==
    \/ RunJob \/ Backfill \/ ReopenDispatch \/ SettleUnreopenable \/ DispatchAges
    \/ \E s \in Sources : Publish(s) \/ PublishFails(s) \/ PublisherCrashes(s)

WorkerSteps ==
    \E r \in requests :
       \/ Answer(r) \/ LostTooEarly(r) \/ RequestVanishes(r)
       \/ \E kind \in Failures : Fail(r, kind)

TrackSteps ==
    \/ Upload \/ OpenTrack \/ DurationUnknown \/ StorageLost \/ StorageFound
    \/ \E long \in BOOLEAN : ResolveDuration(long)

Next == /\ TrackSteps \/ DispatchSteps \/ WorkerSteps \/ ApplySteps
        /\ UNCHANGED budget

Spec == Init /\ [][Next]_vars

(* The services run: the reaper and the queue come round, an answer that was
   not acknowledged is redelivered, a dead applier's lease expires. *)
Fairness ==
    /\ WF_moving(RunJob) /\ WF_moving(Backfill) /\ WF_moving(ReopenDispatch)
    /\ WF_moving(SettleUnreopenable) /\ WF_moving(DispatchAges)
    /\ WF_moving(\E s \in Sources : Publish(s))
    /\ WF_moving(\E r \in requests : Answer(r) \/ \E k \in Failures : Fail(r, k))
    /\ WF_moving(\E m \in results : ApplyFailure(m))
    /\ WF_moving(\E m \in results : Dismiss(m))
    /\ WF_moving(\E h \in Handlers, m \in results : Claim(h, m))
    /\ WF_moving(\E h \in Handlers : UpsertMert(h) \/ UpsertClap(h) \/ Commit(h))
    /\ WF_moving(wire.lease = "gone" /\ LeaseExpires)
    /\ WF_moving(\E long \in BOOLEAN : ResolveDuration(long))

FairSpec == Spec /\ Fairness

-----------------------------------------------------------------------------
Message ==
    [kind : {"ok"} \cup Failures, gen : Gens, attempt : Attempts, seq : 0..MaxOks]

(* The state keeps its shape. *)
TypeOK ==
    /\ track \in [storage : {"pending", "ok", "too_long"},
                  index : {"pending", "indexed", "failed", "too_long"},
                  unresolved : BOOLEAN, long : BOOLEAN, held : BOOLEAN]
    /\ gen \in 0..MaxGen /\ job \in 0..MaxGen
    /\ wire \in [status : Open \cup {"absent", "quarantined", "done"},
                 gen : 0..MaxGen, attempt : 0..AttemptCap,
                 reason : {"none", "publish"} \cup Failures,
                 lease : Handlers \cup {"none", "gone"}, live : BOOLEAN,
                 by : 0..MaxOks, aged : BOOLEAN]
    /\ pub \in [Sources -> [gen : 0..MaxGen, attempt : 0..AttemptCap]]
    /\ requests \subseteq Gens \X Attempts
    /\ results \subseteq Message
    /\ oks \in 0..MaxOks /\ receipts \subseteq 1..MaxOks
    /\ point \in [mert : 0..MaxGen, clap : 0..MaxGen]
    /\ applier \in [Handlers -> [pc : {"idle", "mert", "clap", "commit"},
                                 m : Message \cup {NoMessage}]]

Writing(h) == applier[h].pc # "idle"

(* While no lease expires under its applier and the file and its duration
   stay known, two generations of one track are never written to the vector
   store at the same time: a new upload keeps the live lease of the old
   applier, and the claim of its own answer waits for it. *)
OneGenerationWrites ==
    used.expiries = 0 /\ used.losses = 0 =>
       \A g, h \in Handlers :
          Writing(g) /\ Writing(h) => applier[g].m.gen = applier[h].m.gen

(* Under the same conditions a track marked indexed has both vectors of one
   and the same generation, that of the attempt that was committed. *)
IndexedWhole ==
    used.expiries = 0 /\ used.losses = 0 /\ track.index = "indexed" =>
       wire.status = "done" /\ point = [mert |-> wire.gen, clap |-> wire.gen]

(* Until the track is uploaded a second time an index means both vectors of
   the upload are there, whatever lease expired, answer was delivered twice
   or file was lost on the way: what the search finds is what is played. *)
IndexedPoint ==
    gen = 1 /\ track.index = "indexed" => point = [mert |-> 1, clap |-> 1]

(* An ok answer to the open attempt of a track that still wants it is never
   settled without indexing the track, whatever failure of the same attempt,
   other lease holder or redelivery came in between. *)
OkIsApplied ==
    [][\A m \in results \ results' :
          m.kind = "ok" /\ m.seq \notin receipts =>
             ~(/\ wire'.status \in Open
               /\ wire'.gen = m.gen /\ wire'.attempt = m.attempt
               /\ track'.index \in {"pending", "failed"})]_vars

(* A stronger outcome of an attempt is never replaced by a weaker one: a
   permanent failure does not become a lost task that is sent again. *)
OutcomeOnlyGrows ==
    [][/\ wire'.gen = wire.gen /\ wire'.attempt = wire.attempt
       /\ wire'.status \in {"terminal", "reopenable"}
       => Rank(wire'.reason) >= Rank(wire.reason)]_vars

(* A servable track that is not held and waits for its index is eventually
   indexed, failed or too long, or it stops being servable.  A held track may
   wait until it is opened (indexing.rs,
   a_track_held_until_it_is_opened_is_never_reaped). *)
EveryUploadSettles ==
    track.index = "pending" /\ Servable /\ ~track.held
        ~> track.index # "pending" \/ ~Servable
=============================================================================
