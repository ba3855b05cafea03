----------------------------- MODULE TrackCopies -----------------------------
(***************************************************************************)
(* The stored copy of one track as the streaming service and the jobs keep *)
(* it (streaming/src/stream/storage.rs, sources.rs, upload_slots.rs,       *)
(* breaker.rs, hq_upgrade.rs; jobs/src/handlers/indexing/upload_repair.rs).*)
(*                                                                         *)
(* Three records speak about one object of the storage service: the row of *)
(* cdn_tracks that a play looks up, the storage columns of tracks that say *)
(* which quality is kept, and the object itself.  Plays on several nodes,  *)
(* the quality upgrader, the consumer of storage events and the repair of  *)
(* uploads without an event change them, each in steps of its own.         *)
(*                                                                         *)
(* A quality is its rank (quality.rs): 1 sq, 2 hq, 3 uq; 0 is none.        *)
(***************************************************************************)
EXTENDS Naturals, Sequences, FiniteSets

CONSTANTS
    Nodes,           \* the streaming processes
    Requests,        \* the plays and upgrades under way, each on one node
    NodeOf,          \* the node a request runs on
    MaxRank,         \* the best quality there is (3 in the code)
    FailuresToOpen,  \* FAILURES_TO_OPEN of a breaker
    MaxEvents,       \* bound on the storage events not yet applied
    MaxFaults,       \* bound on the failures
    MaxLosses        \* bound on the objects lost by the storage

CopiesAssumption ==
    /\ NodeOf \in [Requests -> Nodes]
    /\ MaxRank \in Nat \ {0} /\ FailuresToOpen \in Nat \ {0}
    /\ MaxEvents \in Nat /\ MaxFaults \in Nat /\ MaxLosses \in Nat

VARIABLES
    object,   \* the rank of the stored object, 0 when there is none
    gone,     \* the storage lost the object, and none was stored since
    row,      \* the row of cdn_tracks, with what the repair compares it to
    track,    \* storage_state ('ok', 'too_long') and storage_quality of tracks
    recent,   \* an event was applied less than a minute ago
    events,   \* the storage events published and not yet applied
    req,      \* per request: its step and the kept quality it has read
    task,     \* per request: the background upload it has started
    job,      \* per request: the upload as the storage service sees it
    running,  \* per node: UploadSlots holds this track
    reads,    \* per node: the breaker of reads
    uploads,  \* per node: the breaker of uploads
    faults, losses

vars == <<object, gone, row, track, recent, events, req, task, job, running,
          reads, uploads, faults, losses>>
records == <<object, gone, row, track, recent, events>>
breakers == <<reads, uploads>>
budgets == <<faults, losses>>

Ranks == 1..MaxRank
Breakers == [failures : 0..FailuresToOpen, open : BOOLEAN]
Closed == [failures |-> 0, open |-> FALSE]
NoTask == [pc |-> "none", q |-> 0]
Idle == [pc |-> "idle", kept |-> 0, looked |-> FALSE]

Rows == [status : {"none", "pending", "ok", "error"}, q : 0..MaxRank,
         heard : BOOLEAN, repaired : BOOLEAN, age : {"fresh", "due", "old"}]
Stored == [ok : BOOLEAN, q : 0..MaxRank, long : BOOLEAN]
Plays == [pc : {"idle", "find", "verify", "lost", "fetch", "upgrade"},
          kept : 0..MaxRank, looked : BOOLEAN]
Tasks == [pc : {"none", "insert", "sent", "mark", "settle", "ok", "error"}, q : 0..MaxRank]
Jobs == [pc : {"none", "sent", "stored", "rejected", "failed"}, q : 0..MaxRank]

TypeOK ==
    /\ object \in 0..MaxRank /\ gone \in BOOLEAN /\ recent \in BOOLEAN
    /\ row \in Rows /\ track \in Stored
    /\ events \in Seq(0..MaxRank) /\ Len(events) <= MaxEvents
    /\ req \in [Requests -> Plays]
    /\ task \in [Requests -> Tasks] /\ job \in [Requests -> Jobs]
    /\ running \in [Nodes -> BOOLEAN]
    /\ reads \in [Nodes -> Breakers] /\ uploads \in [Nodes -> Breakers]
    /\ faults \in 0..MaxFaults /\ losses \in 0..MaxLosses

Init ==
    /\ object = 0 /\ gone = FALSE /\ recent = FALSE
    /\ row = [status |-> "none", q |-> 0, heard |-> FALSE, repaired |-> FALSE,
              age |-> "fresh"]
    /\ track = [ok |-> FALSE, q |-> 0, long |-> FALSE]
    /\ events = <<>>
    /\ req = [p \in Requests |-> Idle]
    /\ task = [p \in Requests |-> NoTask]
    /\ job = [p \in Requests |-> NoTask]
    /\ running = [n \in Nodes |-> FALSE]
    /\ reads = [n \in Nodes |-> Closed]
    /\ uploads = [n \in Nodes |-> Closed]
    /\ faults = 0 /\ losses = 0

Fault == faults < MaxFaults /\ faults' = faults + 1 /\ UNCHANGED losses

-----------------------------------------------------------------------------
(* The breaker: the count of failures in a row stays where it opens, an    *)
(* open breaker is not opened again, and one success closes it.            *)

Succeed(b) == [failures |-> 0, open |-> FALSE]

Fail(b) ==
    LET count == IF b.failures < FailuresToOpen THEN b.failures + 1
                 ELSE b.failures
    IN  [failures |-> count, open |-> b.open \/ count = FailuresToOpen]

Cool(n) ==
    /\ \/ reads[n].open /\ reads' = [reads EXCEPT ![n].open = FALSE]
          /\ UNCHANGED uploads
       \/ uploads[n].open /\ uploads' = [uploads EXCEPT ![n].open = FALSE]
          /\ UNCHANGED reads
    /\ UNCHANGED <<records, req, task, job, running, budgets>>

-----------------------------------------------------------------------------
(* A play.  It reads the kept quality once, looks for the stored copy and  *)
(* fetches from a source when there is none good enough.                   *)

KeptQuality == IF track.ok THEN track.q ELSE 0

Takes(kept, q) == kept = 0 \/ q > kept

Start(p, wanted) ==
    /\ req[p] = Idle /\ task[p] = NoTask /\ job[p] = NoTask
    /\ req' = [req EXCEPT ![p] =
                 [pc |-> IF track.q >= wanted THEN "find" ELSE "fetch",
                  kept |-> KeptQuality, looked |-> FALSE]]
    /\ UNCHANGED <<records, task, job, running, breakers, budgets>>

StartUpgrade(p) ==
    /\ req[p] = Idle /\ task[p] = NoTask /\ job[p] = NoTask
    /\ track.q \in 1..(MaxRank - 1) /\ ~track.long
    /\ req' = [req EXCEPT ![p] = [pc |-> "upgrade", kept |-> track.q,
                                  looked |-> FALSE]]
    /\ UNCHANGED <<records, task, job, running, breakers, budgets>>

Find(p) ==
    /\ req[p].pc = "find"
    /\ req' = [req EXCEPT ![p].looked = TRUE,
                          ![p].pc = IF ~reads[NodeOf[p]].open /\ row.status = "ok"
                                    THEN "verify" ELSE "fetch"]
    /\ UNCHANGED <<records, task, job, running, breakers, budgets>>

Verify(p) ==
    LET n == NodeOf[p]
    IN  /\ req[p].pc = "verify"
        /\ \/ /\ ~reads[n].open
              /\ reads' = [reads EXCEPT ![n] = Succeed(reads[n])]
              /\ req' = IF object # 0 THEN [req EXCEPT ![p] = Idle]
                        ELSE [req EXCEPT ![p].pc = "lost"]
              /\ UNCHANGED budgets
           \/ /\ ~reads[n].open
              /\ Fault
              /\ reads' = [reads EXCEPT ![n] = Fail(reads[n])]
              /\ req' = [req EXCEPT ![p].pc = "fetch"]
           \/ /\ reads[n].open
              /\ req' = [req EXCEPT ![p].pc = "fetch"]
              /\ UNCHANGED <<reads, budgets>>
    /\ UNCHANGED <<records, task, job, running, uploads>>

Forget ==
    /\ row' = [row EXCEPT !.status = "error", !.heard = recent,
                          !.repaired = FALSE, !.age = "fresh"]
    /\ track' = IF track.ok THEN [track EXCEPT !.ok = FALSE, !.q = 0] ELSE track

MarkStorageLost(p) ==
    /\ req[p].pc = "lost"
    /\ \/ Forget /\ UNCHANGED budgets
       \/ Fault /\ UNCHANGED <<row, track>>
    /\ req' = [req EXCEPT ![p].pc = "fetch"]
    /\ UNCHANGED <<object, gone, recent, events, task, job, running, breakers>>

UploadInBackground(p, q) ==
    /\ IF uploads[NodeOf[p]].open \/ running[NodeOf[p]]
       THEN UNCHANGED <<running, task>>
       ELSE /\ running' = [running EXCEPT ![NodeOf[p]] = TRUE]
            /\ task' = [task EXCEPT ![p] = [pc |-> "insert", q |-> q]]

Fetch(p) ==
    /\ req[p].pc = "fetch"
    /\ \/ \E q \in Ranks :
             /\ req' = [req EXCEPT ![p] = Idle]
             /\ IF Takes(req[p].kept, q) THEN UploadInBackground(p, q)
                ELSE UNCHANGED <<running, task>>
       \/ /\ req' = IF req[p].looked THEN [req EXCEPT ![p] = Idle]
                    ELSE [req EXCEPT ![p].pc = "find"]
          /\ UNCHANGED <<running, task>>
    /\ UNCHANGED <<records, job, breakers, budgets>>

(* The upgrader fetches hq or better, and does not ask what is kept now.   *)
UpgradeOne(p) ==
    /\ req[p].pc = "upgrade"
    /\ req' = [req EXCEPT ![p] = Idle]
    /\ \/ \E q \in Ranks \ {1} : UploadInBackground(p, q)
       \/ UNCHANGED <<running, task>>
    /\ UNCHANGED <<records, job, breakers, budgets>>

-----------------------------------------------------------------------------
(* The upload, in the background of the play that started it.              *)

(* Every write of the row stamps updated_at, to which the repair compares  *)
(* the last event, with a minute of tolerance, and the last repair.        *)
WriteRow(status, q) ==
    row' = [status |-> status, q |-> q, heard |-> recent, repaired |-> FALSE,
            age |-> "fresh"]

EndTask(p) ==
    /\ task' = [task EXCEPT ![p] = NoTask]
    /\ running' = [running EXCEPT ![NodeOf[p]] = FALSE]

InsertCdnTrack(p) == WriteRow("pending", row.q)

InsertPending(p) ==
    /\ task[p].pc = "insert"
    /\ job[p] = NoTask
    /\ \/ /\ InsertCdnTrack(p)
          /\ task' = [task EXCEPT ![p].pc = "sent"]
          /\ job' = [job EXCEPT ![p] = [pc |-> "sent", q |-> task[p].q]]
          /\ UNCHANGED <<running, budgets>>
       \/ Fault /\ EndTask(p) /\ UNCHANGED <<row, job>>
    /\ UNCHANGED <<object, gone, track, recent, events, req, breakers>>

(* The storage service: it stores and announces the copy, refuses it, or   *)
(* fails before, between or after the two.  A client that gave up hears    *)
(* nothing.                                                                *)
StorageHandles(p) ==
    LET end(answer) == job' = [job EXCEPT ![p] =
            IF task[p].pc = "sent" THEN [@ EXCEPT !.pc = answer] ELSE NoTask]
    IN  /\ job[p].pc = "sent"
        /\ \/ /\ Len(events) < MaxEvents
              /\ object' = job[p].q /\ gone' = FALSE
              /\ events' = Append(events, job[p].q)
              /\ end("stored")
              /\ UNCHANGED budgets
           \/ end("rejected") /\ UNCHANGED <<object, gone, events, budgets>>
           \/ Fault /\ end("failed") /\ UNCHANGED <<object, gone, events>>
           \/ /\ Fault
              /\ object' = job[p].q /\ gone' = FALSE
              /\ end("failed")
              /\ \/ UNCHANGED events
                 \/ /\ Len(events) < MaxEvents
                    /\ events' = Append(events, job[p].q)
        /\ UNCHANGED <<row, track, recent, req, task, running, breakers>>

Answered(p) ==
    LET n == NodeOf[p]
    IN  /\ task[p].pc = "sent"
        /\ job[p].pc \in {"stored", "rejected", "failed"}
        /\ job' = [job EXCEPT ![p] = NoTask]
        /\ uploads' = [uploads EXCEPT ![n] =
                         IF job[p].pc = "failed" THEN Fail(@) ELSE Succeed(@)]
        /\ task' = [task EXCEPT ![p].pc =
                      IF job[p].pc = "stored" THEN "mark" ELSE "settle"]
        /\ UNCHANGED <<records, req, running, reads, budgets>>

(* The budget of the request ends while the storage still works on it.     *)
TimedOut(p) ==
    /\ task[p].pc = "sent" /\ job[p].pc = "sent"
    /\ Fault
    /\ uploads' = [uploads EXCEPT ![NodeOf[p]] = Fail(@)]
    /\ task' = [task EXCEPT ![p].pc = "settle"]
    /\ UNCHANGED <<records, req, job, running, reads>>

MarkStored(p) ==
    /\ task[p].pc = "mark"
    /\ \/ WriteRow("ok", task[p].q) /\ UNCHANGED budgets
       \/ Fault /\ UNCHANGED row
    /\ EndTask(p)
    /\ UNCHANGED <<object, gone, track, recent, events, req, job, breakers>>

(* Mutant: a failed or refused upload is taken for a stored one.           *)
SettleTrusting(p) == "ok"

SettleFailedStatus(p) == IF object # 0 THEN "ok" ELSE "error"

Settle(p) ==
    /\ task[p].pc = "settle"
    /\ \/ task' = [task EXCEPT ![p].pc = SettleFailedStatus(p)]
          /\ UNCHANGED budgets
       \/ Fault /\ task' = [task EXCEPT ![p].pc = "error"]
    /\ UNCHANGED <<records, req, job, running, breakers>>

UpdateStatus(p) ==
    /\ task[p].pc \in {"ok", "error"}
    /\ \/ WriteRow(task[p].pc, row.q) /\ UNCHANGED budgets
       \/ Fault /\ UNCHANGED row
    /\ EndTask(p)
    /\ UNCHANGED <<object, gone, track, recent, events, req, job, breakers>>

-----------------------------------------------------------------------------
(* The jobs: the consumer of storage events, and the sweep that announces  *)
(* an upload again when no event of it was heard.                          *)

ApplyEvent ==
    /\ events # <<>>
    /\ events' = Tail(events)
    /\ track' = IF track.long THEN track
                ELSE [track EXCEPT !.ok = TRUE,
                                   !.q = IF Head(events) = 0 THEN @
                                         ELSE Head(events)]
    /\ row' = [row EXCEPT !.heard = TRUE] /\ recent' = TRUE
    /\ UNCHANGED <<object, gone, req, task, job, running, breakers, budgets>>

(* A minute passes.  An answered upload marks its row within it.          *)
Age ==
    /\ recent /\ recent' = FALSE
    /\ \A p \in Requests : task[p].pc # "mark" /\ job[p].pc # "stored"
    /\ UNCHANGED <<object, gone, row, track, events, req, task, job, running,
                   breakers, budgets>>

(* REPAIR_GRACE_SECONDS and then REPAIR_LOOKBACK_SECONDS pass over a row   *)
(* that no event and no repair has spoken for.                             *)
Unspoken == row.status = "ok" /\ ~row.heard /\ ~row.repaired

RowAges(from, to) ==
    /\ Unspoken /\ row.age = from
    /\ row' = [row EXCEPT !.age = to]
    /\ UNCHANGED <<object, gone, track, recent, events, req, task, job, running,
                   breakers, budgets>>

GracePasses == RowAges("fresh", "due")
LookbackPasses == RowAges("due", "old")

(* The duration of the track turns out to be over the limit.               *)
FoundTooLong ==
    /\ ~track.long
    /\ track' = [track EXCEPT !.ok = FALSE, !.long = TRUE]
    /\ UNCHANGED <<object, gone, row, recent, events, req, task, job, running,
                   breakers, budgets>>

(* lost_uploads.sql: neither too fresh nor too old.                        *)
LostUpload ==
    /\ Unspoken /\ row.age = "due"
    /\ \/ ~track.ok /\ ~track.long
       \/ track.ok /\ row.q \notin {0, track.q}

(* Mutant: the repair is recorded before its event is published.           *)
AnnounceRecordedFirst ==
    \/ /\ events' = Append(events, row.q)
       /\ row' = [row EXCEPT !.repaired = TRUE]
       /\ UNCHANGED budgets
    \/ Fault /\ row' = [row EXCEPT !.repaired = TRUE] /\ UNCHANGED events

AnnounceAgain ==
    \/ /\ events' = Append(events, row.q)
       /\ row' = [row EXCEPT !.repaired = TRUE]
       /\ UNCHANGED budgets
    \/ Fault /\ events' = Append(events, row.q) /\ UNCHANGED row

RepairLostUploads ==
    /\ events = <<>> /\ MaxEvents > 0
    /\ LostUpload
    /\ AnnounceAgain
    /\ UNCHANGED <<object, gone, track, recent, req, task, job, running,
                   breakers>>

-----------------------------------------------------------------------------
(* The storage loses the object; a node restarts.                          *)

LoseObject ==
    /\ object # 0 /\ losses < MaxLosses
    /\ object' = 0 /\ gone' = TRUE
    /\ losses' = losses + 1
    /\ UNCHANGED <<row, track, recent, events, req, task, job, running,
                   breakers, faults>>

Restart(n) ==
    /\ Fault
    /\ req' = [p \in Requests |-> IF NodeOf[p] = n THEN Idle ELSE req[p]]
    /\ task' = [p \in Requests |-> IF NodeOf[p] = n THEN NoTask ELSE task[p]]
    /\ job' = [p \in Requests |->
                 IF NodeOf[p] = n /\ job[p].pc # "sent" THEN NoTask
                 ELSE job[p]]
    /\ running' = [running EXCEPT ![n] = FALSE]
    /\ reads' = [reads EXCEPT ![n] = Closed]
    /\ uploads' = [uploads EXCEPT ![n] = Closed]
    /\ UNCHANGED records

RequestStep(p) ==
    \/ \E wanted \in Ranks : Start(p, wanted)
    \/ StartUpgrade(p)
    \/ Find(p) \/ Verify(p) \/ MarkStorageLost(p)
    \/ Fetch(p) \/ UpgradeOne(p)

TaskStep(p) ==
    \/ InsertPending(p) \/ Answered(p) \/ TimedOut(p)
    \/ MarkStored(p) \/ Settle(p) \/ UpdateStatus(p)

Next ==
    \/ \E p \in Requests : RequestStep(p) \/ TaskStep(p) \/ StorageHandles(p)
    \/ \E n \in Nodes : Cool(n) \/ Restart(n)
    \/ ApplyEvent \/ Age \/ GracePasses \/ LookbackPasses \/ FoundTooLong
    \/ RepairLostUploads \/ LoseObject

Spec == Init /\ [][Next]_vars

(* An upload task is polled until it ends, the storage answers or its      *)
(* client gives up, the grace passes, and the jobs apply events and sweep. *)
(* Nobody has to play the track.                                           *)
FairSpec ==
    /\ Spec
    /\ \A p \in Requests : WF_vars(TaskStep(p)) /\ WF_vars(StorageHandles(p))
    /\ WF_vars(ApplyEvent) /\ WF_vars(GracePasses) /\ WF_vars(RepairLostUploads)

-----------------------------------------------------------------------------
(* UploadSlots::take and the Drop of UploadSlot: on each node one upload   *)
(* of the track runs at a time, and the slot is taken exactly while it     *)
(* does, on every way it can end.                                          *)
OneUploadAtATime ==
    \A n \in Nodes :
        LET mine == {p \in Requests : NodeOf[p] = n /\ task[p] # NoTask}
        IN  Cardinality(mine) = IF running[n] THEN 1 ELSE 0

(* upload_in_background_with_quality and settle_failed_status: a row that  *)
(* plays follow, and the quality tracks name, stand for an object the      *)
(* storage has, unless the storage lost it since.                          *)
CopyExists == (row.status = "ok" \/ track.ok) => (object # 0 \/ gone)

-----------------------------------------------------------------------------
(* The inductive invariant behind the two.                                 *)

(* A slot is taken by one upload, and an upload has a quality.             *)
SlotsTaken ==
    /\ \A p \in Requests :
         /\ task[p] # NoTask =>
              running[NodeOf[p]] /\ task[p].pc # "none" /\ task[p].q \in Ranks
         /\ job[p] # NoTask => job[p].pc # "none" /\ job[p].q \in Ranks
    /\ \A p, o \in Requests :
         task[p] # NoTask /\ task[o] # NoTask /\ NodeOf[p] = NodeOf[o] => p = o
    /\ \A n \in Nodes :
         running[n] => \E p \in Requests : NodeOf[p] = n /\ task[p] # NoTask

(* Whatever says that there is a copy was said after one was stored.       *)
StoredOnce == object # 0 \/ gone
SaidAfterStored ==
    /\ row.status = "ok" \/ track.ok \/ events # <<>> => StoredOnce
    /\ \A p \in Requests :
         task[p].pc \in {"mark", "ok"} \/ job[p].pc = "stored" => StoredOnce

IndInv == TypeOK /\ SlotsTaken /\ SaidAfterStored
=============================================================================
