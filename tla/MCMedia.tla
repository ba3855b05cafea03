------------------------------ MODULE MCMedia -------------------------------
(***************************************************************************)
(* The recordings, for TLC: the storage service's pipeline, the quota of   *)
(* its temporary directory, and the copies the streaming service keeps     *)
(* there.  A behaviour works on one part: the parts share no state but the *)
(* count of faults, so interleaving them would only multiply the states.   *)
(***************************************************************************)
EXTENDS Integers, TLC

CONSTANTS
    Parts, None, u1, u2, u3, n1, n2, p1, p2, p3,
    Uploads, Files, FileOf, Length, Epsilon, Local, BatchSize, MaxTranscodes, Writers,
    MaxAttempts, StorageFaults,
    Bodies, Limit, Width, MaxChunks, MaxRescans, QuotaFaults,
    Nodes, Requests, NodeOf, MaxRank, FailuresToOpen, MaxEvents, CopyFaults, MaxLosses

VARIABLES part, faults,
    handler, locks, lockOf, job, verdict, queue, batch, runs, writeQueue, tries, object,
    tmp, next, drawn, spool, list, stream, blurred,
    pc, used, prev, bytes, disk, scanner, pre, found, rescans, recovered, astray,
    copy, gone, row, track, recent, events, req, task, sent, running, reads, uploads, losses

Storage == INSTANCE StorageUpload WITH MaxFaults <- StorageFaults

Quota == INSTANCE TmpQuota WITH Uploads <- Bodies, MaxFaults <- QuotaFaults

Copies == INSTANCE TrackCopies WITH object <- copy, job <- sent, MaxFaults <- CopyFaults

ASSUME StorageOK == Storage!StorageAssumption
ASSUME QuotaOK == Quota!QuotaAssumption
ASSUME CopiesOK == Copies!CopiesAssumption

\* Two uploads of one file, the second clearly longer; three plays, two of
\* them on one node.
OneFile == [u \in Uploads |-> "f"]
Lengths == u1 :> 3 @@ u2 :> 4
TwoNodes == p1 :> n1 @@ p2 :> n1 @@ p3 :> n2

storageVars == <<handler, locks, lockOf, job, verdict, queue, batch, runs, writeQueue,
                 tries, object, tmp, next, drawn, spool, list, stream, blurred>>
quotaVars == <<pc, used, prev, bytes, disk, scanner, pre, found, rescans, recovered, astray>>
copyVars == <<copy, gone, row, track, recent, events, req, task, sent, running, reads,
              uploads, losses>>
vars == <<part, faults, storageVars, quotaVars, copyVars>>

Init == part \in Parts /\ Storage!Init /\ Quota!Init /\ Copies!Init

Next ==
    /\ \/ part = "storage" /\ Storage!Next /\ UNCHANGED <<quotaVars, copyVars>>
       \/ part = "quota" /\ Quota!Next /\ UNCHANGED <<storageVars, copyVars>>
       \/ /\ part \in {"copies", "losing"}
          /\ Copies!Next
          /\ UNCHANGED <<storageVars, quotaVars>>
    /\ UNCHANGED part

Spec == Init /\ [][Next]_vars

(* What TLC looks at of the copies: the plays of one node, with one fault  *)
(* when the row grows old and none when the track is too long ("copies"),  *)
(* or a play on each node while the storage loses the object, with fewer   *)
(* things going wrong beside ("losing").                                   *)

OneNode ==
    /\ req'[p3] = req[p3] /\ UNCHANGED losses
    /\ row'.age = "old" => faults' <= 1
    /\ track'.long => faults' = 0

Losing ==
    /\ req'[p2] = req[p2] /\ faults' <= 1 /\ ~track'.long /\ row'.age # "old"
    /\ \A p \in Requests : task'[p].q <= 1

BoundedNext ==
    /\ Next
    /\ part = "copies" => OneNode
    /\ part = "losing" => Losing

\* The fairness of each part, while it is the one at work.
FairSpec ==
    /\ Init /\ [][BoundedNext]_vars
    /\ \A u \in Uploads : WF_storageVars(part = "storage" /\ Storage!Work(u))
    /\ WF_storageVars(part = "storage" /\ Storage!Take)
    /\ WF_storageVars(part = "storage" /\ Storage!Dispatch)
    /\ WF_storageVars(part = "storage" /\ Storage!TakeWrite)
    /\ WF_storageVars(part = "storage" /\ \E b \in runs : Storage!Transcode(b))
    /\ WF_storageVars(part = "storage" /\ Storage!Scan)
    /\ WF_storageVars(part = "storage" /\ Storage!Publish)
    /\ \A p \in Requests : /\ WF_copyVars(part = "copies" /\ Copies!TaskStep(p))
                           /\ WF_copyVars(part = "copies" /\ Copies!StorageHandles(p))
    /\ WF_copyVars(part = "copies" /\ Copies!ApplyEvent)
    /\ WF_copyVars(part = "copies" /\ Copies!GracePasses)
    /\ WF_copyVars(part = "copies" /\ Copies!RepairLostUploads)

-----------------------------------------------------------------------------
(* The properties of the parts, stated in StorageUpload, TmpQuota and      *)
(* TrackCopies.                                                            *)

\* Two recordings of a file are in the pipeline only once a client has left;
\* the last recording announced for a file is the one the backend holds; a
\* finished job leaves no temporary file behind; whoever was answered has
\* its event in the spool or in the stream.
StorageSafe ==
    part = "storage" =>
        /\ Storage!TypeOK /\ Storage!OneRecordingAtATime /\ Storage!AnnouncedIsStored
        /\ Storage!NothingLeftOver /\ Storage!AnsweredIsAnnounced

\* The quota's counter is what reservations hold, less what rescans took off,
\* and without rescans and stray files the directory keeps its limit
\* (TmpQuota); a node uploads a track once at a time, and what plays follow is
\* an object the storage has, or one it has lost since (TrackCopies).
CopiesSafe ==
    /\ part = "quota" => Quota!TypeOK /\ Quota!Conserved /\ Quota!WithinLimit
    /\ part \in {"copies", "losing"} =>
         Copies!TypeOK /\ Copies!OneUploadAtATime /\ Copies!CopyExists

\* Every spooled event reaches the stream and every upload ends
\* (StorageUpload); a node's upload slot is free again and again, and the
\* catalogue hears of a stored copy although its event may be lost, unless the
\* row of the copy leaves the two days the repair looks back before a sweep
\* finds it, or the track is too long (TrackCopies;
\* upload_repair_live_tests.rs keeps such an upload pending).
MediaSettles ==
    /\ Storage!EveryEventDelivered
    /\ Storage!EveryUploadEnds
    /\ []<>(part = "copies" => ~running[n1])
    /\ []<>(part = "copies" /\ row.status = "ok" /\ row.age # "old"
                => track.ok \/ track.long)
=============================================================================
