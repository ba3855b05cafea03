--------------------------- MODULE StorageUpload ---------------------------
(***************************************************************************)
(* The storage service: an upload from its request to the event that tells *)
(* the rest of the system which recording is stored.                       *)
(*                                                                         *)
(*   handler    src/storage/src/routes/upload.rs writes the body to a       *)
(*              source file, takes the lock of the file name (AppState,     *)
(*              src/storage/src/main.rs) and waits for the pipeline.        *)
(*   pipeline   src/storage/src/pipeline.rs batches sources for ffmpeg under *)
(*              a semaphore, checks durations before and after, hands the   *)
(*              result to a writer pool that retries the backend, and        *)
(*              announces the outcome.                                      *)
(*   spool      src/storage/src/spool.rs keeps every event in a file until   *)
(*              JetStream has acknowledged it, across restarts.             *)
(*                                                                         *)
(* A client may leave at any moment (the streaming service gives up after  *)
(* five minutes): its handler is dropped, and with it the lock, while the   *)
(* job it submitted goes on.  An upload stands for the recording it brings: *)
(* its measured quality and its length are functions of it.                *)
(***************************************************************************)
EXTENDS Integers, FiniteSets, Sequences

CONSTANTS
    Uploads,        \* upload requests
    Files,          \* canonical object names
    FileOf,         \* the object an upload writes
    Length,         \* the length of the recording an upload brings
    Epsilon,        \* DURATION_EPSILON_SECS of the local backend
    Local,          \* TRUE: the local backend, FALSE: S3 or Drive
    BatchSize,      \* transcode_batch_size
    MaxTranscodes,  \* max_transcodes
    Writers,        \* upload_concurrency
    MaxAttempts,    \* upload_retries + 1
    MaxFaults,      \* bound: departures, failures, lost answers, crashes, deletions
    None            \* model value

StorageAssumption ==
    /\ IsFiniteSet(Uploads)
    /\ FileOf \in [Uploads -> Files]
    /\ Length \in [Uploads -> Nat]
    /\ Epsilon \in Nat
    /\ Local \in BOOLEAN
    /\ {BatchSize, MaxTranscodes, Writers, MaxAttempts} \subseteq Nat \ {0}
    /\ MaxFaults \in Nat
    /\ None \notin Uploads

VARIABLES
    handler,    \* where the request of an upload is
    locks,      \* file_locks: the lock a file name's weak reference points to
    lockOf,     \* the lock an upload's handler keeps alive
    job,        \* where the upload's PipelineJob is
    verdict,    \* what the job will answer
    queue,      \* the dispatcher's channel
    batch,      \* the batch the dispatcher fills
    runs,       \* batches in run_batch, each with a permit of the semaphore
    writeQueue, \* the writer pool's channel
    tries,      \* failed attempts to store a result
    object,     \* the recording the backend holds under a file name
    tmp,        \* files under tmp/source and tmp/result
    next,       \* the spool's next sequence number
    drawn,      \* the sequence number an event in push has drawn
    spool,      \* events queued on disk
    list,       \* what publish_queued has still to publish, lowest number first
    stream,     \* the JetStream stream, in the order it stored events
    faults,     \* faults used up
    blurred     \* files for which a step between store and announcement was lost

jobs == <<job, verdict, queue, batch, runs, writeQueue, tries>>
events == <<next, drawn, spool, list, stream>>
vars == <<handler, locks, lockOf, jobs, object, tmp, events, faults, blurred>>

Stages == {"none", "queued", "batched", "probe", "ready", "alone", "check",
           "write", "put", "announce", "push", "reply", "done"}
Verdicts == {"open", "ok", "rejected", "failed"}
Event(u) == [of |-> u, kind |-> verdict[u]]
Events == [of : Uploads, kind : {"ok", "rejected"}]
Source(u) == <<"source", u>>
Result(u) == <<"result", u>>

TypeOK ==
    /\ handler \in [Uploads -> {"new", "waiting", "submitted", "gone",
                                "ok", "rejected", "failed"}]
    /\ locks \in [Files -> Uploads \cup {None}]
    /\ lockOf \in [Uploads -> Uploads \cup {None}]
    /\ job \in [Uploads -> Stages]
    /\ verdict \in [Uploads -> Verdicts]
    /\ queue \in Seq(Uploads) /\ writeQueue \in Seq(Uploads)
    /\ batch \subseteq Uploads /\ Cardinality(batch) <= BatchSize
    /\ runs \subseteq SUBSET Uploads /\ Cardinality(runs) <= MaxTranscodes
    /\ tries \in [Uploads -> 0..(MaxAttempts - 1)]
    /\ object \in [Files -> Uploads \cup {None}]
    /\ tmp \subseteq {"source", "result"} \X Uploads
    /\ next \in Nat \ {0} /\ drawn \in [Uploads -> Nat]
    /\ spool \subseteq (Nat \ {0}) \X Events
    /\ list \subseteq (Nat \ {0}) \X Events
    /\ stream \in Seq(Events)
    /\ faults \in 0..MaxFaults
    /\ blurred \subseteq Files

Init ==
    /\ handler = [u \in Uploads |-> "new"]
    /\ locks = [f \in Files |-> None]
    /\ lockOf = [u \in Uploads |-> None]
    /\ job = [u \in Uploads |-> "none"]
    /\ verdict = [u \in Uploads |-> "open"]
    /\ queue = <<>> /\ batch = {} /\ runs = {} /\ writeQueue = <<>>
    /\ tries = [u \in Uploads |-> 0]
    /\ object = [f \in Files |-> None]
    /\ tmp = {}
    /\ next = 1 /\ drawn = [u \in Uploads |-> 0]
    /\ spool = {} /\ list = {} /\ stream = <<>>
    /\ faults = 0 /\ blurred = {}

Fault == faults < MaxFaults /\ faults' = faults + 1

-----------------------------------------------------------------------------
(* The handler. *)

\* Weak::upgrade: the lock lives while a handler still refers to it.
Alive(l) == l # None /\ \E v \in Uploads : lockOf[v] = l

\* AppState::file_lock: the living lock of the name, or a new one, which also
\* sweeps the dead ones out of the map.
FileLock(u) ==
    LET f == FileOf[u] IN
    IF Alive(locks[f])
    THEN lockOf' = [lockOf EXCEPT ![u] = locks[f]] /\ UNCHANGED locks
    ELSE /\ lockOf' = [lockOf EXCEPT ![u] = u]
         /\ locks' = [[g \in Files |-> IF Alive(locks[g]) THEN locks[g] ELSE None]
                        EXCEPT ![f] = u]

\* The body is on disk and the name is canonical; the handler asks for the lock.
Receive(u) ==
    /\ handler[u] = "new"
    /\ handler' = [handler EXCEPT ![u] = "waiting"]
    /\ tmp' = tmp \cup {Source(u)}
    /\ FileLock(u)
    /\ UNCHANGED <<jobs, object, events, faults, blurred>>

\* file_lock.lock().await, then the job goes into the channel.
Submit(u) ==
    /\ handler[u] = "waiting"
    /\ ~ \E v \in Uploads : handler[v] = "submitted" /\ lockOf[v] = lockOf[u]
    /\ handler' = [handler EXCEPT ![u] = "submitted"]
    /\ job' = [job EXCEPT ![u] = "queued"]
    /\ queue' = Append(queue, u)
    /\ UNCHANGED <<locks, lockOf, verdict, batch, runs, writeQueue, tries, object,
                   tmp, events, faults, blurred>>

\* The client goes away and the handler's future is dropped with its guard;
\* a job it submitted stays where it is, and so does an unsubmitted source.
Leave(u) ==
    /\ handler[u] \in {"waiting", "submitted"}
    /\ Fault
    /\ handler' = [handler EXCEPT ![u] = "gone"]
    /\ lockOf' = [lockOf EXCEPT ![u] = None]
    /\ blurred' = IF handler[u] = "submitted" THEN blurred \cup {FileOf[u]} ELSE blurred
    /\ UNCHANGED <<locks, jobs, object, tmp, events>>

-----------------------------------------------------------------------------
(* The dispatcher and ffmpeg. *)

\* rx.recv: the first job of a batch, or one more before the deadline.
Take ==
    /\ queue # <<>> /\ Cardinality(batch) < BatchSize
    /\ batch' = batch \cup {Head(queue)}
    /\ job' = [job EXCEPT ![Head(queue)] = "batched"]
    /\ queue' = Tail(queue)
    /\ UNCHANGED <<handler, locks, lockOf, verdict, runs, writeQueue, tries, object,
                   tmp, events, faults, blurred>>

\* The batch is full or its time is up, and a permit is free.
Dispatch ==
    /\ batch # {} /\ Cardinality(runs) < MaxTranscodes
    /\ runs' = runs \cup {batch}
    /\ batch' = {}
    /\ job' = [u \in Uploads |-> IF u \in batch THEN "probe" ELSE job[u]]
    /\ UNCHANGED <<handler, locks, lockOf, verdict, queue, writeQueue, tries, object,
                   tmp, events, faults, blurred>>

\* The job's fate is known: its files go, and what is left is to say so.
Settle(u, v, stage) ==
    /\ verdict' = [verdict EXCEPT ![u] = v]
    /\ job' = [job EXCEPT ![u] = stage]
    /\ tmp' = tmp \ {Source(u), Result(u)}

\* reject: gate_duration refused the recording.
Reject(u) == Settle(u, "rejected", "announce")

\* ffmpeg, the last probe or the backend gave up on the job: no event.
Fail(u) == Settle(u, "failed", "reply")

\* The source's duration, if ffprobe gives one, passes gate_duration or not.
Probe(u) ==
    /\ job[u] = "probe"
    /\ \/ job' = [job EXCEPT ![u] = "ready"] /\ UNCHANGED <<verdict, tmp>>
       \/ Reject(u)
    /\ UNCHANGED <<handler, locks, lockOf, queue, batch, runs, writeQueue, tries,
                   object, events, faults, blurred>>

\* run_ffmpeg_batch: an output for every input, or none at all.
Outputs(us) == {Result(u) : u \in us}

Accepted(b) == {u \in b : job[u] = "ready"}
\* The loop over the batch has answered every rejected job.
Probed(b) == \A u \in b : job[u] \in {"ready", "done"}

\* run_batch after the gates: one ffmpeg for the batch; when it fails, one for
\* each job of a batch of several.  The permit goes back either way.
Transcode(b) ==
    /\ b \in runs /\ Probed(b)
    /\ runs' = runs \ {b}
    /\ \/ /\ job' = [u \in Uploads |-> IF u \in Accepted(b) THEN "check" ELSE job[u]]
          /\ tmp' = tmp \cup Outputs(Accepted(b))
          /\ UNCHANGED <<verdict, faults>>
       \/ /\ Cardinality(Accepted(b)) > 1 /\ Fault
          /\ job' = [u \in Uploads |-> IF u \in Accepted(b) THEN "alone" ELSE job[u]]
          /\ UNCHANGED <<verdict, tmp>>
       \/ /\ Cardinality(Accepted(b)) = 1 /\ Fault
          /\ \A u \in Accepted(b) : Fail(u)
    /\ UNCHANGED <<handler, locks, lockOf, queue, batch, writeQueue, tries, object,
                   events, blurred>>

\* The fallback of a failed batch, in a task of its own.
TranscodeAlone(u) ==
    /\ job[u] = "alone"
    /\ \/ /\ job' = [job EXCEPT ![u] = "check"]
          /\ tmp' = tmp \cup Outputs({u})
          /\ UNCHANGED <<verdict, faults>>
       \/ Fault /\ Fail(u)
    /\ UNCHANGED <<handler, locks, lockOf, queue, batch, runs, writeQueue, tries,
                   object, events, blurred>>

\* spawn_commit: the finished file is probed; unreadable, outside the gates, or
\* handed to the writers.
Check(u) ==
    /\ job[u] = "check"
    /\ \/ /\ job' = [job EXCEPT ![u] = "write"]
          /\ writeQueue' = Append(writeQueue, u)
          /\ UNCHANGED <<verdict, tmp, faults>>
       \/ Reject(u) /\ UNCHANGED <<writeQueue, faults>>
       \/ Fault /\ Fail(u) /\ UNCHANGED writeQueue
    /\ UNCHANGED <<handler, locks, lockOf, queue, batch, runs, tries, object,
                   events, blurred>>

-----------------------------------------------------------------------------
(* The writer pool and the backend. *)

TakeWrite ==
    /\ writeQueue # <<>>
    /\ Cardinality({u \in Uploads : job[u] = "put"}) < Writers
    /\ job' = [job EXCEPT ![Head(writeQueue)] = "put"]
    /\ writeQueue' = Tail(writeQueue)
    /\ UNCHANGED <<handler, locks, lockOf, verdict, queue, batch, runs, tries, object,
                   tmp, events, faults, blurred>>

\* should_keep_existing: the stored recording is not clearly shorter.
KeepExisting(u) ==
    LET stored == object[FileOf[u]] IN
    stored # None /\ Length[stored] + Epsilon >= Length[u]

\* Backend::commit_transcode: only the local backend compares.
Committed(u) ==
    IF Local /\ KeepExisting(u) THEN object ELSE [object EXCEPT ![FileOf[u]] = u]

\* Mutant: the event is written before the backend has answered.
PutAnnouncesFirst(u) ==
    /\ job[u] = "put"
    /\ \/ object' = Committed(u) /\ Settle(u, "ok", "announce") /\ UNCHANGED <<tries, faults>>
       \/ Fault /\ Settle(u, "ok", "announce") /\ UNCHANGED <<tries, object>>
    /\ UNCHANGED <<handler, locks, lockOf, queue, batch, runs, writeQueue, events, blurred>>

\* One attempt of process_writer_job: stored; refused; or stored with the answer
\* lost.  An attempt that failed is repeated until the attempts run out.
Put(u) ==
    /\ job[u] = "put"
    /\ \/ object' = Committed(u) /\ Settle(u, "ok", "announce")
          /\ UNCHANGED <<tries, faults, blurred>>
       \/ /\ Fault
          /\ \/ UNCHANGED <<object, blurred>>
             \/ object' = Committed(u) /\ blurred' = blurred \cup {FileOf[u]}
          /\ IF tries[u] + 1 >= MaxAttempts
             THEN Fail(u) /\ UNCHANGED tries
             ELSE tries' = [tries EXCEPT ![u] = @ + 1] /\ UNCHANGED <<verdict, job, tmp>>
    /\ UNCHANGED <<handler, locks, lockOf, queue, batch, runs, writeQueue, events>>

\* DELETE /files/{filename}: takes no lock.
Delete(f) ==
    /\ object[f] # None
    /\ Fault
    /\ object' = [object EXCEPT ![f] = None]
    /\ blurred' = blurred \cup {f}
    /\ UNCHANGED <<handler, locks, lockOf, jobs, tmp, events>>

-----------------------------------------------------------------------------
(* The spool. *)

\* Spool::push draws the sequence number before it writes the file.
Draw(u) ==
    /\ job[u] = "announce"
    /\ job' = [job EXCEPT ![u] = "push"]
    /\ drawn' = [drawn EXCEPT ![u] = next]
    /\ next' = next + 1
    /\ UNCHANGED <<handler, locks, lockOf, verdict, queue, batch, runs, writeQueue,
                   tries, object, tmp, spool, list, stream, faults, blurred>>

\* The file is written, synced and renamed; or the disk refuses and the event is
\* only logged.
Push(u) ==
    /\ job[u] = "push"
    /\ job' = [job EXCEPT ![u] = "reply"]
    /\ \/ spool' = spool \cup {<<drawn[u], Event(u)>>} /\ UNCHANGED <<faults, blurred>>
       \/ Fault /\ blurred' = blurred \cup {FileOf[u]} /\ UNCHANGED spool
    /\ UNCHANGED <<handler, locks, lockOf, verdict, queue, batch, runs, writeQueue,
                   tries, object, tmp, next, drawn, list, stream>>

\* job.reply.send: a handler that still waits answers its client and lets the
\* lock go.
Reply(u) ==
    /\ job[u] = "reply"
    /\ job' = [job EXCEPT ![u] = "done"]
    /\ IF handler[u] = "submitted"
       THEN handler' = [handler EXCEPT ![u] = verdict[u]] /\ lockOf' = [lockOf EXCEPT ![u] = None]
       ELSE UNCHANGED <<handler, lockOf>>
    /\ UNCHANGED <<locks, verdict, queue, batch, runs, writeQueue, tries, object, tmp,
                   events, faults, blurred>>

Sequences(s) == {e[1] : e \in s}

\* queued_in: the queued files, to be published in the order of their names and
\* so of their sequence numbers.
Scan ==
    /\ list = {} /\ spool # {}
    /\ list' = spool
    /\ UNCHANGED <<handler, locks, lockOf, jobs, object, tmp, next, drawn, spool,
                   stream, faults, blurred>>

\* The stream drops a message whose Nats-Msg-Id it already stored.
Stored(e) == IF \E i \in DOMAIN stream : stream[i] = e THEN stream ELSE Append(stream, e)

First(s) == s \in list /\ \A t \in list : s[1] <= t[1]

\* publish_queued, one event: acknowledged and removed; or the publish, its
\* acknowledgement or the removal fails and the round starts over.
Publish ==
    /\ \E s \in list :
         /\ First(s)
         /\ \/ /\ stream' = Stored(s[2])
               /\ spool' = spool \ {s}
               /\ list' = list \ {s}
               /\ UNCHANGED faults
            \/ /\ Fault
               /\ list' = {}
               /\ stream' \in {stream, Stored(s[2])}
               /\ UNCHANGED spool
    /\ UNCHANGED <<handler, locks, lockOf, jobs, object, tmp, next, drawn, blurred>>

\* Spool::open: the next number follows the last one still queued.
Reopened == IF spool = {} THEN 1 ELSE 1 + CHOOSE s \in Sequences(spool) : \A r \in Sequences(spool) : r <= s

\* The process ends and starts again: requests, jobs and locks are gone,
\* purge_dir wipes tmp, partly written events are dropped, queued ones stay.
Crash ==
    /\ \E u \in Uploads : handler[u] # "new"
    /\ Fault
    /\ blurred' = blurred \cup {FileOf[u] : u \in {v \in Uploads : job[v] \in {"put", "announce", "push"}}}
    /\ handler' = [u \in Uploads |->
                     IF handler[u] \in {"waiting", "submitted"} THEN "gone" ELSE handler[u]]
    /\ locks' = [f \in Files |-> None]
    /\ lockOf' = [u \in Uploads |-> None]
    /\ job' = [u \in Uploads |-> IF job[u] = "none" THEN "none" ELSE "done"]
    /\ queue' = <<>> /\ batch' = {} /\ runs' = {} /\ writeQueue' = <<>>
    /\ tmp' = {}
    /\ next' = Reopened
    /\ list' = {}
    /\ UNCHANGED <<verdict, tries, object, drawn, spool, stream>>

-----------------------------------------------------------------------------
Work(u) ==
    \/ Submit(u) \/ Probe(u) \/ TranscodeAlone(u) \/ Check(u) \/ Put(u)
    \/ Draw(u) \/ Push(u) \/ Reply(u)
Round == Take \/ Dispatch \/ TakeWrite \/ Scan \/ Publish \/ \E b \in runs : Transcode(b)
Next ==
    \/ \E u \in Uploads : Receive(u) \/ Leave(u) \/ Work(u)
    \/ Round
    \/ \E f \in Files : Delete(f)
    \/ Crash

Spec == Init /\ [][Next]_vars

\* The runtime polls every task that can go on, and faults are finite.
FairSpec ==
    /\ Spec
    /\ \A u \in Uploads : WF_vars(Work(u))
    /\ WF_vars(Take) /\ WF_vars(Dispatch) /\ WF_vars(TakeWrite)
    /\ WF_vars(\E b \in runs : Transcode(b))
    /\ WF_vars(Scan) /\ WF_vars(Publish)

-----------------------------------------------------------------------------
InPipeline(u) == job[u] \notin {"none", "done"}
\* The event says that a recording of f is stored.
Tells(e, f) == FileOf[e.of] = f /\ e.kind = "ok"

NeverTold(f) ==
    /\ \A s \in spool : ~ Tells(s[2], f)
    /\ \A i \in DOMAIN stream : ~ Tells(stream[i], f)

\* The last event of f, those still queued coming after those published, is u's.
LastTold(f, u) ==
    \/ \E s \in spool :
          /\ Tells(s[2], f) /\ s[2].of = u
          /\ \A t \in spool : Tells(t[2], f) => t[1] <= s[1]
    \/ /\ \A s \in spool : ~ Tells(s[2], f)
       /\ \E i \in DOMAIN stream :
            /\ Tells(stream[i], f) /\ stream[i].of = u
            /\ \A j \in DOMAIN stream : j > i => ~ Tells(stream[j], f)

Told(f) == IF NeverTold(f) THEN object[f] = None ELSE LastTold(f, object[f])

(* AppState::file_lock with its weak references, and the guard the handler  *)
(* keeps while it waits: two recordings of one file are in the pipeline at  *)
(* once only when the client of one of them has left.                       *)
OneRecordingAtATime ==
    \A u, v \in Uploads :
        /\ u # v /\ FileOf[u] = FileOf[v]
        /\ InPipeline(u) /\ InPipeline(v)
        => "gone" \in {handler[u], handler[v]}

(* spawn_commit and the spool: once nothing of a file is on its way, the    *)
(* last recording announced for it is the one S3 or Drive holds, whatever   *)
(* order batches, retries, rejections and republications came in.  Files    *)
(* that lost a step between store and announcement are left out, and so is  *)
(* the local backend, which announces what it did not keep.                 *)
AnnouncedIsStored ==
    ~ Local => \A f \in Files \ blurred :
        (\A u \in Uploads : FileOf[u] = f => ~ InPipeline(u)) => Told(f)

(* Pipeline::submit "deletes the file on disk when done (success OR         *)
(* failure)": a finished job leaves neither its source nor its result.      *)
NothingLeftOver ==
    \A u \in Uploads : job[u] = "done" => {Source(u), Result(u)} \cap tmp = {}

(* publish_uploaded comes before job.reply.send: whoever was told ok or      *)
(* rejected has its event in the spool or in the stream, also after a crash, *)
(* unless the disk refused it.                                             *)
AnsweredIsAnnounced ==
    \A u \in Uploads :
        handler[u] \in {"ok", "rejected"} /\ FileOf[u] \notin blurred
        => LET e == [of |-> u, kind |-> handler[u]] IN
           (\E i \in DOMAIN stream : stream[i] = e) \/ \E s \in spool : s[2] = e

(* Spool::run: what is queued on disk reaches the stream; again and again   *)
(* nothing on disk waits for it.                                            *)
EveryEventDelivered == []<>(\A s \in spool : \E i \in DOMAIN stream : stream[i] = s[2])

(* Every request ends, answered or left by its client: none waits for ever. *)
EveryUploadEnds == \A u \in Uploads : []<>(handler[u] \notin {"waiting", "submitted"})

-----------------------------------------------------------------------------
(* The inductive invariant behind the safety properties.                    *)

\* The living lock of a file name is the one its handlers hold, and it lets one
\* of them submit.
LocksHeld ==
    /\ \A u \in Uploads : lockOf[u] # None <=> handler[u] \in {"waiting", "submitted"}
    /\ \A u \in Uploads : lockOf[u] # None => lockOf[u] = locks[FileOf[u]]
    /\ \A f \in Files : locks[f] # None => FileOf[locks[f]] = f /\ handler[locks[f]] # "new"
    /\ \A u, v \in Uploads :
         handler[u] = "submitted" /\ handler[v] = "submitted" /\ lockOf[u] = lockOf[v] => u = v

\* Where a request is when its job is where it is.
Matches(u) ==
    /\ handler[u] \in {"new", "waiting"} => job[u] = "none"
    /\ InPipeline(u) => handler[u] \in {"submitted", "gone"}
    /\ InPipeline(u) /\ handler[u] = "gone" => FileOf[u] \in blurred
    /\ job[u] \notin {"announce", "push", "reply", "done"} => verdict[u] = "open"
    /\ job[u] \in {"announce", "push"} => verdict[u] \in {"ok", "rejected"}
    /\ job[u] = "reply" => verdict[u] # "open"
    /\ handler[u] \in {"ok", "rejected"} => job[u] = "done" /\ verdict[u] = handler[u]
InStep == \A u \in Uploads : Matches(u)

\* A channel holds a job once, and the job waits there.
Waits(q, stage) ==
    /\ \A i \in DOMAIN q : job[q[i]] = stage
    /\ \A i, j \in DOMAIN q : q[i] = q[j] => i = j
InQueues ==
    /\ Waits(queue, "queued") /\ Waits(writeQueue, "write")
    /\ \A u \in batch : job[u] = "batched"

\* A job whose fate is known has no files.
Tidy == \A u \in Uploads :
    job[u] \in {"announce", "push", "reply", "done"} => {Source(u), Result(u)} \cap tmp = {}

\* An event is made once, and not lost but with a file that is blurred.
EventsKept ==
    /\ \A s \in spool : job[s[2].of] \in {"reply", "done"}
    /\ \A i \in DOMAIN stream : job[stream[i].of] \in {"reply", "done"}
    /\ \A s, t \in spool : s[2].of = t[2].of => s = t
    /\ \A u \in Uploads :
         job[u] \in {"reply", "done"} /\ verdict[u] \in {"ok", "rejected"}
           /\ FileOf[u] \notin blurred
         => (\E i \in DOMAIN stream : stream[i] = Event(u)) \/ \E s \in spool : s[2] = Event(u)

\* The events of a file are numbered in the order they were made, published in
\* the order of their numbers, and republished only before a later one is.
SameFile(u, v) == FileOf[u] = FileOf[v]
Clear(s) == FileOf[s[2].of] \notin blurred
Numbered ==
    /\ \A s \in spool : s[1] < next
    /\ \A u \in Uploads : job[u] = "push" => 0 < drawn[u] /\ drawn[u] < next
    /\ \A u \in Uploads, s \in spool :
         job[u] = "push" /\ Clear(s) /\ SameFile(u, s[2].of) => s[1] < drawn[u]
    /\ \A s, t \in spool : Clear(s) /\ SameFile(s[2].of, t[2].of) /\ s[1] = t[1] => s = t
    /\ list \subseteq spool
    /\ \A s \in list, t \in spool \ list :
         Clear(s) /\ SameFile(s[2].of, t[2].of) => s[1] < t[1]
    /\ \A s \in spool, i \in DOMAIN stream :
         Clear(s) /\ s[2].kind = "ok" /\ stream[i] = s[2] =>
           /\ \A t \in spool : SameFile(s[2].of, t[2].of) /\ t[2].kind = "ok" => s[1] <= t[1]
           /\ \A j \in DOMAIN stream : j > i => ~ Tells(stream[j], FileOf[s[2].of])

\* What is stored is what was told last, or what the job about to tell has stored.
Telling(u) == job[u] \in {"announce", "push"} /\ verdict[u] = "ok"
Truthful ==
    ~ Local => \A f \in Files \ blurred :
        \/ \E u \in Uploads : FileOf[u] = f /\ Telling(u) /\ object[f] = u
        \/ (\A u \in Uploads : FileOf[u] = f => ~ Telling(u)) /\ Told(f)

IndInv ==
    /\ TypeOK /\ LocksHeld /\ InStep /\ InQueues /\ Tidy /\ EventsKept /\ Numbered
    /\ Truthful
=============================================================================
