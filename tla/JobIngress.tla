---------------------------- MODULE JobIngress ----------------------------
(***************************************************************************)
(* The way of an enqueue command from the API to the job queue: the        *)
(* JetStream work queue API_BACKGROUND_JOBS, the WorkConsumer of           *)
(* jobs/src/bus/consumer.rs with its delivery tasks, accept_job_command,   *)
(* and the receipts that make a redelivered command harmless.              *)
(*                                                                         *)
(* Abstractions.  A command is its id.  What the queue does with an        *)
(* accepted command is JobQueue; here it is only "its row or its failure   *)
(* still exists" (live).  Durations are numbers of ticks of one clock; the *)
(* ages that matter are the stream's max_age, the age at which a receipt   *)
(* is cleaned up and Hold, the time a delivery may stay in a task.         *)
(* JetStream is external: it stores a published command, delivers it to    *)
(* any task, delivers it again when no acknowledgement arrives, forgets it *)
(* when it is acknowledged or max_age old.                                 *)
(***************************************************************************)
EXTENDS Naturals

CONSTANTS
    Commands,    \* ids of commands
    Invalid,     \* commands the ingress refuses for good
    Tasks,       \* delivery tasks over all processes of the consumer
    MaxAge,      \* max_age of the stream
    ReceiptAge,  \* age at which cleanup_job_receipts drops a receipt
    Hold,        \* longest time a task takes from delivery to its last write
    Horizon,     \* bound on the clock
    Faults,      \* bound on errors, lost acknowledgements and crashes
    NoTask, Never

States == {"unsent", "ready", "pending", "gone"}
TaskSteps == {"handle", "ack", "nak"}
Deliveries == [cmd : Commands, step : TaskSteps, since : Nat]

(* The receipt outlives every delivery of its command: 7 days against      *)
(* JOBS_NATS_MAX_AGE_SECONDS (3 days) and minutes in a task.  The code     *)
(* does not check the configured value.                                    *)
IngressAssumption ==
    /\ Invalid \subseteq Commands
    /\ MaxAge \in Nat /\ ReceiptAge \in Nat /\ Hold \in Nat
    /\ Horizon \in Nat /\ Faults \in Nat
    /\ MaxAge + Hold <= ReceiptAge
    /\ Never \notin Nat /\ NoTask \notin Deliveries

VARIABLES
    now,       \* the clock
    msg,       \* msg[c]: where JetStream has the command
    sentAt,    \* sentAt[c]: when it was stored
    task,      \* task[t]: the delivery a task works on, or NoTask
    receipt,   \* receipt[c]: background_job_enqueues.accepted_at, or Never
    live,      \* commands whose row or failure is still there
    accepted,  \* history: how often the queue took the command
    dead,      \* commands published to the dead letter stream
    faults     \* faults that may still happen

vars == <<now, msg, sentAt, task, receipt, live, accepted, dead, faults>>

Init ==
    /\ now = 0
    /\ msg = [c \in Commands |-> "unsent"]
    /\ sentAt = [c \in Commands |-> 0]
    /\ task = [t \in Tasks |-> NoTask]
    /\ receipt = [c \in Commands |-> Never]
    /\ live = {}
    /\ accepted = [c \in Commands |-> 0]
    /\ dead = {}
    /\ faults = Faults

Fault == faults > 0 /\ faults' = faults - 1

At(t, step) == task[t] # NoTask /\ task[t].step = step
Goto(t, step) == task' = [task EXCEPT ![t].step = step]
EndTask(t) == task' = [task EXCEPT ![t] = NoTask]

---------------------------------------------------------------------------
(* Publisher and stream.                                                   *)

(* BackgroundJobs::publish.  Every job is published once, with a fresh id; *)
(* whether its caller sees the answer in time does not change the stream.  *)
Publish(c) ==
    /\ msg[c] = "unsent"
    /\ msg' = [msg EXCEPT ![c] = "ready"]
    /\ sentAt' = [sentAt EXCEPT ![c] = now]
    /\ UNCHANGED <<now, task, receipt, live, accepted, dead, faults>>

Deliver(c, t) ==
    /\ msg[c] = "ready"
    /\ now < sentAt[c] + MaxAge
    /\ task[t] = NoTask
    /\ msg' = [msg EXCEPT ![c] = "pending"]
    /\ task' = [task EXCEPT ![t] = [cmd |-> c, step |-> "handle", since |-> now]]
    /\ UNCHANGED <<now, sentAt, receipt, live, accepted, dead, faults>>

(* ack_wait passes without an acknowledgement.  A task that still works    *)
(* sends progress four times per ack_wait, so while one does this takes a  *)
(* fault; then the command is in two tasks at once.                        *)
AckWaitEnds(c) ==
    /\ msg[c] = "pending"
    /\ msg' = [msg EXCEPT ![c] = "ready"]
    /\ \/ Fault
       \/ /\ \A t \in Tasks : task[t] # NoTask => task[t].cmd # c
          /\ UNCHANGED faults
    /\ UNCHANGED <<now, sentAt, task, receipt, live, accepted, dead>>

Expire(c) ==
    /\ msg[c] \in {"ready", "pending"}
    /\ now >= sentAt[c] + MaxAge
    /\ msg' = [msg EXCEPT ![c] = "gone"]
    /\ UNCHANGED <<now, sentAt, task, receipt, live, accepted, dead, faults>>

---------------------------------------------------------------------------
(* A delivery task: DeliveryWorker::process around accept_job_command.     *)

(* Mutant: the row is inserted whether or not the receipt was there.       *)
TakeAlways(c) ==
    /\ receipt' = [receipt EXCEPT ![c] = now]
    /\ live' = live \cup {c}
    /\ accepted' = [accepted EXCEPT ![c] = @ + 1]

(* enqueue.sql: one statement inserts the receipt and, only if it was not  *)
(* there, the row.                                                         *)
Take(c) ==
    \/ /\ receipt[c] = Never
       /\ receipt' = [receipt EXCEPT ![c] = now]
       /\ live' = live \cup {c}
       /\ accepted' = [accepted EXCEPT ![c] = @ + 1]
    \/ /\ receipt[c] # Never
       /\ UNCHANGED <<receipt, live, accepted>>

(* Enqueued: Ok(()) leads to the acknowledgement.  With a fault the        *)
(* statement commits and its answer is lost: a retryable error.            *)
Accept(t) ==
    /\ At(t, "handle")
    /\ task[t].cmd \notin Invalid
    /\ Take(task[t].cmd)
    /\ \/ Goto(t, "ack") /\ UNCHANGED faults
       \/ Goto(t, "nak") /\ Fault
    /\ UNCHANGED <<now, msg, sentAt, dead>>

(* A database error before the commit: retryable.                          *)
EnqueueFails(t) ==
    /\ At(t, "handle")
    /\ task[t].cmd \notin Invalid
    /\ Goto(t, "nak")
    /\ Fault
    /\ UNCHANGED <<now, msg, sentAt, receipt, live, accepted, dead>>

(* Not decodable, a kind the ingress does not take, no attempts, a bad     *)
(* timestamp or dedup key: permanent, so publish_dead_letter.  When that   *)
(* fails, before or after the letter is stored, the delivery is returned.  *)
Refuse(t) ==
    /\ At(t, "handle")
    /\ task[t].cmd \in Invalid
    /\ \/ /\ dead' = dead \cup {task[t].cmd}
          /\ \/ Goto(t, "ack") /\ UNCHANGED faults
             \/ Goto(t, "nak") /\ Fault
       \/ /\ UNCHANGED dead
          /\ Goto(t, "nak")
          /\ Fault
    /\ UNCHANGED <<now, msg, sentAt, receipt, live, accepted>>

(* Mutant: an error after the delivery acknowledges it.                    *)
AcknowledgeEarly(t) ==
    /\ At(t, "ack") \/ At(t, "nak")
    /\ EndTask(t)
    /\ \/ msg' = [msg EXCEPT ![task[t].cmd] = "gone"] /\ UNCHANGED faults
       \/ UNCHANGED msg /\ Fault
    /\ UNCHANGED <<now, sentAt, receipt, live, accepted, dead>>

(* Ack after the enqueue, Term after the dead letter: the command leaves   *)
(* the stream whichever of its deliveries is acknowledged.                 *)
Acknowledge(t) ==
    /\ At(t, "ack")
    /\ EndTask(t)
    /\ \/ msg' = [msg EXCEPT ![task[t].cmd] = "gone"] /\ UNCHANGED faults
       \/ UNCHANGED msg /\ Fault
    /\ UNCHANGED <<now, sentAt, receipt, live, accepted, dead>>

(* Nak with the retry delay: back to the stream for another delivery.      *)
Returned(t) ==
    IF msg[task[t].cmd] = "pending"
    THEN msg' = [msg EXCEPT ![task[t].cmd] = "ready"]
    ELSE UNCHANGED msg

Retry(t) ==
    /\ At(t, "nak")
    /\ EndTask(t)
    /\ \/ Returned(t) /\ UNCHANGED faults
       \/ UNCHANGED msg /\ Fault
    /\ UNCHANGED <<now, sentAt, receipt, live, accepted, dead>>

(* Shutdown while the task waits for a permit: Nak without a delay.        *)
HandBack(t) ==
    /\ At(t, "handle")
    /\ EndTask(t)
    /\ Returned(t)
    /\ Fault
    /\ UNCHANGED <<now, sentAt, receipt, live, accepted, dead>>

Crash(t) ==
    /\ task[t] # NoTask
    /\ EndTask(t)
    /\ Fault
    /\ UNCHANGED <<now, msg, sentAt, receipt, live, accepted, dead>>

---------------------------------------------------------------------------
(* The queue and its housekeeping.                                         *)

(* The job is done and has left no failure, or its failure was cleaned up. *)
Leave(c) ==
    /\ c \in live
    /\ live' = live \ {c}
    /\ UNCHANGED <<now, msg, sentAt, task, receipt, accepted, dead, faults>>

(* cleanup_job_receipts.sql                                                *)
CleanUp(c) ==
    /\ receipt[c] # Never
    /\ now > receipt[c] + ReceiptAge
    /\ c \notin live
    /\ receipt' = [receipt EXCEPT ![c] = Never]
    /\ UNCHANGED <<now, msg, sentAt, task, live, accepted, dead, faults>>

(* Time does not pass a task by: it is done, or dead, within Hold.         *)
Tick ==
    /\ now < Horizon
    /\ \A t \in Tasks : task[t] # NoTask => now < task[t].since + Hold
    /\ now' = now + 1
    /\ UNCHANGED <<msg, sentAt, task, receipt, live, accepted, dead, faults>>

---------------------------------------------------------------------------
Stream ==
    \E c \in Commands :
        \/ Publish(c)
        \/ \E t \in Tasks : Deliver(c, t)
        \/ AckWaitEnds(c)
        \/ Expire(c)

Process(t) ==
    \/ Accept(t)
    \/ EnqueueFails(t)
    \/ Refuse(t)
    \/ Acknowledge(t)
    \/ Retry(t)
    \/ HandBack(t)
    \/ Crash(t)

Queue == \E c \in Commands : Leave(c) \/ CleanUp(c)

Next == Stream \/ (\E t \in Tasks : Process(t)) \/ Queue \/ Tick

(* JetStream delivers while a task is free and redelivers what no task     *)
(* answers for; a task runs to its end.  Neither the clock nor expiry is   *)
(* fair: liveness must come from deliveries.                               *)
Fairness ==
    /\ \A c \in Commands :
         /\ SF_vars(\E t \in Tasks : Deliver(c, t))
         /\ WF_vars(AckWaitEnds(c))
    /\ \A t \in Tasks : WF_vars(Process(t))

Spec == Init /\ [][Next]_vars
FairSpec == Spec /\ Fairness

---------------------------------------------------------------------------
(* Properties.                                                             *)

(* Every variable keeps its domain.                                        *)
TypeOK ==
    /\ now \in 0..Horizon
    /\ msg \in [Commands -> States]
    /\ sentAt \in [Commands -> Nat]
    /\ task \in [Tasks -> Deliveries \cup {NoTask}]
    /\ receipt \in [Commands -> Nat \cup {Never}]
    /\ live \subseteq Commands
    /\ accepted \in [Commands -> Nat]
    /\ dead \subseteq Commands
    /\ faults \in 0..Faults

(* A command becomes a job at most once, although it may be in two tasks   *)
(* at a time, its commit may be reported as an error, its acknowledgement  *)
(* may be lost, it may be delivered again long after its job has finished, *)
(* and receipts are cleaned up: JobQueue's Enqueue may take every command  *)
(* once.                                                                   *)
AcceptedOnce == \A c \in Commands : accepted[c] <= 1

(* A command is gone from the stream only after the queue took it, or the  *)
(* dead letter stream has it, or it was undeliverable for max_age; and the *)
(* ingress never enqueues a command it refuses.                            *)
NothingLost ==
    \A c \in Commands :
        /\ msg[c] = "gone"
           => \/ IF c \in Invalid THEN c \in dead ELSE accepted[c] >= 1
              \/ now >= sentAt[c] + MaxAge
        /\ c \in Invalid => accepted[c] = 0

(* What a command's receipt, its count and the clock say about each other. *)
ReceiptsSound ==
    \A c \in Commands :
        /\ sentAt[c] <= now
        /\ msg[c] = "unsent" => accepted[c] = 0
        /\ c \in Invalid => accepted[c] = 0
        /\ receipt[c] # Never => accepted[c] = 1 /\ sentAt[c] <= receipt[c]
        /\ accepted[c] # 0 /\ receipt[c] = Never => now > sentAt[c] + ReceiptAge

(* A task never works on a delivery so old that the receipt of its command *)
(* may be gone, and acknowledges only what is stored elsewhere.            *)
TasksSound ==
    \A t \in Tasks :
        LET d == task[t]
        IN  d # NoTask
            => /\ msg[d.cmd] # "unsent"
               /\ d.since < sentAt[d.cmd] + MaxAge
               /\ now <= d.since + Hold
               /\ d.step = "ack" => IF d.cmd \in Invalid THEN d.cmd \in dead
                                    ELSE accepted[d.cmd] # 0

(* The inductive invariant behind AcceptedOnce and NothingLost: receipts,  *)
(* counts and the clock agree, and whatever a task still has in hand is    *)
(* younger than any receipt that may have been cleaned up.                 *)
IndInv == TypeOK /\ AcceptedOnce /\ NothingLost /\ ReceiptsSound /\ TasksSound
=============================================================================
