------------------------------- MODULE MCJobs -------------------------------
(***************************************************************************)
(* The jobs service, for TLC: the queue, the way of a command into it      *)
(* (Ingress) and the lane of its lyrics lookups (Lane).  A behaviour works *)
(* on one part and leaves the others as they began: what passes between    *)
(* the ingress and the queue is a command that is taken once, which        *)
(* JobIngress promises and JobQueue's receipts stand for.                  *)
(*                                                                         *)
(* Every key may commit pages and be dropped, and every command is for k1, *)
(* so that overwriting, re-creation and stale executions meet on one row.  *)
(***************************************************************************)
EXTENDS JobQueue

CONSTANTS
    Parts, k1, c1, c2, s1, s2,
    Invalid, Tasks, MaxAge, ReceiptAge, Hold, Horizon, Faults, NoTask, Never,
    Concurrency, Ceiling, Batch, Sweeps, Moves

VARIABLES part,
    now, msg, sentAt, task, receipt, live, accepted, dead, faults,
    limit, targeted, reserved, sweep, wants, waiting, worker, cap, slots, asked, jobs,
    lookups, batch, sweepCap, queue, running, sweeps, moves

Ingress == INSTANCE JobIngress
Lane == INSTANCE LookupLane

ASSUME IngressOK == Ingress!IngressAssumption
ASSUME LaneOK == Lane!LaneAssumption

OneKey == {k1}
AllForK1 == [c \in Commands |-> k1]
Tries == [c \in Commands |-> IF c = c1 THEN 2 ELSE 1]

ingressVars == <<now, msg, sentAt, task, receipt, live, accepted, dead, faults>>
laneVars == <<limit, targeted, reserved, sweep, wants, waiting, worker, cap, slots, asked,
              jobs, lookups, batch, sweepCap, queue, running, sweeps, moves>>
partVars == <<part, vars, ingressVars, laneVars>>

PartInit == part \in Parts /\ Init /\ Ingress!Init /\ Lane!Init

PartNext ==
    /\ \/ part = "queue" /\ Next /\ UNCHANGED <<ingressVars, laneVars>>
       \/ part = "ingress" /\ Ingress!Next /\ UNCHANGED <<vars, laneVars>>
       \/ part = "lane" /\ Lane!Next /\ UNCHANGED <<vars, ingressVars>>
    /\ UNCHANGED part

\* The fairness of each part, while it is the one at work.
FairParts ==
    /\ PartInit /\ [][PartNext]_partVars
    /\ \A s \in Slots : /\ WF_vars(part = "queue" /\ Return(s))
                        /\ WF_vars(part = "queue" /\ Conclude(s))
    /\ \A k \in Keys :
        /\ WF_vars(part = "queue" /\ \E s \in Slots : Claim(s, k))
        /\ WF_vars(part = "queue" /\ BecomeDue(k))
        /\ WF_vars(part = "queue" /\ LeaseRunsOut(k))
        /\ WF_vars(part = "queue" /\ ReleaseExpired(k))
        /\ WF_vars(part = "queue" /\ RecoverExhausted(k))
    /\ \A c \in Commands :
        /\ SF_ingressVars(part = "ingress" /\ \E t \in Tasks : Ingress!Deliver(c, t))
        /\ WF_ingressVars(part = "ingress" /\ Ingress!AckWaitEnds(c))
    /\ \A t \in Tasks : WF_ingressVars(part = "ingress" /\ Ingress!Process(t))
    /\ WF_laneVars(part = "lane" /\ Lane!Worker)
    /\ WF_laneVars(part = "lane" /\ Lane!LookupEnds)
    /\ WF_laneVars(part = "lane" /\ Lane!Sweeping)
    /\ SF_laneVars(part = "lane" /\ Lane!SweepLookupEnds)

-----------------------------------------------------------------------------
(* The properties of the ingress and of the lane, stated in JobIngress and *)
(* LookupLane.  Those of the queue are JobQueue's own.                     *)

\* A command becomes a job at most once, although it may be in two tasks at
\* a time, be delivered again long after its job has finished, and its
\* receipt be cleaned up (JobIngress).
AcceptedOnce == Ingress!AcceptedOnce

\* A command is gone from the stream only after the queue took it, or the
\* dead letter stream has it, or it was undeliverable for max_age
\* (JobIngress).
NothingLost == Ingress!NothingLost

\* The lane's counters are the slots that exist, within the concurrency, and
\* an ended sweep keeps none (LookupLane).
LaneInv == Lane!LaneInv

\* What targeted_slots and sweep_slot grant fits the cap that was read and
\* leaves the other side its share (LookupLane).
GrantsKeepShares == Lane!GrantsKeepShares

\* Every accepted job leaves the table, every published command the stream or
\* grows too old, every sweep ends: none comes back more than finitely often,
\* so again and again there is none (JobQueue, JobIngress, LookupLane).  And
\* targeted lookups always get slots again, whatever the sweep takes.
JobsSettle ==
    /\ []<>(/\ \A k \in Keys : row[k] = NoRow
            /\ \A c \in Commands : msg[c] # "ready" \/ now >= sentAt[c] + MaxAge
            /\ batch = "none")
    /\ []<>(part = "lane" => worker = "claim")
=============================================================================
