---------------------------- MODULE MCSyncWrites ----------------------------
(***************************************************************************)
(* The writes to SoundCloud, for TLC: the sync queue and the write pauses. *)
(* A behaviour works on one of them: they share no variable, so            *)
(* interleaving them would only multiply the states.  For the same reason  *)
(* TLC looks at the two mutations of one like ("likes") and at the two     *)
(* that must not be sent twice ("sends") in behaviours of their own; the   *)
(* theorems are about PartSpec, where they mix.                            *)
(***************************************************************************)
EXTENDS Integers

CONSTANTS
    Actions, Executors, NoLease, MaxRetries, MaxTaps, MaxErrors, MaxMishaps,
    Keys, Writers, Base, ProbeHold, MaxPause, EscalationUsers, MaxRefusals, MaxFaults

VARIABLES part,
    queue, mirror, remote, effects, ex, clock, errors, mishaps, late,
    paused, account, reports, saved, restored, w, refusals, faults

Sync == INSTANCE SyncQueue
Pauses == INSTANCE WritePauses

ASSUME QueueOK == Sync!SyncAssumption
ASSUME PausesOK == Pauses!PauseAssumption

queueVars == <<queue, mirror, remote, effects, ex, clock, errors, mishaps, late>>
pauseVars == <<paused, account, reports, saved, restored, w, refusals, faults>>
vars == <<part, queueVars, pauseVars>>

Init ==
    /\ part \in {"likes", "sends", "pauses"}
    /\ Sync!Init /\ Pauses!Init

PartNext ==
    /\ \/ part \in {"likes", "sends"} /\ Sync!Next /\ UNCHANGED pauseVars
       \/ part = "pauses" /\ Pauses!Next /\ UNCHANGED queueVars
    /\ UNCHANGED part

PartSpec == Init /\ [][PartNext]_vars

-----------------------------------------------------------------------------
(* What TLC looks at: three taps of like and unlike with one failure, or a *)
(* create and a comment with failures up to the retry limit, a request     *)
(* carried out late or a listing that misleads.                            *)

Liking ==
    /\ part = "likes" /\ errors' <= 1
    /\ \A a \in {"create", "comment"} : queue'[a] = queue[a]

Sending ==
    /\ part = "sends"
    /\ mishaps' = mishaps \/ queue' = queue
    /\ \A a \in {"like", "unlike"} : queue'[a] = queue[a]

BoundedInit ==
    /\ Init
    /\ part # "likes" => remote = "off"
    /\ part # "pauses" => \A k \in Keys : ~saved[k].there

BoundedNext == PartNext /\ (Liking \/ Sending \/ part = "pauses")

\* The fairness of each part, while it is the one at work.
FairSpec ==
    /\ BoundedInit /\ [][BoundedNext]_vars
    /\ \A a \in Actions :
        /\ WF_queueVars(Sync!Adopt(a) /\ (Liking \/ Sending))
        /\ WF_queueVars(Sync!SettleCancelled(a) /\ (Liking \/ Sending))
        /\ WF_queueVars((\E e \in Executors : Sync!Claim(e, a)) /\ (Liking \/ Sending))
    /\ \A e \in Executors : WF_queueVars(Sync!Step(e) /\ (Liking \/ Sending))
    /\ WF_pauseVars(part = "pauses" /\ Pauses!Tick)
    /\ WF_pauseVars(part = "pauses" /\ Pauses!Restore)
    /\ \A x \in Writers : WF_pauseVars(part = "pauses" /\ Pauses!Work(x))
    /\ \A k \in Keys :
        SF_pauseVars(part = "pauses" /\ \E x \in Writers : Pauses!Admit(x, k))

-----------------------------------------------------------------------------
(* The properties of the parts, stated in SyncQueue and WritePauses.       *)

\* As long as no execution outlives its lease, no request is carried out late
\* and no listing misleads, a create and a comment reach SoundCloud at most
\* once, what shows no attempt was never sent, and neither
\* leaves the queue but settled or never sent.
SendsSafe ==
    /\ [](Sync!TypeOK /\ Sync!SentOnce /\ Sync!UnmarkedIsUnsent)
    /\ Sync!NoneForgotten

\* The mirror says "synced" only of what SoundCloud has, a later intent waits
\* for the earlier one at work, and the last wish stays queued until it is
\* marked served.
WishesSafe ==
    /\ []Sync!SyncedIsTrue
    /\ Sync!LaterIntentWaits
    /\ Sync!WantedUntilServed

\* The last wish is served and stays so; a create or a comment is settled or
\* parked.
WritesSettle == Sync!LastWishServed /\ Sync!EachSettles

\* One write at a time probes a paused action within a hold, and no hold is
\* longer than MAX_PAUSE.
PausesSafe == Pauses!TypeOK /\ Pauses!OneProbe

\* Pauses end, in memory and in the database, once SoundCloud stops refusing.
PausesLifted == Pauses!PausesEnd
=============================================================================
