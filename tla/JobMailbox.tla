---------------------------- MODULE JobMailbox ----------------------------
(***************************************************************************)
(* What the durable job queue of jobs/src/queue promises its callers: a    *)
(* newest-wins, at-least-once mailbox.  Every key (job kind plus           *)
(* deduplication key) owes at most one command, the newest one accepted    *)
(* for it.  A command that is owed stays owed until                        *)
(*    - a run that was started for that very command settles it,           *)
(*    - a newer command for the same key takes its place,                  *)
(*    - it is given up into the archive of failures, which is only allowed *)
(*      after some run of it has begun, or                                 *)
(*    - the caller withdraws it.                                           *)
(* A command that has been accepted once is never owed a second time.      *)
(* Leases, generations, attempts, clocks and crashes are JobQueue's means  *)
(* to this end; none of them shows here.                                   *)
(***************************************************************************)
EXTENDS Naturals

CONSTANTS
    Keys,       \* (kind, dedup_key) pairs
    Commands,   \* ids of enqueue commands
    KeyOf,      \* the key each command is for
    Droppable,  \* keys whose command the caller may withdraw
    Slots,      \* execution slots of the workers
    Nothing     \* no command owed, no run in a slot

VARIABLES
    owed,       \* owed[k]: the newest unsettled command of key k
    doing,      \* doing[s]: the command slot s runs
    accepted,   \* commands that were ever accepted
    begun,      \* commands some run has begun
    archive     \* commands given up

mvars == <<owed, doing, accepted, begun, archive>>

MInit ==
    /\ owed = [k \in Keys |-> Nothing]
    /\ doing = [s \in Slots |-> Nothing]
    /\ accepted = {}
    /\ begun = {}
    /\ archive = {}

(* A command becomes the one its key owes.                                 *)
Submit(c) ==
    /\ c \notin accepted
    /\ accepted' = accepted \cup {c}
    /\ owed' = [owed EXCEPT ![KeyOf[c]] = c]
    /\ UNCHANGED <<doing, begun, archive>>

(* A command that only asks for "some job of this key" is absorbed by the  *)
(* one already owed.                                                       *)
Absorb(c) ==
    /\ c \notin accepted
    /\ owed[KeyOf[c]] # Nothing
    /\ accepted' = accepted \cup {c}
    /\ UNCHANGED <<owed, doing, begun, archive>>

Begin(s, k) ==
    /\ doing[s] = Nothing
    /\ owed[k] # Nothing
    /\ doing' = [doing EXCEPT ![s] = owed[k]]
    /\ begun' = begun \cup {owed[k]}
    /\ UNCHANGED <<owed, accepted, archive>>

(* A run ends without settling anything: it failed, was postponed, lost    *)
(* its lease, was superseded or crashed.                                   *)
Stop(s) ==
    /\ doing[s] # Nothing
    /\ doing' = [doing EXCEPT ![s] = Nothing]
    /\ UNCHANGED <<owed, accepted, begun, archive>>

Settle(s, k) ==
    /\ doing[s] # Nothing
    /\ owed[k] = doing[s]
    /\ owed' = [owed EXCEPT ![k] = Nothing]
    /\ doing' = [doing EXCEPT ![s] = Nothing]
    /\ UNCHANGED <<accepted, begun, archive>>

(* The failing run itself archives its command.                            *)
Bury(s, k) ==
    /\ doing[s] # Nothing
    /\ owed[k] = doing[s]
    /\ owed' = [owed EXCEPT ![k] = Nothing]
    /\ doing' = [doing EXCEPT ![s] = Nothing]
    /\ archive' = archive \cup {owed[k]}
    /\ UNCHANGED <<accepted, begun>>

(* The sweep archives a command whose runs never reported back.            *)
GiveUp(k) ==
    /\ owed[k] \in begun
    /\ owed' = [owed EXCEPT ![k] = Nothing]
    /\ archive' = archive \cup {owed[k]}
    /\ UNCHANGED <<doing, accepted, begun>>

(* A caller that did the work itself withdraws the command.                *)
Withdraw(k) ==
    /\ k \in Droppable
    /\ owed[k] # Nothing
    /\ owed' = [owed EXCEPT ![k] = Nothing]
    /\ UNCHANGED <<doing, accepted, begun, archive>>

MNext ==
    \/ \E c \in Commands : Submit(c) \/ Absorb(c)
    \/ \E s \in Slots : Stop(s)
    \/ \E s \in Slots, k \in Keys : Begin(s, k) \/ Settle(s, k) \/ Bury(s, k)
    \/ \E k \in Keys : GiveUp(k) \/ Withdraw(k)

MSpec == MInit /\ [][MNext]_mvars
=============================================================================
