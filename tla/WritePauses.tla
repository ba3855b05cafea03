---------------------------- MODULE WritePauses ----------------------------
(***************************************************************************)
(* The pauses of SoundCloud writes for one OAuth application.  SoundCloud  *)
(* may refuse an action for the whole application or limit it for one      *)
(* account; the service then holds that action back, lets a single probe   *)
(* through when the hold is over, and lifts the pause when a write goes    *)
(* through.  The application's pauses live in memory, behind a mutex, and  *)
(* are saved to the database in a separate step; a restart loads them.     *)
(*                                                                         *)
(* A writer is one mutation at a time of one user, between its claim and   *)
(* the answer.  Holds are counted in ticks that are left of them.          *)
(***************************************************************************)
EXTENDS Integers, FiniteSets

CONSTANTS
    Keys,             \* the action types
    Writers,          \* each of a user of its own
    Base,             \* WRITE_PAUSE_SECONDS and ACCOUNT_LIMIT_SECONDS, in ticks
    ProbeHold,        \* PROBE_HOLD
    MaxPause,         \* MAX_PAUSE
    EscalationUsers,  \* ESCALATION_USERS
    MaxRefusals,      \* bound on refused writes
    MaxFaults         \* bound on failed statements and restarts

PauseAssumption ==
    /\ {Base, ProbeHold, MaxPause, EscalationUsers} \subseteq Nat \ {0}
    /\ Base <= MaxPause /\ ProbeHold <= MaxPause
    /\ {MaxRefusals, MaxFaults} \subseteq Nat /\ "none" \notin Keys

VARIABLES
    paused,    \* write_pauses: key -> ticks left, strikes, probing
    account,   \* account_pauses: writer's user, key -> ticks left
    reports,   \* app_reports: key -> users that reported a limit
    saved,     \* sync_queue_action_pauses: key -> ticks left, strikes, reason
    restored,  \* pauses_restored
    w,         \* writer -> where it is
    refusals, faults

vars == <<paused, account, reports, saved, restored, w, refusals, faults>>

Free == [left |-> 0, strikes |-> 0, probing |-> FALSE, there |-> FALSE]
Unsaved == [left |-> 0, strikes |-> 0, sub |-> FALSE, there |-> FALSE]
\* A pause an earlier release left in the database.
SavedForADay == [left |-> MaxPause + 1, strikes |-> 1, sub |-> TRUE, there |-> TRUE]
IdleWriter == [pc |-> "idle", key |-> "none", probe |-> FALSE, fresh |-> FALSE,
               left |-> 0, strikes |-> 0, sub |-> FALSE]

MinOf(a, b) == IF a < b THEN a ELSE b
MaxOf(a, b) == IF a > b THEN a ELSE b

Init ==
    /\ paused = [k \in Keys |-> Free]
    /\ account = [x \in Writers \X Keys |-> 0]
    /\ reports = [k \in Keys |-> {}]
    /\ saved \in [Keys -> {Unsaved, SavedForADay}]
    /\ restored = FALSE
    /\ w = [x \in Writers |-> IdleWriter]
    /\ refusals = 0 /\ faults = 0

Fault == faults < MaxFaults /\ faults' = faults + 1
Go(x, pc) == w' = [w EXCEPT ![x].pc = pc]
Leave(x) == w' = [w EXCEPT ![x] = IdleWriter]

-----------------------------------------------------------------------------
(* Time and restarts *)

Less(n) == IF n = 0 THEN 0 ELSE n - 1

Tick ==
    /\ paused' = [k \in Keys |-> [paused[k] EXCEPT !.left = Less(@)]]
    /\ saved' = [k \in Keys |-> [saved[k] EXCEPT !.left = Less(@)]]
    /\ account' = [x \in Writers \X Keys |-> Less(account[x])]
    /\ w' = [x \in Writers |->
                IF w[x].key \in Keys /\ paused[w[x].key].left <= 1
                THEN [w[x] EXCEPT !.fresh = FALSE] ELSE w[x]]
    /\ UNCHANGED <<reports, restored, refusals, faults>>

Restart ==
    /\ Fault
    /\ paused' = [k \in Keys |-> Free]
    /\ account' = [x \in Writers \X Keys |-> 0]
    /\ reports' = [k \in Keys |-> {}]
    /\ w' = [x \in Writers |-> IdleWriter]
    /\ restored' = FALSE
    /\ UNCHANGED <<saved, refusals>>

\* Reports older than the window no longer count.
ReportExpires(k) ==
    /\ \E x \in reports[k] : reports' = [reports EXCEPT ![k] = @ \ {x}]
    /\ UNCHANGED <<paused, account, saved, restored, w, refusals, faults>>

\* Once per process, before anything is claimed: saved pauses are cut to
\* MAX_PAUSE and loaded; when the load fails the service starts without.
Restore ==
    /\ ~restored /\ restored' = TRUE
    /\ \/ /\ saved' = [k \in Keys |-> [saved[k] EXCEPT !.left = MinOf(@, MaxPause)]]
          /\ paused' = [k \in Keys |->
                IF saved[k].there
                THEN [left |-> MinOf(saved[k].left, MaxPause), there |-> TRUE,
                      strikes |-> MaxOf(saved[k].strikes, 1), probing |-> FALSE]
                ELSE paused[k]]
          /\ UNCHANGED faults
       \/ Fault /\ UNCHANGED <<saved, paused>>
    /\ UNCHANGED <<account, reports, w, refusals>>

-----------------------------------------------------------------------------
(* The way to a write *)

\* admit: open, or paused, or the hold is over and this one is the probe.
Admits(k) == paused[k].left = 0

\* Mutant: the probe renews no hold.
AdmittedForAll(k) ==
    IF paused[k].strikes = 0 THEN Free ELSE [paused[k] EXCEPT !.probing = TRUE]

Admitted(k) ==
    IF paused[k].strikes = 0 THEN Free
    ELSE [paused[k] EXCEPT !.left = ProbeHold, !.probing = TRUE]

\* A claimed mutation passes the account's and the application's pauses.
\* (A paused one is postponed: nothing changes here.)
Admit(x, k) ==
    /\ restored /\ w[x].pc = "idle"
    /\ account[<<x, k>>] = 0 /\ Admits(k)
    /\ paused' = [paused EXCEPT ![k] = Admitted(k)]
    /\ w' = [w EXCEPT ![x] = [IdleWriter EXCEPT
                !.pc = "gate", !.key = k,
                !.probe = paused[k].strikes > 0, !.fresh = paused[k].strikes > 0]]
    /\ UNCHANGED <<account, reports, saved, restored, refusals, faults>>

\* blocked, asked again at the gate right before the first request.
Blocked(x) ==
    LET k == w[x].key IN
    \/ account[<<x, k>>] > 0
    \/ paused[k].left > 0 /\ ~(w[x].probe /\ paused[k].probing)

Gate(x) ==
    /\ w[x].pc = "gate"
    /\ IF Blocked(x) THEN Leave(x) ELSE Go(x, "sent")
    /\ UNCHANGED <<paused, account, reports, saved, restored, refusals, faults>>

\* The mutation ends without a request (its row moved on, no token) or with
\* an answer that says nothing about limits.
GiveUp(x) ==
    /\ w[x].pc \in {"gate", "sent"} /\ Fault
    /\ Leave(x)
    /\ UNCHANGED <<paused, account, reports, saved, restored, refusals>>

-----------------------------------------------------------------------------
(* The answer *)

Succeeded(x) ==
    /\ w[x].pc = "sent"
    /\ paused' = [paused EXCEPT ![w[x].key] = Free]
    /\ reports' = [reports EXCEPT ![w[x].key] = {}]
    /\ Go(x, "forget")
    /\ UNCHANGED <<account, saved, restored, refusals, faults>>

\* Mutant: the saved pause is not cleared.
ForgetNothing(x) ==
    /\ w[x].pc = "forget" /\ Leave(x)
    /\ UNCHANGED <<paused, account, reports, saved, restored, refusals, faults>>

\* The saved pause of the action goes, and every subscription pause of the
\* application, here and in memory.
Forget(x) ==
    /\ w[x].pc = "forget"
    /\ LET lifted == {k \in Keys : saved[k].there /\ (k = w[x].key \/ saved[k].sub)}
       IN  \/ /\ saved' = [k \in Keys |-> IF k \in lifted THEN Unsaved ELSE saved[k]]
              /\ paused' = [k \in Keys |->
                    IF k \in lifted /\ k # w[x].key THEN Free ELSE paused[k]]
              /\ UNCHANGED faults
           \/ Fault /\ UNCHANGED <<saved, paused>>
    /\ Leave(x)
    /\ UNCHANGED <<account, reports, restored, refusals>>

Refuse == refusals < MaxRefusals /\ refusals' = refusals + 1

\* 429 for the account: its queue is held.
AccountLimited(x) ==
    /\ w[x].pc = "sent" /\ Refuse
    /\ account' = [account EXCEPT ![<<x, w[x].key>>] = MaxOf(@, Base)]
    /\ Leave(x)
    /\ UNCHANGED <<paused, reports, saved, restored, faults>>

\* hold(..., escalate): a new strike doubles the pause; refusals of writes
\* that were on their way when the pause began are no strike.
LongerEachTime(p) ==
    IF p.probing \/ p.strikes = 0 \/ p.left = 0
    THEN [left |-> MinOf(Base * 2^p.strikes, MaxPause), strikes |-> p.strikes + 1,
          probing |-> FALSE, there |-> TRUE]
    ELSE [p EXCEPT !.left = MaxOf(@, Base)]

\* pause_refused: a pause of a given length.
PauseRefused(p, ticks) ==
    [left |-> MaxOf(p.left, MinOf(ticks, MaxPause)), strikes |-> MaxOf(p.strikes, 1),
     probing |-> FALSE, there |-> TRUE]

\* The pause is set in memory, then saved.
SetPause(x, p, sub) ==
    /\ paused' = [paused EXCEPT ![w[x].key] = p]
    /\ w' = [w EXCEPT ![x].pc = "save", ![x].left = p.left,
                      ![x].strikes = p.strikes, ![x].sub = sub]

SubscriptionRequired(x) ==
    /\ w[x].pc = "sent" /\ Refuse
    /\ SetPause(x, PauseRefused(paused[w[x].key], MaxPause), TRUE)
    /\ UNCHANGED <<account, reports, saved, restored, faults>>

\* 429 for the application: the account is held, and the application too once
\* enough users have reported it.
AppLimited(x) ==
    LET k == w[x].key
        users == reports[k] \cup {x}
    IN  /\ w[x].pc = "sent" /\ Refuse
        /\ account' = [account EXCEPT ![<<x, k>>] = MaxOf(@, Base)]
        /\ reports' = [reports EXCEPT ![k] = users]
        /\ IF Cardinality(users) < EscalationUsers
           THEN Leave(x) /\ UNCHANGED paused
           ELSE \/ SetPause(x, LongerEachTime(paused[k]), FALSE)
                \/ \E retryAfter \in {1, MaxPause + 1} :
                       SetPause(x, PauseRefused(paused[k], retryAfter), FALSE)
        /\ UNCHANGED <<saved, restored, faults>>

Save(x) ==
    /\ w[x].pc = "save"
    /\ \/ /\ saved' = [saved EXCEPT ![w[x].key] =
                [left |-> w[x].left, strikes |-> w[x].strikes,
                 sub |-> @.sub \/ w[x].sub, there |-> TRUE]]
          /\ UNCHANGED faults
       \/ Fault /\ UNCHANGED saved
    /\ Leave(x)
    /\ UNCHANGED <<paused, account, reports, restored, refusals>>

-----------------------------------------------------------------------------
Answer(x) ==
    \/ Succeeded(x) \/ AccountLimited(x) \/ SubscriptionRequired(x) \/ AppLimited(x)

Work(x) == Gate(x) \/ Answer(x) \/ Forget(x) \/ Save(x)

Next ==
    \/ Tick \/ Restart \/ Restore
    \/ \E k \in Keys : ReportExpires(k)
    \/ \E x \in Writers : Work(x) \/ GiveUp(x) \/ \E k \in Keys : Admit(x, k)

Spec == Init /\ [][Next]_vars

\* The users keep writing, flushes keep claiming, time passes and SoundCloud
\* answers every request.
Fairness ==
    /\ WF_vars(Tick) /\ WF_vars(Restore)
    /\ \A x \in Writers : WF_vars(Work(x))
    /\ \A k \in Keys : SF_vars(\E x \in Writers : Admit(x, k))

FairSpec == Spec /\ Fairness

-----------------------------------------------------------------------------
(* Properties *)

PauseType == [left : 0..MaxPause, strikes : Nat, probing : BOOLEAN, there : BOOLEAN]
SavedType == [left : Nat, strikes : Nat, sub : BOOLEAN, there : BOOLEAN]
WriterType ==
    [pc : {"idle", "gate", "sent", "forget", "save"}, key : Keys \cup {"none"},
     probe : BOOLEAN, fresh : BOOLEAN, left : 0..MaxPause, strikes : Nat, sub : BOOLEAN]

\* Pauses and writers keep their shape, and no hold, asked for by SoundCloud,
\* escalated or restored, is longer than MAX_PAUSE.
TypeOK ==
    /\ paused \in [Keys -> PauseType]
    /\ \A k \in Keys : paused[k].strikes > 0 => paused[k].there
    /\ account \in [Writers \X Keys -> Nat]
    /\ reports \in [Keys -> SUBSET Writers]
    /\ saved \in [Keys -> SavedType]
    /\ w \in [Writers -> WriterType]
    /\ \A x \in Writers : w[x].key \in Keys <=> w[x].pc # "idle"
    /\ restored \in BOOLEAN

\* The probes let through during the current hold.
Probes(k) == {x \in Writers : w[x].key = k /\ w[x].probe /\ w[x].fresh}

\* While an action is under suspicion one write at a time finds out: of the
\* writers let through during the current hold at most one is a probe.
OneProbe == \A k \in Keys : paused[k].strikes > 0 => Cardinality(Probes(k)) <= 1

\* When SoundCloud has stopped refusing, every pause is lifted in the end, in
\* memory and in the database, also when a save overtook a clear, a statement
\* failed, the probe was never sent or the service was restarted.
PausesEnd == <>[](\A k \in Keys : paused[k].strikes = 0 /\ ~saved[k].there)
-----------------------------------------------------------------------------
(* The inductive invariant *)

\* Nobody writes before the restore, a hold that is over has no probe of its
\* own any more, and otherwise there is one at most.
Probing ==
    /\ ~restored => \A x \in Writers : w[x].pc = "idle"
    /\ \A k \in Keys :
        /\ paused[k].strikes > 0 /\ paused[k].left = 0 => Probes(k) = {}
        /\ \A x, y \in Probes(k) : x = y

IndInv == TypeOK /\ Probing
=============================================================================
