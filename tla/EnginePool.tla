----------------------------- MODULE EnginePool -----------------------------
(***************************************************************************)
(* The worker's model processes: runtime/supervisor.py with               *)
(* engine_client.py.                                                       *)
(*                                                                         *)
(* Every engine has a process at a time, its client; a task keeps one      *)
(* running.  Callers acquire the client of an engine that hosts their     *)
(* slot, call it and release it.  Housekeeping pings idle clients, unloads *)
(* idle slots and recycles old clients, with the new process brought up   *)
(* before the old one is retired.  The coroutines run in one thread: a    *)
(* step is what runs between two awaits.  All engines host one slot.       *)
(***************************************************************************)
EXTENDS Integers, FiniteSets

CONSTANTS
    Engines,
    Callers,       \* acquirers of the slot, each once
    Urgent,        \* those that go first
    MaxClients,    \* bound: processes started
    BreakerDeaths, \* breaker_deaths
    MaxInspect,    \* bound: inspections of the housekeeper
    MaxFaults      \* bound: crashes, timeouts and cancelled callers

EnginePoolAssumption ==
    /\ Urgent \subseteq Callers /\ "none" \notin Engines
    /\ MaxClients \in Nat \ {0} /\ BreakerDeaths \in Nat \ {0}
    /\ MaxInspect \in Nat /\ MaxFaults \in Nat

NoId == 0
Clients == 1 .. MaxClients

VARIABLES
    eng,        \* an engine: its client, its state, where its task is
    deaths,     \* sudden deaths within breaker_window_s
    cl,         \* a client: its engine, process up, slot loaded, command, planned end
    leased,     \* _leased
    bulk,       \* _bulk_leases
    preempt,    \* clients with _preempt_wanted
    retiring,   \* _retiring
    recycle,    \* the recycling of an engine: where it is, old and new client
    acq,        \* a caller: where it is and the client it has
    counted,    \* urgent callers in _urgent_waiters
    asleep,     \* callers in _wait_change
    loose,      \* clients whose load goes on without its caller
    house,      \* the housekeeper: where it is and the client it inspects
    stopping,   \* no, yes or stopped
    inspected, faults

vars == <<eng, deaths, cl, leased, bulk, preempt, retiring, recycle, acq, counted, asleep, loose,
          house, stopping, inspected, faults>>

NoClient == [of |-> "none", up |-> FALSE, loaded |-> FALSE, cmd |-> "none", planned |-> FALSE]
NoRecycle == [pc |-> "none", old |-> NoId, fresh |-> NoId]

Init ==
    /\ eng = [e \in Engines |-> [client |-> NoId, state |-> "loading", run |-> "boot"]]
    /\ deaths = [e \in Engines |-> 0]
    /\ cl = [k \in Clients |-> NoClient]
    /\ leased = {} /\ bulk = {} /\ preempt = {} /\ retiring = {}
    /\ recycle = [e \in Engines |-> NoRecycle]
    /\ acq = [a \in Callers |-> [pc |-> "new", cl |-> NoId]]
    /\ counted = {} /\ asleep = {} /\ loose = {}
    /\ house = [pc |-> "sleep", cl |-> NoId]
    /\ stopping = "no"
    /\ inspected = 0 /\ faults = 0

Fault == faults < MaxFaults /\ faults' = faults + 1
Notify == asleep' = {}

Calling(k) == \E a \in Callers : acq[a] = [pc |-> "call", cl |-> k]
Busy(k) == cl[k].cmd # "none" \/ Calling(k)
IsIdle(k) == cl[k].up /\ ~Busy(k) /\ k \notin leased /\ k \notin retiring

Unused(k) == cl[k].of = "none" /\ \A j \in Clients : j < k => cl[j].of # "none"
Booting(e) == [of |-> e, up |-> TRUE, loaded |-> FALSE, cmd |-> "boot", planned |-> FALSE]

\* The process ends: what waits for it is answered with an error.
Ended(k, planned) == [cl[k] EXCEPT !.up = FALSE, !.loaded = FALSE, !.cmd = "none", !.planned = planned]
Kill(k, planned) == cl' = [cl EXCEPT ![k] = Ended(k, planned)]

(***************************************************************************)
(* _run: an engine's task.                                                 *)
(***************************************************************************)
Boot(e) ==
    /\ eng[e].run = "boot"
    /\ stopping = "no"
    /\ \E k \in Clients :
        /\ Unused(k)
        /\ cl' = [cl EXCEPT ![k] = Booting(e)]
        /\ eng' = [eng EXCEPT ![e] = [client |-> k, state |-> "loading", run |-> "up"]]
    /\ Notify
    /\ UNCHANGED <<deaths, leased, bulk, preempt, retiring, recycle, acq, counted, loose, house,
                   stopping, inspected, faults>>

BootDone(e) ==
    LET k == eng[e].client IN
    /\ eng[e].run = "up"
    /\ IF cl[k].up
       THEN /\ cl' = [cl EXCEPT ![k].loaded = TRUE, ![k].cmd = "none"]
            /\ eng' = [eng EXCEPT ![e].state = "ready", ![e].run = "await"]
            /\ Notify
       ELSE /\ eng' = [eng EXCEPT ![e].run = "await"]
            /\ UNCHANGED <<cl, asleep>>
    /\ UNCHANGED <<deaths, leased, bulk, preempt, retiring, recycle, acq, counted, loose, house,
                   stopping, inspected, faults>>

\* The process or its load failed, or the load took too long and was killed.
BootFails(e) ==
    LET k == eng[e].client IN
    /\ eng[e].run = "up" /\ cl[k].up
    /\ Fault
    /\ Kill(k, FALSE)
    /\ eng' = [eng EXCEPT ![e].run = "await"]
    /\ UNCHANGED <<deaths, leased, bulk, preempt, retiring, recycle, acq, counted, asleep, loose,
                   house, stopping, inspected>>

\* _await_current_exit: the exit of a client that was replaced is not it.
CurrentExit(e) == ~cl[eng[e].client].up

\* _after_death: a planned end starts over at once, sudden deaths are counted
\* and end, within their window, in a break.
AfterDeath(e) ==
    /\ eng[e].run = "await"
    /\ stopping = "no"
    /\ CurrentExit(e)
    /\ IF cl[eng[e].client].planned
       THEN /\ eng' = [eng EXCEPT ![e].state = "restarting", ![e].run = "boot"]
            /\ UNCHANGED deaths
       ELSE \E n \in 1 .. deaths[e] + 1 :
            /\ deaths' = [deaths EXCEPT ![e] = n]
            /\ eng' = [eng EXCEPT ![e].run = "pause",
                                  ![e].state = IF n >= BreakerDeaths THEN "broken" ELSE "restarting"]
    /\ Notify
    /\ UNCHANGED <<cl, leased, bulk, preempt, retiring, recycle, acq, counted, loose, house,
                   stopping, inspected, faults>>

PauseEnds(e) ==
    /\ eng[e].run = "pause"
    /\ stopping = "no"
    /\ eng' = [eng EXCEPT ![e].run = "boot"]
    /\ deaths' = [deaths EXCEPT ![e] = IF eng[e].state = "broken" THEN 0 ELSE @]
    /\ UNCHANGED <<cl, leased, bulk, preempt, retiring, recycle, acq, counted, asleep, loose, house,
                   stopping, inspected, faults>>

\* A process dies by itself.
Crash(k) ==
    /\ cl[k].up
    /\ Fault
    /\ Kill(k, FALSE)
    /\ UNCHANGED <<eng, deaths, leased, bulk, preempt, retiring, recycle, acq, counted, asleep,
                   loose, house, stopping, inspected>>

(***************************************************************************)
(* acquire and release.                                                    *)
(***************************************************************************)
Current == {eng[e].client : e \in {d \in Engines : eng[d].state = "ready"}} \ {NoId}
Idle == {k \in Current : IsIdle(k)}

\* Engines are left to the urgent callers that wait for them.
Open(a) == IF a \in Urgent \/ counted = {} THEN Idle ELSE {}

All(state) == \A e \in Engines : eng[e].state = state

NoteLease(a, k) == bulk' = IF a \in Urgent THEN bulk ELSE bulk \cup {k}

Uncount(a) == counted' = counted \ {a}
Wakes(a) == asleep' = IF a \in counted THEN {} ELSE asleep \ {a}

\* A caller that finds an idle client leases it, one that is loaded if there
\* is one; another is loaded first.
Lease(a) ==
    /\ acq[a].pc \in {"new", "wait"} /\ a \notin asleep
    /\ \E k \in Open(a) :
        /\ cl[k].loaded \/ \A j \in Open(a) : ~cl[j].loaded
        /\ leased' = leased \cup {k}
        /\ IF cl[k].loaded
           THEN /\ acq' = [acq EXCEPT ![a] = [pc |-> "held", cl |-> k]]
                /\ NoteLease(a, k)
                /\ Uncount(a) /\ Wakes(a)
                /\ UNCHANGED cl
           ELSE /\ acq' = [acq EXCEPT ![a] = [pc |-> "load", cl |-> k]]
                /\ cl' = [cl EXCEPT ![k].cmd = "load"]
                /\ UNCHANGED <<bulk, counted, asleep>>
    /\ UNCHANGED <<eng, deaths, preempt, retiring, recycle, loose, house, stopping, inspected, faults>>

\* There is none: the slot is unavailable, or the caller waits; an urgent one
\* is counted and asks the bulk calls to make room.
Wait(a) ==
    /\ acq[a].pc \in {"new", "wait"} /\ a \notin asleep
    /\ Open(a) = {}
    /\ IF All("broken") \/ All("stopped")
       THEN /\ acq' = [acq EXCEPT ![a].pc = "ended"]
            /\ Uncount(a) /\ Wakes(a)
            /\ UNCHANGED preempt
       ELSE /\ acq' = [acq EXCEPT ![a].pc = "wait"]
            /\ asleep' = asleep \cup {a}
            /\ counted' = IF a \in Urgent THEN counted \cup {a} ELSE counted
            /\ preempt' = IF a \in Urgent THEN preempt \cup (bulk \cap {eng[e].client : e \in Engines})
                          ELSE preempt
    /\ UNCHANGED <<eng, deaths, cl, leased, bulk, retiring, recycle, loose, house, stopping,
                   inspected, faults>>

\* The deadline of a caller without a client, or its cancellation.
Late(a) ==
    /\ acq[a].pc \in {"new", "wait"}
    /\ acq' = [acq EXCEPT ![a].pc = "ended"]
    /\ Uncount(a) /\ Wakes(a)
    /\ UNCHANGED <<eng, deaths, cl, leased, bulk, preempt, retiring, recycle, loose, house, stopping,
                   inspected, faults>>

\* release.
Release(k) ==
    /\ leased' = leased \ {k}
    /\ bulk' = bulk \ {k}
    /\ preempt' = preempt \ {k}
    /\ Notify

\* The load of a caller ends: it has the client, or the client is gone and it
\* tries again.
Loaded(a) ==
    LET k == acq[a].cl IN
    /\ acq[a].pc = "load"
    /\ IF cl[k].up
       THEN /\ cl' = [cl EXCEPT ![k].loaded = TRUE, ![k].cmd = "none"]
            /\ acq' = [acq EXCEPT ![a].pc = "held"]
            /\ NoteLease(a, k)
            /\ Uncount(a)
            /\ Notify
            /\ UNCHANGED <<leased, preempt>>
       ELSE /\ acq' = [acq EXCEPT ![a] = [pc |-> "wait", cl |-> NoId]]
            /\ Release(k)
            /\ UNCHANGED <<cl, counted>>
    /\ UNCHANGED <<eng, deaths, retiring, recycle, loose, house, stopping, inspected, faults>>

\* The load ends after the caller's deadline: it does not take the client.
LoadedLate(a) ==
    LET k == acq[a].cl IN
    /\ acq[a].pc = "load" /\ cl[k].up
    /\ cl' = [cl EXCEPT ![k].loaded = TRUE, ![k].cmd = "none"]
    /\ acq' = [acq EXCEPT ![a] = [pc |-> "ended", cl |-> NoId]]
    /\ Uncount(a)
    /\ Release(k)
    /\ UNCHANGED <<eng, deaths, retiring, recycle, loose, house, stopping, inspected, faults>>

\* A load that takes too long is killed, as a sudden death.
LoadTimeout(k) ==
    /\ cl[k].cmd = "load"
    /\ Fault
    /\ Kill(k, FALSE)
    /\ UNCHANGED <<eng, deaths, leased, bulk, preempt, retiring, recycle, acq, counted, asleep,
                   loose, house, stopping, inspected>>

\* The caller gives up during the load, which goes on and keeps the lease.
LoadLate(a) ==
    /\ acq[a].pc = "load"
    /\ Fault
    /\ acq' = [acq EXCEPT ![a] = [pc |-> "ended", cl |-> NoId]]
    /\ loose' = loose \cup {acq[a].cl}
    /\ Uncount(a) /\ Wakes(a)
    /\ UNCHANGED <<eng, deaths, cl, leased, bulk, preempt, retiring, recycle, house, stopping, inspected>>

\* Mutant: nobody gives back the lease of a caller that gave up.
LooseDoneKeeps(k) ==
    /\ k \in loose
    /\ loose' = loose \ {k}
    /\ cl' = IF cl[k].up THEN [cl EXCEPT ![k].loaded = TRUE, ![k].cmd = "none"] ELSE cl
    /\ UNCHANGED <<eng, deaths, leased, bulk, preempt, retiring, recycle, acq, counted, asleep,
                   house, stopping, inspected, faults>>

\* _release_after.
LooseDone(k) ==
    /\ k \in loose
    /\ loose' = loose \ {k}
    /\ cl' = IF cl[k].up THEN [cl EXCEPT ![k].loaded = TRUE, ![k].cmd = "none"] ELSE cl
    /\ Release(k)
    /\ UNCHANGED <<eng, deaths, retiring, recycle, acq, counted, house, stopping, inspected, faults>>

\* The caller calls; a call on a client that is gone fails at once.
Call(a) ==
    LET k == acq[a].cl IN
    /\ acq[a].pc = "held"
    /\ IF cl[k].up
       THEN /\ acq' = [acq EXCEPT ![a].pc = "call"]
            /\ UNCHANGED <<leased, bulk, preempt, asleep>>
       ELSE /\ acq' = [acq EXCEPT ![a] = [pc |-> "ended", cl |-> NoId]]
            /\ Release(k)
    /\ UNCHANGED <<eng, deaths, cl, retiring, recycle, counted, loose, house, stopping, inspected, faults>>

\* The reply, a preempted one included, or the error of a process that died.
CallEnds(a) ==
    /\ acq[a].pc = "call"
    /\ acq' = [acq EXCEPT ![a] = [pc |-> "ended", cl |-> NoId]]
    /\ Release(acq[a].cl)
    /\ UNCHANGED <<eng, deaths, cl, retiring, recycle, counted, loose, house, stopping, inspected, faults>>

\* _watch: a call past its deadline takes its process with it.
CallDeadline(a) ==
    /\ acq[a].pc = "call" /\ cl[acq[a].cl].up
    /\ Fault
    /\ Kill(acq[a].cl, TRUE)
    /\ UNCHANGED <<eng, deaths, leased, bulk, preempt, retiring, recycle, acq, counted, asleep,
                   loose, house, stopping, inspected>>

(***************************************************************************)
(* Housekeeping.                                                           *)
(***************************************************************************)
Ping(e) ==
    LET k == eng[e].client IN
    /\ house.pc = "sleep" /\ stopping = "no"
    /\ inspected < MaxInspect
    /\ eng[e].state = "ready" /\ recycle[e].pc = "none" /\ k # NoId
    /\ IsIdle(k)
    /\ inspected' = inspected + 1
    /\ cl' = [cl EXCEPT ![k].cmd = "ping"]
    /\ house' = [pc |-> "ping", cl |-> k]
    /\ UNCHANGED <<eng, deaths, leased, bulk, preempt, retiring, recycle, acq, counted, asleep,
                   loose, stopping, faults>>

\* The pong is delivered; the housekeeper runs on later.
Pong ==
    /\ house.pc = "ping"
    /\ cl' = [cl EXCEPT ![house.cl].cmd = "none"]
    /\ house' = [house EXCEPT !.pc = IF cl[house.cl].up THEN "inspect" ELSE "done"]
    /\ UNCHANGED <<eng, deaths, leased, bulk, preempt, retiring, recycle, acq, counted, asleep,
                   loose, stopping, inspected, faults>>

PingTimeout ==
    /\ house.pc = "ping" /\ cl[house.cl].up
    /\ Fault
    /\ Kill(house.cl, TRUE)
    /\ house' = [house EXCEPT !.pc = "done"]
    /\ UNCHANGED <<eng, deaths, leased, bulk, preempt, retiring, recycle, acq, counted, asleep,
                   loose, stopping, inspected>>

\* Too many calls, too much memory or an oom begin a recycling, a slot that is
\* not used is unloaded if the client is idle still.
Inspect ==
    LET k == house.cl
        e == cl[k].of
    IN
    /\ house.pc = "inspect"
    /\ \/ /\ recycle' = [recycle EXCEPT ![e] = [pc |-> "start", old |-> k, fresh |-> NoId]]
          /\ house' = [house EXCEPT !.pc = "done"]
          /\ UNCHANGED cl
       \/ /\ IsIdle(k) /\ cl[k].loaded
          /\ cl' = [cl EXCEPT ![k].cmd = "unload"]
          /\ house' = [house EXCEPT !.pc = "unload"]
          /\ UNCHANGED recycle
       \/ /\ house' = [house EXCEPT !.pc = "done"]
          /\ UNCHANGED <<cl, recycle>>
    /\ UNCHANGED <<eng, deaths, leased, bulk, preempt, retiring, acq, counted, asleep, loose,
                   stopping, inspected, faults>>

Unloaded ==
    /\ house.pc = "unload"
    /\ cl' = [cl EXCEPT ![house.cl].cmd = "none", ![house.cl].loaded = FALSE]
    /\ house' = [house EXCEPT !.pc = "done"]
    /\ Notify
    /\ UNCHANGED <<eng, deaths, leased, bulk, preempt, retiring, recycle, acq, counted, loose,
                   stopping, inspected, faults>>

UnloadTimeout ==
    /\ house.pc = "unload" /\ cl[house.cl].up
    /\ Fault
    /\ Kill(house.cl, TRUE)
    /\ house' = [house EXCEPT !.pc = "done"]
    /\ UNCHANGED <<eng, deaths, leased, bulk, preempt, retiring, recycle, acq, counted, asleep,
                   loose, stopping, inspected>>

\* _inspect_guarded: whoever waits is told that the client is idle again.
HouseDone ==
    /\ house.pc = "done"
    /\ house' = [pc |-> "sleep", cl |-> NoId]
    /\ Notify
    /\ UNCHANGED <<eng, deaths, cl, leased, bulk, preempt, retiring, recycle, acq, counted, loose,
                   stopping, inspected, faults>>

(***************************************************************************)
(* Recycling.                                                              *)
(***************************************************************************)

\* A new process is brought up beside the old one, or, after an oom, the old
\* one is retired first.
Recycle(e) ==
    /\ recycle[e].pc = "start"
    /\ \/ /\ \E k \in Clients :
            /\ Unused(k)
            /\ cl' = [cl EXCEPT ![k] = Booting(e)]
            /\ recycle' = [recycle EXCEPT ![e].pc = "fresh", ![e].fresh = k]
          /\ UNCHANGED retiring
       \/ /\ recycle' = [recycle EXCEPT ![e].pc = "retire"]
          /\ retiring' = retiring \cup {recycle[e].old}
          /\ UNCHANGED cl
    /\ UNCHANGED <<eng, deaths, leased, bulk, preempt, acq, counted, asleep, loose, house, stopping,
                   inspected, faults>>

\* The engine's task has not gone on to another client meanwhile.
StillOld(e) == stopping = "no" /\ eng[e].client = recycle[e].old /\ cl[recycle[e].old].up

\* _replace: the new client is installed and the old one retired; one that
\* comes too late is retired itself.
Replace(e) ==
    LET fresh == recycle[e].fresh
        old == recycle[e].old
    IN
    /\ recycle[e].pc = "fresh" /\ cl[fresh].up
    /\ cl' = [cl EXCEPT ![fresh].loaded = TRUE, ![fresh].cmd = "none"]
    /\ IF StillOld(e)
       THEN /\ eng' = [eng EXCEPT ![e].client = fresh]
            /\ recycle' = [recycle EXCEPT ![e].pc = "retire"]
            /\ retiring' = retiring \cup {old}
            /\ Notify
       ELSE /\ recycle' = [recycle EXCEPT ![e].pc = "retire", ![e].old = fresh]
            /\ retiring' = retiring \cup {fresh}
            /\ UNCHANGED <<eng, asleep>>
    /\ UNCHANGED <<deaths, leased, bulk, preempt, acq, counted, loose, house, stopping, inspected, faults>>

\* The new process failed or took too long: the old one is retired first.
ReplaceFails(e) ==
    /\ recycle[e].pc = "fresh"
    /\ IF cl[recycle[e].fresh].up THEN Fault /\ Kill(recycle[e].fresh, TRUE) ELSE UNCHANGED <<cl, faults>>
    /\ recycle' = [recycle EXCEPT ![e].pc = "retire"]
    /\ retiring' = retiring \cup {recycle[e].old}
    /\ UNCHANGED <<eng, deaths, leased, bulk, preempt, acq, counted, asleep, loose, house, stopping, inspected>>

Free(k) == ~Busy(k) /\ k \notin leased

\* _retire: a client that is free is told to stop; nobody leases it any more.
Retire(e) ==
    LET k == recycle[e].old IN
    /\ recycle[e].pc = "retire"
    /\ IF cl[k].up
       THEN /\ Free(k)
            /\ cl' = [cl EXCEPT ![k].cmd = "stop"]
            /\ recycle' = [recycle EXCEPT ![e].pc = "stop"]
            /\ UNCHANGED retiring
       ELSE /\ recycle' = [recycle EXCEPT ![e] = NoRecycle]
            /\ retiring' = retiring \ {k}
            /\ UNCHANGED cl
    /\ UNCHANGED <<eng, deaths, leased, bulk, preempt, acq, counted, asleep, loose, house, stopping,
                   inspected, faults>>

Retired(e) ==
    LET k == recycle[e].old IN
    /\ recycle[e].pc = "stop"
    /\ IF cl[k].up THEN Kill(k, TRUE) ELSE UNCHANGED cl
    /\ recycle' = [recycle EXCEPT ![e] = NoRecycle]
    /\ retiring' = retiring \ {k}
    /\ UNCHANGED <<eng, deaths, leased, bulk, preempt, acq, counted, asleep, loose, house, stopping,
                   inspected, faults>>

(***************************************************************************)
(* stop.                                                                   *)
(***************************************************************************)

\* The housekeeper and the side tasks are cancelled: a new process of a
\* recycling is killed, leases of loads without callers are given back.
Stop ==
    /\ stopping = "no"
    /\ stopping' = "yes"
    /\ house' = [pc |-> "sleep", cl |-> NoId]
    /\ cl' = [k \in Clients |->
        IF \E e \in Engines : recycle[e].pc = "fresh" /\ recycle[e].fresh = k THEN Ended(k, TRUE)
        ELSE IF cl[k].cmd \in {"ping", "unload"} \/ k \in loose THEN [cl[k] EXCEPT !.cmd = "none"]
        ELSE cl[k]]
    /\ recycle' = [e \in Engines |-> NoRecycle]
    /\ retiring' = {}
    /\ leased' = leased \ loose /\ bulk' = bulk \ loose /\ preempt' = preempt \ loose
    /\ loose' = {}
    /\ Notify
    /\ UNCHANGED <<eng, deaths, acq, counted, inspected, faults>>

\* A client stops, or is killed when its grace is over; its calls fail.
StopClient(k) ==
    /\ stopping = "yes"
    /\ cl[k].up
    /\ Kill(k, TRUE)
    /\ UNCHANGED <<eng, deaths, leased, bulk, preempt, retiring, recycle, acq, counted, asleep,
                   loose, house, stopping, inspected, faults>>

Stopped ==
    /\ stopping = "yes"
    /\ \A k \in Clients : ~cl[k].up
    /\ stopping' = "stopped"
    /\ eng' = [e \in Engines |-> [eng[e] EXCEPT !.state = "stopped", !.run = "end"]]
    /\ Notify
    /\ UNCHANGED <<deaths, cl, leased, bulk, preempt, retiring, recycle, acq, counted, loose, house,
                   inspected, faults>>

----------------------------------------------------------------------------

Engine(e) ==
    \/ Boot(e) \/ BootDone(e) \/ BootFails(e) \/ AfterDeath(e) \/ PauseEnds(e)
    \/ Recycle(e) \/ Replace(e) \/ ReplaceFails(e) \/ Retire(e) \/ Retired(e) \/ Ping(e)

Caller(a) ==
    \/ Lease(a) \/ Wait(a) \/ Late(a) \/ Loaded(a) \/ LoadedLate(a) \/ LoadLate(a)
    \/ Call(a) \/ CallEnds(a) \/ CallDeadline(a)

House == Pong \/ PingTimeout \/ Inspect \/ Unloaded \/ UnloadTimeout \/ HouseDone

Next ==
    \/ House \/ Stop \/ Stopped
    \/ \E e \in Engines : Engine(e)
    \/ \E a \in Callers : Caller(a)
    \/ \E k \in Clients : Crash(k) \/ LoadTimeout(k) \/ LooseDone(k) \/ StopClient(k)

Spec == Init /\ [][Next]_vars

\* The loop runs what is ready, processes answer or are killed, pauses end.
\* No deadline of a caller is needed, nor a fault, nor the end of the worker.
FairSpec ==
    /\ Spec
    /\ WF_vars(Pong \/ Inspect \/ Unloaded \/ HouseDone) /\ WF_vars(Stopped)
    /\ \A e \in Engines :
        WF_vars(\/ Boot(e) \/ BootDone(e) \/ AfterDeath(e) \/ PauseEnds(e)) /\
        WF_vars(\/ Recycle(e) \/ Replace(e) \/ ReplaceFails(e) \/ Retire(e) \/ Retired(e))
    /\ \A a \in Callers :
        WF_vars(Lease(a) \/ Wait(a) \/ Loaded(a) \/ Call(a) \/ CallEnds(a))
    /\ \A k \in Clients : WF_vars(LooseDone(k)) /\ WF_vars(StopClient(k))

----------------------------------------------------------------------------

\* What is known of an engine, a client, a recycling, a caller and the housekeeper.
Ids == Clients \cup {NoId}
EngineRows == [client : Ids, state : {"loading", "ready", "restarting", "broken", "stopped"},
               run : {"boot", "up", "await", "pause", "end"}]
ClientRows == [of : Engines \cup {"none"}, up : BOOLEAN, loaded : BOOLEAN,
               cmd : {"none", "boot", "ping", "load", "unload", "stop"}, planned : BOOLEAN]
Recyclings == [pc : {"none", "start", "fresh", "retire", "stop"}, old : Ids, fresh : Ids]
CallerRows == [pc : {"new", "wait", "load", "held", "call", "ended"}, cl : Ids]
Inspections == [pc : {"sleep", "ping", "inspect", "unload", "done"}, cl : Ids]

TypeOK ==
    /\ eng \in [Engines -> EngineRows] /\ deaths \in [Engines -> Nat]
    /\ cl \in [Clients -> ClientRows]
    /\ \A k \in Clients : cl[k].cmd # "none" \/ cl[k].loaded => cl[k].up
    /\ leased \subseteq Clients /\ bulk \subseteq leased /\ retiring \subseteq Clients
    /\ recycle \in [Engines -> Recyclings] /\ acq \in [Callers -> CallerRows]
    /\ counted \subseteq Urgent /\ asleep \subseteq Callers
    /\ house \in Inspections /\ stopping \in {"no", "yes", "stopped"}
    /\ inspected \in 0..MaxInspect /\ faults \in 0..MaxFaults

\* A client has one user: it is leased by one caller or by one load that goes
\* on without its caller, and everything that is leased has such a user, so no
\* lease is ever lost.
Holder(k) == {a \in Callers : acq[a].cl = k}

OneUser ==
    /\ \A k \in leased : Cardinality(Holder(k)) + Cardinality(loose \cap {k}) = 1
    /\ \A a \in Callers : acq[a].cl # NoId => acq[a].cl \in leased

\* The supervisor takes no client from its user: what it sends to a leased
\* client is the load the lease waits for, until it stops itself.
HandsOff ==
    stopping = "no" => \A k \in leased : cl[k].cmd \in {"none", "load"}

\* Only bulk calls are asked to make room: the wish does not outlive the lease
\* it was for and meets no later, urgent one.
PreemptsBulk == preempt \subseteq bulk

\* No caller sleeps beside a client it could have: whatever makes a client
\* idle, or all engines unusable, wakes those who wait.  An inspection that is
\* about to end has its wake still to come.
Told ==
    \A a \in asleep :
        \/ Open(a) \subseteq {house.cl} /\ ~All("broken") /\ ~All("stopped")
        \/ stopping = "yes"

\* An engine has one process of its own, and besides it only the one that
\* replaces it or is being retired: nothing is left over to hold memory.
NoOrphans ==
    \A k \in Clients : cl[k].up =>
        \/ k = eng[cl[k].of].client
        \/ stopping = "no" /\ k \in {recycle[cl[k].of].old, recycle[cl[k].of].fresh}
        \/ stopping = "yes"

\* Every caller gets its turn or is told that there is none, without its
\* deadline having to free it: no wake is lost and urgent callers, recycling
\* and deaths do not shut the others out.
AllEnded == \A a \in Callers : acq[a].pc = "ended"

----------------------------------------------------------------------------
(***************************************************************************)
(* The inductive invariant behind OneUser, HandsOff, PreemptsBulk, Told and *)
(* NoOrphans.                                                              *)
(***************************************************************************)

\* Who has a client, and who leased it.
Leases ==
    /\ \A a \in Callers : acq[a].cl = NoId <=> acq[a].pc \in {"new", "wait", "ended"}
    /\ \A a \in Callers : acq[a].cl # NoId => acq[a].cl \in leased \ loose
    /\ \A a, b \in Callers : acq[a].cl # NoId /\ acq[a].cl = acq[b].cl => a = b
    /\ loose \subseteq leased
    /\ \A k \in leased \ loose : \E a \in Callers : acq[a].cl = k

\* Processes belong to their engine; an engine that boots has none that lives.
Started(k) == cl[k].of # "none"
Processes ==
    /\ \A k \in Clients : cl[k].up \/ k \in leased => Started(k)
    /\ \A e \in Engines : eng[e].client # NoId => cl[eng[e].client].of = e
    /\ \A e \in Engines :
         eng[e].run \in {"boot", "pause"} => eng[e].client = NoId \/ ~cl[eng[e].client].up
    /\ \A e \in Engines : eng[e].run \in {"up", "await"} => eng[e].client # NoId
    /\ stopping = "stopped" => \A k \in Clients : ~cl[k].up

\* A recycling begins with the current client and ends with the other one.
Recycled(e) ==
    LET r == recycle[e] IN
    /\ r.pc = "none" => r = NoRecycle
    /\ r.pc # "none" => stopping = "no" /\ r.old # NoId /\ cl[r.old].of = e
    /\ r.fresh # NoId => cl[r.fresh].of = e
    /\ r.pc = "start" => r.fresh = NoId
    /\ r.pc = "fresh" => r.fresh # NoId
    /\ r.pc \in {"start", "fresh"} /\ cl[r.old].up => eng[e].client = r.old
    /\ r.pc \in {"retire", "stop"} /\ r.fresh # NoId /\ cl[r.fresh].up
       => r.fresh \in {eng[e].client, r.old}

\* Nothing is recycled under the housekeeper that would do it.
Housed ==
    /\ house.cl = NoId <=> house.pc = "sleep"
    /\ house.pc # "sleep" => stopping = "no"
    /\ house.pc \in {"ping", "inspect", "unload"} =>
         Started(house.cl) /\ recycle[cl[house.cl].of].pc = "none"

IndInv ==
    /\ TypeOK /\ Leases /\ HandsOff /\ PreemptsBulk
    /\ Processes /\ (\A e \in Engines : Recycled(e)) /\ Housed /\ NoOrphans
    /\ Told
=============================================================================
