------------------------------ MODULE Coalesce ------------------------------
(***************************************************************************)
(* KeyedCoalesce of the API's cache (api/src/cache/single_flight.rs): the  *)
(* callers of one key share a flight, a Coalesce that runs one load at a   *)
(* time behind its gate and hands its result to everybody who was waiting. *)
(* The map holds flights weakly: a flight lives as long as a caller holds  *)
(* it, and the last caller to leave takes the entry out of the map.  A     *)
(* caller leaves in two steps, because Rust runs Drop::drop, which locks   *)
(* the map, before it releases the fields, the Arc of the flight among     *)
(* them.                                                                   *)
(***************************************************************************)
EXTENDS Naturals, FiniteSets

CONSTANTS
    Callers,
    Keys,
    Flights,    \* allocations a flight may live at
    None,       \* no flight, no caller, no value
    MaxCalls    \* bound: calls of run

ASSUME CoalesceAssumption ==
    /\ None \notin Callers \cup Flights \cup Keys \cup Nat
    /\ MaxCalls \in Nat

VARIABLES
    flights,      \* KeyedCoalesce.flights: the flight the entry of a key points at
    pc,           \* where each caller is
    key,          \* the key it asked for
    flight,       \* the Arc it holds
    arrived,      \* Coalesce::run: completions of the flight when it arrived
    gate,         \* the caller that holds a flight's gate
    completions,  \* completions of a flight
    completed,    \* its last published completion and load
    calls,        \* calls of run so far
    call,         \* the call a caller makes; a load is named after its call
    value,        \* the load whose result a caller returns
    published,    \* history: loads whose result was published
    before        \* history: what was published before a caller called run

vars == <<flights, pc, key, flight, arrived, gate, completions, completed,
          calls, call, value, published, before>>

Init ==
    /\ flights = [k \in Keys |-> None]
    /\ pc = [c \in Callers |-> "idle"]
    /\ key = [c \in Callers |-> None]
    /\ flight = [c \in Callers |-> None]
    /\ arrived = [c \in Callers |-> 0]
    /\ gate = [f \in Flights |-> None]
    /\ completions = [f \in Flights |-> 0]
    /\ completed = [f \in Flights |-> [at |-> 0, load |-> None]]
    /\ calls = 0
    /\ call = [c \in Callers |-> None]
    /\ value = [c \in Callers |-> None]
    /\ published = {}
    /\ before = [c \in Callers |-> {}]

Holders(f) == {c \in Callers : flight[c] = f}

(* Weak::upgrade of the entry of a key. *)
Upgrade(k) == flights[k] # None /\ Holders(flights[k]) # {}

(* KeyedCoalesce::flight: the flight of the key if somebody still holds it,
   else a new one at an address no Arc and no Weak refers to. *)
Enter(c, k) ==
    /\ pc[c] = "idle" /\ calls < MaxCalls
    /\ calls' = calls + 1
    /\ call' = [call EXCEPT ![c] = calls + 1]
    /\ pc' = [pc EXCEPT ![c] = "entered"]
    /\ key' = [key EXCEPT ![c] = k]
    /\ before' = [before EXCEPT ![c] = published]
    /\ \/ /\ Upgrade(k)
          /\ flight' = [flight EXCEPT ![c] = flights[k]]
          /\ UNCHANGED <<flights, gate, completions, completed>>
       \/ /\ ~Upgrade(k)
          /\ \E f \in Flights :
                /\ Holders(f) = {}
                /\ \A other \in Keys : flights[other] # f
                /\ flight' = [flight EXCEPT ![c] = f]
                /\ flights' = [flights EXCEPT ![k] = f]
                /\ gate' = [gate EXCEPT ![f] = None]
                /\ completions' = [completions EXCEPT ![f] = 0]
                /\ completed' = [completed EXCEPT ![f] = [at |-> 0, load |-> None]]
    /\ UNCHANGED <<arrived, value, published>>

(* Coalesce::run: the arrival is read before the gate is asked for. *)
Arrive(c) ==
    /\ pc[c] = "entered"
    /\ pc' = [pc EXCEPT ![c] = "waiting"]
    /\ arrived' = [arrived EXCEPT ![c] = completions[flight[c]]]
    /\ UNCHANGED <<flights, key, flight, gate, completions, completed, calls,
                   call, value, published, before>>

(* completed_after: a result published since the caller arrived. *)
CompletedAfter(c) ==
    /\ completed[flight[c]].load # None
    /\ completed[flight[c]].at > arrived[c]

GateFree(c) == gate[flight[c]] = None

(* The gate is taken: the result of the caller before is reused and the gate
   given back at once, or a load starts. *)
TakeGate(c) ==
    /\ pc[c] = "waiting" /\ GateFree(c)
    /\ \/ /\ CompletedAfter(c)
          /\ value' = [value EXCEPT ![c] = completed[flight[c]].load]
          /\ pc' = [pc EXCEPT ![c] = "leaving"]
          /\ UNCHANGED gate
       \/ /\ ~CompletedAfter(c)
          /\ gate' = [gate EXCEPT ![flight[c]] = c]
          /\ pc' = [pc EXCEPT ![c] = "loading"]
          /\ UNCHANGED value
    /\ UNCHANGED <<flights, key, flight, arrived, completions, completed,
                   calls, call, published, before>>

(* The load succeeds: its result is published with the next completion. *)
LoadDone(c) ==
    /\ pc[c] = "loading"
    /\ LET f == flight[c]
       IN /\ completions' = [completions EXCEPT ![f] = @ + 1]
          /\ completed' = [completed EXCEPT ![f] = [at |-> completions[f] + 1, load |-> call[c]]]
          /\ gate' = [gate EXCEPT ![f] = None]
    /\ published' = published \cup {call[c]}
    /\ value' = [value EXCEPT ![c] = call[c]]
    /\ pc' = [pc EXCEPT ![c] = "leaving"]
    /\ UNCHANGED <<flights, key, flight, arrived, calls, call, before>>

(* Mutant: a cancelled load never gives the gate back. *)
GiveUpKeepsGate(c) ==
    /\ pc[c] \in {"entered", "waiting", "loading"}
    /\ pc' = [pc EXCEPT ![c] = "leaving"]
    /\ UNCHANGED <<flights, key, flight, arrived, gate, completions, completed,
                   calls, call, value, published, before>>

(* The load fails, or the request is dropped while it loads or waits:
   nothing is published and the gate opens. *)
GiveUp(c) ==
    /\ pc[c] \in {"entered", "waiting", "loading"}
    /\ gate' = [f \in Flights |-> IF gate[f] = c THEN None ELSE gate[f]]
    /\ pc' = [pc EXCEPT ![c] = "leaving"]
    /\ UNCHANGED <<flights, key, flight, arrived, completions, completed,
                   calls, call, value, published, before>>

(* Mutant: whoever leaves takes the entry along. *)
LastHolderAnyway(c) == flights[key[c]] = flight[c]

LastHolder(c) == flights[key[c]] = flight[c] /\ Holders(flight[c]) = {c}

(* CoalesceFlight::drop: under the lock of the map. *)
DropEntry(c) ==
    /\ pc[c] = "leaving"
    /\ flights' = IF LastHolder(c) THEN [flights EXCEPT ![key[c]] = None] ELSE flights
    /\ pc' = [pc EXCEPT ![c] = "dropped"]
    /\ UNCHANGED <<key, flight, arrived, gate, completions, completed, calls,
                   call, value, published, before>>

(* The field of CoalesceFlight is released after drop returned. *)
ReleaseArc(c) ==
    /\ pc[c] = "dropped"
    /\ flight' = [flight EXCEPT ![c] = None]
    /\ pc' = [pc EXCEPT ![c] = "idle"]
    /\ key' = [key EXCEPT ![c] = None]
    /\ arrived' = [arrived EXCEPT ![c] = 0]
    /\ call' = [call EXCEPT ![c] = None]
    /\ value' = [value EXCEPT ![c] = None]
    /\ before' = [before EXCEPT ![c] = {}]
    /\ UNCHANGED <<flights, gate, completions, completed, calls, published>>

Next ==
    \E c \in Callers :
       \/ \E k \in Keys : Enter(c, k)
       \/ Arrive(c) \/ TakeGate(c) \/ LoadDone(c) \/ GiveUp(c)
       \/ DropEntry(c) \/ ReleaseArc(c)

Spec == Init /\ [][Next]_vars

(* The runtime polls every task, the gate is handed out in turn (tokio's
   Mutex is fair), a load ends one way or the other. *)
FairSpec ==
    /\ Spec
    /\ \A c \in Callers :
          /\ WF_vars(Arrive(c)) /\ SF_vars(TakeGate(c))
          /\ WF_vars(LoadDone(c) \/ (pc[c] = "loading" /\ GiveUp(c)))
          /\ WF_vars(DropEntry(c)) /\ WF_vars(ReleaseArc(c))

-----------------------------------------------------------------------------
Inside == {"entered", "waiting", "loading", "leaving"}

(* The state keeps its shape. *)
TypeOK ==
    /\ flights \in [Keys -> Flights \cup {None}]
    /\ pc \in [Callers -> Inside \cup {"idle", "dropped"}]
    /\ key \in [Callers -> Keys \cup {None}]
    /\ flight \in [Callers -> Flights \cup {None}]
    /\ arrived \in [Callers -> Nat]
    /\ gate \in [Flights -> Callers \cup {None}]
    /\ completions \in [Flights -> Nat]
    /\ completed \in [Flights -> [at : Nat, load : Nat \cup {None}]]
    /\ calls \in Nat
    /\ call \in [Callers -> Nat \cup {None}]
    /\ value \in [Callers -> Nat \cup {None}]
    /\ published \subseteq Nat
    /\ before \in [Callers -> SUBSET Nat]

(* At most one caller loads a key at a time, however many callers come and
   go, give up or fail, and whoever clears the map. *)
OneLoadPerKey ==
    \A c, d \in Callers :
       pc[c] = "loading" /\ pc[d] = "loading" /\ key[c] = key[d] => c = d

(* A caller never returns a result that was already there when it called:
   a finished flight is not a cache. *)
NoStaleValue ==
    \A c \in Callers : value[c] # None => value[c] \notin before[c]

(* What callers share is one load at a time, and its result is no older than
   their call. *)
SharedLoads == OneLoadPerKey /\ NoStaleValue

(* Whoever waits for a flight gets out of it. *)
EveryCallerReturns ==
    \A c \in Callers : pc[c] = "waiting" ~> pc[c] = "idle"
=============================================================================
