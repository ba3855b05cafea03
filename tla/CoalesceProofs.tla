--------------------------- MODULE CoalesceProofs ---------------------------
(***************************************************************************)
(* Proofs about Coalesce, for any number of callers, keys and flights, and *)
(* about ClientWindows, for any number of clients, any limit and window.   *)
(***************************************************************************)
EXTENDS MCCoalesce, Sequences, FiniteSetTheorems, WellFoundedInduction, TLAPS

(* A caller holds an Arc from its entry to its release, and no other time. *)
Held ==
    \A c \in Callers :
       /\ pc[c] = "idle" <=> flight[c] = None
       /\ pc[c] # "idle" => key[c] \in Keys /\ call[c] \in Nat
       /\ pc[c] = "idle" => value[c] = None

(* The entry of a key points at the flight of everybody who is inside. *)
InMap == \A c \in Callers : pc[c] \in Inside => flights[key[c]] = flight[c]

(* Whoever loads holds the gate of its flight. *)
GateHeld == \A c \in Callers : pc[c] = "loading" => gate[flight[c]] = c

(* Calls are told apart, and a call that has not finished its load has not
   published it. *)
CallsDiffer ==
    /\ published \subseteq 1..calls
    /\ \A c \in Callers : pc[c] # "idle" => call[c] \in 1..calls
    /\ \A c, d \in Callers :
          pc[c] # "idle" /\ pc[d] # "idle" /\ call[c] = call[d] => c = d

Unpublished ==
    \A c \in Callers :
       /\ pc[c] \in {"entered", "waiting", "loading"} => call[c] \notin published
       /\ before[c] \subseteq published

(* What a flight published after a caller arrived was not there before. *)
NewerIsNew ==
    /\ \A f \in Flights : completed[f].at <= completions[f]
    /\ \A c \in Callers :
          pc[c] = "waiting" /\ CompletedAfter(c) =>
             completed[flight[c]].load \notin before[c]

IInv ==
    /\ TypeOK /\ Held /\ InMap /\ GateHeld
    /\ CallsDiffer /\ Unpublished /\ NewerIsNew /\ NoStaleValue

(* The invariant holds before anybody called. *)
LEMMA InitIInv == Init => IInv
BY CoalesceAssumption
DEF Init, IInv, TypeOK, Held, InMap, GateHeld, CallsDiffer, Unpublished,
    NewerIsNew, NoStaleValue, Inside, CompletedAfter

(* Types are kept by every step. *)
LEMMA NextTypeOK ==
    ASSUME TypeOK, Held, [Next]_vars PROVE TypeOK'
<1> USE CoalesceAssumption
<1>1. ASSUME NEW c \in Callers, NEW k \in Keys, Enter(c, k) PROVE TypeOK'
  <2>1. flight' \in [Callers -> Flights \cup {None}]
    BY <1>1 DEF Enter, TypeOK
  <2>2. /\ flights' \in [Keys -> Flights \cup {None}]
        /\ gate' \in [Flights -> Callers \cup {None}]
        /\ completions' \in [Flights -> Nat]
        /\ completed' \in [Flights -> [at : Nat, load : Nat \cup {None}]]
    <3>1. CASE Upgrade(k)
      BY <1>1, <3>1 DEF Enter, TypeOK
    <3>2. CASE ~Upgrade(k)
      <4>1. PICK f \in Flights :
               /\ flights' = [flights EXCEPT ![k] = f]
               /\ gate' = [gate EXCEPT ![f] = None]
               /\ completions' = [completions EXCEPT ![f] = 0]
               /\ completed' = [completed EXCEPT ![f] = [at |-> 0, load |-> None]]
        BY <1>1, <3>2 DEF Enter
      <4>2. QED
        BY <4>1 DEF TypeOK
    <3>3. QED
      BY <3>1, <3>2
  <2>3. /\ pc' \in [Callers -> Inside \cup {"idle", "dropped"}]
        /\ key' \in [Callers -> Keys \cup {None}]
        /\ calls' \in Nat /\ call' \in [Callers -> Nat \cup {None}]
        /\ before' \in [Callers -> SUBSET Nat]
    BY <1>1 DEF Enter, TypeOK, Inside
  <2>4. QED
    BY <1>1, <2>1, <2>2, <2>3 DEF Enter, TypeOK
<1>2. ASSUME NEW c \in Callers, Arrive(c) PROVE TypeOK'
  BY <1>2 DEF Arrive, TypeOK, Inside, Held
<1>3. ASSUME NEW c \in Callers, TakeGate(c) PROVE TypeOK'
  <2>1. flight[c] \in Flights
    BY <1>3 DEF TakeGate, TypeOK, Held
  <2>2. completed[flight[c]].load \in Nat \cup {None}
    BY <2>1 DEF TypeOK
  <2>3. value' \in [Callers -> Nat \cup {None}]
    BY <1>3, <2>2 DEF TakeGate, TypeOK
  <2>4. QED
    BY <1>3, <2>1, <2>3 DEF TakeGate, TypeOK, Inside
<1>4. ASSUME NEW c \in Callers, LoadDone(c) PROVE TypeOK'
  <2>1. flight[c] \in Flights /\ call[c] \in Nat
    BY <1>4 DEF LoadDone, TypeOK, Held
  <2>2. completed' \in [Flights -> [at : Nat, load : Nat \cup {None}]]
    BY <1>4, <2>1 DEF LoadDone, TypeOK
  <2>3. QED
    BY <1>4, <2>1, <2>2 DEF LoadDone, TypeOK, Inside
<1>5. ASSUME NEW c \in Callers, GiveUp(c) PROVE TypeOK'
  BY <1>5 DEF GiveUp, TypeOK, Inside
<1>6. ASSUME NEW c \in Callers, DropEntry(c) PROVE TypeOK'
  BY <1>6 DEF DropEntry, TypeOK, Inside, LastHolder
<1>7. ASSUME NEW c \in Callers, ReleaseArc(c) PROVE TypeOK'
  BY <1>7 DEF ReleaseArc, TypeOK, Inside
<1>8. CASE UNCHANGED vars
  BY <1>8 DEF vars, TypeOK
<1>9. QED
  BY <1>1, <1>2, <1>3, <1>4, <1>5, <1>6, <1>7, <1>8 DEF Next

(* Entering keeps the invariant: a flight that is shared is already in the
   map, and a new one replaces an entry nobody holds. *)
LEMMA EnterIInv ==
    ASSUME IInv, TypeOK', NEW c \in Callers, NEW k \in Keys, Enter(c, k)
    PROVE  IInv'
<1> USE CoalesceAssumption
<1>0. /\ flight'[c] \in Flights
      /\ \A d \in Callers : d # c => flight'[d] = flight[d]
  BY DEF IInv, TypeOK, Enter, Upgrade
<1>1. Held' /\ CallsDiffer' /\ Unpublished' /\ NoStaleValue'
  <2>1. Held'
    BY <1>0 DEF IInv, TypeOK, Held, Enter
  <2>2. CallsDiffer'
    BY DEF IInv, TypeOK, CallsDiffer, Enter
  <2>3. Unpublished'
    BY DEF IInv, TypeOK, CallsDiffer, Unpublished, Enter
  <2>4. NoStaleValue'
    <3>1. value[c] = None
      BY DEF IInv, Held, Enter
    <3>2. QED
      BY <3>1 DEF IInv, TypeOK, NoStaleValue, Enter
  <2>5. QED
    BY <2>1, <2>2, <2>3, <2>4
<1>2. InMap'
  <2>1. ASSUME NEW d \in Callers, pc'[d] \in Inside
        PROVE  flights'[key'[d]] = flight'[d]
    <3>1. CASE d = c
      BY <3>1 DEF IInv, TypeOK, Enter
    <3>2. CASE d # c
      <4>1. pc[d] \in Inside /\ key'[d] = key[d] /\ flight'[d] = flight[d]
        BY <2>1, <3>2 DEF IInv, TypeOK, Enter
      <4>2. flights[key[d]] = flight[d] /\ flight[d] # None /\ key[d] \in Keys
        BY <4>1 DEF IInv, InMap, Held, Inside
      <4>3. key[d] = k => Upgrade(k)
        BY <4>2 DEF Upgrade, Holders
      <4>4. QED
        BY <4>1, <4>2, <4>3 DEF IInv, TypeOK, Enter
    <3>3. QED
      BY <3>1, <3>2
  <2>2. QED
    BY <2>1 DEF InMap
<1>3. GateHeld' /\ NewerIsNew'
  <2>1. ASSUME NEW d \in Callers, d # c, pc[d] # "idle"
        PROVE  /\ flight'[d] = flight[d] /\ flight[d] \in Flights
               /\ gate'[flight[d]] = gate[flight[d]]
               /\ completed'[flight[d]] = completed[flight[d]]
    BY <2>1 DEF IInv, TypeOK, Held, Enter, Upgrade, Holders
  <2>2. \A f \in Flights : completed'[f].at <= completions'[f]
    BY DEF IInv, TypeOK, NewerIsNew, Enter, Upgrade, Holders
  <2>3. \A d \in Callers : pc'[d] \in {"loading", "waiting"} => d # c /\ pc[d] = pc'[d]
    BY DEF IInv, TypeOK, Enter
  <2>4. arrived' = arrived /\ \A d \in Callers : d # c => before'[d] = before[d]
    BY DEF IInv, TypeOK, Enter
  <2>5. QED
    BY <2>1, <2>2, <2>3, <2>4 DEF IInv, GateHeld, NewerIsNew, CompletedAfter
<1>4. QED
  BY <1>1, <1>2, <1>3 DEF IInv

(* A finished load names a call nobody has seen published. *)
LEMMA LoadDoneIInv ==
    ASSUME IInv, TypeOK', NEW c \in Callers, LoadDone(c)
    PROVE  IInv'
<1> USE CoalesceAssumption
<1>1. Held' /\ InMap' /\ CallsDiffer' /\ Unpublished' /\ NoStaleValue'
  BY DEF IInv, TypeOK, Held, InMap, CallsDiffer, Unpublished, NoStaleValue,
         LoadDone, Inside
<1>2. GateHeld'
  BY DEF IInv, TypeOK, Held, GateHeld, LoadDone
<1>3. NewerIsNew'
  <2>1. flight[c] \in Flights /\ call[c] \in Nat /\ call[c] # None
    BY DEF IInv, TypeOK, Held, LoadDone
  <2>2. ASSUME NEW f \in Flights
        PROVE  completed'[f].at <= completions'[f]
    BY <2>1 DEF IInv, TypeOK, NewerIsNew, LoadDone
  <2>3. ASSUME NEW d \in Callers, pc'[d] = "waiting", CompletedAfter(d)'
        PROVE  completed'[flight'[d]].load \notin before'[d]
    <3>1. pc[d] = "waiting" /\ d # c /\ flight'[d] = flight[d] /\ before'[d] = before[d]
      BY <2>3 DEF IInv, TypeOK, LoadDone
    <3>2. CASE flight[d] = flight[c]
      <4>1. completed'[flight[d]].load = call[c]
        BY <2>1, <3>2 DEF IInv, TypeOK, LoadDone
      <4>2. call[c] \notin before[d]
        BY DEF IInv, Unpublished, LoadDone
      <4>3. QED
        BY <3>1, <4>1, <4>2
    <3>3. CASE flight[d] # flight[c]
      <4>1. completed'[flight[d]] = completed[flight[d]] /\ arrived' = arrived
        BY <3>1, <3>3 DEF IInv, TypeOK, Held, LoadDone
      <4>2. QED
        BY <2>3, <3>1, <4>1 DEF IInv, NewerIsNew, CompletedAfter
    <3>4. QED
      BY <3>2, <3>3
  <2>4. QED
    BY <2>2, <2>3 DEF NewerIsNew
<1>4. QED
  BY <1>1, <1>2, <1>3 DEF IInv

(* Arriving, taking the gate and giving up. *)
LEMMA RunIInv ==
    ASSUME IInv, TypeOK', NEW c \in Callers, Arrive(c) \/ TakeGate(c) \/ GiveUp(c)
    PROVE  IInv'
<1> USE CoalesceAssumption
<1>1. CASE Arrive(c)
  BY <1>1 DEF IInv, TypeOK, Held, InMap, GateHeld, CallsDiffer, Unpublished,
              NewerIsNew, NoStaleValue, Arrive, CompletedAfter, Inside
<1>2. CASE TakeGate(c)
  <2>1. flight[c] \in Flights
    BY <1>2 DEF IInv, TypeOK, Held, TakeGate
  <2>2. Held' /\ InMap' /\ CallsDiffer' /\ Unpublished'
    BY <1>2 DEF IInv, TypeOK, Held, InMap, CallsDiffer, Unpublished, TakeGate, Inside
  <2>3. GateHeld'
    BY <1>2, <2>1 DEF IInv, TypeOK, Held, GateHeld, TakeGate, GateFree
  <2>4. NewerIsNew' /\ NoStaleValue'
    BY <1>2, <2>1 DEF IInv, TypeOK, NewerIsNew, NoStaleValue, TakeGate, CompletedAfter
  <2>5. QED
    BY <2>2, <2>3, <2>4 DEF IInv
<1>3. CASE GiveUp(c)
  <2>1. Held' /\ InMap' /\ CallsDiffer' /\ Unpublished'
    BY <1>3 DEF IInv, TypeOK, Held, InMap, CallsDiffer, Unpublished, GiveUp, Inside
  <2>2. GateHeld' /\ NewerIsNew' /\ NoStaleValue'
    BY <1>3 DEF IInv, TypeOK, Held, GateHeld, NewerIsNew, NoStaleValue, GiveUp, CompletedAfter
  <2>3. QED
    BY <2>1, <2>2 DEF IInv
<1>4. QED
  BY <1>1, <1>2, <1>3

(* Leaving: the entry is removed only by the one caller that still holds the
   flight, so nobody inside loses it. *)
LEMMA LeaveIInv ==
    ASSUME IInv, TypeOK', NEW c \in Callers, DropEntry(c) \/ ReleaseArc(c)
    PROVE  IInv'
<1> USE CoalesceAssumption
<1>1. CASE DropEntry(c)
  <2>1. InMap'
    <3>1. ASSUME NEW d \in Callers, pc'[d] \in Inside
          PROVE  flights'[key'[d]] = flight'[d]
      <4>1. d # c /\ pc[d] \in Inside /\ flights[key[d]] = flight[d] /\ key[d] \in Keys
        BY <1>1, <3>1 DEF IInv, TypeOK, Held, InMap, DropEntry, Inside
      <4>2. LastHolder(c) => key[d] # key[c]
        BY <4>1 DEF LastHolder, Holders
      <4>3. QED
        BY <1>1, <4>1, <4>2 DEF IInv, TypeOK, DropEntry
    <3>2. QED
      BY <3>1 DEF InMap
  <2>2. Held' /\ GateHeld' /\ CallsDiffer' /\ Unpublished' /\ NewerIsNew' /\ NoStaleValue'
    BY <1>1 DEF IInv, TypeOK, Held, GateHeld, CallsDiffer, Unpublished, NewerIsNew,
                NoStaleValue, DropEntry, CompletedAfter
  <2>3. QED
    BY <2>1, <2>2 DEF IInv
<1>2. CASE ReleaseArc(c)
  <2>1. Held' /\ InMap' /\ CallsDiffer' /\ Unpublished'
    BY <1>2 DEF IInv, TypeOK, Held, InMap, CallsDiffer, Unpublished, ReleaseArc, Inside
  <2>2. GateHeld' /\ NewerIsNew' /\ NoStaleValue'
    BY <1>2 DEF IInv, TypeOK, Held, GateHeld, NewerIsNew, NoStaleValue, ReleaseArc, CompletedAfter
  <2>3. QED
    BY <2>1, <2>2 DEF IInv
<1>3. QED
  BY <1>1, <1>2

(* Every step keeps the invariant. *)
LEMMA NextIInv == IInv /\ [Next]_vars => IInv'
<1> SUFFICES ASSUME IInv, [Next]_vars PROVE IInv'
  OBVIOUS
<1>1. TypeOK'
  BY NextTypeOK DEF IInv
<1>2. CASE Next
  BY <1>1, <1>2, EnterIInv, LoadDoneIInv, RunIInv, LeaveIInv DEF Next
<1>3. CASE UNCHANGED vars
  BY <1>3 DEF vars, IInv, TypeOK, Held, InMap, GateHeld, CallsDiffer, Unpublished,
              NewerIsNew, NoStaleValue, CompletedAfter, Inside
<1>4. QED
  BY <1>2, <1>3

LEMMA Invariance == Spec => []IInv
BY InitIInv, NextIInv, PTL DEF Spec

(* At most one caller loads a key at a time: everybody inside holds the
   flight the map has for the key, and a flight has one gate. *)
THEOREM CoalesceOneLoad == Spec => []OneLoadPerKey
<1>1. IInv => OneLoadPerKey
  BY DEF IInv, InMap, GateHeld, OneLoadPerKey, Inside
<1>2. QED
  BY <1>1, Invariance, PTL

(* No caller returns a result that was published before it called. *)
THEOREM CoalesceFresh == Spec => []NoStaleValue
BY Invariance, PTL DEF IInv

(* For any number of callers and keys: one load of a key at a time, and its
   result is no older than the call it answers (single_flight.rs). *)
THEOREM CoalesceShared == Spec => []SharedLoads
BY CoalesceOneLoad, CoalesceFresh, PTL DEF SharedLoads

(* The state keeps its shape. *)
THEOREM CoalesceTypes == Spec => []TypeOK
BY Invariance, PTL DEF IInv

(***************************************************************************)
(* The per-client windows.                                                 *)
(***************************************************************************)

Entries == [start : 0 .. MaxTime, client : Clients]

Opening(w, c) == [start |-> w[c].start, client |-> c]

(* Every window of w has its opening in q.                                 *)
Queued(w, q) == \A c \in DOMAIN w : \E i \in DOMAIN q : q[i] = Opening(w, c)

LEMMA LeastIndex ==
    ASSUME NEW S, S \subseteq Nat, S # {}
    PROVE  \E m \in S : \A k \in S : m <= k
<1> DEFINE R == {ss \in Nat \X Nat : ss[1] < ss[2]}
<1>1. IsWellFoundedOn(R, Nat)
  BY NatLessThanWellFounded DEF OpToRel
<1>2. PICK x \in S : \A y \in S : ~ (<<y, x>> \in R)
  <2> HIDE DEF R
  <2> QED BY <1>1, WFMin
<1>3. \A y \in S : ~ (y < x)
  BY <1>2
<1> QED BY <1>3

LEMMA WindowConstants ==
    /\ Clients \subseteq Nat
    /\ Limit \in Nat /\ Limit > 0 /\ Window \in Nat /\ Window > 0
    /\ Tracked \in Nat /\ Tracked > 0 /\ Skew \in Nat /\ MaxTime \in Nat
BY WindowsOK DEF Windows!ClientWindowsAssumption

(* The instance has counting operators of its own, which are the library's. *)
LEMMA SameCount ==
    ASSUME NEW S
    PROVE  Windows!Cardinality(S) = Cardinality(S) /\ (Windows!IsFiniteSet(S) <=> IsFiniteSet(S))
BY DEF Windows!Cardinality, Cardinality, Windows!IsFiniteSet, IsFiniteSet

(* Sorting keeps what it sorts: the number of openings before one is below
   their number and differs from the others', so every place is taken.     *)
LEMMA SortedKeeps ==
    ASSUME NEW S, IsFiniteSet(S), S \subseteq [start : Int, client : Int]
    PROVE  /\ Windows!Sorted(S) \in Seq(S)
           /\ Len(Windows!Sorted(S)) = Cardinality(S)
           /\ \A e \in S : \E i \in DOMAIN Windows!Sorted(S) : Windows!Sorted(S)[i] = e
<1> DEFINE lower(e) == {d \in S : Windows!Before(d, e)}
           rank(e) == Cardinality(lower(e))
           N == Cardinality(S)
           q == Windows!Sorted(S)
<1>n. N \in Nat
  BY FS_CardinalityType
<1>1. ASSUME NEW e \in S PROVE IsFiniteSet(lower(e)) /\ rank(e) \in Nat /\ rank(e) < N
  <2>1. lower(e) \in SUBSET (S \ {e})
    BY DEF Windows!Before
  <2>2. IsFiniteSet(S \ {e}) /\ Cardinality(S \ {e}) = N - 1
    BY FS_RemoveElement
  <2>3. IsFiniteSet(lower(e)) /\ rank(e) <= N - 1
    BY <2>1, <2>2, FS_Subset
  <2>4. rank(e) \in Nat
    BY <2>3, FS_CardinalityType
  <2> HIDE DEF lower, N
  <2> QED BY <1>n, <2>3, <2>4
<1>2. ASSUME NEW d \in S, NEW e \in S, Windows!Before(d, e) PROVE rank(d) < rank(e)
  <2>1. lower(d) \in SUBSET lower(e)
    BY <1>2 DEF Windows!Before
  <2>2. d \in lower(e) /\ d \notin lower(d)
    BY <1>2 DEF Windows!Before
  <2>3. rank(d) <= rank(e) /\ rank(d) # rank(e)
    <3> HIDE DEF lower
    <3> QED BY <1>1, <2>1, <2>2, FS_Subset
  <2>4. rank(d) \in Nat /\ rank(e) \in Nat
    BY <1>1
  <2> HIDE DEF rank
  <2> QED BY <2>3, <2>4
<1>3. ASSUME NEW d \in S, NEW e \in S, rank(d) = rank(e) PROVE d = e
  <2>1. ~Windows!Before(d, e) /\ ~Windows!Before(e, d)
    <3> rank(d) \in Nat /\ rank(e) \in Nat
      BY <1>1
    <3> HIDE DEF rank
    <3> QED BY <1>2, <1>3
  <2>2. d \in [start : Int, client : Int] /\ e \in [start : Int, client : Int]
    OBVIOUS
  <2>3. d.start = e.start /\ d.client = e.client
    BY <2>1, <2>2 DEF Windows!Before
  <2> QED BY <2>2, <2>3
<1> DEFINE f == [e \in S |-> rank(e) + 1]
<1>4. f \in Injection(S, 1 .. N)
  <2>1. \A e \in S : rank(e) + 1 \in 1 .. N
    BY <1>n, <1>1
  <2>2. \A d, e \in S : rank(d) + 1 = rank(e) + 1 => d = e
    <3> SUFFICES ASSUME NEW d \in S, NEW e \in S, rank(d) + 1 = rank(e) + 1 PROVE d = e
      OBVIOUS
    <3>1. rank(d) \in Nat /\ rank(e) \in Nat
      BY <1>1
    <3>2. rank(d) = rank(e)
      <4> HIDE DEF rank
      <4> QED BY <3>1
    <3> QED BY <1>3, <3>2
  <2> HIDE DEF rank, N
  <2> QED BY <2>1, <2>2 DEF Injection, IsInjective
<1>5. f \in Surjection(S, 1 .. N)
  <2>1. IsFiniteSet(1 .. N) /\ Cardinality(1 .. N) = N
    BY <1>n, FS_Interval
  <2> HIDE DEF f
  <2> QED BY <1>4, <2>1, FS_Injection
<1>6. ASSUME NEW i \in 1 .. N PROVE \E e \in S : rank(e) = i - 1
  <2>1. PICK e \in S : f[e] = i
    BY <1>5 DEF Surjection
  <2>2. rank(e) + 1 = i /\ rank(e) \in Nat
    BY <1>1, <2>1
  <2> HIDE DEF rank
  <2> QED BY <2>2
<1>7. q = [i \in 1 .. N |-> CHOOSE e \in S : rank(e) = i - 1]
  BY DEF Windows!Sorted, Windows!Cardinality, Cardinality
<1>8. \A i \in 1 .. N : q[i] \in S /\ rank(q[i]) = i - 1
  <2> HIDE DEF rank
  <2> QED BY <1>6, <1>7
<1>9. q \in Seq(S) /\ Len(q) = N /\ DOMAIN q = 1 .. N
  <2>1. q \in [1 .. N -> S]
    <3> HIDE DEF rank, N, q
    <3> QED BY <1>7, <1>8
  <2> HIDE DEF q, N
  <2> QED BY <1>n, <2>1
<1>10. ASSUME NEW e \in S PROVE \E i \in DOMAIN q : q[i] = e
  <2>1. rank(e) + 1 \in 1 .. N /\ rank(e) \in Nat
    BY <1>n, <1>1
  <2>2. q[rank(e) + 1] \in S /\ rank(q[rank(e) + 1]) = rank(e)
    <3>1. rank(q[rank(e) + 1]) = (rank(e) + 1) - 1
      <4> HIDE DEF rank, q
      <4> QED BY <1>8, <2>1
    <3>2. (rank(e) + 1) - 1 = rank(e)
      <4> HIDE DEF rank
      <4> QED BY <2>1
    <3> QED BY <1>8, <2>1, <3>1, <3>2
  <2>3. q[rank(e) + 1] = e
    BY <1>3, <2>2
  <2> QED BY <1>9, <2>1, <2>3
<1> QED BY <1>9, <1>10

(* A full queue is rebuilt with one opening for each window.               *)
LEMMA CompactKeeps ==
    ASSUME NEW D, IsFiniteSet(D), D \subseteq Clients, Cardinality(D) <= Tracked,
           NEW w \in [D -> [start : 0 .. MaxTime, used : 1 .. Limit]],
           NEW q \in Seq(Entries), Queued(w, q)
    PROVE  /\ Windows!Compact(w, q) \in Seq(Entries)
           /\ Len(Windows!Compact(w, q)) <= 2 * Tracked
           /\ Queued(w, Windows!Compact(w, q))
<1> DEFINE S == Windows!Openings(w)
           f == [c \in D |-> Opening(w, c)]
<1>0. DOMAIN w = D
  OBVIOUS
<1>1. S = {Opening(w, c) : c \in D} /\ S \subseteq Entries
  BY DEF Windows!Openings, Opening, Entries
<1>2. f \in Surjection(D, S)
  BY <1>1 DEF Surjection
<1>3. IsFiniteSet(S) /\ Cardinality(S) <= Cardinality(D)
  <2> HIDE DEF f, S
  <2> QED BY <1>2, FS_Surjection
<1>4. S \subseteq [start : Int, client : Int]
  <2>1. 0 .. MaxTime \subseteq Int /\ Clients \subseteq Int
    BY WindowConstants
  <2> HIDE DEF S
  <2> QED BY <1>1, <2>1 DEF Entries
<1>5. Cardinality(S) \in Nat /\ Cardinality(D) \in Nat
  BY <1>3, FS_CardinalityType
<1> DEFINE p == Windows!Sorted(S)
<1>6. p \in Seq(S) /\ Len(p) = Cardinality(S) /\ \A e \in S : \E i \in DOMAIN p : p[i] = e
  <2> HIDE DEF S
  <2> QED BY <1>3, <1>4, SortedKeeps
<1>7. Windows!Compact(w, q) = IF Len(q) <= 2 * Tracked THEN q ELSE p
  BY DEF Windows!Compact
<1>8. p \in Seq(Entries) /\ Len(p) <= 2 * Tracked /\ Queued(w, p)
  <2>1. p \in Seq(Entries)
    <3> HIDE DEF p, S
    <3> QED BY <1>1, <1>6
  <2>2. Len(p) <= 2 * Tracked
    <3> HIDE DEF p, S
    <3> QED BY <1>3, <1>5, <1>6, WindowConstants
  <2>3. Queued(w, p)
    <3> HIDE DEF p
    <3> QED BY <1>0, <1>1, <1>6 DEF Queued
  <2> QED BY <2>1, <2>2, <2>3
<1> HIDE DEF p
<1> QED BY <1>7, <1>8

(* Evicting takes the client of the first opening that is still its window's,
   and the openings of the other windows stand behind it.                  *)
LEMMA EvictKeeps ==
    ASSUME NEW D, D # {}, D \subseteq Clients,
           windows \in [D -> [start : 0 .. MaxTime, used : 1 .. Limit]],
           opened \in Seq(Entries), Queued(windows, opened)
    PROVE  \E x \in D : \E q \in Seq(Entries) :
              /\ Windows!Evict = [windows |-> Windows!Drop(windows, x), opened |-> q, gone |-> {x}]
              /\ \A c \in D \ {x} : \E i \in DOMAIN q : q[i] = Opening(windows, c)
<1> DEFINE live == {i \in DOMAIN opened : Windows!Matches(opened[i])}
           i == CHOOSE k \in live : \A j \in live : k <= j
           q == SubSeq(opened, i + 1, Len(opened))
<1>0. DOMAIN windows = D /\ DOMAIN opened = 1 .. Len(opened) /\ Len(opened) \in Nat
  OBVIOUS
<1>1. ASSUME NEW c \in D PROVE \E k \in live : opened[k] = Opening(windows, c)
  BY <1>0 DEF Queued, Windows!Matches, Opening
<1>2. live # {} /\ live \subseteq Nat
  BY <1>0, <1>1
<1>3. i \in live /\ \A j \in live : i <= j
  <2> HIDE DEF live
  <2> QED BY <1>2, LeastIndex
<1> DEFINE x == opened[i].client
<1>4. x \in D /\ i \in DOMAIN opened /\ Windows!Matches(opened[i])
  BY <1>0, <1>3 DEF Windows!Matches
<1>5. Windows!Evict = [windows |-> Windows!Drop(windows, x), opened |-> q, gone |-> {x}]
  BY <1>2 DEF Windows!Evict
<1> HIDE DEF i
<1>6. /\ q \in Seq(Entries) /\ DOMAIN q = 1 .. (Len(opened) - i)
      /\ \A k \in 1 .. (Len(opened) - i) : q[k] = opened[i + k]
  BY <1>0, <1>4
<1>7. ASSUME NEW c \in D \ {x} PROVE \E k \in DOMAIN q : q[k] = Opening(windows, c)
  <2>1. PICK k \in live : opened[k] = Opening(windows, c)
    BY <1>1
  <2>2. k # i /\ i <= k /\ k \in 1 .. Len(opened) /\ i \in 1 .. Len(opened)
    BY <1>0, <1>3, <1>4, <2>1 DEF Opening
  <2>3. k - i \in 1 .. (Len(opened) - i) /\ i + (k - i) = k
    BY <1>0, <2>2
  <2> HIDE DEF q
  <2> QED BY <1>6, <2>1, <2>3
<1> HIDE DEF x, q
<1> QED BY <1>4, <1>5, <1>6, <1>7

(* A client gets a new window: its opening is queued, and no other's is lost. *)
LEMMA PutKeeps ==
    ASSUME NEW D, IsFiniteSet(D), D \subseteq Clients,
           NEW w \in [D -> [start : 0 .. MaxTime, used : 1 .. Limit]],
           NEW q \in Seq(Entries),
           NEW c \in Clients, NEW t \in 0 .. MaxTime,
           Cardinality(D \cup {c}) <= Tracked,
           \A d \in D \ {c} : \E i \in DOMAIN q : q[i] = Opening(w, d)
    PROVE  LET v == Windows!Put(w, c, [start |-> t, used |-> 1])
               r == Windows!Compact(v, Append(q, [start |-> t, client |-> c]))
           IN  /\ v \in [D \cup {c} -> [start : 0 .. MaxTime, used : 1 .. Limit]]
               /\ r \in Seq(Entries) /\ Len(r) <= 2 * Tracked /\ Queued(v, r)
<1> DEFINE v == Windows!Put(w, c, [start |-> t, used |-> 1])
           a == Append(q, [start |-> t, client |-> c])
<1>0. 1 \in 1 .. Limit
  BY WindowConstants
<1>1. v = [d \in D \cup {c} |-> IF d = c THEN [start |-> t, used |-> 1] ELSE w[d]]
  BY DEF Windows!Put
<1>2. v \in [D \cup {c} -> [start : 0 .. MaxTime, used : 1 .. Limit]]
  <2>1. [start |-> t, used |-> 1] \in [start : 0 .. MaxTime, used : 1 .. Limit]
    BY <1>0
  <2> DEFINE R == [start : 0 .. MaxTime, used : 1 .. Limit]
  <2>2. [start |-> t, used |-> 1] \in R /\ w \in [D -> R]
    BY <2>1
  <2> HIDE DEF v, R
  <2>3. v \in [D \cup {c} -> R]
    BY <1>1, <2>2
  <2> QED BY <2>3 DEF R
<1>3. /\ a \in Seq(Entries) /\ DOMAIN a = 1 .. (Len(q) + 1) /\ Len(q) \in Nat
      /\ a[Len(q) + 1] = [start |-> t, client |-> c]
      /\ \A i \in DOMAIN q : a[i] = q[i] /\ i \in DOMAIN a
  BY DEF Entries
<1>4. Queued(v, a)
  <2> SUFFICES ASSUME NEW d \in D \cup {c} PROVE \E i \in DOMAIN a : a[i] = Opening(v, d)
    BY <1>1 DEF Queued
  <2>1. CASE d = c
    <3>1. Opening(v, c) = [start |-> t, client |-> c]
      BY <1>1 DEF Opening
    <3> HIDE DEF a
    <3> QED BY <1>3, <2>1, <3>1
  <2>2. CASE d # c
    <3>1. Opening(v, d) = Opening(w, d)
      BY <1>1, <2>2 DEF Opening
    <3>2. PICK i \in DOMAIN q : q[i] = Opening(w, d)
      BY <2>2
    <3> HIDE DEF a
    <3> QED BY <1>3, <3>1, <3>2
  <2> QED BY <2>1, <2>2
<1>5. IsFiniteSet(D \cup {c}) /\ D \cup {c} \subseteq Clients
  BY FS_AddElement
<1> HIDE DEF v, a
<1>6. /\ Windows!Compact(v, a) \in Seq(Entries)
      /\ Len(Windows!Compact(v, a)) <= 2 * Tracked
      /\ Queued(v, Windows!Compact(v, a))
  BY <1>2, <1>3, <1>4, <1>5, CompactKeeps
<1> QED BY <1>2, <1>6 DEF v, a

(***************************************************************************)
(* What a client has passed.                                               *)
(***************************************************************************)

(* Part of an interval is no larger than the interval.                     *)
LEMMA Within ==
    ASSUME NEW a \in Int, NEW b \in Int, NEW S, S \subseteq a .. b, b >= a - 1
    PROVE  IsFiniteSet(S) /\ Cardinality(S) \in Nat /\ Cardinality(S) <= b - a + 1
<1>1. IsFiniteSet(a .. b) /\ Cardinality(a .. b) = b - a + 1
  <2>1. Cardinality(a .. b) = IF a > b THEN 0 ELSE b - a + 1
    BY FS_Interval
  <2>2. a > b => b - a + 1 = 0
    OBVIOUS
  <2> QED BY <2>1, <2>2, FS_Interval
<1>2. IsFiniteSet(S) /\ Cardinality(S) <= Cardinality(a .. b)
  BY <1>1, FS_Subset
<1> QED BY <1>1, <1>2, FS_CardinalityType

Bursts(p) == \A t \in 0 .. MaxTime : Cardinality(Windows!Span(p, t)) < 2 * Limit

Times == 0 .. MaxTime

LEMMA Appended ==
    ASSUME NEW p \in Seq(Times), NEW x \in Times
    PROVE  LET r == Append(p, x)
               n == Len(p)
           IN  /\ r \in Seq(Times) /\ Len(r) = n + 1 /\ n \in Nat
               /\ DOMAIN p = 1 .. n /\ DOMAIN r = 1 .. (n + 1)
               /\ r[n + 1] = x /\ \A i \in 1 .. n : r[i] = p[i]
               /\ \A i \in 1 .. n : p[i] \in Int /\ p[i] >= 0
               /\ x \in Int /\ x >= 0
BY WindowConstants DEF Times

(* Outside the span nothing changes.                                       *)
LEMMA Outside ==
    ASSUME NEW p \in Seq(Times), NEW x \in Times, NEW t \in Times,
           ~(x >= t /\ x < t + Window /\ x + Skew <= t + Window)
    PROVE  Windows!Span(Append(p, x), t) = Windows!Span(p, t)
<1> DEFINE r == Append(p, x)
           n == Len(p)
<1>1. /\ DOMAIN p = 1 .. n /\ DOMAIN r = 1 .. (n + 1) /\ n \in Nat
      /\ r[n + 1] = x /\ \A i \in 1 .. n : r[i] = p[i]
  BY Appended
<1> HIDE DEF r, n
<1>2. Windows!Span(r, t) = Windows!Span(p, t)
  BY <1>1 DEF Windows!Span
<1> QED BY <1>2 DEF r

(* The first admission of a client.                                        *)
LEMMA FirstPasses ==
    ASSUME NEW x \in Times
    PROVE  Windows!Block(Append(<<>>, x), x, 1) /\ Bursts(Append(<<>>, x))
<1> DEFINE r == Append(<<>>, x)
<1>1. DOMAIN r = 1 .. 1 /\ Len(r) = 1 /\ r[1] = x /\ x \in Int
  BY DEF Times
<1> HIDE DEF r
<1>2. Windows!Block(r, x, 1)
  <2>1. \A i \in DOMAIN r : i = 1 /\ r[i] = x
    BY <1>1
  <2> QED BY <1>1, <2>1, WindowConstants DEF Windows!Block
<1>3. Bursts(r)
  <2> SUFFICES ASSUME NEW t \in Times PROVE Cardinality(Windows!Span(r, t)) < 2 * Limit
    BY DEF Bursts, Times
  <2>1. Windows!Span(r, t) \subseteq 1 .. 1
    BY <1>1 DEF Windows!Span
  <2>2. Cardinality(Windows!Span(r, t)) \in Nat /\ Cardinality(Windows!Span(r, t)) <= 1
    <3>1. 1 >= 1 - 1 /\ 1 - 1 + 1 = 1 /\ 1 \in Int
      OBVIOUS
    <3>2. /\ Cardinality(Windows!Span(r, t)) \in Nat
          /\ Cardinality(Windows!Span(r, t)) <= 1 - 1 + 1
      BY <2>1, <3>1, Within
    <3> QED BY <3>1, <3>2
  <2> QED BY <2>2, WindowConstants
<1> QED BY <1>2, <1>3 DEF r

(* A window that begins a window's length after the last: of a span that it
   is in the last one has only late admissions, no opening.                *)
LEMMA RenewPasses ==
    ASSUME NEW p \in Seq(Times), NEW s \in Times, NEW u \in 1 .. Limit, NEW x \in Times,
           x >= s + Window, Windows!Block(p, s, u), Bursts(p)
    PROVE  Windows!Block(Append(p, x), x, 1) /\ Bursts(Append(p, x))
<1> DEFINE r == Append(p, x)
           n == Len(p)
<1>1. /\ DOMAIN p = 1 .. n /\ DOMAIN r = 1 .. (n + 1) /\ n \in Nat /\ Len(r) = n + 1
      /\ r[n + 1] = x /\ \A i \in 1 .. n : r[i] = p[i]
      /\ x \in Int /\ \A i \in 1 .. n : p[i] \in Int
  BY Appended
<1>s. s \in Int /\ u \in Nat /\ u >= 1 /\ u <= Limit
  BY WindowConstants DEF Times
<1>2. /\ n - u >= 0 /\ p[n - u + 1] = s
      /\ \A i \in 1 .. n : p[i] < s + Window /\ (i <= n - u => p[i] < s)
  BY <1>1 DEF Windows!Block
<1>3. \A i \in 1 .. n : i <= n - u + 1 => p[i] <= s
  BY <1>1, <1>2, <1>s
<1> HIDE DEF r, n
<1>4. Windows!Block(r, x, 1)
  <2>1. (n + 1) - 1 = n
    BY <1>1
  <2>2. ASSUME NEW i \in 1 .. n + 1
        PROVE  /\ r[i] < x + Window
               /\ i <= n => r[i] < x
               /\ i <= n - Limit + 1 => r[i] + Window <= x
               /\ i <= n - Limit => r[i] + Window < x
    <3>1. CASE i = n + 1
      BY <1>1, <3>1, WindowConstants
    <3>2. CASE i <= n
      <4>1. i \in 1 .. n /\ r[i] = p[i] /\ p[i] \in Int
        BY <1>1, <3>2
      <4>2. p[i] < s + Window /\ (i <= n - u => p[i] < s) /\ (i <= n - u + 1 => p[i] <= s)
        BY <1>2, <1>3, <4>1
      <4> QED BY <1>1, <1>s, <4>1, <4>2, WindowConstants
    <3> QED BY <1>1, <3>1, <3>2
  <2> QED BY <1>1, <2>1, <2>2 DEF Windows!Block
<1>5. Bursts(r)
  <2> SUFFICES ASSUME NEW t \in Times PROVE Cardinality(Windows!Span(r, t)) < 2 * Limit
    BY DEF Bursts, Times
  <2>1. CASE ~(x >= t /\ x < t + Window /\ x + Skew <= t + Window)
    BY <2>1, Outside DEF Bursts, Times, r
  <2>2. CASE x < t + Window
    <3>1. Windows!Span(r, t) \subseteq (n - u + 2) .. (n + 1)
      <4> SUFFICES ASSUME NEW i \in 1 .. n + 1, r[i] >= t PROVE i \in (n - u + 2) .. (n + 1)
        BY <1>1 DEF Windows!Span
      <4>1. CASE i = n + 1
        BY <1>1, <1>s, <4>1
      <4>2. CASE i <= n
        <5>1. i \in 1 .. n /\ p[i] >= t /\ p[i] \in Int /\ t \in Int
          BY <1>1, <4>2 DEF Times
        <5>2. ~(i <= n - u + 1)
          BY <1>3, <1>1, <1>s, <2>2, <5>1, WindowConstants
        <5> QED BY <1>1, <1>s, <5>1, <5>2
      <4> QED BY <1>1, <4>1, <4>2
    <3>2. /\ n - u + 2 \in Int /\ n + 1 \in Int /\ n + 1 >= (n - u + 2) - 1
          /\ (n + 1) - (n - u + 2) + 1 = u
      BY <1>1, <1>s
    <3>3. Cardinality(Windows!Span(r, t)) \in Nat /\ Cardinality(Windows!Span(r, t)) <= u
      BY <3>1, <3>2, Within
    <3> QED BY <1>s, <3>3, WindowConstants
  <2> QED BY <2>1, <2>2
<1> QED BY <1>4, <1>5 DEF r

(* Another admission of the open window: a span with it and a late one of it
   reaches back to the window before, of which it cannot have everything and
   the opening of this one, and no further.                                *)
LEMMA CountPasses ==
    ASSUME NEW p \in Seq(Times), NEW s \in Times, NEW u \in 1 .. Limit, NEW x \in Times,
           u < Limit, x < s + Window, x + Skew >= s, Windows!Block(p, s, u), Bursts(p)
    PROVE  Windows!Block(Append(p, x), s, u + 1) /\ Bursts(Append(p, x))
<1> DEFINE r == Append(p, x)
           n == Len(p)
           m == n - u
<1>1. /\ DOMAIN p = 1 .. n /\ DOMAIN r = 1 .. (n + 1) /\ n \in Nat /\ Len(r) = n + 1
      /\ r[n + 1] = x /\ \A i \in 1 .. n : r[i] = p[i]
      /\ x \in Int /\ \A i \in 1 .. n : p[i] \in Int
  BY Appended
<1>s. s \in Int /\ u \in Nat /\ u >= 1 /\ u <= Limit
  BY WindowConstants DEF Times
<1>2. /\ m >= 0 /\ p[m + 1] = s
      /\ \A i \in 1 .. n :
            /\ p[i] < s + Window
            /\ i <= m => p[i] < s
            /\ i <= m - Limit + 1 => p[i] + Window <= s
            /\ i <= m - Limit => p[i] + Window < s
  BY <1>1 DEF Windows!Block
<1>m. m \in Nat /\ (n + 1) - (u + 1) = m /\ n = m + u /\ m + 1 \in 1 .. n
  BY <1>1, <1>2, <1>s
<1> HIDE DEF r, n, m
<1>4. Windows!Block(r, s, u + 1)
  <2>2. ASSUME NEW i \in 1 .. n + 1
        PROVE  /\ r[i] < s + Window
               /\ i <= m => r[i] < s
               /\ i <= m - Limit + 1 => r[i] + Window <= s
               /\ i <= m - Limit => r[i] + Window < s
    <3>1. CASE i = n + 1
      BY <1>1, <1>m, <1>s, <3>1, WindowConstants
    <3>2. CASE i <= n
      <4>1. i \in 1 .. n /\ r[i] = p[i]
        BY <1>1, <3>2
      <4> QED BY <1>2, <4>1
    <3> QED BY <1>1, <3>1, <3>2
  <2>3. r[m + 1] = s
    BY <1>1, <1>2, <1>m
  <2> QED BY <1>1, <1>m, <2>2, <2>3 DEF Windows!Block
<1>5. Bursts(r)
  <2> SUFFICES ASSUME NEW t \in Times PROVE Cardinality(Windows!Span(r, t)) < 2 * Limit
    BY DEF Bursts, Times
  <2> DEFINE S == Windows!Span(r, t)
  <2>t. t \in Int
    BY DEF Times
  <2>1. CASE ~(x >= t /\ x < t + Window /\ x + Skew <= t + Window)
    BY <2>1, Outside DEF Bursts, Times, r
  <2>2. CASE x + Skew <= t + Window
    <3>0. s <= t + Window
      BY <1>1, <1>s, <2>2, <2>t, WindowConstants
    <3>1. S \subseteq 1 .. n + 1 /\ \A i \in S : i > m - Limit
      <4> SUFFICES ASSUME NEW i \in 1 .. n + 1, r[i] >= t PROVE i > m - Limit
        BY <1>1 DEF Windows!Span
      <4>1. CASE i = n + 1
        BY <1>m, <1>s, <4>1, WindowConstants
      <4>2. CASE i <= n
        <5>1. i \in 1 .. n /\ p[i] >= t /\ p[i] \in Int
          BY <1>1, <4>2
        <5>2. ~(p[i] + Window < s)
          BY <1>s, <2>t, <3>0, <5>1, WindowConstants
        <5> QED BY <1>2, <1>m, <5>1, <5>2, WindowConstants
      <4> QED BY <1>1, <4>1, <4>2
    <3>2. CASE m - Limit + 1 <= 0
      <4>1. Cardinality(S) \in Nat /\ Cardinality(S) <= (n + 1) - 1 + 1
        <5>1. 1 \in Int /\ n + 1 \in Int /\ n + 1 >= 1 - 1
          BY <1>1
        <5> HIDE DEF S
        <5> QED BY <3>1, <5>1, Within
      <4> HIDE DEF S
      <4>2. Cardinality(S) < 2 * Limit
        BY <1>m, <1>s, <3>2, <4>1, WindowConstants
      <4> QED BY <4>2 DEF S
    <3>3. CASE m - Limit + 1 >= 1
      <4> DEFINE a == m - Limit + 1
      <4>a. a \in 1 .. n /\ m + 1 \in 1 .. n /\ a # m + 1
        BY <1>1, <1>m, <1>s, <3>3, WindowConstants
      <4>1. ~(a \in S /\ m + 1 \in S)
        <5>1. p[a] + Window <= s
          BY <1>2, <4>a
        <5>2. r[a] = p[a] /\ r[m + 1] = s /\ p[a] \in Int
          BY <1>1, <1>2, <4>a
        <5> HIDE DEF a
        <5>3. r[a] >= t /\ r[m + 1] < t + Window => FALSE
          BY <1>s, <2>t, <5>1, <5>2, WindowConstants
        <5> QED BY <5>3 DEF Windows!Span
      <4>2. S \subseteq a .. (n + 1)
        <5> HIDE DEF S
        <5> QED BY <1>m, <1>1, <3>1, WindowConstants
      <4>3. /\ IsFiniteSet(a .. (n + 1))
            /\ Cardinality(a .. (n + 1)) = u + 1 + Limit
        <5>1. a \in Int /\ n + 1 \in Int /\ a <= n + 1 /\ (n + 1) - a + 1 = u + 1 + Limit
          BY <1>1, <1>m, <1>s, <4>a, WindowConstants
        <5> HIDE DEF a
        <5> QED BY <5>1, FS_Interval
      <4>4. a \in a .. (n + 1) /\ m + 1 \in a .. (n + 1)
        BY <1>1, <1>m, <4>a, WindowConstants
      <4> HIDE DEF a, S
      <4>5. S # a .. (n + 1)
        BY <4>1, <4>4
      <4>6. Cardinality(S) \in Nat /\ Cardinality(S) < u + 1 + Limit
        <5>1. S \in SUBSET (a .. (n + 1))
          BY <4>2
        <5>2. /\ IsFiniteSet(S) /\ Cardinality(S) <= Cardinality(a .. (n + 1))
              /\ Cardinality(a .. (n + 1)) # Cardinality(S)
          BY <4>3, <4>5, <5>1, FS_Subset
        <5>3. Cardinality(S) \in Nat
          BY <5>2, FS_CardinalityType
        <5> QED BY <1>s, <4>3, <5>2, <5>3, WindowConstants
      <4>7. Cardinality(S) < 2 * Limit
        BY <1>s, <4>6, WindowConstants
      <4> QED BY <4>7 DEF S
    <3> QED BY <1>m, <3>2, <3>3, WindowConstants
  <2> QED BY <2>1, <2>2
<1> QED BY <1>4, <1>5 DEF r

(***************************************************************************)
(* The steps.  The map and its queue, and the histories.                   *)
(***************************************************************************)

Windowed == [start : 0 .. MaxTime, used : 1 .. Limit]

MapKept ==
    /\ IsFiniteSet(DOMAIN windows) /\ DOMAIN windows \subseteq Clients
    /\ Cardinality(DOMAIN windows) <= Tracked
    /\ windows \in [DOMAIN windows -> Windowed]
    /\ opened \in Seq(Entries) /\ Len(opened) <= 2 * Tracked
    /\ Queued(windows, opened)

HistoryKept ==
    /\ now \in Times
    /\ \A c \in DOMAIN windows :
          /\ windows[c].start <= now
          /\ Windows!Block(passed[c], windows[c].start, windows[c].used)
    /\ passed \in [Clients -> Seq(Times)]
    /\ \A c \in Clients :
          Bursts(passed[c]) /\ (c \notin DOMAIN windows => passed[c] = <<>>)

LEMMA WindowParts == MapKept /\ HistoryKept <=> Windows!IndInv
<1>1. ASSUME NEW S
      PROVE  Windows!Cardinality(S) = Cardinality(S) /\ (Windows!IsFiniteSet(S) <=> IsFiniteSet(S))
  BY SameCount
<1>2. ASSUME MapKept, HistoryKept PROVE Windows!IndInv
  <2>1. Windows!TypeOK
    <3>1. \A c \in DOMAIN windows : windows[c].start \in 0 .. MaxTime /\ windows[c].used \in 1 .. Limit
      BY <1>2 DEF MapKept, Windowed
    <3>2. \A i \in DOMAIN opened : opened[i] \in Entries
      BY <1>2 DEF MapKept
    <3>3. \A i \in DOMAIN opened : opened[i].start \in 0 .. MaxTime /\ opened[i].client \in Clients
      BY <3>2 DEF Entries
    <3> QED BY <1>2, <3>1, <3>3 DEF MapKept, HistoryKept, Times, Windows!TypeOK
  <2>2. Windows!Kept
    <3>1. windows \in [DOMAIN windows -> [start : 0 .. now, used : 1 .. Limit]]
      <4>1. ASSUME NEW c \in DOMAIN windows
            PROVE  windows[c] \in [start : 0 .. now, used : 1 .. Limit]
        <5>1. windows[c] \in Windowed /\ windows[c].start <= now /\ now \in Times
          BY <1>2 DEF MapKept, HistoryKept
        <5> QED BY <5>1, WindowConstants DEF Windowed, Times
      <4>2. windows = [c \in DOMAIN windows |-> windows[c]]
        BY <1>2 DEF MapKept
      <4> QED BY <4>1, <4>2
    <3> QED BY <1>1, <1>2, <3>1 DEF MapKept, HistoryKept, Windows!Kept, Entries, Times
  <2>3. Windows!Bounded /\ Windows!Evictable
    BY <1>1, <1>2 DEF MapKept, Windows!Bounded, Windows!Evictable, Queued, Opening
  <2>4. Windows!Blocks /\ Windows!Burst
    BY <1>1, <1>2 DEF HistoryKept, Windows!Blocks, Windows!Burst, Bursts
  <2> QED BY <2>1, <2>2, <2>3, <2>4 DEF Windows!IndInv
<1>3. ASSUME Windows!IndInv PROVE MapKept /\ HistoryKept
  <2>1. windows \in [DOMAIN windows -> Windowed] /\ now \in Times
        /\ \A c \in DOMAIN windows : windows[c].start <= now
    <3>1. now \in 0 .. MaxTime /\ windows \in [DOMAIN windows -> [start : 0 .. now, used : 1 .. Limit]]
      BY <1>3 DEF Windows!IndInv, Windows!Kept, Windows!TypeOK
    <3>2. 0 .. now \subseteq 0 .. MaxTime
      BY <3>1, WindowConstants
    <3>3. ASSUME NEW c \in DOMAIN windows PROVE windows[c] \in Windowed /\ windows[c].start <= now
      BY <3>1, <3>2, WindowConstants DEF Windowed
    <3>4. windows = [c \in DOMAIN windows |-> windows[c]]
      BY <3>1
    <3> QED BY <3>1, <3>3, <3>4 DEF Times
  <2>2. MapKept
    BY <1>1, <1>3, <2>1 DEF Windows!IndInv, Windows!TypeOK, Windows!Kept, Windows!Bounded,
       Windows!Evictable, MapKept, Entries, Queued, Opening
  <2>3. HistoryKept
    BY <1>1, <1>3, <2>1 DEF Windows!IndInv, Windows!Kept, Windows!Blocks, Windows!Burst,
       HistoryKept, Bursts, Times
  <2> QED BY <2>2, <2>3
<1> QED BY <1>2, <1>3

LEMMA NothingPassed == Bursts(<<>>)
<1> SUFFICES ASSUME NEW t \in Times PROVE Cardinality(Windows!Span(<<>>, t)) < 2 * Limit
  BY DEF Bursts, Times
<1>1. Windows!Span(<<>>, t) = {}
  BY DEF Windows!Span
<1>2. Cardinality(Windows!Span(<<>>, t)) = 0
  BY <1>1, FS_EmptySet, Zenon
<1>3. 0 < 2 * Limit
  BY WindowConstants
<1> QED BY <1>2, <1>3

LEMMA WindowInit == Windows!Init => MapKept /\ HistoryKept
<1> SUFFICES ASSUME Windows!Init PROVE MapKept /\ HistoryKept
  OBVIOUS
<1>1. DOMAIN windows = {} /\ opened = <<>> /\ now = 0 /\ passed = [c \in Clients |-> <<>>]
  BY DEF Windows!Init
<1>2. MapKept
  <2>1. IsFiniteSet({}) /\ Cardinality({}) = 0
    BY FS_EmptySet
  <2>2. windows \in [{} -> Windowed]
    BY DEF Windows!Init
  <2>3. opened \in Seq(Entries) /\ Len(opened) = 0
    BY <1>1
  <2> QED BY <1>1, <2>1, <2>2, <2>3, WindowConstants DEF MapKept, Queued
<1>4. HistoryKept
  BY <1>1, NothingPassed, WindowConstants DEF HistoryKept, Times
<1> QED BY <1>2, <1>4

LEMMA TickKeeps ==
    ASSUME MapKept, HistoryKept, Windows!Tick
    PROVE  MapKept' /\ HistoryKept'
<1>1. UNCHANGED <<windows, opened, passed>> /\ now' = now + 1 /\ now' \in Times /\ now \in Times
  BY WindowConstants DEF Windows!Tick, HistoryKept, Times
<1>2. MapKept'
  BY <1>1 DEF MapKept
<1>3. \A c \in DOMAIN windows : windows[c].start \in Int /\ windows[c].start <= now
  BY DEF MapKept, HistoryKept, Windowed
<1>4. \A c \in DOMAIN windows : windows[c].start <= now + 1
  BY <1>1, <1>3, WindowConstants DEF Times
<1>5. HistoryKept'
  BY <1>1, <1>4 DEF HistoryKept
<1> QED BY <1>2, <1>5

(* One more admission of an open window.                                   *)
LEMMA CountKeeps ==
    ASSUME MapKept, HistoryKept, NEW c \in DOMAIN windows, NEW t \in Times,
           t <= now, t + Skew >= now, Windows!Since(t, windows[c].start) < Window,
           Windows!Count(c, t), UNCHANGED now
    PROVE  MapKept' /\ HistoryKept'
<1> DEFINE s == windows[c].start
           u == windows[c].used
<1>0. /\ c \in Clients /\ windows[c] \in Windowed /\ s \in Times /\ u \in 1 .. Limit
      /\ windows \in [DOMAIN windows -> Windowed]
      /\ now \in Times /\ s <= now /\ Windows!Block(passed[c], s, u)
      /\ passed \in [Clients -> Seq(Times)] /\ passed[c] \in Seq(Times) /\ Bursts(passed[c])
  BY DEF MapKept, HistoryKept, Windowed, Times
<1>1. CASE u >= Limit
  <2>1. UNCHANGED <<now, windows, opened, passed>>
    BY <1>1 DEF Windows!Count
  <2> QED BY <2>1 DEF MapKept, HistoryKept
<1>2. CASE u < Limit
  <2>1. /\ windows' = [windows EXCEPT ![c].used = u + 1]
        /\ passed' = [passed EXCEPT ![c] = Append(passed[c], t)]
        /\ opened' = opened
    <3>1. ~(u >= Limit)
      BY <1>0, <1>2, WindowConstants
    <3> QED BY <3>1 DEF Windows!Count
  <2>2. u + 1 \in 1 .. Limit
    BY <1>0, <1>2, WindowConstants
  <2>3. /\ DOMAIN windows' = DOMAIN windows
        /\ windows'[c] = [windows[c] EXCEPT !.used = u + 1]
        /\ \A d \in DOMAIN windows : d # c => windows'[d] = windows[d]
    BY <1>0, <2>1
  <2>4. windows'[c].start = s /\ windows'[c].used = u + 1 /\ windows'[c] \in Windowed
    BY <1>0, <2>2, <2>3 DEF Windowed
  <2>5. windows' \in [DOMAIN windows -> Windowed]
    <3>1. \A d \in DOMAIN windows : windows'[d] \in Windowed
      BY <1>0, <2>3, <2>4
    <3>2. windows' = [d \in DOMAIN windows |-> windows'[d]]
      BY <1>0, <2>1, <2>3
    <3> QED BY <3>1, <3>2
  <2>6. \A d \in DOMAIN windows : windows'[d].start = windows[d].start
    BY <2>3, <2>4
  <2>7. MapKept'
    BY <2>1, <2>3, <2>5, <2>6 DEF MapKept, Queued, Opening
  <2>8. t < s + Window /\ t + Skew >= s
    BY <1>0, WindowConstants DEF Windows!Since, Times
  <2>9. Windows!Block(Append(passed[c], t), s, u + 1) /\ Bursts(Append(passed[c], t))
    <3> HIDE DEF s, u
    <3> QED BY <1>0, <1>2, <2>8, CountPasses
  <2>10. /\ passed'[c] = Append(passed[c], t) /\ passed'[c] \in Seq(Times)
         /\ \A d \in Clients : d # c => passed'[d] = passed[d]
         /\ passed' \in [Clients -> Seq(Times)]
    BY <1>0, <2>1
  <2>11. ASSUME NEW d \in DOMAIN windows
         PROVE  /\ windows'[d].start <= now
                /\ Windows!Block(passed'[d], windows'[d].start, windows'[d].used)
    <3>1. CASE d = c
      BY <1>0, <2>4, <2>9, <2>10, <3>1
    <3>2. CASE d # c
      BY <2>3, <2>10, <3>2 DEF HistoryKept, MapKept
    <3> QED BY <3>1, <3>2
  <2>12. HistoryKept'
    <3>1. \A d \in Clients : Bursts(passed'[d]) /\ (d \notin DOMAIN windows => passed'[d] = <<>>)
      BY <2>9, <2>10 DEF HistoryKept
    <3>2. now' = now
      OBVIOUS
    <3> QED BY <1>0, <2>3, <2>10, <2>11, <3>1, <3>2 DEF HistoryKept
  <2> QED BY <2>7, <2>12
<1> QED BY <1>0, <1>1, <1>2, WindowConstants

(* A new window for a client, after another may have been evicted (gone).  *)
LEMMA HistoryOpens ==
    ASSUME MapKept, HistoryKept, NEW c \in Clients, NEW t \in Times, t <= now,
           NEW gone \in SUBSET (DOMAIN windows \ {c}),
           c \in DOMAIN windows => t >= windows[c].start + Window,
           DOMAIN windows' = (DOMAIN windows \ gone) \cup {c},
           windows'[c] = [start |-> t, used |-> 1],
           \A d \in DOMAIN windows \ (gone \cup {c}) : windows'[d] = windows[d],
           passed' = [d \in Clients |-> IF d = c THEN Append(passed[d], t)
                                        ELSE IF d \in gone THEN <<>> ELSE passed[d]],
           UNCHANGED now
    PROVE  HistoryKept'
<1>0. /\ passed \in [Clients -> Seq(Times)] /\ passed[c] \in Seq(Times) /\ now \in Times
      /\ DOMAIN windows \subseteq Clients
  BY DEF MapKept, HistoryKept
<1>1. Windows!Block(Append(passed[c], t), t, 1) /\ Bursts(Append(passed[c], t))
  <2>1. CASE c \in DOMAIN windows
    <3> DEFINE s == windows[c].start
               u == windows[c].used
    <3>1. /\ s \in Times /\ u \in 1 .. Limit /\ t >= s + Window
          /\ Windows!Block(passed[c], s, u) /\ Bursts(passed[c])
      BY <2>1 DEF MapKept, HistoryKept, Windowed, Times
    <3> HIDE DEF s, u
    <3> QED BY <1>0, <3>1, RenewPasses
  <2>2. CASE c \notin DOMAIN windows
    <3>1. passed[c] = <<>>
      BY <2>2 DEF HistoryKept
    <3> QED BY <3>1, FirstPasses
  <2> QED BY <2>1, <2>2
<1>2. Append(passed[c], t) \in Seq(Times) /\ <<>> \in Seq(Times)
  BY <1>0
<1>3. passed' \in [Clients -> Seq(Times)]
  <2>1. \A d \in Clients : passed[d] \in Seq(Times)
    BY <1>0
  <2> QED BY <1>2, <2>1
<1>5. ASSUME NEW d \in Clients
      PROVE  Bursts(passed'[d]) /\ (d \notin DOMAIN windows' => passed'[d] = <<>>)
  <2>1. CASE d = c
    BY <1>1, <2>1
  <2>2. CASE d # c /\ d \in gone
    BY <2>2, NothingPassed
  <2>3. CASE d # c /\ d \notin gone
    <3>1. passed'[d] = passed[d] /\ (d \notin DOMAIN windows' => d \notin DOMAIN windows)
      BY <2>3
    <3> QED BY <3>1 DEF HistoryKept
  <2> QED BY <2>1, <2>2, <2>3
<1>6. ASSUME NEW d \in DOMAIN windows'
      PROVE  /\ windows'[d].start <= now
             /\ Windows!Block(passed'[d], windows'[d].start, windows'[d].used)
  <2>1. CASE d = c
    BY <1>1, <2>1
  <2>2. CASE d # c
    <3>1. d \in DOMAIN windows \ (gone \cup {c}) /\ d \in Clients
      BY <1>0, <2>2
    <3>2. passed'[d] = passed[d] /\ windows'[d] = windows[d]
      BY <3>1
    <3> QED BY <3>1, <3>2 DEF HistoryKept
  <2> QED BY <2>1, <2>2
<1>7. now' \in Times /\ \A d \in DOMAIN windows' : windows'[d].start <= now'
  BY <1>0, <1>6
<1> QED BY <1>3, <1>5, <1>6, <1>7 DEF HistoryKept

LEMMA RenewKeeps ==
    ASSUME MapKept, HistoryKept, NEW c \in DOMAIN windows, NEW t \in Times,
           t <= now, ~(Windows!Since(t, windows[c].start) < Window),
           Windows!Renew(c, t), UNCHANGED now
    PROVE  MapKept' /\ HistoryKept'
<1> DEFINE D == DOMAIN windows
           v == [start |-> t, used |-> 1]
<1>0. /\ IsFiniteSet(D) /\ D \subseteq Clients /\ Cardinality(D) <= Tracked
      /\ windows \in [D -> Windowed] /\ opened \in Seq(Entries)
      /\ \A d \in D : \E i \in DOMAIN opened : opened[i] = Opening(windows, d)
      /\ passed \in [Clients -> Seq(Times)] /\ c \in Clients /\ windows[c].start \in Times
      /\ D \cup {c} = D
  BY DEF MapKept, HistoryKept, Queued, Windowed, Times
<1>1. t >= windows[c].start + Window
  BY <1>0, WindowConstants DEF Windows!Since, Times
<1>2. windows' = [windows EXCEPT ![c] = v]
  BY DEF Windows!Renew
<1>3. windows' = Windows!Put(windows, c, v)
  BY <1>0, <1>2 DEF Windows!Put
<1>4. opened' = Windows!Compact(windows', Append(opened, [start |-> t, client |-> c]))
  BY DEF Windows!Renew
<1>5. /\ windows' \in [D -> Windowed]
      /\ opened' \in Seq(Entries) /\ Len(opened') <= 2 * Tracked /\ Queued(windows', opened')
  <2>1. LET x == Windows!Put(windows, c, [start |-> t, used |-> 1])
            r == Windows!Compact(x, Append(opened, [start |-> t, client |-> c]))
        IN  /\ x \in [D \cup {c} -> Windowed]
            /\ r \in Seq(Entries) /\ Len(r) <= 2 * Tracked /\ Queued(x, r)
    <3>1. /\ t \in 0 .. MaxTime /\ Cardinality(D \cup {c}) <= Tracked
          /\ \A d \in D \ {c} : \E i \in DOMAIN opened : opened[i] = Opening(windows, d)
      BY <1>0 DEF Times
    <3>2. IsFiniteSet(D) /\ D \subseteq Clients /\ c \in Clients
      BY <1>0
    <3>3. /\ windows \in [D -> [start : 0 .. MaxTime, used : 1 .. Limit]]
          /\ opened \in Seq(Entries)
      BY <1>0 DEF Windowed
    <3> HIDE DEF D
    <3> QED BY <3>1, <3>2, <3>3, PutKeeps DEF Windowed
  <2> HIDE DEF D
  <2> QED BY <1>0, <1>3, <1>4, <2>1
<1>6. DOMAIN windows' = D
  BY <1>2
<1>7. MapKept'
  BY <1>0, <1>5, <1>6 DEF MapKept
<1>8. HistoryKept'
  <2>1. windows'[c] = v /\ \A d \in D \ ({} \cup {c}) : windows'[d] = windows[d]
    BY <1>0, <1>2
  <2>2. passed' = [d \in Clients |-> IF d = c THEN Append(passed[d], t)
                                     ELSE IF d \in {} THEN <<>> ELSE passed[d]]
    BY <1>0 DEF Windows!Renew
  <2>3. DOMAIN windows' = (DOMAIN windows \ {}) \cup {c} /\ {} \in SUBSET (DOMAIN windows \ {c})
    BY <1>0, <1>6
  <2> QED BY <1>0, <1>1, <2>1, <2>2, <2>3, HistoryOpens
<1> QED BY <1>7, <1>8

LEMMA OpenKeeps ==
    ASSUME MapKept, HistoryKept, NEW c \in Clients \ DOMAIN windows, NEW t \in Times,
           t <= now, Windows!Open(c, t), UNCHANGED now
    PROVE  MapKept' /\ HistoryKept'
<1> DEFINE D == DOMAIN windows
           v == [start |-> t, used |-> 1]
           full == Cardinality(D) >= Tracked
           after == IF full THEN Windows!Evict
                    ELSE [windows |-> windows, opened |-> opened, gone |-> {}]
<1>0. /\ IsFiniteSet(D) /\ D \subseteq Clients /\ Cardinality(D) <= Tracked
      /\ Cardinality(D) \in Nat
      /\ windows \in [D -> Windowed] /\ opened \in Seq(Entries)
      /\ Queued(windows, opened) /\ c \notin D /\ t \in 0 .. MaxTime
  BY FS_CardinalityType DEF MapKept, Times
<1>1. /\ windows' = Windows!Put(after.windows, c, v)
      /\ opened' = Windows!Compact(windows', Append(after.opened, [start |-> t, client |-> c]))
      /\ passed' = [d \in Clients |-> IF d = c THEN Append(passed[d], t)
                                       ELSE IF d \in after.gone THEN <<>> ELSE passed[d]]
  <2>1. Windows!Cardinality(D) = Cardinality(D)
    BY SameCount
  <2> QED BY <2>1 DEF Windows!Open
<1>2. \E gone \in SUBSET D, q \in Seq(Entries) :
         /\ after.gone = gone /\ after.opened = q
         /\ after.windows = [d \in D \ gone |-> windows[d]]
         /\ \A d \in D \ gone : \E i \in DOMAIN q : q[i] = Opening(windows, d)
         /\ Cardinality(D \ gone) < Tracked /\ Cardinality(D \ gone) \in Nat
  <2>1. CASE full
    <3>1. D # {}
      BY <1>0, <2>1, FS_EmptySet, WindowConstants
    <3>2. PICK x \in D, q \in Seq(Entries) :
            /\ Windows!Evict = [windows |-> Windows!Drop(windows, x), opened |-> q, gone |-> {x}]
            /\ \A d \in D \ {x} : \E i \in DOMAIN q : q[i] = Opening(windows, d)
      <4> HIDE DEF D
      <4> QED BY <1>0, <3>1, EvictKeeps DEF Windowed
    <3>3. Cardinality(D \ {x}) = Cardinality(D) - 1
      BY <1>0, FS_RemoveElement
    <3>4. Cardinality(D \ {x}) < Tracked /\ Cardinality(D \ {x}) \in Nat
      <4>1. Cardinality(D) > 0
        BY <1>0, <2>1, WindowConstants
      <4> QED BY <1>0, <3>3, <4>1, WindowConstants
    <3>5. /\ after.gone = {x} /\ after.opened = q
          /\ after.windows = [d \in D \ {x} |-> windows[d]]
      BY <2>1, <3>2 DEF Windows!Drop
    <3> HIDE DEF after, D
    <3> QED BY <3>2, <3>4, <3>5
  <2>2. CASE ~full
    <3>1. /\ after.gone = {} /\ after.opened = opened /\ after.windows = windows
      BY <2>2
    <3>2. D \ {} = D /\ windows = [d \in D |-> windows[d]] /\ Cardinality(D) < Tracked
      BY <1>0, <2>2, WindowConstants
    <3>3. \A d \in D : \E i \in DOMAIN opened : opened[i] = Opening(windows, d)
      BY <1>0 DEF Queued
    <3> HIDE DEF after, D
    <3> QED BY <1>0, <3>1, <3>2, <3>3
  <2> QED BY <2>1, <2>2
<1> HIDE DEF after, D
<1>3. PICK gone \in SUBSET D, q \in Seq(Entries) :
         /\ after.gone = gone /\ after.opened = q
         /\ after.windows = [d \in D \ gone |-> windows[d]]
         /\ \A d \in D \ gone : \E i \in DOMAIN q : q[i] = Opening(windows, d)
         /\ Cardinality(D \ gone) < Tracked /\ Cardinality(D \ gone) \in Nat
  BY <1>2
<1> DEFINE E == D \ gone
           w == [d \in E |-> windows[d]]
<1>4. /\ IsFiniteSet(E) /\ E \subseteq Clients /\ c \notin E /\ w \in [E -> Windowed]
      /\ \A d \in E \ {c} : \E i \in DOMAIN q : q[i] = Opening(w, d)
  <2>1. IsFiniteSet(E)
    BY <1>0, FS_Subset
  <2>2. \A d \in E : Opening(w, d) = Opening(windows, d)
    BY DEF Opening
  <2>3. w \in [E -> Windowed]
    BY <1>0
  <2> QED BY <1>0, <1>3, <2>1, <2>2, <2>3
<1>5. IsFiniteSet(E \cup {c}) /\ Cardinality(E \cup {c}) <= Tracked
  <2>1. IsFiniteSet(E \cup {c}) /\ Cardinality(E \cup {c}) = Cardinality(E) + 1
    BY <1>4, FS_AddElement
  <2> QED BY <1>3, <2>1, WindowConstants
<1>6. LET x == Windows!Put(w, c, [start |-> t, used |-> 1])
          r == Windows!Compact(x, Append(q, [start |-> t, client |-> c]))
      IN  /\ x \in [E \cup {c} -> Windowed]
          /\ r \in Seq(Entries) /\ Len(r) <= 2 * Tracked /\ Queued(x, r)
  <2> HIDE DEF E, w
  <2> QED BY <1>0, <1>4, <1>5, PutKeeps DEF Windowed
<1>7. windows' = Windows!Put(w, c, v)
      /\ opened' = Windows!Compact(windows', Append(q, [start |-> t, client |-> c]))
  BY <1>1, <1>3
<1>8. /\ windows' \in [E \cup {c} -> Windowed]
      /\ opened' \in Seq(Entries) /\ Len(opened') <= 2 * Tracked /\ Queued(windows', opened')
  <2> HIDE DEF E, w
  <2> QED BY <1>6, <1>7
<1>9. MapKept'
  <2>1. DOMAIN windows' = E \cup {c}
    BY <1>8
  <2>2. E \cup {c} \subseteq Clients
    BY <1>4
  <2> HIDE DEF E
  <2> QED BY <1>5, <1>8, <2>1, <2>2 DEF MapKept
<1>10. HistoryKept'
  <2>1. windows' = [d \in E \cup {c} |-> IF d = c THEN v ELSE w[d]]
    BY <1>7 DEF Windows!Put
  <2>2. /\ DOMAIN windows' = (D \ gone) \cup {c} /\ windows'[c] = v
        /\ \A d \in D \ (gone \cup {c}) : windows'[d] = windows[d]
    BY <2>1
  <2>3. gone \in SUBSET (D \ {c})
    BY <1>0
  <2>4. passed' = [d \in Clients |-> IF d = c THEN Append(passed[d], t)
                                     ELSE IF d \in gone THEN <<>> ELSE passed[d]]
    BY <1>1, <1>3
  <2> HIDE DEF E, w
  <2> QED BY <1>0, <2>2, <2>3, <2>4, HistoryOpens DEF D
<1> QED BY <1>9, <1>10

LEMMA WindowStep == MapKept /\ HistoryKept /\ Windows!Next => MapKept' /\ HistoryKept'
<1> SUFFICES ASSUME MapKept, HistoryKept, Windows!Next PROVE MapKept' /\ HistoryKept'
  OBVIOUS
<1>1. CASE Windows!Tick
  BY <1>1, TickKeeps
<1>2. ASSUME NEW c \in Clients, Windows!Admit(c) PROVE MapKept' /\ HistoryKept'
  <2>1. PICK t \in (now - Skew) .. now :
          /\ t >= 0
          /\ IF c \notin DOMAIN windows THEN Windows!Open(c, t)
             ELSE IF Windows!Since(t, windows[c].start) < Window THEN Windows!Count(c, t)
             ELSE Windows!Renew(c, t)
    BY <1>2 DEF Windows!Admit
  <2>2. now' = now
    BY <1>2 DEF Windows!Admit
  <2>3. t \in Times /\ t <= now /\ t + Skew >= now
    BY <2>1, WindowConstants DEF HistoryKept, Times
  <2>4. CASE c \notin DOMAIN windows
    BY <2>1, <2>2, <2>3, <2>4, OpenKeeps
  <2>5. CASE c \in DOMAIN windows /\ Windows!Since(t, windows[c].start) < Window
    BY <2>1, <2>2, <2>3, <2>5, CountKeeps
  <2>6. CASE c \in DOMAIN windows /\ ~(Windows!Since(t, windows[c].start) < Window)
    BY <2>1, <2>2, <2>3, <2>6, RenewKeeps
  <2> QED BY <2>4, <2>5, <2>6
<1> QED BY <1>1, <1>2 DEF Windows!Next

\* For every number of clients, limit, window, room and lateness, and however
\* requests race to the mutex: map and queue are bounded, every window can be
\* evicted, and a client that is not evicted passes less than twice its limit in
\* a window's length less the lateness (common/windows.rs).
THEOREM WindowsAreSafe == PartSpec => []WindowsSafe
<1>1. PartInit => Windows!IndInv
  BY WindowInit, WindowParts DEF PartInit
<1>2. Windows!IndInv /\ [PartNext]_partVars => Windows!IndInv'
  <2> SUFFICES ASSUME MapKept, HistoryKept, [PartNext]_partVars PROVE MapKept' /\ HistoryKept'
    BY WindowParts, PTL
  <2>1. CASE Windows!Next
    BY <2>1, WindowStep
  <2>2. CASE UNCHANGED windowVars
    BY <2>2 DEF windowVars, MapKept, HistoryKept
  <2> QED BY <2>1, <2>2 DEF PartNext, partVars
<1>3. Windows!IndInv => WindowsSafe
  BY DEF Windows!IndInv, WindowsSafe
<1> QED BY <1>1, <1>2, <1>3, PTL DEF PartSpec
=============================================================================
