-------------------------- MODULE SyncWritesProofs --------------------------
(***************************************************************************)
(* What the writes to SoundCloud promise: the sync queue and the pauses,   *)
(* for every number of executors, taps, errors and mishaps, and of keys,   *)
(* writers, refusals and faults.                                           *)
(***************************************************************************)
EXTENDS MCSyncWrites, FiniteSetTheorems, TLAPS

-----------------------------------------------------------------------------
(* The pauses.                                                             *)

(* The constants of the pauses.                                            *)
LEMMA PauseConstants ==
    /\ Base \in Nat /\ Base > 0 /\ ProbeHold \in Nat /\ ProbeHold > 0
    /\ MaxPause \in Nat /\ MaxPause > 0 /\ Base <= MaxPause /\ ProbeHold <= MaxPause
    /\ "none" \notin Keys
  BY PausesOK DEF Pauses!PauseAssumption

(* A power of two is a positive number: it counts the subsets of a set.    *)
LEMMA PowerOfTwo ==
    ASSUME NEW n \in Nat
    PROVE  2^n \in Nat /\ 2^n > 0
<1>1. IsFiniteSet(1..n) /\ Cardinality(1..n) = n
  BY FS_Interval
<1>2. IsFiniteSet(SUBSET (1..n)) /\ Cardinality(SUBSET (1..n)) = 2^n
  BY <1>1, FS_SUBSET
<1>3. Cardinality(SUBSET (1..n)) \in Nat
  BY <1>2, FS_CardinalityType
<1>4. Cardinality(SUBSET (1..n)) # 0
  BY <1>2, FS_EmptySet, {} \in SUBSET (1..n)
<1> QED BY <1>2, <1>3, <1>4

(* A set without two elements has at most one.                             *)
LEMMA AtMostOne ==
    ASSUME NEW S, \A x, y \in S : x = y
    PROVE  Cardinality(S) <= 1
<1>1. CASE S = {}
  BY <1>1, FS_EmptySet
<1>2. CASE S # {}
  <2>1. PICK x \in S : TRUE
    BY <1>2
  <2>2. S = {x}
    BY <2>1
  <2> QED BY <2>2, FS_Singleton
<1> QED BY <1>1, <1>2

(* The longer pause of a new strike, and a pause of a given length, are    *)
(* holds within MAX_PAUSE that are not over.                               *)
LEMMA PauseLengths ==
    ASSUME NEW p \in Pauses!PauseType, p.strikes > 0 => p.there
    PROVE  /\ LET q == Pauses!LongerEachTime(p) IN
                q \in Pauses!PauseType /\ q.left > 0 /\ q.there
           /\ \A n \in Nat \ {0} : LET q == Pauses!PauseRefused(p, n) IN
                q \in Pauses!PauseType /\ q.left > 0 /\ q.there
<1>1. 2^p.strikes \in Nat /\ 2^p.strikes > 0
  BY PowerOfTwo DEF Pauses!PauseType
<1> DEFINE n == Base * 2^p.strikes
<1>2. n \in Nat /\ n > 0
  <2>1. \A i, j \in Nat : i > 0 /\ j > 0 => i * j \in Nat /\ i * j > 0
    OBVIOUS
  <2> QED BY <1>1, <2>1, PauseConstants
<1> HIDE DEF n
<1>3. Pauses!MinOf(n, MaxPause) \in 1..MaxPause
  BY <1>2, PauseConstants DEF Pauses!MinOf
<1>4. ASSUME p.probing \/ p.strikes = 0 \/ p.left = 0
      PROVE  LET q == Pauses!LongerEachTime(p) IN
                q \in Pauses!PauseType /\ q.left > 0 /\ q.there
  <2>1. Pauses!LongerEachTime(p) = [left |-> Pauses!MinOf(n, MaxPause),
            strikes |-> p.strikes + 1, probing |-> FALSE, there |-> TRUE]
    BY <1>4 DEF Pauses!LongerEachTime, n
  <2> QED BY <2>1, <1>3 DEF Pauses!PauseType
<1>5. ASSUME ~(p.probing \/ p.strikes = 0 \/ p.left = 0)
      PROVE  LET q == Pauses!LongerEachTime(p) IN
                q \in Pauses!PauseType /\ q.left > 0 /\ q.there
  <2>1. Pauses!LongerEachTime(p) = [p EXCEPT !.left = Pauses!MaxOf(@, Base)]
    BY <1>5 DEF Pauses!LongerEachTime
  <2> QED BY <2>1, <1>5, PauseConstants DEF Pauses!PauseType, Pauses!MaxOf
<1>6. ASSUME NEW i \in Nat \ {0}
      PROVE  LET q == Pauses!PauseRefused(p, i) IN
                q \in Pauses!PauseType /\ q.left > 0 /\ q.there
  BY PauseConstants DEF Pauses!PauseRefused, Pauses!PauseType, Pauses!MaxOf, Pauses!MinOf
<1> QED BY <1>4, <1>5, <1>6

(* What every step of a writer that is no admission keeps: the flags of    *)
(* the probes, and a hold that is over only when it is lifted.             *)
LEMMA ProbesKept ==
    ASSUME Pauses!IndInv, Pauses!TypeOK',
           restored' => restored,
           ~restored' => \A x \in Writers : w'[x].pc = "idle",
           \A x \in Writers : \/ w'[x].key = "none"
                              \/ /\ w'[x].key = w[x].key /\ w'[x].probe = w[x].probe
                                 /\ w'[x].fresh => w[x].fresh,
           \A k \in Keys : paused'[k].strikes > 0 /\ paused'[k].left = 0 =>
               \/ paused[k].strikes > 0 /\ paused[k].left = 0
               \/ \A x \in Writers : w'[x].key = k => ~w'[x].fresh
    PROVE  Pauses!IndInv'
<1>1. \A k \in Keys : \A x \in Pauses!Probes(k)' : x \in Pauses!Probes(k)
  BY PauseConstants DEF Pauses!Probes, Pauses!IndInv, Pauses!TypeOK, Pauses!WriterType
<1>2. \A k \in Keys : paused'[k].strikes > 0 /\ paused'[k].left = 0 => Pauses!Probes(k)' = {}
  BY <1>1 DEF Pauses!Probes, Pauses!IndInv, Pauses!Probing
<1>3. \A k \in Keys : \A x, y \in Pauses!Probes(k)' : x = y
  BY <1>1 DEF Pauses!IndInv, Pauses!Probing
<1> QED BY <1>2, <1>3 DEF Pauses!IndInv, Pauses!Probing

(* Pauses and writers with a field changed keep their shape.               *)
LEMMA ShapeHeld ==
    ASSUME NEW r \in Pauses!PauseType, NEW n \in 0..MaxPause
    PROVE  LET q == [r EXCEPT !.left = n] IN
           q \in Pauses!PauseType /\ q.left = n /\ q.strikes = r.strikes /\ q.there = r.there
  BY DEF Pauses!PauseType

LEMMA ShapeProbed ==
    ASSUME NEW r \in Pauses!PauseType, NEW n \in 0..MaxPause
    PROVE  LET q == [r EXCEPT !.left = n, !.probing = TRUE] IN
           q \in Pauses!PauseType /\ q.left = n /\ q.strikes = r.strikes /\ q.there = r.there
  BY DEF Pauses!PauseType

LEMMA ShapeSaved ==
    ASSUME NEW r \in Pauses!SavedType, NEW n \in Nat
    PROVE  [r EXCEPT !.left = n] \in Pauses!SavedType
  BY DEF Pauses!SavedType

LEMMA ShapeStale ==
    ASSUME NEW r \in Pauses!WriterType
    PROVE  LET q == [r EXCEPT !.fresh = FALSE] IN
           q \in Pauses!WriterType /\ q.pc = r.pc /\ q.key = r.key /\ q.probe = r.probe /\ ~q.fresh
  BY DEF Pauses!WriterType

(* Writers that leave or move on keep their shape.                         *)
LEMMA WriterMoves ==
    ASSUME Pauses!TypeOK, NEW x \in Writers
    PROVE  /\ Pauses!Leave(x) =>
                /\ w' \in [Writers -> Pauses!WriterType]
                /\ \A y \in Writers : w'[y].key \in Keys <=> w'[y].pc # "idle"
                /\ \A y \in Writers : w'[y].key = "none" \/ w'[y] = w[y]
           /\ \A p \in {"gate", "sent", "forget", "save"} :
                w[x].pc # "idle" /\ Pauses!Go(x, p) =>
                /\ w' \in [Writers -> Pauses!WriterType]
                /\ \A y \in Writers : w'[y].key \in Keys <=> w'[y].pc # "idle"
                /\ \A y \in Writers : /\ w'[y].key = w[y].key /\ w'[y].probe = w[y].probe
                                      /\ w'[y].fresh = w[y].fresh
<1>1. Pauses!IdleWriter \in Pauses!WriterType /\ Pauses!IdleWriter.key \notin Keys
      /\ Pauses!IdleWriter.pc = "idle" /\ Pauses!IdleWriter.key = "none"
  BY PauseConstants DEF Pauses!IdleWriter, Pauses!WriterType
<1>2. ASSUME Pauses!Leave(x)
      PROVE  /\ w' \in [Writers -> Pauses!WriterType]
             /\ \A y \in Writers : w'[y].key \in Keys <=> w'[y].pc # "idle"
             /\ \A y \in Writers : w'[y].key = "none" \/ w'[y] = w[y]
  BY <1>1, <1>2 DEF Pauses!Leave, Pauses!TypeOK
<1>3. ASSUME NEW p \in {"gate", "sent", "forget", "save"}, w[x].pc # "idle", Pauses!Go(x, p)
      PROVE  /\ w' \in [Writers -> Pauses!WriterType]
             /\ \A y \in Writers : w'[y].key \in Keys <=> w'[y].pc # "idle"
             /\ \A y \in Writers : /\ w'[y].key = w[y].key /\ w'[y].probe = w[y].probe
                                   /\ w'[y].fresh = w[y].fresh
  <2>1. \A r \in Pauses!WriterType : [r EXCEPT !.pc = p] \in Pauses!WriterType
    BY DEF Pauses!WriterType
  <2> QED BY <1>3, <2>1 DEF Pauses!Go, Pauses!TypeOK, Pauses!WriterType
<1> QED BY <1>2, <1>3

(* A writer that sets a pause keeps its probe flags, and the pause has a   *)
(* hold that is not over.                                                  *)
LEMMA PauseSets ==
    ASSUME Pauses!TypeOK, NEW x \in Writers, w[x].pc = "sent",
           NEW p \in Pauses!PauseType, p.left > 0, p.there, NEW s \in BOOLEAN,
           Pauses!SetPause(x, p, s)
    PROVE  /\ paused' \in [Keys -> Pauses!PauseType]
           /\ \A k \in Keys : paused'[k] = paused[k] \/ (paused'[k].left > 0 /\ paused'[k].there)
           /\ w' \in [Writers -> Pauses!WriterType]
           /\ \A y \in Writers : w'[y].key \in Keys <=> w'[y].pc # "idle"
           /\ \A y \in Writers : /\ w'[y].key = w[y].key /\ w'[y].probe = w[y].probe
                                 /\ w'[y].fresh = w[y].fresh
<1>1. \A r \in Pauses!WriterType :
        [r EXCEPT !.pc = "save", !.left = p.left, !.strikes = p.strikes, !.sub = s]
            \in Pauses!WriterType
  BY DEF Pauses!WriterType, Pauses!PauseType
<1>2. w' = [w EXCEPT ![x] = [w[x] EXCEPT !.pc = "save", !.left = p.left,
                                         !.strikes = p.strikes, !.sub = s]]
  BY DEF Pauses!SetPause, Pauses!TypeOK
<1>3. w[x] \in Pauses!WriterType /\ w[x].key \in Keys
  BY DEF Pauses!TypeOK
<1>4. w' \in [Writers -> Pauses!WriterType]
  BY <1>1, <1>2, <1>3 DEF Pauses!TypeOK
<1>5. \A y \in Writers : /\ w'[y].key = w[y].key /\ w'[y].probe = w[y].probe
                         /\ w'[y].fresh = w[y].fresh
                         /\ w'[y].pc = IF y = x THEN "save" ELSE w[y].pc
  BY <1>2, <1>3 DEF Pauses!TypeOK, Pauses!WriterType
<1>6. \A y \in Writers : w'[y].key \in Keys <=> w'[y].pc # "idle"
  BY <1>3, <1>5 DEF Pauses!TypeOK
<1>7. paused' = [paused EXCEPT ![w[x].key] = p]
  BY DEF Pauses!SetPause
<1>8. \A k \in Keys : paused'[k] = IF k = w[x].key THEN p ELSE paused[k]
  BY <1>3, <1>7 DEF Pauses!TypeOK
<1>9. paused' \in [Keys -> Pauses!PauseType]
  BY <1>7 DEF Pauses!TypeOK
<1>10. \A k \in Keys : paused'[k] = paused[k] \/ (paused'[k].left > 0 /\ paused'[k].there)
  <2>1. ASSUME NEW k \in Keys, k = w[x].key PROVE paused'[k].left > 0 /\ paused'[k].there
    <3>1. paused'[k] = p
      BY <1>8, <2>1
    <3> QED BY <3>1
  <2>2. ASSUME NEW k \in Keys, k # w[x].key PROVE paused'[k] = paused[k]
    BY <1>8, <2>2
  <2> QED BY <2>1, <2>2, Zenon
<1> QED BY <1>4, <1>5, <1>6, <1>9, <1>10

(* Time and restarts.                                                      *)
LEMMA PauseClock ==
    ASSUME Pauses!IndInv, Pauses!Tick \/ Pauses!Restart \/ Pauses!Restore
                          \/ \E k \in Keys : Pauses!ReportExpires(k)
    PROVE  Pauses!IndInv'
<1> USE PauseConstants
<1>0. Pauses!TypeOK /\ Pauses!Probing
  BY DEF Pauses!IndInv
<1>1. CASE Pauses!Tick
  <2>1. \A n \in Nat : Pauses!Less(n) \in Nat /\ Pauses!Less(n) <= n /\ (n > 1 => Pauses!Less(n) > 0)
    BY DEF Pauses!Less
  <2>2. \A k \in Keys : /\ paused'[k] = [paused[k] EXCEPT !.left = Pauses!Less(@)]
                        /\ saved'[k] = [saved[k] EXCEPT !.left = Pauses!Less(@)]
    BY <1>1 DEF Pauses!Tick
  <2>11. \A k \in Keys : /\ paused[k] \in Pauses!PauseType /\ saved[k] \in Pauses!SavedType
                        /\ paused[k].left \in 0..MaxPause /\ saved[k].left \in Nat
    BY <1>0 DEF Pauses!TypeOK, Pauses!PauseType, Pauses!SavedType
  <2>12. \A k \in Keys : /\ Pauses!Less(paused[k].left) \in 0..MaxPause
                        /\ Pauses!Less(saved[k].left) \in Nat
    BY <2>1, <2>11
  <2>3. \A k \in Keys : /\ paused'[k] \in Pauses!PauseType
                        /\ paused'[k].strikes = paused[k].strikes
                        /\ paused'[k].there = paused[k].there
                        /\ paused'[k].left = Pauses!Less(paused[k].left)
    <3> TAKE k \in Keys
    <3> DEFINE n == Pauses!Less(paused[k].left)
    <3>1. paused'[k] = [paused[k] EXCEPT !.left = n]
      BY <2>2
    <3>2. n \in 0..MaxPause /\ paused[k] \in Pauses!PauseType
      BY <2>11, <2>12
    <3> HIDE DEF n
    <3>3. LET q == [paused[k] EXCEPT !.left = n] IN
          /\ q \in Pauses!PauseType /\ q.left = n /\ q.strikes = paused[k].strikes
          /\ q.there = paused[k].there
      BY <3>2, ShapeHeld
    <3> QED BY <3>1, <3>3 DEF n
  <2>4. \A k \in Keys : saved'[k] \in Pauses!SavedType
    <3> TAKE k \in Keys
    <3> DEFINE n == Pauses!Less(saved[k].left)
    <3>1. saved'[k] = [saved[k] EXCEPT !.left = n]
      BY <2>2
    <3>2. n \in Nat /\ saved[k] \in Pauses!SavedType
      BY <2>11, <2>12
    <3> HIDE DEF n
    <3> QED BY <3>1, <3>2, ShapeSaved
  <2>5. \A y \in Writers :
          w'[y] = IF w[y].key \in Keys /\ paused[w[y].key].left <= 1
                  THEN [w[y] EXCEPT !.fresh = FALSE] ELSE w[y]
    BY <1>1 DEF Pauses!Tick
  <2>6. \A y \in Writers : /\ w'[y] \in Pauses!WriterType /\ w'[y].pc = w[y].pc
                           /\ w'[y].key = w[y].key /\ w'[y].probe = w[y].probe
                           /\ w'[y].fresh => w[y].fresh
    <3>1. \A y \in Writers : w[y] \in Pauses!WriterType
      BY <1>0 DEF Pauses!TypeOK
    <3> QED BY <2>5, <3>1, ShapeStale
  <2>7. \A y \in Writers : w[y].key \in Keys /\ paused[w[y].key].left <= 1 => ~w'[y].fresh
    BY <1>0, <2>5 DEF Pauses!TypeOK, Pauses!WriterType
  <2>8. \A k \in Keys : paused'[k].left = 0 => \A x \in Writers : w'[x].key = k => ~w'[x].fresh
    <3>1. \A k \in Keys : paused[k].left \in Nat
      BY <1>0 DEF Pauses!TypeOK, Pauses!PauseType
    <3> QED BY <2>1, <2>3, <2>6, <2>7, <3>1
  <2>9. Pauses!TypeOK'
    <3>1. /\ paused' \in [Keys -> Pauses!PauseType] /\ saved' \in [Keys -> Pauses!SavedType]
          /\ w' \in [Writers -> Pauses!WriterType]
      BY <1>1, <2>3, <2>4, <2>6 DEF Pauses!Tick
    <3>2. account' \in [Writers \X Keys -> Nat]
      BY <1>0, <1>1, <2>1 DEF Pauses!Tick, Pauses!TypeOK
    <3> QED BY <1>0, <1>1, <2>3, <2>6, <3>1, <3>2 DEF Pauses!Tick, Pauses!TypeOK
  <2>10. restored' = restored
    BY <1>1 DEF Pauses!Tick
  <2> QED BY <1>0, <2>6, <2>8, <2>9, <2>10, ProbesKept DEF Pauses!Probing
<1>2. CASE Pauses!Restart
  <2>1. /\ Pauses!Free \in Pauses!PauseType /\ Pauses!Free.strikes = 0
        /\ Pauses!IdleWriter \in Pauses!WriterType /\ Pauses!IdleWriter.pc = "idle"
        /\ Pauses!IdleWriter.key = "none"
    BY DEF Pauses!Free, Pauses!PauseType, Pauses!IdleWriter, Pauses!WriterType
  <2>2. Pauses!TypeOK'
    <3>1. /\ paused' \in [Keys -> Pauses!PauseType]
          /\ \A k \in Keys : paused'[k].strikes > 0 => paused'[k].there
      BY <1>2, <2>1 DEF Pauses!Restart
    <3>2. /\ w' \in [Writers -> Pauses!WriterType]
          /\ \A x \in Writers : w'[x].key \in Keys <=> w'[x].pc # "idle"
      BY <1>2, <2>1 DEF Pauses!Restart
    <3>3. /\ account' \in [Writers \X Keys -> Nat] /\ reports' \in [Keys -> SUBSET Writers]
          /\ saved' = saved /\ restored' \in BOOLEAN
      BY <1>2 DEF Pauses!Restart
    <3> QED BY <1>0, <3>1, <3>2, <3>3 DEF Pauses!TypeOK
  <2>3. /\ \A y \in Writers : w'[y].key = "none" /\ w'[y].pc = "idle"
        /\ \A k \in Keys : paused'[k].strikes = 0
        /\ ~restored'
    BY <1>2, <2>1 DEF Pauses!Restart
  <2> QED BY <2>2, <2>3, ProbesKept
<1>3. CASE Pauses!Restore
  <2>1. \A n \in Nat : Pauses!MinOf(n, MaxPause) \in 0..MaxPause /\ Pauses!MaxOf(n, 1) \in Nat
    BY DEF Pauses!MinOf, Pauses!MaxOf
  <2>2. Pauses!TypeOK'
    <3>1. \A k \in Keys :
            /\ [saved[k] EXCEPT !.left = Pauses!MinOf(@, MaxPause)] \in Pauses!SavedType
            /\ [left |-> Pauses!MinOf(saved[k].left, MaxPause), there |-> TRUE,
                strikes |-> Pauses!MaxOf(saved[k].strikes, 1), probing |-> FALSE]
                   \in Pauses!PauseType
      BY <1>0, <2>1 DEF Pauses!TypeOK, Pauses!SavedType, Pauses!PauseType
    <3>2. saved' \in [Keys -> Pauses!SavedType] /\ paused' \in [Keys -> Pauses!PauseType]
          /\ \A k \in Keys : paused'[k].strikes > 0 => paused'[k].there
      <4>1. CASE UNCHANGED <<saved, paused>>
        BY <4>1, <1>0 DEF Pauses!TypeOK
      <4>2. CASE ~UNCHANGED <<saved, paused>>
        <5>1. /\ saved' = [k \in Keys |->
                    [saved[k] EXCEPT !.left = Pauses!MinOf(@, MaxPause)]]
              /\ paused' = [k \in Keys |->
                    IF saved[k].there
                    THEN [left |-> Pauses!MinOf(saved[k].left, MaxPause), there |-> TRUE,
                          strikes |-> Pauses!MaxOf(saved[k].strikes, 1), probing |-> FALSE]
                    ELSE paused[k]]
          BY <4>2, <1>3, Zenon DEF Pauses!Restore
        <5> QED BY <1>0, <3>1, <5>1 DEF Pauses!TypeOK
      <4> QED BY <4>1, <4>2
    <3> QED BY <1>0, <1>3, <3>2 DEF Pauses!Restore, Pauses!TypeOK
  <2>3. UNCHANGED w /\ restored' /\ \A y \in Writers : w[y].pc = "idle"
    BY <1>0, <1>3 DEF Pauses!Restore, Pauses!Probing
  <2>4. \A y \in Writers : w'[y].key = "none"
    BY <2>3, <1>0 DEF Pauses!TypeOK, Pauses!WriterType
  <2>5. \A k \in Keys : Pauses!Probes(k)' = {}
    BY <2>4 DEF Pauses!Probes
  <2> QED BY <2>2, <2>3, <2>5 DEF Pauses!IndInv, Pauses!Probing
<1>4. CASE \E k \in Keys : Pauses!ReportExpires(k)
  <2>1. /\ UNCHANGED <<paused, account, saved, restored, w, refusals, faults>>
        /\ reports' \in [Keys -> SUBSET Writers]
    BY <1>0, <1>4 DEF Pauses!ReportExpires, Pauses!TypeOK
  <2>2. Pauses!TypeOK'
    BY <1>0, <2>1 DEF Pauses!TypeOK
  <2> QED BY <1>0, <2>1, <2>2, ProbesKept DEF Pauses!Probing
<1> QED BY <1>1, <1>2, <1>3, <1>4

(* The way to a write.                                                     *)
LEMMA PauseWays ==
    ASSUME Pauses!IndInv, NEW x \in Writers,
           Pauses!Gate(x) \/ Pauses!GiveUp(x) \/ \E k \in Keys : Pauses!Admit(x, k)
    PROVE  Pauses!IndInv'
<1> USE PauseConstants
<1>0. Pauses!TypeOK /\ Pauses!Probing
  BY DEF Pauses!IndInv
<1>1. CASE Pauses!Gate(x) \/ Pauses!GiveUp(x)
  <2>1. /\ UNCHANGED <<paused, account, reports, saved, restored>> /\ w[x].pc # "idle"
        /\ Pauses!Leave(x) \/ Pauses!Go(x, "sent")
    BY <1>1 DEF Pauses!Gate, Pauses!GiveUp
  <2>2. /\ w' \in [Writers -> Pauses!WriterType]
        /\ \A y \in Writers : w'[y].key \in Keys <=> w'[y].pc # "idle"
        /\ \A y \in Writers : \/ w'[y].key = "none"
                              \/ /\ w'[y].key = w[y].key /\ w'[y].probe = w[y].probe
                                 /\ w'[y].fresh = w[y].fresh
    BY <1>0, <2>1, WriterMoves
  <2>3. Pauses!TypeOK'
    BY <1>0, <2>1, <2>2 DEF Pauses!TypeOK
  <2>4. restored
    BY <1>0, <2>1 DEF Pauses!Probing
  <2> QED BY <1>0, <2>1, <2>2, <2>3, <2>4, ProbesKept
<1>2. ASSUME NEW k \in Keys, Pauses!Admit(x, k)
      PROVE  Pauses!IndInv'
  <2> DEFINE s == paused[k].strikes > 0
  <2>7. s \in BOOLEAN
    OBVIOUS
  <2>1. /\ restored /\ UNCHANGED <<account, reports, saved, restored>>
        /\ w[x].pc = "idle" /\ paused[k].left = 0
        /\ paused' = [paused EXCEPT ![k] = Pauses!Admitted(k)]
        /\ w' = [w EXCEPT ![x] = [Pauses!IdleWriter EXCEPT !.pc = "gate", !.key = k,
                                                           !.probe = s, !.fresh = s]]
    BY <1>2 DEF Pauses!Admit, Pauses!Admits
  <2>3. /\ w' \in [Writers -> Pauses!WriterType]
        /\ w'[x].key = k /\ w'[x].pc = "gate" /\ w'[x].fresh = s
        /\ \A y \in Writers \ {x} : w'[y] = w[y]
    <3> HIDE DEF s
    <3> DEFINE r == [Pauses!IdleWriter EXCEPT !.pc = "gate", !.key = k,
                                              !.probe = s, !.fresh = s]
    <3>1. r \in Pauses!WriterType /\ r.key = k /\ r.pc = "gate" /\ r.fresh = s
      <4>1. Pauses!IdleWriter \in Pauses!WriterType
        BY DEF Pauses!IdleWriter, Pauses!WriterType
      <4> HIDE DEF Pauses!IdleWriter
      <4> QED BY <2>7, <4>1 DEF Pauses!WriterType
    <3>2. w' = [w EXCEPT ![x] = r]
      BY <2>1
    <3> HIDE DEF r
    <3> QED BY <1>0, <3>1, <3>2 DEF Pauses!TypeOK
  <2>4. /\ Pauses!Admitted(k) \in Pauses!PauseType
        /\ Pauses!Admitted(k).strikes > 0 => s /\ Pauses!Admitted(k).left > 0
                                             /\ Pauses!Admitted(k).there
    <3>1. CASE paused[k].strikes = 0
      BY <3>1 DEF Pauses!Admitted, Pauses!Free, Pauses!PauseType
    <3>2. CASE paused[k].strikes # 0
      <4>1. Pauses!Admitted(k) = [paused[k] EXCEPT !.left = ProbeHold, !.probing = TRUE]
        BY <3>2 DEF Pauses!Admitted
      <4>2. paused[k] \in Pauses!PauseType /\ s /\ paused[k].there
        BY <3>2, <1>0 DEF Pauses!PauseType, Pauses!TypeOK
      <4>3. LET q == [paused[k] EXCEPT !.left = ProbeHold, !.probing = TRUE] IN
            q \in Pauses!PauseType /\ q.left = ProbeHold /\ q.there = paused[k].there
        BY <4>2, ProbeHold \in 0..MaxPause, ShapeProbed
      <4> QED BY <4>1, <4>2, <4>3
    <3> QED BY <3>1, <3>2
  <2>5. Pauses!TypeOK'
    BY <1>0, <2>1, <2>3, <2>4 DEF Pauses!TypeOK
  <2>6. ASSUME NEW j \in Keys
        PROVE  /\ paused'[j].strikes > 0 /\ paused'[j].left = 0 => Pauses!Probes(j)' = {}
               /\ \A y, z \in Pauses!Probes(j)' : y = z
    <3>1. CASE j # k
      <4>1. paused'[j] = paused[j] /\ Pauses!Probes(j)' \subseteq Pauses!Probes(j)
        BY <3>1, <1>0, <2>1, <2>3 DEF Pauses!Probes, Pauses!TypeOK
      <4> QED BY <4>1, <1>0 DEF Pauses!Probing
    <3>2. CASE j = k
      <4>1. ~(paused'[j].strikes > 0 /\ paused'[j].left = 0)
        BY <3>2, <1>0, <2>1, <2>4 DEF Pauses!TypeOK
      <4>2. Pauses!Probes(j)' \subseteq Pauses!Probes(j) \cup {x}
        BY <2>3 DEF Pauses!Probes
      <4>3. CASE s
        <5>1. Pauses!Probes(j) = {}
          BY <3>2, <4>3, <1>0, <2>1 DEF Pauses!Probing
        <5> QED BY <4>1, <4>2, <5>1
      <4>4. CASE ~s
        <5>1. Pauses!Probes(j)' \subseteq Pauses!Probes(j)
          BY <4>4, <2>3 DEF Pauses!Probes
        <5> QED BY <4>1, <5>1, <1>0 DEF Pauses!Probing
      <4> QED BY <4>3, <4>4
    <3> QED BY <3>1, <3>2
  <2> QED BY <2>1, <2>5, <2>6 DEF Pauses!IndInv, Pauses!Probing
<1> QED BY <1>1, <1>2

(* The answer, and what follows it in the database.                        *)
LEMMA PauseAnswers ==
    ASSUME Pauses!IndInv, NEW x \in Writers,
           Pauses!Answer(x) \/ Pauses!Forget(x) \/ Pauses!Save(x)
    PROVE  Pauses!IndInv'
<1> USE PauseConstants
<1>0. Pauses!TypeOK /\ Pauses!Probing
  BY DEF Pauses!IndInv
<1>1. w[x].pc \in {"sent", "forget", "save"} /\ restored' = restored
  BY DEF Pauses!Answer, Pauses!Succeeded, Pauses!AccountLimited, Pauses!SubscriptionRequired,
         Pauses!AppLimited, Pauses!Forget, Pauses!Save
<1>2. w[x].pc # "idle" /\ w[x].key \in Keys /\ restored /\ restored'
  BY <1>0, <1>1 DEF Pauses!TypeOK, Pauses!Probing
<1> DEFINE k == w[x].key
<1>3. Pauses!Free \in Pauses!PauseType /\ Pauses!Free.strikes = 0
  BY DEF Pauses!Free, Pauses!PauseType
<1>4. paused[k] \in Pauses!PauseType /\ (paused[k].strikes > 0 => paused[k].there)
  BY <1>0, <1>2 DEF Pauses!TypeOK
(* Whatever happens to the pauses but the end of a hold, the writers keep
   their flags or leave. *)
<1>5. ASSUME paused' \in [Keys -> Pauses!PauseType],
             \A j \in Keys : \/ paused'[j] = paused[j] \/ paused'[j].strikes = 0
                             \/ paused'[j].left > 0 /\ paused'[j].there,
             account' \in [Writers \X Keys -> Nat], reports' \in [Keys -> SUBSET Writers],
             saved' \in [Keys -> Pauses!SavedType],
             w' \in [Writers -> Pauses!WriterType],
             \A y \in Writers : w'[y].key \in Keys <=> w'[y].pc # "idle",
             \A y \in Writers : \/ w'[y].key = "none"
                                \/ /\ w'[y].key = w[y].key /\ w'[y].probe = w[y].probe
                                   /\ w'[y].fresh = w[y].fresh
      PROVE  Pauses!IndInv'
  <2>1. \A j \in Keys : paused'[j].strikes > 0 => paused'[j].there
    BY <1>0, <1>5 DEF Pauses!TypeOK
  <2>2. Pauses!TypeOK'
    BY <1>2, <1>5, <2>1 DEF Pauses!TypeOK
  <2>3. \A j \in Keys : paused'[j].strikes > 0 /\ paused'[j].left = 0 =>
            paused[j].strikes > 0 /\ paused[j].left = 0
    BY <1>5
  <2> QED BY <1>2, <1>5, <2>2, <2>3, ProbesKept
<1>6. Pauses!Leave(x) => /\ w' \in [Writers -> Pauses!WriterType]
                         /\ \A y \in Writers : w'[y].key \in Keys <=> w'[y].pc # "idle"
                         /\ \A y \in Writers : w'[y].key = "none" \/ w'[y] = w[y]
  BY <1>0, WriterMoves
<1>7. CASE Pauses!Succeeded(x)
  <2>1. /\ paused' = [paused EXCEPT ![k] = Pauses!Free]
        /\ reports' = [reports EXCEPT ![k] = {}]
        /\ Pauses!Go(x, "forget") /\ UNCHANGED <<account, saved>>
    BY <1>7 DEF Pauses!Succeeded
  <2>2. /\ w' \in [Writers -> Pauses!WriterType]
        /\ \A y \in Writers : w'[y].key \in Keys <=> w'[y].pc # "idle"
        /\ \A y \in Writers : /\ w'[y].key = w[y].key /\ w'[y].probe = w[y].probe
                              /\ w'[y].fresh = w[y].fresh
    BY <1>0, <1>2, <2>1, WriterMoves
  <2>3. /\ paused' \in [Keys -> Pauses!PauseType]
        /\ \A j \in Keys : paused'[j] = paused[j] \/ paused'[j].strikes = 0
    BY <1>0, <1>2, <1>3, <2>1 DEF Pauses!TypeOK
  <2>4. /\ reports' \in [Keys -> SUBSET Writers] /\ account' \in [Writers \X Keys -> Nat]
        /\ saved' \in [Keys -> Pauses!SavedType]
    BY <1>0, <2>1 DEF Pauses!TypeOK
  <2> QED BY <1>5, <2>2, <2>3, <2>4
<1>8. CASE Pauses!AccountLimited(x)
  <2>1. account' \in [Writers \X Keys -> Nat]
    BY <1>0, <1>2, <1>8 DEF Pauses!AccountLimited, Pauses!TypeOK, Pauses!MaxOf
  <2>2. /\ Pauses!Leave(x) /\ UNCHANGED <<paused, reports, saved>>
    BY <1>8 DEF Pauses!AccountLimited
  <2> QED BY <1>0, <1>5, <1>6, <2>1, <2>2 DEF Pauses!TypeOK
(* A pause that is set. *)
<1>9. ASSUME NEW p \in Pauses!PauseType, p.left > 0, p.there, NEW s \in BOOLEAN,
             w[x].pc = "sent", Pauses!SetPause(x, p, s),
             account' \in [Writers \X Keys -> Nat], reports' \in [Keys -> SUBSET Writers],
             UNCHANGED saved
      PROVE  Pauses!IndInv'
  <2>1. /\ paused' \in [Keys -> Pauses!PauseType]
        /\ \A j \in Keys : paused'[j] = paused[j] \/ (paused'[j].left > 0 /\ paused'[j].there)
        /\ w' \in [Writers -> Pauses!WriterType]
        /\ \A y \in Writers : w'[y].key \in Keys <=> w'[y].pc # "idle"
        /\ \A y \in Writers : /\ w'[y].key = w[y].key /\ w'[y].probe = w[y].probe
                              /\ w'[y].fresh = w[y].fresh
    BY <1>0, <1>9, PauseSets
  <2>2. saved' \in [Keys -> Pauses!SavedType]
    BY <1>0, <1>9 DEF Pauses!TypeOK
  <2> QED BY <1>5, <1>9, <2>1, <2>2
<1>10. ASSUME NEW n \in Nat \ {0}
       PROVE  LET q == Pauses!PauseRefused(paused[k], n) IN
              q \in Pauses!PauseType /\ q.left > 0 /\ q.there
  BY <1>4, PauseLengths
<1>11. LET q == Pauses!LongerEachTime(paused[k]) IN
       q \in Pauses!PauseType /\ q.left > 0 /\ q.there
  BY <1>4, PauseLengths
<1>12. CASE Pauses!SubscriptionRequired(x)
  <2>1. /\ w[x].pc = "sent" /\ UNCHANGED <<account, reports, saved>>
        /\ Pauses!SetPause(x, Pauses!PauseRefused(paused[k], MaxPause), TRUE)
    BY <1>12 DEF Pauses!SubscriptionRequired
  <2>2. account' \in [Writers \X Keys -> Nat] /\ reports' \in [Keys -> SUBSET Writers]
    BY <1>0, <2>1 DEF Pauses!TypeOK
  <2>3. LET q == Pauses!PauseRefused(paused[k], MaxPause) IN
        q \in Pauses!PauseType /\ q.left > 0 /\ q.there
    BY <1>10, MaxPause \in Nat \ {0}
  <2> QED BY <1>9, <2>1, <2>2, <2>3
<1>13. CASE Pauses!AppLimited(x)
  <2>1. /\ w[x].pc = "sent" /\ UNCHANGED saved
        /\ account' = [account EXCEPT ![<<x, k>>] = Pauses!MaxOf(@, Base)]
        /\ reports' = [reports EXCEPT ![k] = @ \cup {x}]
        /\ \/ Pauses!Leave(x) /\ UNCHANGED paused
           \/ Pauses!SetPause(x, Pauses!LongerEachTime(paused[k]), FALSE)
           \/ \E n \in {1, MaxPause + 1} :
                Pauses!SetPause(x, Pauses!PauseRefused(paused[k], n), FALSE)
    BY <1>13 DEF Pauses!AppLimited
  <2>2. account' \in [Writers \X Keys -> Nat] /\ reports' \in [Keys -> SUBSET Writers]
    BY <1>0, <1>2, <2>1 DEF Pauses!TypeOK, Pauses!MaxOf
  <2>3. CASE Pauses!Leave(x) /\ UNCHANGED paused
    BY <1>0, <1>5, <1>6, <2>1, <2>2, <2>3 DEF Pauses!TypeOK
  <2>4. CASE Pauses!SetPause(x, Pauses!LongerEachTime(paused[k]), FALSE)
    BY <1>9, <1>11, <2>1, <2>2, <2>4
  <2>5. ASSUME NEW n \in {1, MaxPause + 1},
               Pauses!SetPause(x, Pauses!PauseRefused(paused[k], n), FALSE)
        PROVE  Pauses!IndInv'
    <3>1. n \in Nat \ {0}
      OBVIOUS
    <3> QED BY <1>9, <1>10, <2>1, <2>2, <2>5, <3>1
  <2> QED BY <2>1, <2>3, <2>4, <2>5
<1>14. CASE Pauses!Forget(x)
  <2> DEFINE lifted == {j \in Keys : saved[j].there /\ (j = w[x].key \/ saved[j].sub)}
  <2>1. /\ Pauses!Leave(x) /\ UNCHANGED <<account, reports>>
        /\ \/ /\ saved' = [j \in Keys |-> IF j \in lifted THEN Pauses!Unsaved ELSE saved[j]]
              /\ paused' = [j \in Keys |->
                    IF j \in lifted /\ j # w[x].key THEN Pauses!Free ELSE paused[j]]
           \/ UNCHANGED <<saved, paused>>
    BY <1>14, Zenon DEF Pauses!Forget
  <2> HIDE DEF lifted
  <2>2. Pauses!Unsaved \in Pauses!SavedType
    BY DEF Pauses!Unsaved, Pauses!SavedType
  <2>3. /\ saved' \in [Keys -> Pauses!SavedType] /\ paused' \in [Keys -> Pauses!PauseType]
        /\ \A j \in Keys : paused'[j] = paused[j] \/ paused'[j].strikes = 0
    <3>1. CASE UNCHANGED <<saved, paused>>
      BY <1>0, <3>1 DEF Pauses!TypeOK
    <3>2. CASE /\ saved' = [j \in Keys |-> IF j \in lifted THEN Pauses!Unsaved ELSE saved[j]]
               /\ paused' = [j \in Keys |->
                     IF j \in lifted /\ j # w[x].key THEN Pauses!Free ELSE paused[j]]
      BY <1>0, <1>3, <2>2, <3>2 DEF Pauses!TypeOK
    <3> QED BY <2>1, <3>1, <3>2
  <2> QED BY <1>0, <1>5, <1>6, <2>1, <2>3 DEF Pauses!TypeOK
<1>15. CASE Pauses!Save(x)
  <2>1. /\ Pauses!Leave(x) /\ UNCHANGED <<paused, account, reports>>
        /\ \/ saved' = [saved EXCEPT ![k] = [left |-> w[x].left, strikes |-> w[x].strikes,
                                             sub |-> saved[k].sub \/ w[x].sub, there |-> TRUE]]
           \/ UNCHANGED saved
    BY <1>2, <1>15 DEF Pauses!Save
  <2>2. [left |-> w[x].left, strikes |-> w[x].strikes,
         sub |-> saved[k].sub \/ w[x].sub, there |-> TRUE] \in Pauses!SavedType
    <3>1. w[x].left \in Nat /\ w[x].strikes \in Nat
      BY <1>0 DEF Pauses!TypeOK, Pauses!WriterType
    <3>2. (saved[k].sub \/ w[x].sub) \in BOOLEAN
      OBVIOUS
    <3> QED BY <3>1, <3>2, Zenon DEF Pauses!SavedType
  <2>3. saved' \in [Keys -> Pauses!SavedType]
    BY <1>0, <2>1, <2>2 DEF Pauses!TypeOK
  <2> QED BY <1>0, <1>5, <1>6, <2>1, <2>3 DEF Pauses!TypeOK
<1> QED BY <1>7, <1>8, <1>12, <1>13, <1>14, <1>15 DEF Pauses!Answer

(* The service starts without pauses in memory.                            *)
LEMMA PauseBegins ==
    ASSUME Pauses!Init
    PROVE  Pauses!IndInv
<1> USE PauseConstants
<1>1. /\ Pauses!Free \in Pauses!PauseType /\ Pauses!Free.strikes = 0
      /\ Pauses!IdleWriter \in Pauses!WriterType /\ Pauses!IdleWriter.pc = "idle"
      /\ Pauses!IdleWriter.key = "none"
  BY DEF Pauses!Free, Pauses!PauseType, Pauses!IdleWriter, Pauses!WriterType
<1>2. Pauses!Unsaved \in Pauses!SavedType /\ Pauses!SavedForADay \in Pauses!SavedType
  BY DEF Pauses!Unsaved, Pauses!SavedForADay, Pauses!SavedType
<1>3. /\ \A k \in Keys : paused[k].strikes = 0
      /\ \A x \in Writers : w[x].pc = "idle" /\ w[x].key = "none"
  BY <1>1 DEF Pauses!Init
<1>4. Pauses!TypeOK
  <2>1. paused \in [Keys -> Pauses!PauseType] /\ w \in [Writers -> Pauses!WriterType]
    BY <1>1 DEF Pauses!Init
  <2>2. saved \in [Keys -> Pauses!SavedType]
    BY <1>2 DEF Pauses!Init
  <2>3. /\ account \in [Writers \X Keys -> Nat] /\ reports \in [Keys -> SUBSET Writers]
        /\ restored \in BOOLEAN
    BY DEF Pauses!Init
  <2> QED BY <1>3, <2>1, <2>2, <2>3 DEF Pauses!TypeOK
<1>5. \A k \in Keys : Pauses!Probes(k) = {}
  BY <1>3 DEF Pauses!Probes
<1> QED BY <1>3, <1>4, <1>5 DEF Pauses!IndInv, Pauses!Probing

(* Steps of the other part leave the pauses alone.                         *)
LEMMA PauseStutter ==
    ASSUME Pauses!IndInv, UNCHANGED pauseVars
    PROVE  Pauses!IndInv'
<1>1. UNCHANGED <<paused, account, reports, saved, restored, w>>
  BY DEF pauseVars
<1>2. \A k : Pauses!Probes(k)' = Pauses!Probes(k)
  BY <1>1 DEF Pauses!Probes
<1> QED BY <1>1, <1>2 DEF Pauses!IndInv, Pauses!TypeOK, Pauses!Probing

\* While SoundCloud refuses an action one write at a time probes it, and no hold
\* is longer than MAX_PAUSE, for every number of keys and writers and whatever is
\* refused, restarted or lost (write_pause.rs).
THEOREM PausesAreSafe == PartSpec => []PausesSafe
<1>1. Init => Pauses!IndInv
  BY PauseBegins DEF Init
<1>2. Pauses!IndInv => PausesSafe
  <2> SUFFICES ASSUME Pauses!IndInv PROVE PausesSafe
    OBVIOUS
  <2>0. \A S : Pauses!Cardinality(S) = Cardinality(S)
    BY DEF Pauses!Cardinality, Cardinality
  <2>1. ASSUME NEW k \in Keys PROVE Cardinality(Pauses!Probes(k)) <= 1
    <3>1. \A x, y \in Pauses!Probes(k) : x = y
      BY DEF Pauses!IndInv, Pauses!Probing
    <3> QED BY <3>1, AtMostOne
  <2> QED BY <2>0, <2>1 DEF Pauses!IndInv, PausesSafe, Pauses!OneProbe
<1>3. Pauses!IndInv /\ [PartNext]_vars => Pauses!IndInv'
  <2> SUFFICES ASSUME Pauses!IndInv, [PartNext]_vars
               PROVE  Pauses!IndInv'
    OBVIOUS
  <2>1. CASE Pauses!Next
    BY <2>1, PauseClock, PauseWays, PauseAnswers DEF Pauses!Next, Pauses!Work
  <2>2. CASE UNCHANGED pauseVars
    BY <2>2, PauseStutter
  <2>3. Pauses!Next \/ UNCHANGED pauseVars
    BY Zenon DEF PartNext, vars
  <2> QED BY <2>1, <2>2, <2>3
<1> QED BY <1>1, <1>2, <1>3, PTL DEF PartSpec

-----------------------------------------------------------------------------
(* The sync queue.                                                         *)

(* The mutations there are.                                                *)
Mutations == {"like", "unlike", "create", "comment"}

(* The constants of the queue.                                             *)
LEMMA QueueConstants ==
    /\ Actions \subseteq Mutations /\ "none" \notin Mutations /\ NoLease \notin Executors
    /\ MaxRetries \in Nat /\ MaxTaps \in Nat /\ MaxErrors \in Nat /\ MaxMishaps \in Nat
    /\ MaxRetries > 0
    /\ Sync!Pair \cup Sync!NonIdempotent = Mutations
  BY QueueOK DEF Sync!SyncAssumption, Sync!Pair, Sync!NonIdempotent, Mutations

(* What a mutation is.                                                     *)
LEMMA Kinds ==
    ASSUME NEW a \in Mutations
    PROVE  /\ a \in Sync!Pair <=> a \in {"like", "unlike"}
           /\ a \in Sync!NonIdempotent <=> a \in {"create", "comment"}
           /\ a \in Sync!Pair <=> a \notin Sync!NonIdempotent
           /\ a # "none"
  BY DEF Mutations, Sync!Pair, Sync!NonIdempotent

(* The types, one by one.                                                  *)
LEMMA QueueTypes ==
    ASSUME Sync!TypeOK
    PROVE  /\ queue \in [Mutations -> Sync!RowType]
           /\ \A a \in Mutations : queue[a] \in Sync!RowType
           /\ ex \in [Executors -> Sync!ExecType]
           /\ \A e \in Executors : ex[e] \in Sync!ExecType
           /\ \A e \in Executors : ex[e].act \in Mutations \cup {"none"}
           /\ \A e \in Executors : ex[e].pc = "idle" <=> ex[e].act = "none"
           /\ mirror \in [wanted : BOOLEAN, v : 0..MaxTaps, synced : 0..MaxTaps]
           /\ remote \in {"on", "off", "gone"}
           /\ effects \in [Sync!NonIdempotent -> Nat]
           /\ clock \in 0..MaxTaps /\ errors \in 0..MaxErrors /\ mishaps \in 0..MaxMishaps
  BY QueueConstants DEF Sync!TypeOK, Sync!ExecType

(* The fields of a row and of a copy.                                      *)
LEMMA RowFields ==
    ASSUME NEW r \in Sync!RowType
    PROVE  /\ r.gen \in 0..MaxTaps /\ r.exec \in 0..MaxTaps /\ r.created \in 0..MaxTaps
           /\ r.lease \in Executors \cup {NoLease} /\ r.leaseGen \in 0..MaxTaps
           /\ r.attempted \in 0..MaxTaps /\ r.completed \in 0..MaxTaps
           /\ r.retry \in 0..MaxRetries /\ r.cancelled \in BOOLEAN /\ r.dead \in BOOLEAN
  BY DEF Sync!RowType

LEMMA CopyFields ==
    ASSUME NEW c \in Sync!ExecType
    PROVE  /\ c.gen \in 0..MaxTaps /\ c.retry \in 0..MaxRetries
           /\ c.act \in Actions \cup {"none"}
           /\ c.unclear \in BOOLEAN /\ c.result \in BOOLEAN
  BY DEF Sync!ExecType

LEMMA BlankRow ==
    /\ Sync!NoRow \in Sync!RowType /\ Sync!NoRow.gen = 0 /\ Sync!NoRow.lease = NoLease
    /\ Sync!NoRow.attempted = 0 /\ Sync!NoRow.completed = 0 /\ Sync!NoRow.retry = 0
    /\ Sync!NoRow.dead = FALSE /\ Sync!NoRow.cancelled = FALSE
  BY QueueConstants DEF Sync!NoRow, Sync!RowType

LEMMA BlankCopy ==
    Sync!IdleExec \in Sync!ExecType /\ Sync!IdleExec.pc = "idle" /\ Sync!IdleExec.act = "none"
  BY QueueConstants DEF Sync!IdleExec, Sync!ExecType

(* A row whose lease is given up is otherwise the same.                    *)
LEMMA FreedRow ==
    ASSUME NEW r \in Sync!RowType
    PROVE  LET q == Sync!Free(r) IN
           /\ q \in Sync!RowType /\ q.lease = NoLease /\ q.gen = r.gen
           /\ q.exec = r.exec /\ q.created = r.created /\ q.attempted = r.attempted
           /\ q.completed = r.completed /\ q.retry = r.retry
           /\ q.cancelled = r.cancelled /\ q.dead = r.dead
<1> DEFINE L == Executors \cup {NoLease}
<1>1. 0 \in 0..MaxTaps /\ NoLease \in L
  BY QueueConstants
<1>2. r \in [gen : 0..MaxTaps, exec : 0..MaxTaps, cancelled : BOOLEAN, created : 0..MaxTaps,
              lease : L, leaseGen : 0..MaxTaps, attempted : 0..MaxTaps,
              completed : 0..MaxTaps, retry : 0..MaxRetries, dead : BOOLEAN]
  BY DEF Sync!RowType
<1> HIDE DEF L
<1>3. LET q == [r EXCEPT !.lease = NoLease, !.leaseGen = 0] IN
      /\ q \in [gen : 0..MaxTaps, exec : 0..MaxTaps, cancelled : BOOLEAN, created : 0..MaxTaps,
                lease : L, leaseGen : 0..MaxTaps, attempted : 0..MaxTaps,
                completed : 0..MaxTaps, retry : 0..MaxRetries, dead : BOOLEAN]
      /\ q.lease = NoLease /\ q.gen = r.gen
      /\ q.exec = r.exec /\ q.created = r.created /\ q.attempted = r.attempted
      /\ q.completed = r.completed /\ q.retry = r.retry
      /\ q.cancelled = r.cancelled /\ q.dead = r.dead
  BY <1>1, <1>2
<1> QED BY <1>3 DEF Sync!Free, Sync!RowType, L

(* A statement an execution ends with: nothing of the row changes when it  *)
(* is not the holder's, and the holder gives up the lease.                 *)
Ends(e, r) ==
    LET q == Sync!Row(e) IN
    /\ queue' = [queue EXCEPT ![ex[e].act] = r]
    /\ r \in Sync!RowType
    /\ r.gen = q.gen /\ r.created = q.created /\ r.completed = q.completed
    /\ r.cancelled = q.cancelled
    /\ IF Sync!Owns(e) THEN r.lease = NoLease ELSE r = q

(* Release and postpone.                                                   *)
LEMMA EndsFree ==
    ASSUME Sync!TypeOK, NEW e \in Executors, ex[e].act \in Mutations,
           Sync!Release(e) \/ Sync!Postpone(e)
    PROVE  \E r : /\ Ends(e, r) /\ r.attempted = Sync!Row(e).attempted
                  /\ r.retry = Sync!Row(e).retry /\ r.dead = Sync!Row(e).dead
<1> DEFINE q == Sync!Row(e)
<1>1. q \in Sync!RowType /\ q = queue[ex[e].act]
  BY QueueTypes DEF Sync!Row
<1>2. CASE Sync!Owns(e)
  <2>1. queue' = [queue EXCEPT ![ex[e].act] = Sync!Free(q)]
    BY <1>2 DEF Sync!Release, Sync!Postpone, Sync!Store, Sync!Current
  <2>2. Ends(e, Sync!Free(q)) /\ Sync!Free(q).attempted = q.attempted
        /\ Sync!Free(q).retry = q.retry /\ Sync!Free(q).dead = q.dead
    BY <1>1, <1>2, <2>1, FreedRow DEF Ends
  <2> QED BY <2>2
<1>3. CASE ~Sync!Owns(e)
  <2>1. queue' = queue
    BY <1>3 DEF Sync!Release, Sync!Postpone, Sync!Current
  <2>2. queue' = [queue EXCEPT ![ex[e].act] = q]
    BY <1>1, <2>1, QueueTypes
  <2>3. Ends(e, q)
    BY <1>1, <1>3, <2>2 DEF Ends
  <2> QED BY <2>3
<1> QED BY <1>2, <1>3

(* A mark is taken back only where nothing is recorded, and never of a     *)
(* mutation of the pair.                                                   *)
LEMMA EndsUnattempted ==
    ASSUME Sync!TypeOK, NEW e \in Executors, ex[e].act \in Mutations,
           Sync!PostponeUnattempted(e)
    PROVE  \E r : /\ Ends(e, r)
                  /\ \/ r.attempted = Sync!Row(e).attempted
                     \/ r.attempted = 0 /\ ex[e].act \notin Sync!Pair /\ Sync!Row(e).completed = 0
                  /\ r.retry = Sync!Row(e).retry /\ r.dead = Sync!Row(e).dead
<1> DEFINE q == Sync!Row(e)
<1>1. q \in Sync!RowType /\ q = queue[ex[e].act]
  BY QueueTypes DEF Sync!Row
<1>2. CASE Sync!Current(e) /\ q.completed = 0
  <2> DEFINE n == IF ex[e].act \in Sync!Pair THEN q.attempted ELSE 0
             r == [Sync!Free(q) EXCEPT !.attempted = n]
  <2>1. Sync!Free(q) \in Sync!RowType /\ Sync!Free(q).attempted = q.attempted
    BY <1>1, FreedRow
  <2>2. queue' = [queue EXCEPT ![ex[e].act] = r]
    BY <1>2, <2>1 DEF Sync!PostponeUnattempted, Sync!Store
  <2>3. n \in 0..MaxTaps
    BY <1>1, QueueConstants, RowFields
  <2> HIDE DEF n
  <2>4. /\ r \in Sync!RowType /\ r.lease = Sync!Free(q).lease /\ r.gen = Sync!Free(q).gen
        /\ r.created = Sync!Free(q).created /\ r.completed = Sync!Free(q).completed
        /\ r.cancelled = Sync!Free(q).cancelled /\ r.retry = Sync!Free(q).retry
        /\ r.dead = Sync!Free(q).dead /\ r.attempted = n
    BY <2>1, <2>3 DEF Sync!RowType
  <2> HIDE DEF r
  <2>5. Ends(e, r) /\ r.retry = q.retry /\ r.dead = q.dead
    BY <1>1, <1>2, <2>2, <2>4, FreedRow DEF Ends, Sync!Current
  <2> QED BY <1>2, <2>4, <2>5 DEF n
<1>3. CASE ~(Sync!Current(e) /\ q.completed = 0)
  <2>1. Sync!Release(e)
    BY <1>3 DEF Sync!PostponeUnattempted
  <2> QED BY <2>1, EndsFree
<1> QED BY <1>2, <1>3

(* Before the request the mark is taken back only of what was clear.       *)
LEMMA EndsBeforePost ==
    ASSUME Sync!TypeOK, NEW e \in Executors, ex[e].act \in Mutations,
           Sync!PostponeBeforePost(e) \/ Sync!ConnectionFailure(e)
    PROVE  \E r : /\ Ends(e, r)
                  /\ \/ r.attempted = Sync!Row(e).attempted
                     \/ /\ r.attempted = 0 /\ ex[e].act \notin Sync!Pair
                        /\ Sync!Row(e).completed = 0 /\ ~ex[e].unclear
                  /\ r.retry = Sync!Row(e).retry /\ r.dead = Sync!Row(e).dead
<1>1. \/ Sync!Postpone(e)
      \/ ~ex[e].unclear /\ Sync!PostponeUnattempted(e)
  BY DEF Sync!PostponeBeforePost, Sync!ConnectionFailure
<1>2. CASE Sync!Postpone(e)
  BY <1>2, EndsFree
<1>3. CASE ~ex[e].unclear /\ Sync!PostponeUnattempted(e)
  <2>1. PICK r : /\ Ends(e, r)
                 /\ \/ r.attempted = Sync!Row(e).attempted
                    \/ r.attempted = 0 /\ ex[e].act \notin Sync!Pair /\ Sync!Row(e).completed = 0
                 /\ r.retry = Sync!Row(e).retry /\ r.dead = Sync!Row(e).dead
    BY <1>3, EndsUnattempted
  <2> QED BY <1>3, <2>1
<1> QED BY <1>1, <1>2, <1>3

(* Parking, and the retry that is counted from the copy.                   *)
LEMMA EndsPark ==
    ASSUME Sync!TypeOK, NEW e \in Executors, ex[e].act \in Mutations, Sync!Park(e)
    PROVE  \E r : Ends(e, r) /\ r.attempted = Sync!Row(e).attempted
<1> DEFINE q == Sync!Row(e)
<1>1. q \in Sync!RowType /\ q = queue[ex[e].act]
  BY QueueTypes DEF Sync!Row
<1>2. CASE Sync!Current(e)
  <2> DEFINE f == Sync!Free(q)
             r == [f EXCEPT !.dead = TRUE, !.retry = MaxRetries]
  <2>1. f \in Sync!RowType /\ MaxRetries \in 0..MaxRetries
    BY <1>1, FreedRow, QueueConstants
  <2>2. queue' = [queue EXCEPT ![ex[e].act] = r]
    BY <1>2 DEF Sync!Park, Sync!Store
  <2> HIDE DEF f
  <2>3. /\ r \in Sync!RowType /\ r.lease = f.lease /\ r.gen = f.gen
        /\ r.created = f.created /\ r.completed = f.completed
        /\ r.cancelled = f.cancelled /\ r.attempted = f.attempted
    BY <2>1 DEF Sync!RowType
  <2> HIDE DEF r
  <2>4. Ends(e, r) /\ r.attempted = q.attempted
    BY <1>1, <1>2, <2>2, <2>3, FreedRow DEF Ends, Sync!Current, f
  <2> QED BY <2>4
<1>3. CASE ~Sync!Current(e)
  <2>1. Sync!Release(e)
    BY <1>3 DEF Sync!Park
  <2> QED BY <2>1, EndsFree
<1> QED BY <1>2, <1>3

LEMMA EndsRetry ==
    ASSUME Sync!TypeOK, Sync!Copied, NEW e \in Executors, ex[e].act \in Mutations,
           Sync!RetryOrPark(e)
    PROVE  \E r : /\ Ends(e, r) /\ r.attempted = Sync!Row(e).attempted
                  /\ r = Sync!Row(e) \/ r.retry <= ex[e].retry + 1
                  /\ r.dead => Sync!Row(e).dead \/ MaxRetries <= ex[e].retry + 1
<1> DEFINE q == Sync!Row(e)
           f == Sync!Free(q)
<1>1. q \in Sync!RowType /\ q = queue[ex[e].act] /\ q.retry \in 0..MaxRetries
  BY QueueTypes, RowFields DEF Sync!Row
<1>2. f \in Sync!RowType /\ ex[e].retry \in 0..MaxRetries
  BY <1>1, FreedRow, QueueTypes, CopyFields
<1>3. CASE Sync!Current(e)
  <2>1. q.retry <= ex[e].retry
    BY <1>3, QueueConstants DEF Sync!Copied, Sync!Current
  <2> DEFINE k == IF ex[e].retry + 1 >= MaxRetries THEN MaxRetries ELSE q.retry + 1
             d == ex[e].retry + 1 >= MaxRetries \/ q.dead
             r == IF ex[e].retry + 1 >= MaxRetries
                  THEN [f EXCEPT !.dead = TRUE, !.retry = MaxRetries]
                  ELSE [f EXCEPT !.retry = q.retry + 1]
  <2>2. queue' = [queue EXCEPT ![ex[e].act] = r]
    <3>1. f.retry = q.retry
      BY <1>1, FreedRow
    <3> QED BY <1>3, <3>1 DEF Sync!RetryOrPark, Sync!Park, Sync!Retry, Sync!Store
  <2>3. k \in 0..MaxRetries /\ k <= ex[e].retry + 1
    BY <1>1, <1>2, <2>1, QueueConstants
  <2> HIDE DEF f
  <2>4. /\ r \in Sync!RowType /\ r.lease = f.lease /\ r.gen = f.gen
        /\ r.created = f.created /\ r.completed = f.completed
        /\ r.cancelled = f.cancelled /\ r.attempted = f.attempted /\ r.retry = k
        /\ r.dead => f.dead \/ MaxRetries <= ex[e].retry + 1
    <3>1. CASE ex[e].retry + 1 >= MaxRetries
      BY <1>2, <2>3, <3>1 DEF Sync!RowType
    <3>2. CASE ~(ex[e].retry + 1 >= MaxRetries)
      <4> DEFINE n == q.retry + 1
      <4>1. n \in 0..MaxRetries /\ k = n
        BY <2>3, <3>2
      <4>2. r = [f EXCEPT !.retry = n]
        BY <3>2
      <4> HIDE DEF n, r, k
      <4> QED BY <1>2, <4>1, <4>2 DEF Sync!RowType
    <3> QED BY <3>1, <3>2
  <2> HIDE DEF r, k
  <2>5. Ends(e, r) /\ r.attempted = q.attempted /\ f.dead = q.dead
    BY <1>1, <1>3, <2>2, <2>4, FreedRow DEF Ends, Sync!Current, f
  <2> QED BY <2>3, <2>4, <2>5
<1>4. CASE ~Sync!Current(e)
  <2>1. Sync!Release(e)
    BY <1>4 DEF Sync!RetryOrPark, Sync!Park, Sync!Retry
  <2>2. PICK r : /\ Ends(e, r) /\ r.attempted = q.attempted /\ r.retry = q.retry
                 /\ r.dead = q.dead
    BY <2>1, EndsFree
  <2>3. r.retry <= ex[e].retry + 1 \/ r = q
    <3>1. CASE Sync!Owns(e)
      <4>1. q.retry <= ex[e].retry
        BY <3>1, QueueConstants DEF Sync!Copied
      <4> QED BY <1>1, <1>2, <2>2, <4>1
    <3>2. CASE ~Sync!Owns(e)
      BY <2>2, <3>2 DEF Ends
    <3> QED BY <3>1, <3>2
  <2> QED BY <2>2, <2>3
<1> QED BY <1>3, <1>4

(* Without a mishap and with nothing parked, whoever works on one          *)
(* mutation of the pair is alone: the other has no lease and no mark.      *)
LEMMA LoneWorker ==
    ASSUME Sync!IndInv, mishaps = 0, errors < MaxRetries,
           NEW e \in Executors, ex[e].act \in Sync!Pair
    PROVE  /\ \A f \in Executors : ex[f].act \in Sync!Pair => f = e
           /\ Sync!Owns(e) /\ Sync!Row(e).lease = e
           /\ \A b \in Sync!Pair \ {ex[e].act} : Sync!Idle(queue[b])
<1> USE QueueConstants
<1>0. Sync!Rows /\ Sync!Ordered /\ Sync!Served /\ Sync!TypeOK
  BY DEF Sync!IndInv
<1>1. ASSUME NEW f \in Executors, ex[f].act \in Sync!Pair
      PROVE  /\ queue[ex[f].act].lease = f /\ Sync!Owns(f)
             /\ Sync!Exists(ex[f].act) /\ ~Sync!Idle(queue[ex[f].act])
  <2>1. Sync!Owns(f) /\ queue[ex[f].act].lease = f
    BY <1>0, <1>1 DEF Sync!Served, Sync!Owns, Sync!Row
  <2>2. queue[ex[f].act] # Sync!NoRow /\ f # NoLease
    BY <2>1, BlankRow
  <2>3. queue[ex[f].act].gen # 0
    BY <1>0, <1>1, <2>2 DEF Sync!Rows
  <2>4. queue[ex[f].act].gen \in Nat
    BY <1>0, <1>1, QueueTypes, RowFields
  <2> QED BY <2>1, <2>2, <2>3, <2>4 DEF Sync!Exists, Sync!Idle
<1>2. ASSUME NEW b \in Sync!Pair \ {ex[e].act} PROVE Sync!Idle(queue[b])
  <2>1. CASE Sync!Exists(b)
    BY <1>0, <1>1, <2>1 DEF Sync!Ordered
  <2>2. CASE ~Sync!Exists(b)
    <3>1. queue[b].gen = 0
      BY <2>2, <1>0, QueueTypes, RowFields DEF Sync!Exists
    <3>2. queue[b] = Sync!NoRow
      BY <1>0, <3>1 DEF Sync!Rows
    <3> QED BY <3>2, BlankRow DEF Sync!Idle
  <2> QED BY <2>1, <2>2
<1>3. ASSUME NEW f \in Executors, ex[f].act \in Sync!Pair PROVE f = e
  <2>1. CASE ex[f].act = ex[e].act
    BY <1>1, <1>3, <2>1
  <2>2. CASE ex[f].act # ex[e].act
    BY <1>1, <1>2, <1>3, <2>2
  <2> QED BY <2>1, <2>2
<1> QED BY <1>1, <1>2, <1>3 DEF Sync!Row

(* The end of an execution.                                                *)
LEMMA EndStep ==
    ASSUME Sync!IndInv, NEW e \in Executors, ex[e].act \in Mutations,
           NEW r, Ends(e, r), Sync!Stop(e),
           UNCHANGED <<mirror, clock, mishaps>>,
           errors' \in 0..MaxErrors, errors <= errors',
           ex[e].act \in Sync!Pair =>
               /\ r.attempted = Sync!Row(e).attempted
               /\ r.retry <= errors' /\ (r.retry > 0 => r.attempted # 0)
               /\ r.dead => errors' >= MaxRetries,
           ex[e].act \in Sync!NonIdempotent /\ mishaps = 0 =>
               /\ r.attempted \in {0, r.gen} /\ (r.attempted = 0 => effects'[ex[e].act] = 0)
               /\ effects'[ex[e].act] \in {0, 1}
               /\ r.completed # 0 => r.attempted # 0 /\ effects'[ex[e].act] = 1,
           effects' \in [Sync!NonIdempotent -> Nat],
           \A b \in Sync!NonIdempotent : b # ex[e].act => effects'[b] = effects[b],
           remote' \in {"on", "off", "gone"},
           \/ remote' = remote
           \/ /\ ex[e].act \in Sync!Pair /\ ex[e].pc # "begin"
              /\ remote' \in {"gone", Sync!Brings(ex[e].act)}
    PROVE  Sync!IndInv'
<1> USE QueueConstants
<1> DEFINE a == ex[e].act
           q == queue[a]
<1>0. /\ Sync!TypeOK /\ Sync!Rows /\ Sync!Copied /\ Sync!Marked /\ Sync!Counted
      /\ Sync!Ordered /\ Sync!Served
  BY DEF Sync!IndInv
<1>1. /\ q \in Sync!RowType /\ r \in Sync!RowType /\ Sync!Row(e) = q
      /\ r.gen = q.gen /\ r.created = q.created /\ r.completed = q.completed
      /\ r.cancelled = q.cancelled
      /\ IF Sync!Owns(e) THEN r.lease = NoLease ELSE r = q
      /\ \A b \in Mutations : queue'[b] = IF b = a THEN r ELSE queue[b]
      /\ queue' \in [Mutations -> Sync!RowType]
  BY <1>0, QueueTypes DEF Ends, Sync!Row
<1>2. /\ \A f \in Executors : ex'[f] = IF f = e THEN Sync!IdleExec ELSE ex[f]
      /\ ex' \in [Executors -> Sync!ExecType]
  BY <1>0, QueueTypes, BlankCopy DEF Sync!Stop
<1>3. /\ \A f \in Executors : ex'[f].act # "none" => f # e /\ ex'[f] = ex[f]
      /\ \A f \in Executors : ex'[f].act \in Mutations \cup {"none"}
      /\ \A f \in Executors : ex'[f].pc = "idle" <=> ex'[f].act = "none"
      /\ \A f \in Executors : ex[f].act \in Mutations \cup {"none"}
  BY <1>0, <1>2, BlankCopy, QueueTypes
<1>4. Sync!TypeOK'
  BY <1>0, <1>1, <1>2, <1>3 DEF Sync!TypeOK
<1>5. Sync!Rows'
  <2>1. ASSUME NEW b \in Mutations
        PROVE  IF queue'[b].gen = 0 THEN queue'[b] = Sync!NoRow
               ELSE queue'[b].created \in 1..clock /\ queue'[b].gen \in 1..clock
    <3>1. CASE b # a
      BY <1>0, <1>1, <3>1 DEF Sync!Rows
    <3>2. CASE b = a /\ q.gen = 0
      BY <1>0, <1>1, <3>2, BlankRow DEF Sync!Rows, Sync!Owns
    <3>3. CASE b = a /\ q.gen # 0
      BY <1>0, <1>1, <3>3 DEF Sync!Rows
    <3> QED BY <3>1, <3>2, <3>3
  <2> QED BY <1>0, <2>1 DEF Sync!Rows
(* The others own what they owned. *)
<1>6. ASSUME NEW f \in Executors, ex'[f].act # "none"
      PROVE  /\ Sync!Owns(f)' <=> Sync!Owns(f)
             /\ Sync!Owns(f) => Sync!Row(f)' = Sync!Row(f)
             /\ ex'[f] = ex[f] /\ f # e /\ ex[f].act \in Mutations
  BY <1>1, <1>3, <1>6 DEF Sync!Owns, Sync!Row
<1>7. Sync!Copied'
  <2>1. ASSUME NEW f \in Executors, ex'[f].act # "none"
        PROVE  /\ ex'[f].pc \in {"list", "relist", "refreshList"} => ex'[f].act = "create"
               /\ ex'[f].pc = "park" => ex'[f].act = "comment"
               /\ ex'[f].gen > 0
               /\ Sync!Owns(f)' => Sync!Row(f)'.retry <= ex'[f].retry
               /\ Sync!Owns(f)' /\ ex'[f].act \in Sync!Pair
                  /\ ex'[f].pc \in {"refresh", "write", "rewrite", "success"}
                  => Sync!Row(f)'.attempted # 0
    BY <1>0, <1>6, <2>1 DEF Sync!Copied
  <2> QED BY <1>3, <2>1 DEF Sync!Copied
<1>8. Sync!Marked'
  <2> SUFFICES ASSUME mishaps = 0, NEW b \in Sync!NonIdempotent
               PROVE  /\ effects'[b] \in {0, 1}
                      /\ queue'[b].attempted \in {0, queue'[b].gen}
                      /\ queue'[b].completed \in {0, queue'[b].gen}
                      /\ queue'[b].gen > 0 /\ queue'[b].attempted = 0 => effects'[b] = 0
                      /\ queue'[b].completed # 0 => queue'[b].attempted # 0 /\ effects'[b] = 1
                      /\ \A f \in Executors : ex'[f].act = b => Sync!Known(f)'
    BY Zenon DEF Sync!Marked, Sync!Exists
  <2>1. CASE b = a
    <3>1. \A f \in Executors : ex'[f].act = b => FALSE
      <4>1. \A f \in Executors : ex[f].act = b => Sync!Owns(f)
        BY <1>0 DEF Sync!Marked, Sync!Known, Sync!Current
      <4> QED BY <1>6, <2>1, <4>1 DEF Sync!Owns, Sync!Row
    <3> QED BY <1>0, <1>1, <2>1, <3>1 DEF Sync!Marked
  <2>2. CASE b # a
    <3>1. queue'[b] = queue[b] /\ effects'[b] = effects[b]
      BY <1>1, <2>2
    <3>2. ASSUME NEW f \in Executors, ex'[f].act = b
          PROVE  Sync!Known(f)'
      <4>1. ex'[f] = ex[f] /\ Sync!Known(f) /\ Sync!Row(f)' = Sync!Row(f)
            /\ Sync!Owns(f)' /\ effects'[ex'[f].act] = effects[ex[f].act]
        BY <1>0, <1>6, <3>1, <3>2 DEF Sync!Marked, Sync!Known, Sync!Current
      <4> QED BY <4>1 DEF Sync!Known, Sync!Current
    <3> QED BY <1>0, <3>1, <3>2 DEF Sync!Marked, Sync!Exists
  <2> QED BY <2>1, <2>2
<1>9. Sync!Counted'
  <2>1. ASSUME NEW b \in Sync!Pair
        PROVE  /\ queue'[b].retry <= errors' /\ (queue'[b].retry > 0 => queue'[b].attempted # 0)
               /\ queue'[b].dead => errors' >= MaxRetries
    <3>1. CASE b = a
      BY <1>1, <3>1
    <3>2. CASE b # a
      <4>1. queue'[b] = queue[b] /\ queue[b].retry \in 0..MaxRetries
        BY <1>0, <1>1, <3>2, QueueTypes, RowFields
      <4> QED BY <1>0, <4>1, QueueTypes DEF Sync!Counted
    <3> QED BY <3>1, <3>2
  <2>2. ASSUME NEW f \in Executors, ex'[f].act \in Sync!Pair PROVE ex'[f].retry <= errors'
    <3>1. ex'[f] = ex[f] /\ ex[f].retry \in Nat
      BY <1>0, <1>3, <2>2, QueueTypes, CopyFields
    <3> QED BY <1>0, <2>2, <3>1, QueueTypes DEF Sync!Counted
  <2> QED BY <2>1, <2>2 DEF Sync!Counted
<1>10. errors' < MaxRetries => errors < MaxRetries
  BY <1>0, QueueTypes
<1>11. a \in Sync!Pair => (Sync!Idle(q) => r = q) /\ (~Sync!Idle(r) => ~Sync!Idle(q))
  BY <1>1 DEF Sync!Idle, Sync!Owns
<1>12. Sync!Ordered'
  <2> SUFFICES ASSUME errors < MaxRetries, NEW b \in Sync!Pair, NEW c \in Sync!Pair, b # c,
                      queue'[b].gen > 0, queue'[c].gen > 0
               PROVE  /\ queue'[b].created # queue'[c].created
                      /\ ~Sync!Idle(queue'[c]) => Sync!Idle(queue'[b])
                            /\ (queue'[b].cancelled \/ queue'[b].created > queue'[c].created)
                      /\ Sync!Wanted(b)' /\ queue'[b].cancelled
                            => queue'[b].created > queue'[c].created
    BY <1>10, Zenon DEF Sync!Ordered, Sync!Exists, Sync!Idle
  <2>1. \A d \in Sync!Pair : /\ queue'[d].gen = queue[d].gen
                             /\ queue'[d].created = queue[d].created
                             /\ queue'[d].cancelled = queue[d].cancelled
                             /\ Sync!Idle(queue[d]) => queue'[d] = queue[d]
                             /\ ~Sync!Idle(queue'[d]) => ~Sync!Idle(queue[d])
    BY <1>1, <1>11
  <2>2. Sync!Wanted(b)' = Sync!Wanted(b)
    BY DEF Sync!Wanted
  <2> QED BY <1>0, <2>1, <2>2 DEF Sync!Ordered, Sync!Exists
<1>13. Sync!Served'
  <2> SUFFICES ASSUME mishaps = 0, errors < MaxRetries, NEW b \in Sync!Pair
               PROVE  /\ \A f \in Executors : ex'[f].act = b =>
                            /\ Sync!Owns(f)'
                            /\ ex'[f].pc = "success" => remote' \in {"gone", Sync!Brings(b)}
                      /\ queue'[b].completed # 0 => remote' \in {"gone", Sync!Brings(b)}
                      /\ mirror.synced = mirror.v =>
                            IF Sync!Wanted(b) THEN remote' \in {"gone", Sync!Brings(b)}
                            ELSE /\ queue'[b].attempted = 0 /\ queue'[b].completed = 0
                                 /\ \A f \in Executors : ex'[f].act = b =>
                                      ex'[f].pc = "begin" /\ ~ex'[f].result /\ Sync!Current(f)'
    BY <1>10, Zenon DEF Sync!Served, Sync!Wanted, Sync!Brings
  <2>1. ASSUME NEW f \in Executors, ex'[f].act = b
        PROVE  /\ ex[f] = ex'[f] /\ Sync!Owns(f)' /\ Sync!Row(f)' = Sync!Row(f) /\ f # e
               /\ ex[f].act \in Sync!Pair
    BY <1>0, <1>6, <2>1 DEF Sync!Served
  <2>2. \/ remote' = remote
        \/ /\ a \in Sync!Pair /\ ex[e].pc # "begin" /\ remote' \in {"gone", Sync!Brings(a)}
           /\ \A f \in Executors : ex[f].act \in Sync!Pair => f = e
           /\ b # a => Sync!Idle(queue[b])
           /\ mirror.synced = mirror.v => Sync!Wanted(a)
    BY <1>0, LoneWorker DEF Sync!Served
  <2>3. queue'[b].attempted = queue[b].attempted /\ queue'[b].completed = queue[b].completed
    BY <1>1
  <2>4. Sync!Wanted(b) /\ a \in Sync!Pair /\ Sync!Wanted(a) => a = b
    BY DEF Sync!Wanted, Sync!Pair
  <2>5. ASSUME NEW f \in Executors, ex'[f].act = b, ex'[f].pc = "success"
        PROVE  remote' \in {"gone", Sync!Brings(b)}
    BY <1>0, <2>1, <2>2, <2>5 DEF Sync!Served
  <2>6. queue'[b].completed # 0 => remote' \in {"gone", Sync!Brings(b)}
    BY <1>0, <2>2, <2>3 DEF Sync!Served, Sync!Idle
  <2>7. mirror.synced = mirror.v /\ Sync!Wanted(b) => remote' \in {"gone", Sync!Brings(b)}
    BY <1>0, <2>2, <2>4 DEF Sync!Served
  <2>8. ASSUME mirror.synced = mirror.v, ~Sync!Wanted(b)
        PROVE  /\ queue'[b].attempted = 0 /\ queue'[b].completed = 0
               /\ \A f \in Executors : ex'[f].act = b =>
                    ex'[f].pc = "begin" /\ ~ex'[f].result /\ Sync!Current(f)'
    BY <1>0, <2>1, <2>3, <2>8 DEF Sync!Served, Sync!Current
  <2> QED BY <2>1, <2>5, <2>6, <2>7, <2>8
<1> QED BY <1>4, <1>5, <1>7, <1>8, <1>9, <1>12, <1>13 DEF Sync!IndInv

(* The later steps of an execution, and a copy that goes on to one.        *)
Steps == {"park", "token", "refresh", "refreshList", "list", "relist",
          "attempt", "write", "rewrite", "success", "finalize"}

LEMMA MovedCopy ==
    ASSUME NEW c \in Sync!ExecType, NEW p \in Steps
    PROVE  LET d == [c EXCEPT !.pc = p] IN
           /\ d \in Sync!ExecType /\ d.pc = p /\ d.act = c.act /\ d.gen = c.gen
           /\ d.unclear = c.unclear /\ d.result = c.result /\ d.retry = c.retry
           /\ p # "idle" /\ p # "begin"
  BY DEF Sync!ExecType, Steps

(* A step in the course of an execution: the holder may mark its row.      *)
LEMMA MoveStep ==
    ASSUME Sync!IndInv, NEW e \in Executors, ex[e].act \in Mutations,
           NEW r \in Sync!RowType, queue' = [queue EXCEPT ![ex[e].act] = r],
           NEW p \in Steps,
           Sync!Go(e, p),
           UNCHANGED <<mirror, clock, mishaps>>,
           errors' \in 0..MaxErrors, errors <= errors',
           r = Sync!Row(e) \/ Sync!Owns(e),
           r.gen = Sync!Row(e).gen, r.created = Sync!Row(e).created,
           r.lease = Sync!Row(e).lease, r.leaseGen = Sync!Row(e).leaseGen,
           r.retry = Sync!Row(e).retry, r.cancelled = Sync!Row(e).cancelled,
           r.dead = Sync!Row(e).dead,
           Sync!Row(e).attempted # 0 => r.attempted # 0,
           p \in {"list", "relist", "refreshList"} => ex[e].act = "create",
           p = "park" => ex[e].act = "comment",
           (/\ ex[e].act \in Sync!Pair /\ Sync!Owns(e)
            /\ p \in {"refresh", "write", "rewrite", "success"}) => r.attempted # 0,
           ex[e].act \in Sync!NonIdempotent /\ mishaps = 0 =>
               /\ Sync!Known(e)'
               /\ r.attempted \in {0, r.gen} /\ r.completed \in {0, r.gen}
               /\ r.attempted = 0 => effects'[ex[e].act] = 0
               /\ effects'[ex[e].act] \in {0, 1}
               /\ r.completed # 0 => r.attempted # 0 /\ effects'[ex[e].act] = 1,
           effects' \in [Sync!NonIdempotent -> Nat],
           \A b \in Sync!NonIdempotent : b # ex[e].act => effects'[b] = effects[b],
           remote' \in {"on", "off", "gone"},
           \/ remote' = remote
           \/ /\ ex[e].act \in Sync!Pair /\ remote' \in {"gone", Sync!Brings(ex[e].act)},
           ex[e].act \in Sync!Pair /\ mishaps = 0 /\ errors < MaxRetries =>
               /\ mirror.synced = mirror.v => Sync!Wanted(ex[e].act)
               /\ p = "success" => remote' \in {"gone", Sync!Brings(ex[e].act)}
               /\ r.completed # 0 => remote' \in {"gone", Sync!Brings(ex[e].act)}
    PROVE  Sync!IndInv'
<1> USE QueueConstants
<1> DEFINE a == ex[e].act
           q == queue[a]
<1>0. /\ Sync!TypeOK /\ Sync!Rows /\ Sync!Copied /\ Sync!Marked /\ Sync!Counted
      /\ Sync!Ordered /\ Sync!Served
  BY DEF Sync!IndInv
<1>1. /\ q \in Sync!RowType /\ Sync!Row(e) = q
      /\ \A b \in Mutations : queue'[b] = IF b = a THEN r ELSE queue[b]
      /\ queue' \in [Mutations -> Sync!RowType]
  BY <1>0, QueueTypes DEF Sync!Row
<1> DEFINE d == [ex[e] EXCEPT !.pc = p]
<1>2. /\ d \in Sync!ExecType /\ d.pc = p /\ d.act = a /\ d.gen = ex[e].gen
      /\ d.unclear = ex[e].unclear /\ d.result = ex[e].result /\ d.retry = ex[e].retry
      /\ p # "idle" /\ p # "begin"
  <2>1. ex[e] \in Sync!ExecType
    BY <1>0, QueueTypes
  <2> QED BY <2>1, MovedCopy
<1>3. /\ \A f \in Executors : ex'[f] = IF f = e THEN d ELSE ex[f]
      /\ ex' \in [Executors -> Sync!ExecType]
  BY <1>0, <1>2, QueueTypes DEF Sync!Go
<1> HIDE DEF d
<1>4. \A f \in Executors : /\ ex'[f].act = ex[f].act /\ ex'[f].gen = ex[f].gen
                           /\ ex'[f].retry = ex[f].retry /\ ex'[f].result = ex[f].result
                           /\ ex[f].act \in Mutations \cup {"none"}
                           /\ ex'[f].pc = "idle" <=> ex'[f].act = "none"
                           /\ f # e => ex'[f] = ex[f]
  BY <1>0, <1>2, <1>3, QueueTypes
<1>5. Sync!TypeOK'
  BY <1>0, <1>1, <1>3, <1>4 DEF Sync!TypeOK
<1>6. Sync!Rows'
  <2>1. ASSUME NEW b \in Mutations
        PROVE  IF queue'[b].gen = 0 THEN queue'[b] = Sync!NoRow
               ELSE queue'[b].created \in 1..clock /\ queue'[b].gen \in 1..clock
    <3>1. CASE b # a
      BY <1>0, <1>1, <3>1 DEF Sync!Rows
    <3>2. CASE b = a /\ q.gen = 0
      BY <1>0, <1>1, <3>2, BlankRow DEF Sync!Rows, Sync!Owns
    <3>3. CASE b = a /\ q.gen # 0
      BY <1>0, <1>1, <3>3 DEF Sync!Rows
    <3> QED BY <3>1, <3>2, <3>3
  <2> QED BY <1>0, <2>1 DEF Sync!Rows
<1>7. ASSUME NEW f \in Executors, ex[f].act # "none"
      PROVE  /\ Sync!Owns(f)' <=> Sync!Owns(f)
             /\ f # e /\ Sync!Owns(f) => Sync!Row(f)' = Sync!Row(f)
             /\ Sync!Row(e)' = r
  BY <1>1, <1>4, <1>7 DEF Sync!Owns, Sync!Row
<1>8. Sync!Copied'
  <2>1. ASSUME NEW f \in Executors, ex'[f].act # "none"
        PROVE  /\ ex'[f].pc \in {"list", "relist", "refreshList"} => ex'[f].act = "create"
               /\ ex'[f].pc = "park" => ex'[f].act = "comment"
               /\ ex'[f].gen > 0
               /\ Sync!Owns(f)' => Sync!Row(f)'.retry <= ex'[f].retry
               /\ Sync!Owns(f)' /\ ex'[f].act \in Sync!Pair
                  /\ ex'[f].pc \in {"refresh", "write", "rewrite", "success"}
                  => Sync!Row(f)'.attempted # 0
    <3>1. CASE f = e
      BY <1>0, <1>1, <1>2, <1>3, <1>4, <1>7, <2>1, <3>1 DEF Sync!Copied
    <3>2. CASE f # e
      BY <1>0, <1>4, <1>7, <2>1, <3>2 DEF Sync!Copied
    <3> QED BY <3>1, <3>2
  <2> QED BY <1>4, <2>1 DEF Sync!Copied
<1>9. Sync!Marked'
  <2> SUFFICES ASSUME mishaps = 0, NEW b \in Sync!NonIdempotent
               PROVE  /\ effects'[b] \in {0, 1}
                      /\ queue'[b].attempted \in {0, queue'[b].gen}
                      /\ queue'[b].completed \in {0, queue'[b].gen}
                      /\ queue'[b].gen > 0 /\ queue'[b].attempted = 0 => effects'[b] = 0
                      /\ queue'[b].completed # 0 => queue'[b].attempted # 0 /\ effects'[b] = 1
                      /\ \A f \in Executors : ex'[f].act = b => Sync!Known(f)'
    BY Zenon DEF Sync!Marked, Sync!Exists
  <2>1. CASE b = a
    <3>1. \A f \in Executors : ex'[f].act = b => f = e
      <4>1. \A f \in Executors : ex[f].act = b => Sync!Owns(f)
        BY <1>0 DEF Sync!Marked, Sync!Known, Sync!Current
      <4> QED BY <1>4, <2>1, <4>1 DEF Sync!Owns, Sync!Row
    <3> QED BY <1>1, <2>1, <3>1
  <2>2. CASE b # a
    <3>1. queue'[b] = queue[b] /\ effects'[b] = effects[b]
      BY <1>1, <2>2
    <3>2. ASSUME NEW f \in Executors, ex'[f].act = b
          PROVE  Sync!Known(f)'
      <4>1. ex'[f] = ex[f] /\ Sync!Known(f) /\ Sync!Row(f)' = Sync!Row(f)
            /\ Sync!Owns(f)' /\ effects'[ex'[f].act] = effects[ex[f].act]
        BY <1>0, <1>4, <1>7, <2>2, <3>1, <3>2 DEF Sync!Marked, Sync!Known, Sync!Current
      <4> QED BY <4>1 DEF Sync!Known, Sync!Current
    <3> QED BY <1>0, <3>1, <3>2 DEF Sync!Marked, Sync!Exists
  <2> QED BY <2>1, <2>2
<1>10. Sync!Counted'
  <2>1. ASSUME NEW b \in Sync!Pair
        PROVE  /\ queue'[b].retry <= errors' /\ (queue'[b].retry > 0 => queue'[b].attempted # 0)
               /\ queue'[b].dead => errors' >= MaxRetries
    <3>1. /\ queue'[b].retry = queue[b].retry /\ queue'[b].dead = queue[b].dead
          /\ queue[b].attempted # 0 => queue'[b].attempted # 0
      BY <1>1
    <3>2. queue[b].retry \in 0..MaxRetries
      BY <1>0, QueueTypes, RowFields
    <3> QED BY <1>0, <3>1, <3>2, QueueTypes DEF Sync!Counted
  <2>2. ASSUME NEW f \in Executors, ex'[f].act \in Sync!Pair PROVE ex'[f].retry <= errors'
    <3>1. ex'[f].retry = ex[f].retry /\ ex[f].retry \in Nat
      BY <1>0, <1>4, QueueTypes, CopyFields
    <3> QED BY <1>0, <1>4, <2>2, <3>1, QueueTypes DEF Sync!Counted
  <2> QED BY <2>1, <2>2 DEF Sync!Counted
<1>11. errors' < MaxRetries => errors < MaxRetries
  BY <1>0, QueueTypes
<1>12. (Sync!Idle(q) => r = q) /\ (~Sync!Idle(r) => ~Sync!Idle(q))
  BY <1>1 DEF Sync!Idle, Sync!Owns
<1>13. Sync!Ordered'
  <2> SUFFICES ASSUME errors < MaxRetries, NEW b \in Sync!Pair, NEW c \in Sync!Pair, b # c,
                      queue'[b].gen > 0, queue'[c].gen > 0
               PROVE  /\ queue'[b].created # queue'[c].created
                      /\ ~Sync!Idle(queue'[c]) => Sync!Idle(queue'[b])
                            /\ (queue'[b].cancelled \/ queue'[b].created > queue'[c].created)
                      /\ Sync!Wanted(b)' /\ queue'[b].cancelled
                            => queue'[b].created > queue'[c].created
    BY <1>11, Zenon DEF Sync!Ordered, Sync!Exists, Sync!Idle
  <2>1. \A x \in Sync!Pair : /\ queue'[x].gen = queue[x].gen
                             /\ queue'[x].created = queue[x].created
                             /\ queue'[x].cancelled = queue[x].cancelled
                             /\ Sync!Idle(queue[x]) => queue'[x] = queue[x]
                             /\ ~Sync!Idle(queue'[x]) => ~Sync!Idle(queue[x])
    BY <1>1, <1>12
  <2>2. Sync!Wanted(b)' = Sync!Wanted(b)
    BY DEF Sync!Wanted
  <2> QED BY <1>0, <2>1, <2>2 DEF Sync!Ordered, Sync!Exists
<1>14. Sync!Served'
  <2> SUFFICES ASSUME mishaps = 0, errors < MaxRetries, NEW b \in Sync!Pair
               PROVE  /\ \A f \in Executors : ex'[f].act = b =>
                            /\ Sync!Owns(f)'
                            /\ ex'[f].pc = "success" => remote' \in {"gone", Sync!Brings(b)}
                      /\ queue'[b].completed # 0 => remote' \in {"gone", Sync!Brings(b)}
                      /\ mirror.synced = mirror.v =>
                            IF Sync!Wanted(b) THEN remote' \in {"gone", Sync!Brings(b)}
                            ELSE /\ queue'[b].attempted = 0 /\ queue'[b].completed = 0
                                 /\ \A f \in Executors : ex'[f].act = b =>
                                      ex'[f].pc = "begin" /\ ~ex'[f].result /\ Sync!Current(f)'
    BY <1>11, Zenon DEF Sync!Served, Sync!Wanted, Sync!Brings
  <2>1. ASSUME NEW f \in Executors, ex'[f].act = b
        PROVE  /\ Sync!Owns(f)' /\ ex[f].act = b
               /\ f # e => ex'[f] = ex[f] /\ Sync!Row(f)' = Sync!Row(f)
    BY <1>0, <1>4, <1>7, <2>1 DEF Sync!Served
  <2>2. a \in Sync!Pair => /\ \A f \in Executors : ex[f].act \in Sync!Pair => f = e
                           /\ b # a => Sync!Idle(queue[b])
                           /\ mirror.synced = mirror.v => Sync!Wanted(a)
    BY LoneWorker
  <2>3. b # a => queue'[b] = queue[b]
    BY <1>1
  <2>4. Sync!Wanted(b) /\ a \in Sync!Pair /\ Sync!Wanted(a) => a = b
    BY DEF Sync!Wanted, Sync!Pair
  <2>5. ASSUME NEW f \in Executors, ex'[f].act = b, ex'[f].pc = "success"
        PROVE  remote' \in {"gone", Sync!Brings(b)}
    BY <1>0, <1>2, <1>3, <2>1, <2>2, <2>5 DEF Sync!Served
  <2>6. queue'[b].completed # 0 => remote' \in {"gone", Sync!Brings(b)}
    BY <1>0, <1>1, <2>2, <2>3 DEF Sync!Served, Sync!Idle
  <2>7. mirror.synced = mirror.v /\ Sync!Wanted(b) => remote' \in {"gone", Sync!Brings(b)}
    BY <1>0, <2>2, <2>4 DEF Sync!Served
  <2>8. ASSUME mirror.synced = mirror.v, ~Sync!Wanted(b)
        PROVE  /\ queue'[b].attempted = 0 /\ queue'[b].completed = 0
               /\ \A f \in Executors : ex'[f].act = b =>
                    ex'[f].pc = "begin" /\ ~ex'[f].result /\ Sync!Current(f)'
    <3>1. b # a /\ \A f \in Executors : ex'[f].act = b => f # e
      BY <1>4, <2>2, <2>8
    <3> QED BY <1>0, <2>1, <2>3, <2>8, <3>1 DEF Sync!Served, Sync!Current
  <2> QED BY <2>1, <2>5, <2>6, <2>7, <2>8
<1> QED BY <1>5, <1>6, <1>8, <1>9, <1>10, <1>13, <1>14 DEF Sync!IndInv

(* Who is at work works on a mutation.                                     *)
LEMMA AtWork ==
    ASSUME Sync!IndInv, NEW e \in Executors, ex[e].pc # "idle"
    PROVE  /\ ex[e].act \in Mutations /\ ex[e].gen > 0
           /\ Sync!Row(e) = queue[ex[e].act] /\ Sync!Row(e) \in Sync!RowType
           /\ ex[e].act \in Sync!NonIdempotent /\ mishaps = 0 =>
                /\ Sync!Known(e) /\ Sync!Exists(ex[e].act)
                /\ Sync!Row(e).attempted = 0 => effects[ex[e].act] = 0
           /\ ex[e].act \in Sync!Pair /\ mishaps = 0 /\ errors < MaxRetries
                /\ ex[e].pc # "begin" /\ mirror.synced = mirror.v => Sync!Wanted(ex[e].act)
<1> USE QueueConstants
<1>0. Sync!TypeOK /\ Sync!Copied /\ Sync!Marked /\ Sync!Served
  BY DEF Sync!IndInv
<1>1. ex[e].act \in Mutations
  BY <1>0, QueueTypes
<1>2. ex[e].gen > 0 /\ Sync!Row(e) = queue[ex[e].act] /\ Sync!Row(e) \in Sync!RowType
  BY <1>0, <1>1, QueueTypes DEF Sync!Copied, Sync!Row
<1>3. ASSUME ex[e].act \in Sync!NonIdempotent, mishaps = 0
      PROVE  /\ Sync!Known(e) /\ Sync!Exists(ex[e].act)
             /\ Sync!Row(e).attempted = 0 => effects[ex[e].act] = 0
  <2>1. Sync!Known(e)
    BY <1>0, <1>3 DEF Sync!Marked
  <2>2. Sync!Exists(ex[e].act)
    BY <1>2, <2>1 DEF Sync!Known, Sync!Current, Sync!Exists
  <2> QED BY <1>0, <1>2, <1>3, <2>1, <2>2 DEF Sync!Marked
<1>4. ASSUME ex[e].act \in Sync!Pair, mishaps = 0, errors < MaxRetries, ex[e].pc # "begin",
             mirror.synced = mirror.v
      PROVE  Sync!Wanted(ex[e].act)
  BY <1>0, <1>4 DEF Sync!Served
<1> QED BY <1>1, <1>2, <1>3, <1>4

(* An execution that ends without a count.                                 *)
LEMMA EndSame ==
    ASSUME Sync!IndInv, NEW e \in Executors, ex[e].pc # "idle",
           NEW r, Ends(e, r), Sync!Stop(e),
           UNCHANGED <<mirror, remote, effects, clock, mishaps>>,
           errors' \in 0..MaxErrors, errors <= errors',
           r.retry = Sync!Row(e).retry, r.dead = Sync!Row(e).dead,
           \/ r.attempted = Sync!Row(e).attempted
           \/ /\ r.attempted = 0 /\ ex[e].act \notin Sync!Pair /\ Sync!Row(e).completed = 0
              /\ mishaps = 0 => effects[ex[e].act] = 0
    PROVE  Sync!IndInv'
<1> USE QueueConstants
<1> DEFINE a == ex[e].act
           q == Sync!Row(e)
<1>0. Sync!TypeOK /\ Sync!Marked /\ Sync!Counted
  BY DEF Sync!IndInv
<1>1. a \in Mutations /\ q = queue[a] /\ q \in Sync!RowType
  BY AtWork
<1>2. r.gen = q.gen /\ r.completed = q.completed /\ q.retry \in Nat
  BY <1>1, RowFields DEF Ends
<1>3. a \in Sync!Pair => /\ r.attempted = q.attempted
                         /\ r.retry <= errors' /\ (r.retry > 0 => r.attempted # 0)
                         /\ r.dead => errors' >= MaxRetries
  BY <1>0, <1>1, <1>2, QueueTypes DEF Sync!Counted
<1>4. a \in Sync!NonIdempotent /\ mishaps = 0 =>
        /\ r.attempted \in {0, r.gen} /\ (r.attempted = 0 => effects'[a] = 0)
        /\ effects'[a] \in {0, 1}
        /\ r.completed # 0 => r.attempted # 0 /\ effects'[a] = 1
  BY <1>0, <1>1, <1>2, AtWork DEF Sync!Marked
<1>5. effects' \in [Sync!NonIdempotent -> Nat] /\ remote' \in {"on", "off", "gone"}
      /\ \A b \in Sync!NonIdempotent : b # a => effects'[b] = effects[b]
  BY <1>0, QueueTypes
<1> QED BY <1>1, <1>3, <1>4, <1>5, EndStep

(* An execution that ends with a retry or parked.                          *)
LEMMA EndCounted ==
    ASSUME Sync!IndInv, NEW e \in Executors, ex[e].pc # "idle",
           Sync!RetryOrPark(e) \/ (Sync!Park(e) /\ ex[e].act \notin Sync!Pair), Sync!Stop(e),
           UNCHANGED <<mirror, clock, mishaps>>,
           errors' \in 0..MaxErrors,
           errors' = errors + 1 \/ (errors' = errors /\ ex[e].act \notin Sync!Pair),
           ex[e].act \in Sync!Pair => ex[e].pc \in {"write", "rewrite"},
           effects' \in [Sync!NonIdempotent -> Nat],
           \A b \in Sync!NonIdempotent : b # ex[e].act => effects'[b] = effects[b],
           ex[e].act \in Sync!NonIdempotent /\ mishaps = 0 =>
               /\ effects'[ex[e].act] \in {0, 1}
               /\ Sync!Row(e).attempted = 0 => effects'[ex[e].act] = 0
               /\ Sync!Row(e).completed # 0 => effects'[ex[e].act] = 1,
           remote' \in {"on", "off", "gone"},
           \/ remote' = remote
           \/ ex[e].act \in Sync!Pair /\ remote' \in {"gone", Sync!Brings(ex[e].act)}
    PROVE  Sync!IndInv'
<1> USE QueueConstants
<1> DEFINE a == ex[e].act
           q == Sync!Row(e)
<1>0. Sync!TypeOK /\ Sync!Copied /\ Sync!Marked /\ Sync!Counted
  BY DEF Sync!IndInv
<1>1. /\ a \in Mutations /\ q = queue[a] /\ q \in Sync!RowType
      /\ ex[e].retry \in Nat /\ q.retry \in Nat /\ errors \in Nat
  BY <1>0, AtWork, RowFields, CopyFields, QueueTypes
<1>2. PICK r : /\ Ends(e, r) /\ r.attempted = q.attempted
               /\ a \in Sync!Pair => /\ r = q \/ r.retry <= ex[e].retry + 1
                                     /\ r.dead => q.dead \/ MaxRetries <= ex[e].retry + 1
  BY <1>0, <1>1, EndsRetry, EndsPark
<1>3. /\ r.gen = q.gen /\ r.completed = q.completed /\ r \in Sync!RowType
      /\ r.retry \in Nat /\ (~Sync!Owns(e) => r = q)
  BY <1>2, RowFields DEF Ends
<1>4. ASSUME a \in Sync!Pair
      PROVE  /\ r.retry <= errors' /\ (r.retry > 0 => r.attempted # 0)
             /\ r.dead => errors' >= MaxRetries
  <2>1. /\ ex[e].retry <= errors /\ q.retry <= errors /\ errors' = errors + 1
        /\ q.retry > 0 => q.attempted # 0
        /\ q.dead => errors >= MaxRetries
    BY <1>0, <1>1, <1>4 DEF Sync!Counted
  <2>2. Sync!Owns(e) => q.attempted # 0
    BY <1>0, <1>1, <1>4 DEF Sync!Copied
  <2> QED BY <1>1, <1>2, <1>3, <1>4, <2>1, <2>2
<1>5. a \in Sync!NonIdempotent /\ mishaps = 0 =>
        /\ r.attempted \in {0, r.gen} /\ (r.attempted = 0 => effects'[a] = 0)
        /\ effects'[a] \in {0, 1}
        /\ r.completed # 0 => r.attempted # 0 /\ effects'[a] = 1
  BY <1>0, <1>1, <1>2, <1>3 DEF Sync!Marked
<1>6. errors <= errors'
  BY <1>1
<1>7. \/ remote' = remote
      \/ a \in Sync!Pair /\ ex[e].pc # "begin" /\ remote' \in {"gone", Sync!Brings(a)}
  OBVIOUS
<1> QED BY <1>1, <1>2, <1>4, <1>5, <1>6, <1>7, EndStep

(* What is known of a create or a comment at a later step.                 *)
KnownAt(e, p) ==
    LET r == Sync!Row(e) IN
    /\ p = "finalize" => r.completed # 0
    /\ p # "finalize" => r.completed = 0
    /\ p \in {"park", "token", "list", "relist", "refreshList"} =>
            (ex[e].unclear <=> r.attempted # 0)
    /\ p \in {"list", "relist", "refreshList"} => ex[e].unclear
    /\ p = "token" /\ ex[e].act = "comment" => ~ex[e].unclear
    /\ p \in {"attempt", "refresh", "write", "rewrite"} => effects[ex[e].act] = 0
    /\ p \in {"refresh", "write", "rewrite", "success"} => r.attempted # 0
    /\ p = "success" => effects[ex[e].act] = 1

(* An execution that goes on and leaves the table alone.                   *)
LEMMA MoveSame ==
    ASSUME Sync!IndInv, NEW e \in Executors, ex[e].pc # "idle",
           NEW p \in Steps, Sync!Go(e, p),
           UNCHANGED <<queue, mirror, remote, effects, clock, mishaps>>,
           errors' \in 0..MaxErrors, errors <= errors',
           p \in {"list", "relist", "refreshList"} => ex[e].act = "create",
           p = "park" => ex[e].act = "comment",
           p # "success",
           (/\ ex[e].act \in Sync!Pair /\ Sync!Owns(e)
            /\ p \in {"refresh", "write", "rewrite"}) => Sync!Row(e).attempted # 0,
           ex[e].act \in Sync!NonIdempotent /\ mishaps = 0 => KnownAt(e, p),
           (/\ ex[e].act \in Sync!Pair /\ mishaps = 0 /\ errors < MaxRetries
            /\ mirror.synced = mirror.v) => Sync!Wanted(ex[e].act)
    PROVE  Sync!IndInv'
<1> USE QueueConstants
<1> DEFINE a == ex[e].act
           q == Sync!Row(e)
<1>0. Sync!TypeOK /\ Sync!Marked /\ Sync!Served
  BY DEF Sync!IndInv
<1>1. a \in Mutations /\ q = queue[a] /\ q \in Sync!RowType
  BY AtWork
<1>2. queue' = [queue EXCEPT ![a] = q]
  BY <1>0, <1>1, QueueTypes
<1>3. ASSUME a \in Sync!NonIdempotent, mishaps = 0
      PROVE  /\ Sync!Known(e)'
             /\ q.attempted \in {0, q.gen} /\ q.completed \in {0, q.gen}
             /\ q.attempted = 0 => effects'[a] = 0
             /\ effects'[a] \in {0, 1}
             /\ q.completed # 0 => q.attempted # 0 /\ effects'[a] = 1
  <2>1. Sync!Known(e) /\ (q.attempted = 0 => effects[a] = 0)
    BY <1>3, AtWork
  <2>2. ex[e] \in Sync!ExecType
    BY <1>0, QueueTypes
  <2>3. /\ ex'[e].pc = p /\ ex'[e].act = a /\ ex'[e].gen = ex[e].gen /\ p # "begin"
        /\ ex'[e].unclear = ex[e].unclear
    BY <1>0, <2>2, MovedCopy, QueueTypes DEF Sync!Go
  <2>4. Sync!Row(e)' = q /\ Sync!Current(e)'
    BY <1>1, <2>1, <2>3 DEF Sync!Known, Sync!Current, Sync!Owns, Sync!Row
  <2>5. Sync!Known(e)'
    BY <1>3, <2>1, <2>3, <2>4 DEF Sync!Known, Sync!Fresh, KnownAt
  <2> QED BY <1>0, <1>1, <1>3, <2>1, <2>5 DEF Sync!Marked
<1>4. a \in Sync!Pair /\ mishaps = 0 /\ errors < MaxRetries =>
        /\ mirror.synced = mirror.v => Sync!Wanted(a)
        /\ q.completed # 0 => remote' \in {"gone", Sync!Brings(a)}
  BY <1>0, <1>1 DEF Sync!Served
<1>5. effects' \in [Sync!NonIdempotent -> Nat] /\ remote' \in {"on", "off", "gone"}
  BY <1>0, QueueTypes
<1> QED BY <1>1, <1>2, <1>3, <1>4, <1>5, MoveStep

(* Errors are counted up to their bound.                                   *)
LEMMA ErrorsGrow ==
    ASSUME Sync!TypeOK, Sync!Fails \/ UNCHANGED errors
    PROVE  errors' \in 0..MaxErrors /\ errors <= errors'
  BY QueueConstants, QueueTypes DEF Sync!Fails

(* No row leaves the queue.                                                *)
Keeps == \A b \in Mutations : Sync!Exists(b) => Sync!Exists(b)'

LEMMA EndsKeep ==
    ASSUME Sync!TypeOK, NEW e \in Executors, ex[e].act \in Mutations, NEW r, Ends(e, r)
    PROVE  Keeps
  BY QueueTypes DEF Ends, Keeps, Sync!Exists, Sync!Row

LEMMA SameKeep == UNCHANGED queue => Keeps
  BY DEF Keeps, Sync!Exists

(* An execution that postpones or gives up its lease before or after the   *)
(* request, with nothing of it in doubt.                                   *)
LEMMA PostponeStep ==
    ASSUME Sync!IndInv, NEW e \in Executors, ex[e].pc # "idle",
           \/ Sync!Release(e)
           \/ Sync!Postpone(e)
           \/ /\ Sync!PostponeBeforePost(e) \/ Sync!ConnectionFailure(e)
              /\ ex[e].pc \in {"token", "refresh", "refreshList", "attempt", "write", "rewrite"}
           \/ /\ Sync!PostponeUnattempted(e)
              /\ ex[e].pc \in {"write", "rewrite"},
           Sync!Stop(e),
           UNCHANGED <<mirror, remote, effects, clock, mishaps>>,
           Sync!Fails \/ UNCHANGED errors
    PROVE  Sync!IndInv' /\ Keeps
<1> DEFINE a == ex[e].act
           q == Sync!Row(e)
<1>0. Sync!TypeOK
  BY DEF Sync!IndInv
<1>1. a \in Mutations /\ q \in Sync!RowType
  BY AtWork
<1>2. errors' \in 0..MaxErrors /\ errors <= errors'
  BY <1>0, ErrorsGrow
<1>3. \E r : /\ Ends(e, r) /\ r.retry = q.retry /\ r.dead = q.dead
             /\ \/ r.attempted = q.attempted
                \/ /\ r.attempted = 0 /\ a \notin Sync!Pair /\ q.completed = 0
                   /\ mishaps = 0 => effects[a] = 0
  <2>1. CASE Sync!Release(e) \/ Sync!Postpone(e)
    BY <1>0, <1>1, <2>1, EndsFree
  <2>2. CASE /\ Sync!PostponeBeforePost(e) \/ Sync!ConnectionFailure(e)
             /\ ex[e].pc \in {"token", "refresh", "refreshList", "attempt", "write", "rewrite"}
    <3>1. PICK r : /\ Ends(e, r)
                   /\ \/ r.attempted = q.attempted
                      \/ /\ r.attempted = 0 /\ a \notin Sync!Pair
                         /\ q.completed = 0 /\ ~ex[e].unclear
                   /\ r.retry = q.retry /\ r.dead = q.dead
      BY <1>0, <1>1, <2>2, EndsBeforePost
    <3>2. a \notin Sync!Pair /\ ~ex[e].unclear /\ mishaps = 0 => effects[a] = 0
      <4>1. ASSUME a \notin Sync!Pair, ~ex[e].unclear, mishaps = 0 PROVE effects[a] = 0
        <5>1. Sync!Known(e) /\ (q.attempted = 0 => effects[a] = 0)
          BY <1>1, <4>1, AtWork, Kinds
        <5> QED BY <2>2, <4>1, <5>1 DEF Sync!Known
      <4> QED BY <4>1
    <3> QED BY <3>1, <3>2
  <2>3. CASE Sync!PostponeUnattempted(e) /\ ex[e].pc \in {"write", "rewrite"}
    <3>1. PICK r : /\ Ends(e, r)
                   /\ \/ r.attempted = q.attempted
                      \/ r.attempted = 0 /\ a \notin Sync!Pair /\ q.completed = 0
                   /\ r.retry = q.retry /\ r.dead = q.dead
      BY <1>0, <1>1, <2>3, EndsUnattempted
    <3>2. a \notin Sync!Pair /\ mishaps = 0 => effects[a] = 0
      <4>1. ASSUME a \notin Sync!Pair, mishaps = 0 PROVE effects[a] = 0
        <5>1. Sync!Known(e)
          BY <1>1, <4>1, AtWork, Kinds
        <5> QED BY <2>3, <5>1 DEF Sync!Known
      <4> QED BY <4>1
    <3> QED BY <3>1, <3>2
  <2> QED BY <2>1, <2>2, <2>3
<1>4. PICK r : /\ Ends(e, r) /\ r.retry = q.retry /\ r.dead = q.dead
               /\ \/ r.attempted = q.attempted
                  \/ /\ r.attempted = 0 /\ a \notin Sync!Pair /\ q.completed = 0
                     /\ mishaps = 0 => effects[a] = 0
  BY <1>3
<1>5. Sync!IndInv'
  BY <1>2, <1>4, EndSame
<1>6. Keeps
  BY <1>0, <1>1, <1>4, EndsKeep
<1> QED BY <1>5, <1>6

(* An execution that is retried or parked, as far as a like is concerned   *)
(* after a request.                                                        *)
LEMMA CountStep ==
    ASSUME Sync!IndInv, NEW e \in Executors, ex[e].pc # "idle",
           Sync!RetryOrPark(e) \/ (Sync!Park(e) /\ ex[e].act \notin Sync!Pair), Sync!Stop(e),
           UNCHANGED <<mirror, clock, mishaps>>,
           Sync!Fails \/ (UNCHANGED errors /\ ex[e].act \notin Sync!Pair),
           ex[e].act \in Sync!Pair => ex[e].pc \in {"write", "rewrite"},
           \/ UNCHANGED <<remote, effects>>
           \/ Sync!Carried(ex[e].act) /\ ex[e].pc \in {"write", "rewrite"}
    PROVE  Sync!IndInv' /\ Keeps
<1> DEFINE a == ex[e].act
           q == Sync!Row(e)
<1>0. Sync!TypeOK /\ Sync!Copied /\ Sync!Marked
  BY DEF Sync!IndInv
<1>1. a \in Mutations /\ q \in Sync!RowType /\ q = queue[a]
  BY AtWork
<1>2. /\ errors' \in 0..MaxErrors
      /\ errors' = errors + 1 \/ (errors' = errors /\ a \notin Sync!Pair)
  BY <1>0, ErrorsGrow DEF Sync!Fails
<1>3. /\ effects' \in [Sync!NonIdempotent -> Nat]
      /\ \A b \in Sync!NonIdempotent : b # a => effects'[b] = effects[b]
  BY <1>0, QueueTypes DEF Sync!Carried
<1>4. /\ remote' \in {"on", "off", "gone"}
      /\ \/ remote' = remote
         \/ a \in Sync!Pair /\ remote' \in {"gone", Sync!Brings(a)}
  BY <1>0, QueueTypes DEF Sync!Carried, Sync!Brings
<1>5. ASSUME a \in Sync!NonIdempotent, mishaps = 0
      PROVE  /\ effects'[a] \in {0, 1}
             /\ q.attempted = 0 => effects'[a] = 0
             /\ q.completed # 0 => effects'[a] = 1
  <2>1. Sync!Known(e) /\ (q.attempted = 0 => effects[a] = 0)
    BY <1>5, AtWork
  <2>2. CASE UNCHANGED effects
    BY <1>0, <1>1, <1>5, <2>1, <2>2 DEF Sync!Marked
  <2>3. CASE Sync!Carried(a) /\ ex[e].pc \in {"write", "rewrite"}
    <3>1. q.attempted # 0 /\ q.completed = 0 /\ effects[a] = 0
      BY <2>1, <2>3 DEF Sync!Known
    <3>2. effects'[a] = 1
      BY <1>0, <1>5, <2>3, <3>1, QueueTypes DEF Sync!Carried
    <3> QED BY <3>1, <3>2
  <2> QED BY <2>2, <2>3
<1>6. Sync!IndInv'
  BY <1>2, <1>3, <1>4, <1>5, EndCounted
<1>7. Keeps
  BY <1>0, <1>1, EndsRetry, EndsPark, EndsKeep
<1> QED BY <1>6, <1>7

(* ---- The steps of an execution. ---- *)

LEMMA TroubleSafe ==
    ASSUME Sync!IndInv, NEW e \in Executors,
           \/ Sync!HeldBack(e) \/ Sync!WriteRefused(e) \/ Sync!WriteInvalid(e)
           \/ Sync!WriteUnclear(e) \/ Sync!FinalizeFails(e)
           \/ Sync!ParkUnclearComment(e)
    PROVE  Sync!IndInv' /\ Keeps
<1>0. Sync!TypeOK /\ Sync!Copied
  BY DEF Sync!IndInv
<1>1. CASE Sync!HeldBack(e)
  <2>1. ex[e].pc # "idle"
    BY <1>1 DEF Sync!HeldBack
  <2> QED BY <1>1, <2>1, PostponeStep DEF Sync!HeldBack
<1>2. CASE Sync!WriteRefused(e)
  <2>1. ex[e].pc # "idle"
    BY <1>2 DEF Sync!WriteRefused
  <2> QED BY <1>2, <2>1, PostponeStep DEF Sync!WriteRefused
<1>3. CASE Sync!WriteInvalid(e)
  <2>1. ex[e].pc # "idle"
    BY <1>3 DEF Sync!WriteInvalid
  <2>2. ex[e].act \in Mutations
    BY <2>1, AtWork
  <2> QED BY <1>3, <2>1, <2>2, CountStep, Kinds DEF Sync!WriteInvalid
<1>4. CASE Sync!WriteUnclear(e)
  <2>1. ex[e].pc # "idle"
    BY <1>4 DEF Sync!WriteUnclear
  <2>2. ex[e].act \in Mutations
    BY <2>1, AtWork
  <2> QED BY <1>4, <2>1, <2>2, CountStep, Kinds DEF Sync!WriteUnclear
<1>5. CASE Sync!FinalizeFails(e)
  <2>1. ex[e].pc = "finalize"
    BY <1>5 DEF Sync!FinalizeFails
  <2>2. ex[e].act \in Mutations
    BY <2>1, AtWork
  <2>3. CASE Sync!Postpone(e)
    BY <1>5, <2>1, <2>3, PostponeStep DEF Sync!FinalizeFails
  <2>4. CASE ex[e].act = "create" /\ Sync!Park(e)
    BY <1>5, <2>1, <2>2, <2>4, CountStep, Kinds DEF Sync!FinalizeFails
  <2> QED BY <1>5, <2>3, <2>4 DEF Sync!FinalizeFails
<1>6. CASE Sync!ParkUnclearComment(e)
  <2>1. ex[e].pc = "park"
    BY <1>6 DEF Sync!ParkUnclearComment
  <2>2. ex[e].act \in Mutations /\ ex[e].act = "comment"
    BY <1>0, <2>1, AtWork DEF Sync!Copied
  <2> QED BY <1>6, <2>1, <2>2, CountStep, Kinds DEF Sync!ParkUnclearComment
<1> QED BY <1>1, <1>2, <1>3, <1>4, <1>5, <1>6

(* The token, a second one, and the write refused for want of one.         *)
LEMMA TokenSafe ==
    ASSUME Sync!IndInv, NEW e \in Executors,
           Sync!Token(e) \/ Sync!WriteUnauthorized(e)
    PROVE  Sync!IndInv' /\ Keeps
<1> DEFINE a == ex[e].act
           q == Sync!Row(e)
<1>0. Sync!TypeOK /\ Sync!Copied
  BY DEF Sync!IndInv
<1>1. ex[e].pc # "idle" /\ ex[e].pc # "begin"
  BY DEF Sync!Token, Sync!WriteUnauthorized
<1>2. a \in Mutations /\ (a \in Sync!Pair <=> a \notin Sync!NonIdempotent)
  BY <1>1, AtWork, Kinds
<1>3. Sync!Fails \/ UNCHANGED errors
  BY DEF Sync!Token, Sync!WriteUnauthorized
<1>4. errors' \in 0..MaxErrors /\ errors <= errors'
  BY <1>0, <1>3, ErrorsGrow
<1>5. (/\ a \in Sync!Pair /\ mishaps = 0 /\ errors < MaxRetries
       /\ mirror.synced = mirror.v) => Sync!Wanted(a)
  BY <1>1, AtWork
<1>6. UNCHANGED <<mirror, remote, effects, clock, mishaps>>
  BY DEF Sync!Token, Sync!WriteUnauthorized
<1>7. ASSUME NEW p \in Steps, Sync!Go(e, p), UNCHANGED queue,
             \/ ex[e].pc = "refresh" /\ p = "rewrite"
             \/ ex[e].pc = "refreshList" /\ p = "relist"
             \/ ex[e].pc = "token" /\ p = "list" /\ a = "create" /\ ex[e].unclear
             \/ ex[e].pc = "token" /\ p = "attempt" /\ ~(a = "create" /\ ex[e].unclear)
             \/ ex[e].pc = "write" /\ p = "refresh"
      PROVE  Sync!IndInv' /\ Keeps
  <2>1. /\ p \in {"list", "relist", "refreshList"} => a = "create"
        /\ p # "park" /\ p # "success"
        /\ (/\ a \in Sync!Pair /\ Sync!Owns(e)
            /\ p \in {"refresh", "write", "rewrite"}) => q.attempted # 0
    BY <1>0, <1>1, <1>2, <1>7, Kinds DEF Sync!Copied
  <2>2. ASSUME a \in Sync!NonIdempotent, mishaps = 0 PROVE KnownAt(e, p)
    <3>1. Sync!Known(e) /\ (q.attempted = 0 => effects[a] = 0) /\ a \in {"create", "comment"}
      BY <1>1, <1>2, <2>2, AtWork, Kinds
    <3> QED BY <1>7, <3>1 DEF Sync!Known, KnownAt
  <2> QED BY <1>1, <1>4, <1>5, <1>6, <1>7, <2>1, <2>2, MoveSame, SameKeep
<1>8. CASE Sync!Token(e)
  <2>1. CASE Sync!Fails /\ Sync!ConnectionFailure(e) /\ Sync!Stop(e)
    BY <1>1, <1>6, <1>8, <2>1, PostponeStep DEF Sync!Token
  <2>2. CASE /\ Sync!Go(e, CASE ex[e].pc = "refresh" -> "rewrite"
                             [] ex[e].pc = "refreshList" -> "relist"
                             [] OTHER -> IF a = "create" /\ ex[e].unclear
                                         THEN "list" ELSE "attempt")
             /\ UNCHANGED queue
    <3>1. CASE ex[e].pc = "refresh"
      <4>1. Sync!Go(e, "rewrite")
        BY <2>2, <3>1
      <4> QED BY <1>7, <2>2, <3>1, <4>1 DEF Steps
    <3>2. CASE ex[e].pc = "refreshList"
      <4>1. Sync!Go(e, "relist")
        BY <2>2, <3>2
      <4> QED BY <1>7, <2>2, <3>2, <4>1 DEF Steps
    <3>3. CASE ex[e].pc = "token" /\ a = "create" /\ ex[e].unclear
      <4>1. Sync!Go(e, "list")
        BY <2>2, <3>3
      <4> QED BY <1>7, <2>2, <3>3, <4>1 DEF Steps
    <3>4. CASE ex[e].pc = "token" /\ ~(a = "create" /\ ex[e].unclear)
      <4>1. Sync!Go(e, "attempt")
        BY <2>2, <3>4
      <4> QED BY <1>7, <2>2, <3>4, <4>1 DEF Steps
    <3> QED BY <1>8, <3>1, <3>2, <3>3, <3>4 DEF Sync!Token
  <2> QED BY <1>8, <2>1, <2>2 DEF Sync!Token
<1>9. CASE Sync!WriteUnauthorized(e)
  <2>1. CASE ex[e].pc = "write"
    BY <1>7, <1>9, <2>1 DEF Sync!WriteUnauthorized, Steps
  <2>2. CASE ex[e].pc # "write"
    BY <1>1, <1>6, <1>9, <2>2, PostponeStep DEF Sync!WriteUnauthorized
  <2> QED BY <2>1, <2>2
<1> QED BY <1>8, <1>9

(* A row the holder marks.                                                 *)
LEMMA MarkedRow ==
    ASSUME NEW q \in Sync!RowType, NEW n \in 0..MaxTaps
    PROVE  LET r == [q EXCEPT !.attempted = n] IN
           /\ r \in Sync!RowType /\ r.gen = q.gen /\ r.created = q.created
           /\ r.lease = q.lease /\ r.leaseGen = q.leaseGen /\ r.retry = q.retry
           /\ r.cancelled = q.cancelled /\ r.dead = q.dead /\ r.exec = q.exec
           /\ r.attempted = n /\ r.completed = q.completed
  BY DEF Sync!RowType

LEMMA AnsweredRow ==
    ASSUME NEW q \in Sync!RowType, NEW n \in 0..MaxTaps
    PROVE  LET r == [q EXCEPT !.completed = n] IN
           /\ r \in Sync!RowType /\ r.gen = q.gen /\ r.created = q.created
           /\ r.lease = q.lease /\ r.leaseGen = q.leaseGen /\ r.retry = q.retry
           /\ r.cancelled = q.cancelled /\ r.dead = q.dead /\ r.exec = q.exec
           /\ r.completed = n /\ r.attempted = q.attempted
  BY DEF Sync!RowType

(* A copy that goes on beside a row that changes.                          *)
LEMMA MovedKnown ==
    ASSUME Sync!TypeOK, NEW e \in Executors, ex[e].act \in Mutations,
           NEW r \in Sync!RowType, queue' = [queue EXCEPT ![ex[e].act] = r],
           NEW p \in Steps, Sync!Go(e, p)
    PROVE  /\ Sync!Row(e)' = r /\ ex'[e].act = ex[e].act /\ ex'[e].pc = p
           /\ ex'[e].gen = ex[e].gen /\ ex'[e].unclear = ex[e].unclear
           /\ ex'[e].result = ex[e].result
           /\ p # "begin"
           /\ r.gen = Sync!Row(e).gen => Keeps
<1>1. ex[e] \in Sync!ExecType /\ ex \in [Executors -> Sync!ExecType]
      /\ queue \in [Mutations -> Sync!RowType]
  BY QueueTypes
<1>2. /\ ex'[e].act = ex[e].act /\ ex'[e].pc = p
      /\ ex'[e].gen = ex[e].gen /\ ex'[e].unclear = ex[e].unclear
      /\ ex'[e].result = ex[e].result /\ p # "begin"
  BY <1>1, MovedCopy DEF Sync!Go
<1>3. Sync!Row(e)' = r
  BY <1>1, <1>2 DEF Sync!Row
<1> QED BY <1>1, <1>2, <1>3 DEF Keeps, Sync!Exists, Sync!Row

(* The answer is recorded, or the lease given up when the row moved on.    *)
LEMMA RecordStep ==
    ASSUME Sync!IndInv, NEW e \in Executors, Sync!RecordSuccess(e),
           \/ ex[e].pc = "success"
           \/ ex[e].pc \in {"list", "relist"} /\ (effects["create"] > 0 \/ mishaps > 0),
           UNCHANGED <<mirror, remote, effects, clock, errors, mishaps>>
    PROVE  Sync!IndInv' /\ Keeps
<1> USE QueueConstants
<1> DEFINE a == ex[e].act
           q == Sync!Row(e)
<1>0. Sync!TypeOK /\ Sync!Copied /\ Sync!Marked /\ Sync!Served
  BY DEF Sync!IndInv
<1>1. /\ a \in Mutations /\ q \in Sync!RowType /\ q = queue[a] /\ ex[e].gen > 0
      /\ (a \in Sync!Pair <=> a \notin Sync!NonIdempotent)
  BY AtWork, Kinds
<1>2. CASE ~Sync!Recordable(e)
  <2>1. Sync!Release(e) /\ Sync!Stop(e)
    BY <1>2 DEF Sync!RecordSuccess
  <2> QED BY <2>1, PostponeStep
<1>3. CASE Sync!Recordable(e)
  <2> DEFINE n == ex[e].gen
             r == [q EXCEPT !.completed = n]
  <2>1. queue' = [queue EXCEPT ![a] = r] /\ Sync!Go(e, "finalize") /\ "finalize" \in Steps
    BY <1>3 DEF Sync!RecordSuccess, Sync!Store, Steps
  <2>2. n \in 0..MaxTaps
    BY <1>0, QueueTypes, CopyFields
  <2>3. /\ r \in Sync!RowType /\ r.gen = q.gen /\ r.created = q.created
        /\ r.lease = q.lease /\ r.leaseGen = q.leaseGen /\ r.retry = q.retry
        /\ r.cancelled = q.cancelled /\ r.dead = q.dead /\ r.exec = q.exec
        /\ r.completed = n /\ r.attempted = q.attempted
    <3> HIDE DEF q, n
    <3> QED BY <1>1, <2>2, AnsweredRow
  <2> HIDE DEF r
  <2>4. /\ Sync!Row(e)' = r /\ ex'[e].act = a /\ ex'[e].pc = "finalize"
        /\ ex'[e].gen = n /\ Keeps
    BY <1>0, <1>1, <2>1, <2>3, MovedKnown
  <2>5. Sync!Owns(e) /\ q.gen = n /\ q.attempted = n /\ q.leaseGen = n /\ q.lease = e
        /\ Sync!Current(e)'
    BY <1>3, <2>3, <2>4 DEF Sync!Recordable, Sync!Current, Sync!Owns
  <2>6. ASSUME a \in Sync!NonIdempotent, mishaps = 0
        PROVE  /\ Sync!Known(e)'
               /\ r.attempted \in {0, r.gen} /\ r.completed \in {0, r.gen}
               /\ r.attempted = 0 => effects'[a] = 0
               /\ effects'[a] \in {0, 1}
               /\ r.completed # 0 => r.attempted # 0 /\ effects'[a] = 1
    <3>1. Sync!Known(e) /\ effects[a] \in {0, 1}
      BY <1>0, <1>1, <2>6, AtWork DEF Sync!Marked
    <3>2. effects[a] = 1
      BY <1>0, <2>6, <3>1 DEF Sync!Known, Sync!Copied
    <3>3. Sync!Known(e)'
      BY <1>1, <2>3, <2>4, <2>5, <3>1, <3>2 DEF Sync!Known, Sync!Fresh
    <3> QED BY <1>1, <2>3, <2>5, <3>2, <3>3
  <2>7. ASSUME a \in Sync!Pair, mishaps = 0, errors < MaxRetries
        PROVE  /\ mirror.synced = mirror.v => Sync!Wanted(a)
               /\ remote \in {"gone", Sync!Brings(a)}
    BY <1>0, <1>1, <2>7, AtWork, Kinds DEF Sync!Served, Sync!Copied
  <2>8. effects' \in [Sync!NonIdempotent -> Nat] /\ remote' \in {"on", "off", "gone"}
        /\ errors' \in 0..MaxErrors /\ errors <= errors'
    BY <1>0, QueueTypes
  <2>9. Sync!IndInv'
    BY <1>1, <2>1, <2>3, <2>5, <2>6, <2>7, <2>8, MoveStep
  <2> QED BY <2>4, <2>9
<1> QED BY <1>2, <1>3

(* The look at the playlists of an unclear create, and the answer.         *)
LEMMA ConfirmSafe ==
    ASSUME Sync!IndInv, NEW e \in Executors,
           Sync!ConfirmUnclearCreate(e) \/ Sync!Success(e)
    PROVE  Sync!IndInv' /\ Keeps
<1> DEFINE a == ex[e].act
           q == Sync!Row(e)
<1>0. Sync!TypeOK /\ Sync!Copied
  BY DEF Sync!IndInv
<1>1. CASE Sync!Success(e)
  BY <1>1, RecordStep DEF Sync!Success
<1>2. CASE Sync!ConfirmUnclearCreate(e)
  <2>1. ex[e].pc \in {"list", "relist"} /\ ex[e].pc # "idle" /\ ex[e].pc # "begin"
    BY <1>2 DEF Sync!ConfirmUnclearCreate
  <2>2. a = "create" /\ a \in Sync!NonIdempotent /\ a \notin Sync!Pair /\ a \in Mutations
    BY <1>0, <2>1, AtWork, Kinds DEF Sync!Copied
  <2>3. UNCHANGED <<mirror, remote, effects, clock, mishaps>>
    BY <1>2 DEF Sync!ConfirmUnclearCreate
  <2>4. CASE (effects["create"] > 0 \/ mishaps > 0) /\ Sync!RecordSuccess(e) /\ UNCHANGED errors
    BY <2>1, <2>3, <2>4, RecordStep
  <2>5. ASSUME NEW p \in {"attempt", "refreshList"}, Sync!Go(e, p), UNCHANGED queue,
               Sync!Fails \/ UNCHANGED errors,
               p = "attempt" => effects["create"] = 0 \/ mishaps > 0
        PROVE  Sync!IndInv' /\ Keeps
    <3>1. errors' \in 0..MaxErrors /\ errors <= errors' /\ p \in Steps
      BY <1>0, <2>5, ErrorsGrow DEF Steps
    <3>2. ASSUME mishaps = 0 PROVE KnownAt(e, p)
      <4>1. Sync!Known(e)
        BY <2>1, <2>2, <3>2, AtWork
      <4> QED BY <2>1, <2>2, <2>5, <3>2, <4>1 DEF Sync!Known, KnownAt
    <3> QED BY <2>1, <2>2, <2>3, <2>5, <3>1, <3>2, MoveSame, SameKeep
  <2>6. CASE /\ effects["create"] = 0 \/ mishaps > 0
             /\ Sync!Go(e, "attempt") /\ UNCHANGED <<queue, errors>>
    BY <2>5, <2>6
  <2>7. CASE ex[e].pc = "list" /\ Sync!Fails /\ Sync!Go(e, "refreshList") /\ UNCHANGED queue
    BY <2>5, <2>7
  <2>8. CASE Sync!Fails /\ (Sync!RetryOrPark(e) \/ Sync!Park(e)) /\ Sync!Stop(e)
    BY <2>1, <2>2, <2>3, <2>8, CountStep
  <2> QED BY <1>2, <2>4, <2>6, <2>7, <2>8 DEF Sync!ConfirmUnclearCreate
<1> QED BY <1>1, <1>2

(* The attempt is marked before the request.                               *)
LEMMA AttemptSafe ==
    ASSUME Sync!IndInv, NEW e \in Executors, Sync!RecordAttempt(e)
    PROVE  Sync!IndInv' /\ Keeps
<1> USE QueueConstants
<1> DEFINE a == ex[e].act
           q == Sync!Row(e)
<1>0. Sync!TypeOK /\ Sync!Copied /\ Sync!Marked /\ Sync!Served
  BY DEF Sync!IndInv
<1>1. /\ ex[e].pc = "attempt"
      /\ UNCHANGED <<mirror, remote, effects, clock, errors, mishaps>>
  BY DEF Sync!RecordAttempt
<1>2. /\ a \in Mutations /\ q \in Sync!RowType /\ q = queue[a] /\ ex[e].gen > 0
      /\ (a \in Sync!Pair <=> a \notin Sync!NonIdempotent)
  BY <1>1, AtWork, Kinds
<1>3. CASE ~(Sync!Current(e) /\ q.completed = 0)
  <2>1. Sync!Release(e) /\ Sync!Stop(e)
    BY <1>3 DEF Sync!RecordAttempt
  <2> QED BY <1>1, <2>1, PostponeStep
<1>4. CASE Sync!Current(e) /\ q.completed = 0
  <2> DEFINE n == ex[e].gen
             r == [q EXCEPT !.attempted = n]
  <2>1. queue' = [queue EXCEPT ![a] = r] /\ Sync!Go(e, "write") /\ "write" \in Steps
    BY <1>4 DEF Sync!RecordAttempt, Sync!Store, Steps
  <2>2. n \in 0..MaxTaps
    BY <1>0, QueueTypes, CopyFields
  <2>3. /\ r \in Sync!RowType /\ r.gen = q.gen /\ r.created = q.created
        /\ r.lease = q.lease /\ r.leaseGen = q.leaseGen /\ r.retry = q.retry
        /\ r.cancelled = q.cancelled /\ r.dead = q.dead /\ r.exec = q.exec
        /\ r.attempted = n /\ r.completed = q.completed
    <3> HIDE DEF q, n
    <3> QED BY <1>2, <2>2, MarkedRow
  <2> HIDE DEF r
  <2>4. /\ Sync!Row(e)' = r /\ ex'[e].act = a /\ ex'[e].pc = "write"
        /\ ex'[e].gen = n /\ Keeps
    BY <1>0, <1>2, <2>1, <2>3, MovedKnown
  <2>5. Sync!Owns(e) /\ q.gen = n /\ q.leaseGen = n /\ q.lease = e /\ Sync!Current(e)'
    BY <1>4, <2>3, <2>4 DEF Sync!Current, Sync!Owns
  <2>6. ASSUME a \in Sync!NonIdempotent, mishaps = 0
        PROVE  /\ Sync!Known(e)'
               /\ r.attempted \in {0, r.gen} /\ r.completed \in {0, r.gen}
               /\ r.attempted = 0 => effects'[a] = 0
               /\ effects'[a] \in {0, 1}
               /\ r.completed # 0 => r.attempted # 0 /\ effects'[a] = 1
    <3>1. Sync!Known(e)
      BY <1>1, <2>6, AtWork
    <3>2. effects[a] = 0
      BY <1>1, <3>1 DEF Sync!Known
    <3>3. Sync!Known(e)'
      BY <1>1, <1>2, <1>4, <2>3, <2>4, <2>5, <3>1, <3>2 DEF Sync!Known, Sync!Fresh
    <3> QED BY <1>1, <1>2, <1>4, <2>3, <2>5, <3>2, <3>3
  <2>7. ASSUME a \in Sync!Pair, mishaps = 0, errors < MaxRetries
        PROVE  mirror.synced = mirror.v => Sync!Wanted(a)
    BY <1>1, <2>7, AtWork
  <2>8. effects' \in [Sync!NonIdempotent -> Nat] /\ remote' \in {"on", "off", "gone"}
        /\ errors' \in 0..MaxErrors /\ errors <= errors'
    BY <1>0, <1>1, QueueTypes
  <2>9. r.attempted # 0 /\ r.completed = 0
    BY <1>2, <1>4, <2>3
  <2>10. Sync!IndInv'
    BY <1>1, <1>2, <2>1, <2>3, <2>5, <2>6, <2>7, <2>8, <2>9, MoveStep
  <2> QED BY <2>4, <2>10
<1> QED BY <1>3, <1>4

(* The request that is carried out.                                        *)
LEMMA WriteSafe ==
    ASSUME Sync!IndInv, NEW e \in Executors, Sync!Write(e)
    PROVE  Sync!IndInv' /\ Keeps
<1> USE QueueConstants
<1> DEFINE a == ex[e].act
           q == Sync!Row(e)
<1>0. Sync!TypeOK /\ Sync!Copied /\ Sync!Marked /\ Sync!Served
  BY DEF Sync!IndInv
<1>1. /\ ex[e].pc \in {"write", "rewrite"} /\ Sync!Carried(a) /\ Sync!Go(e, "success")
      /\ UNCHANGED <<queue, mirror, clock, errors, mishaps>> /\ "success" \in Steps
  BY DEF Sync!Write, Steps
<1>2. /\ a \in Mutations /\ q \in Sync!RowType /\ q = queue[a] /\ ex[e].gen > 0
      /\ (a \in Sync!Pair <=> a \notin Sync!NonIdempotent)
  BY <1>1, AtWork, Kinds
<1>3. queue' = [queue EXCEPT ![a] = q]
  BY <1>0, <1>1, <1>2, QueueTypes
<1>4. /\ Sync!Row(e)' = q /\ ex'[e].act = a /\ ex'[e].pc = "success"
      /\ ex'[e].gen = ex[e].gen /\ Keeps
  BY <1>0, <1>1, <1>2, <1>3, MovedKnown
<1>5. /\ effects' \in [Sync!NonIdempotent -> Nat]
      /\ \A b \in Sync!NonIdempotent : b # a => effects'[b] = effects[b]
      /\ a \in Sync!NonIdempotent => effects'[a] = effects[a] + 1 /\ remote' = remote
      /\ a \in Sync!Pair => remote' \in {"gone", Sync!Brings(a)}
      /\ remote' \in {"on", "off", "gone"}
  BY <1>0, <1>1, <1>2, QueueTypes DEF Sync!Carried, Sync!Brings
<1>6. ASSUME a \in Sync!NonIdempotent, mishaps = 0
      PROVE  /\ Sync!Known(e)'
             /\ q.attempted \in {0, q.gen} /\ q.completed \in {0, q.gen}
             /\ q.attempted = 0 => effects'[a] = 0
             /\ effects'[a] \in {0, 1}
             /\ q.completed # 0 => q.attempted # 0 /\ effects'[a] = 1
  <2>1. Sync!Known(e)
    BY <1>1, <1>6, AtWork
  <2>2. effects'[a] = 1 /\ q.attempted # 0 /\ q.completed = 0
    BY <1>1, <1>5, <1>6, <2>1 DEF Sync!Known
  <2>3. Sync!Current(e)'
    BY <1>1, <1>4, <2>1 DEF Sync!Known, Sync!Current, Sync!Owns
  <2>4. Sync!Known(e)'
    BY <1>1, <1>2, <1>4, <2>1, <2>2, <2>3 DEF Sync!Known, Sync!Fresh
  <2> QED BY <1>0, <1>2, <1>6, <2>2, <2>4 DEF Sync!Marked
<1>7. ASSUME a \in Sync!Pair, mishaps = 0, errors < MaxRetries
      PROVE  mirror.synced = mirror.v => Sync!Wanted(a)
  BY <1>1, <1>7, AtWork
<1>8. errors' \in 0..MaxErrors /\ errors <= errors'
  BY <1>0, <1>1, QueueTypes
<1>9. a \in Sync!Pair /\ Sync!Owns(e) => q.attempted # 0
  BY <1>0, <1>1, <1>2 DEF Sync!Copied
<1>10. Sync!IndInv'
  BY <1>1, <1>2, <1>3, <1>5, <1>6, <1>7, <1>8, <1>9, MoveStep
<1> QED BY <1>4, <1>10

(* A crash, a target that is gone, or nothing at all: the table stays, and *)
(* who still works is where he was.                                        *)
LEMMA QuietStep ==
    ASSUME Sync!IndInv, UNCHANGED <<queue, mirror, effects, clock, mishaps>>,
           remote' = remote \/ remote' = "gone",
           errors' \in 0..MaxErrors, errors <= errors',
           ex' \in [Executors -> Sync!ExecType],
           \A f \in Executors : ex'[f] = ex[f] \/ ex'[f] = Sync!IdleExec
    PROVE  Sync!IndInv' /\ Keeps
<1> USE QueueConstants
<1>0. /\ Sync!TypeOK /\ Sync!Rows /\ Sync!Copied /\ Sync!Marked /\ Sync!Counted
      /\ Sync!Ordered /\ Sync!Served
  BY DEF Sync!IndInv
<1>1. /\ \A f \in Executors : ex'[f].act # "none" => ex'[f] = ex[f]
      /\ \A f \in Executors : ex'[f].pc = "idle" <=> ex'[f].act = "none"
  BY <1>0, BlankCopy, QueueTypes
<1>2. \A f \in Executors : ex'[f].act # "none" =>
        /\ Sync!Row(f)' = Sync!Row(f) /\ Sync!Owns(f)' = Sync!Owns(f)
        /\ Sync!Current(f)' = Sync!Current(f)
  BY <1>1 DEF Sync!Row, Sync!Owns, Sync!Current
<1>3. Sync!TypeOK'
  BY <1>0, <1>1 DEF Sync!TypeOK
<1>4. Sync!Rows'
  BY <1>0 DEF Sync!Rows
<1>5. Sync!Copied'
  BY <1>0, <1>1, <1>2 DEF Sync!Copied
<1>6. Sync!Marked'
  <2> SUFFICES ASSUME mishaps = 0, NEW b \in Sync!NonIdempotent,
                      NEW f \in Executors, ex'[f].act = b
               PROVE  Sync!Known(f)'
    BY <1>0 DEF Sync!Marked, Sync!Exists
  <2>1. ex'[f] = ex[f] /\ Sync!Known(f) /\ Sync!Row(f)' = Sync!Row(f)
        /\ Sync!Current(f)' = Sync!Current(f)
    BY <1>0, <1>1, <1>2, Kinds DEF Sync!Marked
  <2> QED BY <2>1 DEF Sync!Known, Sync!Fresh
<1>7. Sync!Counted'
  <2>1. \A b \in Sync!Pair : queue[b].retry \in Nat
    BY <1>0, QueueTypes, RowFields
  <2>2. \A f \in Executors : ex[f].retry \in Nat
    BY <1>0, QueueTypes, CopyFields
  <2>3. \A f \in Executors : ex'[f].act \in Sync!Pair => ex'[f] = ex[f]
    BY <1>1, Kinds
  <2> QED BY <1>0, <2>1, <2>2, <2>3, QueueTypes DEF Sync!Counted
<1>8. errors' < MaxRetries => errors < MaxRetries
  BY <1>0, QueueTypes
<1>9. Sync!Ordered'
  BY <1>0, <1>8 DEF Sync!Ordered, Sync!Exists, Sync!Wanted
<1>10. Sync!Served'
  <2> SUFFICES ASSUME mishaps = 0, errors < MaxRetries, NEW b \in Sync!Pair
               PROVE  /\ \A f \in Executors : ex'[f].act = b =>
                            /\ Sync!Owns(f)'
                            /\ ex'[f].pc = "success" => remote' \in {"gone", Sync!Brings(b)}
                      /\ queue'[b].completed # 0 => remote' \in {"gone", Sync!Brings(b)}
                      /\ mirror.synced = mirror.v =>
                            IF Sync!Wanted(b) THEN remote' \in {"gone", Sync!Brings(b)}
                            ELSE /\ queue'[b].attempted = 0 /\ queue'[b].completed = 0
                                 /\ \A f \in Executors : ex'[f].act = b =>
                                      ex'[f].pc = "begin" /\ ~ex'[f].result /\ Sync!Current(f)'
    BY <1>8, Zenon DEF Sync!Served, Sync!Wanted, Sync!Brings
  <2>1. \A f \in Executors : ex'[f].act = b => ex'[f] = ex[f] /\ ex[f].act = b
                                /\ Sync!Owns(f)' = Sync!Owns(f) /\ Sync!Current(f)' = Sync!Current(f)
    BY <1>1, <1>2, Kinds
  <2> QED BY <1>0, <2>1 DEF Sync!Served
<1> QED BY <1>3, <1>4, <1>5, <1>6, <1>7, <1>9, <1>10, SameKeep DEF Sync!IndInv

(* A row is removed, or a create or a comment is filed: who goes on does   *)
(* not own that row.                                                       *)
LEMMA ReplaceStep ==
    ASSUME Sync!IndInv, NEW a \in Mutations, NEW r \in Sync!RowType,
           queue' = [queue EXCEPT ![a] = r],
           r.lease = NoLease, r.attempted = 0, r.completed = 0, r.retry = 0, r.dead = FALSE,
           clock' \in 0..MaxTaps, clock <= clock',
           \/ r = Sync!NoRow
           \/ /\ a \in Sync!NonIdempotent /\ effects[a] = 0
              /\ r.gen \in 1..clock' /\ r.created \in 1..clock',
           UNCHANGED <<remote, effects, errors, mishaps>>,
           ex' \in [Executors -> Sync!ExecType],
           \A f \in Executors : ex'[f] = ex[f] \/ ex'[f] = Sync!IdleExec,
           \A f \in Executors : ex'[f].act = a => ~Sync!Owns(f),
           \/ mirror' = mirror
           \/ /\ a \in Sync!Pair /\ Sync!Wanted(a) /\ queue[a].completed # 0
              /\ mirror' = [mirror EXCEPT !.synced = mirror.v]
              /\ mishaps = 0 /\ errors < MaxRetries =>
                    \A b \in Sync!Pair \ {a} : /\ Sync!Idle(queue[b])
                                               /\ \A f \in Executors : ex[f].act # b
    PROVE  Sync!IndInv'
<1> USE QueueConstants
<1>0. /\ Sync!TypeOK /\ Sync!Rows /\ Sync!Copied /\ Sync!Marked /\ Sync!Counted
      /\ Sync!Ordered /\ Sync!Served
  BY DEF Sync!IndInv
<1>1. /\ \A f \in Executors : ex'[f].act # "none" => ex'[f] = ex[f]
      /\ \A f \in Executors : ex'[f].pc = "idle" <=> ex'[f].act = "none"
      /\ \A f \in Executors : ex[f].act \in Mutations \cup {"none"}
  BY <1>0, BlankCopy, QueueTypes
<1>2. /\ \A b \in Mutations : queue'[b] = IF b = a THEN r ELSE queue[b]
      /\ queue' \in [Mutations -> Sync!RowType]
  BY <1>0, QueueTypes
<1>3. /\ mirror'.wanted = mirror.wanted /\ mirror'.v = mirror.v
      /\ mirror' \in [wanted : BOOLEAN, v : 0..MaxTaps, synced : 0..MaxTaps]
      /\ mirror'.synced = mirror.synced \/ mirror'.synced = mirror.v
  <2>1. mirror \in [wanted : BOOLEAN, v : 0..MaxTaps, synced : 0..MaxTaps]
    BY <1>0, QueueTypes
  <2>2. CASE mirror' = mirror
    BY <2>1, <2>2
  <2>3. CASE mirror' = [mirror EXCEPT !.synced = mirror.v]
    BY <2>1, <2>3
  <2> QED BY <2>2, <2>3
<1>4. \A f \in Executors : ex'[f].act # "none" =>
        /\ ex[f].act # a => /\ Sync!Row(f)' = Sync!Row(f) /\ Sync!Owns(f)' = Sync!Owns(f)
                            /\ Sync!Current(f)' = Sync!Current(f)
        /\ ex[f].act = a => ~Sync!Owns(f)'
  BY <1>1, <1>2 DEF Sync!Row, Sync!Owns, Sync!Current
<1>5. Sync!TypeOK'
  BY <1>0, <1>1, <1>2, <1>3 DEF Sync!TypeOK
<1>6. Sync!Rows'
  <2>1. ASSUME NEW b \in Mutations
        PROVE  IF queue'[b].gen = 0 THEN queue'[b] = Sync!NoRow
               ELSE queue'[b].created \in 1..clock' /\ queue'[b].gen \in 1..clock'
    <3>1. CASE b # a
      <4>1. queue'[b] = queue[b] /\ clock \in Nat /\ clock' \in Nat
        BY <1>0, <1>2, <3>1, QueueTypes
      <4> QED BY <1>0, <4>1 DEF Sync!Rows
    <3>2. CASE b = a
      BY <1>2, <3>2, BlankRow
    <3> QED BY <3>1, <3>2
  <2>2. mirror'.v <= clock' /\ mirror'.synced <= mirror'.v
    BY <1>0, <1>3, QueueTypes DEF Sync!Rows
  <2> QED BY <2>1, <2>2 DEF Sync!Rows
<1>7. Sync!Copied'
  BY <1>0, <1>1, <1>4 DEF Sync!Copied
<1>8. Sync!Marked'
  <2> SUFFICES ASSUME mishaps = 0, NEW b \in Sync!NonIdempotent
               PROVE  /\ effects'[b] \in {0, 1}
                      /\ queue'[b].attempted \in {0, queue'[b].gen}
                      /\ queue'[b].completed \in {0, queue'[b].gen}
                      /\ queue'[b].gen > 0 /\ queue'[b].attempted = 0 => effects'[b] = 0
                      /\ queue'[b].completed # 0 => queue'[b].attempted # 0 /\ effects'[b] = 1
                      /\ \A f \in Executors : ex'[f].act = b => Sync!Known(f)'
    BY Zenon DEF Sync!Marked, Sync!Exists
  <2>1. ASSUME NEW f \in Executors, ex'[f].act = b
        PROVE  b # a /\ Sync!Known(f)'
    <3>1. ex'[f] = ex[f] /\ ex[f].act = b /\ Sync!Known(f)
      BY <1>0, <1>1, <2>1, Kinds DEF Sync!Marked
    <3>2. b # a
      BY <2>1, <3>1 DEF Sync!Known, Sync!Current
    <3>3. Sync!Row(f)' = Sync!Row(f) /\ Sync!Current(f)' = Sync!Current(f)
      BY <1>4, <2>1, <3>1, <3>2, Kinds
    <3> QED BY <3>1, <3>2, <3>3 DEF Sync!Known, Sync!Fresh
  <2>2. CASE b = a
    BY <1>0, <1>2, <2>1, <2>2, BlankRow DEF Sync!Marked
  <2>3. CASE b # a
    BY <1>0, <1>2, <2>1, <2>3 DEF Sync!Marked, Sync!Exists
  <2> QED BY <2>2, <2>3
<1>9. Sync!Counted'
  <2>1. \A f \in Executors : ex'[f].act \in Sync!Pair => ex'[f] = ex[f]
    BY <1>1, Kinds
  <2>2. errors \in Nat
    BY <1>0, QueueTypes
  <2> QED BY <1>0, <1>2, <2>1, <2>2 DEF Sync!Counted
<1>10. Sync!Ordered'
  <2> SUFFICES ASSUME errors < MaxRetries, NEW b \in Sync!Pair, NEW c \in Sync!Pair, b # c,
                      queue'[b].gen > 0, queue'[c].gen > 0
               PROVE  /\ queue'[b].created # queue'[c].created
                      /\ ~Sync!Idle(queue'[c]) => Sync!Idle(queue'[b])
                            /\ (queue'[b].cancelled \/ queue'[b].created > queue'[c].created)
                      /\ Sync!Wanted(b)' /\ queue'[b].cancelled
                            => queue'[b].created > queue'[c].created
    BY Zenon DEF Sync!Ordered, Sync!Exists, Sync!Idle
  <2>1. queue'[b] = queue[b] /\ queue'[c] = queue[c]
    BY <1>2, BlankRow, Kinds
  <2>2. Sync!Wanted(b)' = Sync!Wanted(b)
    BY <1>3 DEF Sync!Wanted
  <2> QED BY <1>0, <2>1, <2>2 DEF Sync!Ordered, Sync!Exists
<1>11. Sync!Served'
  <2> SUFFICES ASSUME mishaps = 0, errors < MaxRetries, NEW b \in Sync!Pair
               PROVE  /\ \A f \in Executors : ex'[f].act = b =>
                            /\ Sync!Owns(f)'
                            /\ ex'[f].pc = "success" => remote \in {"gone", Sync!Brings(b)}
                      /\ queue'[b].completed # 0 => remote \in {"gone", Sync!Brings(b)}
                      /\ mirror'.synced = mirror'.v =>
                            IF Sync!Wanted(b)' THEN remote \in {"gone", Sync!Brings(b)}
                            ELSE /\ queue'[b].attempted = 0 /\ queue'[b].completed = 0
                                 /\ \A f \in Executors : ex'[f].act = b =>
                                      ex'[f].pc = "begin" /\ ~ex'[f].result /\ Sync!Current(f)'
    BY Zenon DEF Sync!Served, Sync!Wanted, Sync!Brings
  <2>0. Sync!Wanted(b)' = Sync!Wanted(b) /\ mirror'.v = mirror.v
    BY <1>3 DEF Sync!Wanted
  <2>1. ASSUME NEW f \in Executors, ex'[f].act = b
        PROVE  /\ b # a /\ ex'[f] = ex[f] /\ Sync!Owns(f)' /\ ex[f].act = b
               /\ Sync!Current(f)' = Sync!Current(f)
               /\ ex'[f].pc = "success" => remote \in {"gone", Sync!Brings(b)}
    <3>1. ex'[f] = ex[f] /\ ex[f].act = b
      BY <1>1, <2>1, Kinds
    <3>2. Sync!Owns(f) /\ (ex[f].pc = "success" => remote \in {"gone", Sync!Brings(b)})
      BY <1>0, <3>1 DEF Sync!Served
    <3> QED BY <1>4, <2>1, <3>1, <3>2, Kinds
  <2>2. CASE mirror' = mirror
    <3>1. CASE b = a
      BY <1>0, <1>2, <2>0, <2>1, <2>2, <3>1 DEF Sync!Served
    <3>2. CASE b # a
      BY <1>0, <1>2, <2>0, <2>1, <2>2, <3>2 DEF Sync!Served
    <3> QED BY <3>1, <3>2
  <2>3. CASE mirror' # mirror
    <3>1. CASE b = a
      BY <1>0, <1>2, <2>0, <2>1, <2>3, <3>1 DEF Sync!Served
    <3>2. CASE b # a
      <4>1. ~Sync!Wanted(b) /\ Sync!Idle(queue[b]) /\ queue'[b] = queue[b]
            /\ \A f \in Executors : ex'[f].act # b
        BY <1>2, <2>1, <2>3, <3>2 DEF Sync!Wanted, Sync!Pair
      <4> QED BY <2>0, <2>1, <4>1 DEF Sync!Idle
    <3> QED BY <3>1, <3>2
  <2> QED BY <2>2, <2>3
<1> QED BY <1>5, <1>6, <1>7, <1>8, <1>9, <1>10, <1>11 DEF Sync!IndInv

(* What leaves the queue was settled or never sent, and a wish served.     *)
LeavesWell ==
    \A a \in Mutations : Sync!Exists(a) /\ ~Sync!Exists(a)' =>
        /\ a \in Sync!NonIdempotent /\ mishaps = 0 =>
              \/ effects[a] = 1 /\ queue[a].completed = queue[a].gen
              \/ effects[a] = 0 /\ Sync!Idle(queue[a])
        /\ a \in Sync!Pair /\ Sync!Wanted(a) => mirror'.synced = mirror.v

LEMMA KeepsWell == Keeps => LeavesWell
  BY DEF Keeps, LeavesWell

(* An execution ends with its row removed.                                 *)
LEMMA RemoveStep ==
    ASSUME Sync!IndInv, NEW e \in Executors, ex[e].pc # "idle", Sync!Current(e),
           Sync!Store(e, Sync!NoRow), Sync!Stop(e),
           UNCHANGED <<remote, effects, clock, errors, mishaps>>,
           \/ mirror' = mirror
           \/ /\ ex[e].act \in Sync!Pair /\ Sync!Wanted(ex[e].act) /\ Sync!Row(e).completed # 0
              /\ mirror' = [mirror EXCEPT !.synced = mirror.v]
    PROVE  Sync!IndInv' /\ \A b \in Mutations : b # ex[e].act => queue'[b] = queue[b]
<1> USE QueueConstants
<1> DEFINE a == ex[e].act
<1>0. Sync!TypeOK
  BY DEF Sync!IndInv
<1>1. a \in Mutations /\ Sync!Row(e) = queue[a] /\ Sync!Row(e).lease = e
  BY AtWork DEF Sync!Current, Sync!Owns
<1>2. queue' = [queue EXCEPT ![a] = Sync!NoRow]
      /\ \A b \in Mutations : b # a => queue'[b] = queue[b]
  BY <1>0, QueueTypes DEF Sync!Store
<1>3. /\ ex' \in [Executors -> Sync!ExecType]
      /\ \A f \in Executors : f # e => ex'[f] = ex[f]
      /\ ex'[e] = Sync!IdleExec
  BY <1>0, QueueTypes, BlankCopy DEF Sync!Stop
<1>4. \A f \in Executors : ex'[f].act = a => ~Sync!Owns(f)
  <2> SUFFICES ASSUME NEW f \in Executors, ex'[f].act = a, Sync!Owns(f) PROVE FALSE
    OBVIOUS
  <2>1. f # e
    BY <1>1, <1>3, BlankCopy
  <2>2. ex[f].act = a
    BY <1>3, <2>1
  <2> QED BY <1>1, <2>1, <2>2 DEF Sync!Owns, Sync!Row
<1>5. a \in Sync!Pair /\ mishaps = 0 /\ errors < MaxRetries =>
        \A b \in Sync!Pair \ {a} : Sync!Idle(queue[b]) /\ \A f \in Executors : ex[f].act # b
  <2> SUFFICES ASSUME a \in Sync!Pair, mishaps = 0, errors < MaxRetries,
                      NEW b \in Sync!Pair \ {a}
               PROVE  Sync!Idle(queue[b]) /\ \A f \in Executors : ex[f].act # b
    OBVIOUS
  <2> QED BY LoneWorker
<1>6. clock' \in 0..MaxTaps /\ clock <= clock'
  BY <1>0, QueueTypes
<1>7. \/ mirror' = mirror
      \/ /\ a \in Sync!Pair /\ Sync!Wanted(a) /\ queue[a].completed # 0
         /\ mirror' = [mirror EXCEPT !.synced = mirror.v]
         /\ mishaps = 0 /\ errors < MaxRetries =>
              \A b \in Sync!Pair \ {a} : /\ Sync!Idle(queue[b])
                                         /\ \A f \in Executors : ex[f].act # b
  BY <1>1, <1>5
<1>8. \A f \in Executors : ex'[f] = ex[f] \/ ex'[f] = Sync!IdleExec
  BY <1>3
<1>9. /\ Sync!NoRow \in Sync!RowType /\ Sync!NoRow.lease = NoLease
      /\ Sync!NoRow.attempted = 0 /\ Sync!NoRow.completed = 0 /\ Sync!NoRow.retry = 0
      /\ Sync!NoRow.dead = FALSE
  BY BlankRow
<1>10. Sync!IndInv'
  <2> HIDE DEF a
  <2> QED BY <1>1, <1>2, <1>3, <1>4, <1>6, <1>7, <1>8, <1>9, ReplaceStep
<1> QED BY <1>2, <1>10

LEMMA BeginSafe ==
    ASSUME Sync!IndInv, NEW e \in Executors, Sync!Begin(e)
    PROVE  Sync!IndInv' /\ LeavesWell
<1> USE QueueConstants
<1> DEFINE a == ex[e].act
           q == Sync!Row(e)
<1>0. Sync!TypeOK /\ Sync!Copied /\ Sync!Served
  BY DEF Sync!IndInv
<1>1. ex[e].pc = "begin" /\ UNCHANGED <<mirror, remote, effects, clock, errors, mishaps>>
  BY DEF Sync!Begin
<1>2. /\ a \in Mutations /\ q \in Sync!RowType /\ q = queue[a] /\ ex[e].gen > 0
      /\ (a \in Sync!Pair <=> a \notin Sync!NonIdempotent)
  BY <1>1, AtWork, Kinds
<1>3. CASE ~ex[e].result /\ Sync!Superseded(e) /\ Sync!Store(e, Sync!NoRow) /\ Sync!Stop(e)
  <2>1. Sync!Current(e) /\ a \in Sync!Pair /\ ~Sync!Wanted(a)
    BY <1>3 DEF Sync!Superseded
  <2>2. Sync!IndInv' /\ \A b \in Mutations : b # a => queue'[b] = queue[b]
    BY <1>1, <1>3, <2>1, RemoveStep
  <2> QED BY <1>2, <2>1, <2>2 DEF LeavesWell, Sync!Exists
<1>4. ASSUME NEW p \in {"finalize", "park", "token"}, Sync!Go(e, p), UNCHANGED queue,
             p = "finalize" => ex[e].result,
             p # "finalize" => ~ex[e].result /\ ~Sync!Superseded(e),
             p = "park" <=> (p # "finalize" /\ a = "comment" /\ ex[e].unclear)
      PROVE  Sync!IndInv' /\ LeavesWell
  <2>1. ASSUME a \in Sync!NonIdempotent, mishaps = 0 PROVE KnownAt(e, p)
    <3>1. Sync!Known(e)
      BY <1>1, <2>1, AtWork
    <3> QED BY <1>1, <1>4, <3>1 DEF Sync!Known, KnownAt
  <2>2. ASSUME a \in Sync!Pair, mishaps = 0, errors < MaxRetries, mirror.synced = mirror.v,
               ~Sync!Wanted(a)
        PROVE  FALSE
    <3>1. ~ex[e].result /\ Sync!Current(e) /\ q.attempted = 0 /\ q.completed = 0
      BY <1>0, <1>2, <2>2 DEF Sync!Served
    <3>2. q.attempted # q.gen
      BY <1>2, <3>1 DEF Sync!Current
    <3> QED BY <1>4, <2>2, <3>1, <3>2 DEF Sync!Superseded
  <2>3. errors' \in 0..MaxErrors /\ errors <= errors' /\ p \in Steps
    BY <1>0, <1>1, QueueTypes DEF Steps
  <2>4. Sync!IndInv'
    BY <1>1, <1>4, <2>1, <2>2, <2>3, MoveSame
  <2> QED BY <1>4, <2>4, SameKeep, KeepsWell
<1>5. CASE ex[e].result /\ Sync!Go(e, "finalize") /\ UNCHANGED queue
  BY <1>4, <1>5
<1>6. CASE /\ ~ex[e].result /\ ~Sync!Superseded(e) /\ UNCHANGED queue
           /\ Sync!Go(e, IF a = "comment" /\ ex[e].unclear THEN "park" ELSE "token")
  <2>1. CASE a = "comment" /\ ex[e].unclear
    <3>1. Sync!Go(e, "park")
      BY <1>6, <2>1
    <3> QED BY <1>4, <1>6, <2>1, <3>1
  <2>2. CASE ~(a = "comment" /\ ex[e].unclear)
    <3>1. Sync!Go(e, "token")
      BY <1>6, <2>2
    <3> QED BY <1>4, <1>6, <2>2, <3>1
  <2> QED BY <2>1, <2>2
<1> QED BY <1>3, <1>5, <1>6 DEF Sync!Begin

(* The transaction that settles the mirror and removes the row.            *)
LEMMA FinalizeSafe ==
    ASSUME Sync!IndInv, NEW e \in Executors, Sync!Finalize(e)
    PROVE  Sync!IndInv' /\ LeavesWell
<1> USE QueueConstants
<1> DEFINE a == ex[e].act
           q == Sync!Row(e)
<1>0. Sync!TypeOK /\ Sync!Marked
  BY DEF Sync!IndInv
<1>1. ex[e].pc = "finalize" /\ UNCHANGED <<remote, effects, clock, errors, mishaps>>
      /\ Sync!Stop(e)
  BY DEF Sync!Finalize
<1>2. /\ a \in Mutations /\ q \in Sync!RowType /\ q = queue[a] /\ ex[e].gen > 0
      /\ (a \in Sync!Pair <=> a \notin Sync!NonIdempotent)
  BY <1>1, AtWork, Kinds
<1>3. CASE ~(Sync!Current(e) /\ q.completed = ex[e].gen)
  <2>1. Sync!Release(e) /\ UNCHANGED mirror
    BY <1>3 DEF Sync!Finalize
  <2> QED BY <1>1, <2>1, PostponeStep, KeepsWell
<1>4. CASE Sync!Current(e) /\ q.completed = ex[e].gen
  <2>1. /\ Sync!Store(e, Sync!NoRow) /\ q.completed # 0 /\ q.completed = q.gen
        /\ mirror' = IF a \in Sync!Pair /\ Sync!Wanted(a)
                     THEN [mirror EXCEPT !.synced = mirror.v] ELSE mirror
    BY <1>2, <1>4 DEF Sync!Finalize, Sync!Current
  <2>2. Sync!IndInv' /\ \A b \in Mutations : b # a => queue'[b] = queue[b]
    <3>1. CASE a \in Sync!Pair /\ Sync!Wanted(a)
      BY <1>1, <1>4, <2>1, <3>1, RemoveStep
    <3>2. CASE ~(a \in Sync!Pair /\ Sync!Wanted(a))
      BY <1>1, <1>4, <2>1, <3>2, RemoveStep
    <3> QED BY <3>1, <3>2
  <2>3. a \in Sync!Pair /\ Sync!Wanted(a) => mirror'.synced = mirror.v
    BY <1>0, <2>1, QueueTypes
  <2>4. a \in Sync!NonIdempotent /\ mishaps = 0 => effects[a] = 1
    BY <1>0, <1>2, <2>1 DEF Sync!Marked
  <2> QED BY <1>2, <2>1, <2>2, <2>3, <2>4 DEF LeavesWell, Sync!Exists
<1> QED BY <1>3, <1>4

(* A crash, and a target that is deleted.                                  *)
LEMMA CrashSafe ==
    ASSUME Sync!IndInv, NEW e \in Executors, Sync!Crash(e)
    PROVE  Sync!IndInv' /\ Keeps
<1>0. Sync!TypeOK
  BY DEF Sync!IndInv
<1>1. /\ Sync!Stop(e) /\ Sync!Fails
      /\ UNCHANGED <<queue, mirror, remote, effects, clock, mishaps>>
  BY DEF Sync!Crash
<1>2. /\ ex' \in [Executors -> Sync!ExecType]
      /\ \A f \in Executors : ex'[f] = ex[f] \/ ex'[f] = Sync!IdleExec
  BY <1>0, <1>1, QueueTypes, BlankCopy DEF Sync!Stop
<1> QED BY <1>0, <1>1, <1>2, ErrorsGrow, QuietStep

LEMMA DisappearSafe ==
    ASSUME Sync!IndInv, Sync!TargetDisappears
    PROVE  Sync!IndInv' /\ Keeps
<1>0. Sync!TypeOK
  BY DEF Sync!IndInv
<1> QED BY <1>0, ErrorsGrow, QueueTypes, QuietStep DEF Sync!TargetDisappears

(* A mishap at SoundCloud: no promise is left of what it carried out.      *)
LEMMA MishapSafe ==
    ASSUME Sync!IndInv, Sync!ListingMisleads \/ \E a \in Actions : Sync!Lands(a)
    PROVE  Sync!IndInv' /\ Keeps /\ ex' = ex
<1> USE QueueConstants
<1>0. /\ Sync!TypeOK /\ Sync!Rows /\ Sync!Copied /\ Sync!Counted /\ Sync!Ordered
  BY DEF Sync!IndInv
<1>1. UNCHANGED <<queue, mirror, ex, clock, errors>> /\ Sync!Mishap
  BY DEF Sync!ListingMisleads, Sync!Lands
<1>2. mishaps' \in 0..MaxMishaps /\ mishaps' # 0
  BY <1>0, <1>1, QueueTypes DEF Sync!Mishap
<1>3. effects' \in [Sync!NonIdempotent -> Nat] /\ remote' \in {"on", "off", "gone"}
  <2>1. CASE Sync!ListingMisleads
    BY <1>0, <2>1, QueueTypes DEF Sync!ListingMisleads
  <2>2. ASSUME NEW a \in Actions, Sync!Carried(a)
        PROVE  effects' \in [Sync!NonIdempotent -> Nat] /\ remote' \in {"on", "off", "gone"}
    BY <1>0, <2>2, QueueTypes DEF Sync!Carried, Sync!Brings
  <2> QED BY <2>1, <2>2 DEF Sync!Lands
<1>4. Sync!TypeOK'
  BY <1>0, <1>1, <1>2, <1>3 DEF Sync!TypeOK
<1>5. Sync!Rows' /\ Sync!Copied' /\ Sync!Counted' /\ Sync!Ordered'
  <2>1. Sync!Rows' /\ Sync!Counted'
    BY <1>0, <1>1 DEF Sync!Rows, Sync!Counted
  <2>2. Sync!Copied'
    BY <1>0, <1>1 DEF Sync!Copied, Sync!Owns, Sync!Row
  <2>3. Sync!Ordered'
    BY <1>0, <1>1 DEF Sync!Ordered, Sync!Exists, Sync!Idle, Sync!Wanted
  <2> QED BY <2>1, <2>2, <2>3
<1>6. Sync!Marked' /\ Sync!Served'
  BY <1>2 DEF Sync!Marked, Sync!Served
<1> QED BY <1>1, <1>4, <1>5, <1>6, SameKeep DEF Sync!IndInv

LEMMA UntouchedSafe ==
    ASSUME Sync!IndInv, UNCHANGED queueVars
    PROVE  Sync!IndInv' /\ Keeps
<1>0. Sync!TypeOK
  BY DEF Sync!IndInv
<1>1. UNCHANGED <<queue, mirror, effects, clock, mishaps, remote, errors, ex>>
  BY DEF queueVars
<1> QED BY <1>0, <1>1, ErrorsGrow, QueueTypes, QuietStep

(* The table edits a row without a new wish: a mark stays as it is, an     *)
(* answer is dropped only of a row that is to be taken over, and a lease   *)
(* only where nobody is at work on it, or as an overrun.                   *)
LEMMA EditStep ==
    ASSUME Sync!IndInv, NEW a \in Mutations, queue[a].gen # 0,
           NEW r \in Sync!RowType, queue' = [queue EXCEPT ![a] = r],
           UNCHANGED <<ex, mirror, remote, effects, clock>>,
           errors' \in 0..MaxErrors, errors <= errors',
           mishaps' \in 0..MaxMishaps, mishaps <= mishaps',
           r.gen = queue[a].gen, r.created = queue[a].created,
           r.attempted = queue[a].attempted,
           \/ r.completed = queue[a].completed
           \/ r.completed = 0 /\ Sync!Fresh(queue[a]),
           r.retry = queue[a].retry \/ r.retry = 0,
           r.dead => queue[a].dead,
           r.exec = queue[a].exec \/ r.exec = r.gen,
           \/ r.cancelled = queue[a].cancelled
           \/ /\ a \in Sync!Pair /\ Sync!Wanted(a) /\ queue[a].cancelled
              /\ Sync!Idle(queue[a]),
           \/ r.lease = queue[a].lease /\ r.leaseGen = queue[a].leaseGen
           \/ /\ r.lease = NoLease
              /\ mishaps' = 0 => \A f \in Executors : ex[f].act = a => ~Sync!Owns(f)
    PROVE  Sync!IndInv' /\ Keeps
<1> USE QueueConstants
<1> DEFINE q == queue[a]
<1>0. /\ Sync!TypeOK /\ Sync!Rows /\ Sync!Copied /\ Sync!Marked /\ Sync!Counted
      /\ Sync!Ordered /\ Sync!Served
  BY DEF Sync!IndInv
<1>1. /\ \A b \in Mutations : queue'[b] = IF b = a THEN r ELSE queue[b]
      /\ queue' \in [Mutations -> Sync!RowType] /\ q \in Sync!RowType
      /\ q.gen \in Nat /\ q.retry \in Nat /\ r.retry \in Nat
  BY <1>0, QueueTypes, RowFields
<1>2. /\ mishaps' = 0 => mishaps = 0
      /\ errors' < MaxRetries => errors < MaxRetries
      /\ errors \in Nat /\ errors' \in Nat
  BY <1>0, QueueTypes
<1>3. ASSUME NEW f \in Executors, ex[f].act # "none"
      PROVE  /\ ex[f].act # a => /\ Sync!Row(f)' = Sync!Row(f) /\ Sync!Owns(f)' = Sync!Owns(f)
                                 /\ Sync!Current(f)' = Sync!Current(f)
             /\ ex[f].act = a => /\ Sync!Row(f)' = r /\ Sync!Row(f) = q
                                 /\ Sync!Owns(f)' => Sync!Owns(f)
                                 /\ mishaps' = 0 /\ Sync!Owns(f) => Sync!Owns(f)'
                                 /\ mishaps' = 0 /\ Sync!Current(f) => Sync!Current(f)'
  <2>0. ex[f].act \in Mutations
    BY <1>0, <1>3, QueueTypes
  <2>1. CASE ex[f].act # a
    BY <1>1, <2>0, <2>1 DEF Sync!Row, Sync!Owns, Sync!Current
  <2>2. CASE ex[f].act = a
    <3>1. Sync!Row(f)' = r /\ Sync!Row(f) = q
      BY <1>1, <2>2 DEF Sync!Row
    <3> QED BY <2>2, <3>1 DEF Sync!Owns, Sync!Current
  <2> QED BY <2>1, <2>2
<1>4. Sync!TypeOK'
  BY <1>0, <1>1 DEF Sync!TypeOK
<1>5. Sync!Rows'
  BY <1>0, <1>1 DEF Sync!Rows
<1>6. Sync!Copied'
  <2> SUFFICES ASSUME NEW f \in Executors, ex[f].act # "none"
               PROVE  /\ Sync!Owns(f)' => Sync!Row(f)'.retry <= ex[f].retry
                      /\ (/\ Sync!Owns(f)' /\ ex[f].act \in Sync!Pair
                          /\ ex[f].pc \in {"refresh", "write", "rewrite", "success"})
                             => Sync!Row(f)'.attempted # 0
    BY <1>0 DEF Sync!Copied
  <2>1. ex[f].retry \in Nat
    BY <1>0, QueueTypes, CopyFields
  <2>2. CASE ex[f].act = a
    BY <1>0, <1>1, <1>3, <2>1, <2>2 DEF Sync!Copied
  <2>3. CASE ex[f].act # a
    BY <1>0, <1>3, <2>3 DEF Sync!Copied
  <2> QED BY <2>2, <2>3
<1>7. Sync!Marked'
  <2> SUFFICES ASSUME mishaps' = 0, NEW b \in Sync!NonIdempotent
               PROVE  /\ effects[b] \in {0, 1}
                      /\ queue'[b].attempted \in {0, queue'[b].gen}
                      /\ queue'[b].completed \in {0, queue'[b].gen}
                      /\ queue'[b].gen > 0 /\ queue'[b].attempted = 0 => effects[b] = 0
                      /\ queue'[b].completed # 0 => queue'[b].attempted # 0 /\ effects[b] = 1
                      /\ \A f \in Executors : ex[f].act = b => Sync!Known(f)'
    BY Zenon DEF Sync!Marked, Sync!Exists
  <2>1. ASSUME NEW f \in Executors, ex[f].act = b PROVE Sync!Known(f)'
    <3>0. Sync!Known(f) /\ ex[f].act # "none"
      BY <1>0, <1>2, <2>1, Kinds DEF Sync!Marked
    <3>1. CASE b # a
      BY <1>3, <2>1, <3>0, <3>1 DEF Sync!Known, Sync!Fresh
    <3>2. CASE b = a
      <4>1. Sync!Row(f)' = r /\ Sync!Row(f) = q /\ Sync!Current(f)' /\ ~Sync!Fresh(q)
        BY <1>3, <2>1, <3>0, <3>2 DEF Sync!Known, Sync!Current
      <4>2. r.completed = q.completed /\ ~Sync!Fresh(r)
        BY <4>1 DEF Sync!Fresh
      <4> QED BY <3>0, <4>1, <4>2 DEF Sync!Known
    <3> QED BY <3>1, <3>2
  <2>2. CASE b = a
    BY <1>0, <1>1, <1>2, <2>1, <2>2 DEF Sync!Marked, Sync!Exists
  <2>3. CASE b # a
    BY <1>0, <1>1, <1>2, <2>1, <2>3 DEF Sync!Marked, Sync!Exists
  <2> QED BY <2>2, <2>3
<1>8. Sync!Counted'
  <2>1. ASSUME NEW b \in Sync!Pair
        PROVE  /\ queue'[b].retry <= errors' /\ (queue'[b].retry > 0 => queue'[b].attempted # 0)
               /\ queue'[b].dead => errors' >= MaxRetries
    <3>1. queue[b].retry \in Nat
      BY <1>0, QueueTypes, RowFields
    <3>2. CASE b = a
      BY <1>0, <1>1, <1>2, <3>1, <3>2 DEF Sync!Counted
    <3>3. CASE b # a
      BY <1>0, <1>1, <1>2, <3>1, <3>3 DEF Sync!Counted
    <3> QED BY <3>2, <3>3
  <2>2. ASSUME NEW f \in Executors, ex[f].act \in Sync!Pair PROVE ex[f].retry <= errors'
    <3>1. ex[f].retry \in Nat
      BY <1>0, QueueTypes, CopyFields
    <3> QED BY <1>0, <1>2, <2>2, <3>1 DEF Sync!Counted
  <2> QED BY <2>1, <2>2 DEF Sync!Counted
<1>9. ~Sync!Idle(r) => ~Sync!Idle(q)
  BY DEF Sync!Idle
<1>10. Sync!Ordered'
  <2> SUFFICES ASSUME errors < MaxRetries, NEW b \in Sync!Pair, NEW c \in Sync!Pair, b # c,
                      queue'[b].gen > 0, queue'[c].gen > 0
               PROVE  /\ queue'[b].created # queue'[c].created
                      /\ ~Sync!Idle(queue'[c]) => Sync!Idle(queue'[b])
                            /\ (queue'[b].cancelled \/ queue'[b].created > queue'[c].created)
                      /\ Sync!Wanted(b)' /\ queue'[b].cancelled
                            => queue'[b].created > queue'[c].created
    BY <1>2, Zenon DEF Sync!Ordered, Sync!Exists, Sync!Idle
  <2>1. \A x \in Sync!Pair : /\ queue'[x].gen = queue[x].gen
                             /\ queue'[x].created = queue[x].created
                             /\ ~Sync!Idle(queue'[x]) => ~Sync!Idle(queue[x])
                             /\ \/ queue'[x].cancelled = queue[x].cancelled
                                \/ Sync!Wanted(x) /\ queue[x].cancelled /\ Sync!Idle(queue[x])
    BY <1>1, <1>9
  <2>2. Sync!Wanted(b)' = Sync!Wanted(b)
    BY DEF Sync!Wanted
  <2>3. /\ queue[b].created # queue[c].created
        /\ ~Sync!Idle(queue[c]) => Sync!Idle(queue[b])
              /\ (queue[b].cancelled \/ queue[b].created > queue[c].created)
        /\ Sync!Wanted(b) /\ queue[b].cancelled => queue[b].created > queue[c].created
    BY <1>0, <2>1 DEF Sync!Ordered, Sync!Exists
  <2>4. queue'[b].cancelled \in BOOLEAN /\ queue[b].cancelled \in BOOLEAN
    BY <1>0, <1>1, QueueTypes, RowFields
  <2>5. Sync!Wanted(b) /\ queue'[b].cancelled => queue'[b].created > queue'[c].created
    BY <2>1, <2>3, <2>4
  <2> QED BY <2>1, <2>2, <2>3, <2>4, <2>5
<1>11. Sync!Served'
  <2> SUFFICES ASSUME mishaps' = 0, errors < MaxRetries, NEW b \in Sync!Pair
               PROVE  /\ \A f \in Executors : ex[f].act = b =>
                            /\ Sync!Owns(f)'
                            /\ ex[f].pc = "success" => remote \in {"gone", Sync!Brings(b)}
                      /\ queue'[b].completed # 0 => remote \in {"gone", Sync!Brings(b)}
                      /\ mirror.synced = mirror.v =>
                            IF Sync!Wanted(b) THEN remote \in {"gone", Sync!Brings(b)}
                            ELSE /\ queue'[b].attempted = 0 /\ queue'[b].completed = 0
                                 /\ \A f \in Executors : ex[f].act = b =>
                                      ex[f].pc = "begin" /\ ~ex[f].result /\ Sync!Current(f)'
    BY <1>2, Zenon DEF Sync!Served, Sync!Wanted, Sync!Brings
  <2>1. ASSUME NEW f \in Executors, ex[f].act = b
        PROVE  /\ Sync!Owns(f)' /\ (Sync!Current(f) => Sync!Current(f)')
               /\ ex[f].pc = "success" => remote \in {"gone", Sync!Brings(b)}
    <3>1. Sync!Owns(f) /\ (ex[f].pc = "success" => remote \in {"gone", Sync!Brings(b)})
      BY <1>0, <1>2, <2>1 DEF Sync!Served
    <3> QED BY <1>3, <2>1, <3>1, Kinds
  <2>2. /\ queue'[b].completed # 0 => queue[b].completed # 0
        /\ queue'[b].attempted = queue[b].attempted
    BY <1>1
  <2> QED BY <1>0, <1>2, <2>1, <2>2 DEF Sync!Served
<1>12. Keeps
  BY <1>1 DEF Keeps, Sync!Exists
<1> QED BY <1>4, <1>5, <1>6, <1>7, <1>8, <1>10, <1>11, <1>12 DEF Sync!IndInv

(* What becomes of a lease that may be over.                               *)
LEMMA LeaseEnds ==
    ASSUME Sync!TypeOK, NEW a \in Mutations, Sync!LeaseOver(a)
    PROVE  /\ mishaps' \in 0..MaxMishaps /\ mishaps <= mishaps'
           /\ mishaps' = 0 => /\ mishaps = 0
                               /\ \A f \in Executors : ex[f].act = a => ~Sync!Owns(f)
<1>1. mishaps \in 0..MaxMishaps /\ MaxMishaps \in Nat
  BY QueueTypes, QueueConstants
<1>2. CASE Sync!HolderWorks(a)
  BY <1>1, <1>2 DEF Sync!LeaseOver, Sync!Mishap
<1>3. CASE ~Sync!HolderWorks(a)
  BY <1>1, <1>3 DEF Sync!LeaseOver, Sync!HolderWorks, Sync!Owns, Sync!Row
<1> QED BY <1>2, <1>3

(* A row there is.                                                         *)
LEMMA RowThere ==
    ASSUME Sync!IndInv, NEW a \in Mutations
    PROVE  /\ Sync!TypeOK /\ queue[a] \in Sync!RowType /\ queue[a].gen \in Nat
           /\ Sync!Exists(a) <=> queue[a].gen # 0
           /\ (queue[a].dead \/ queue[a].lease # NoLease) => queue[a].gen # 0
<1>1. Sync!TypeOK /\ Sync!Rows
  BY DEF Sync!IndInv
<1>2. queue[a] \in Sync!RowType /\ queue[a].gen \in Nat
  BY <1>1, QueueTypes, RowFields
<1>3. queue[a].gen = 0 => queue[a] = Sync!NoRow
  BY <1>1, QueueConstants DEF Sync!Rows
<1>4. queue[a].gen = 0 => ~queue[a].dead /\ queue[a].lease = NoLease
  BY <1>3, BlankRow
<1> QED BY <1>1, <1>2, <1>4 DEF Sync!Exists

LEMMA AdoptSafe ==
    ASSUME Sync!IndInv, NEW a \in Mutations, Sync!Adopt(a)
    PROVE  Sync!IndInv' /\ Keeps
<1> DEFINE q == queue[a]
           g == q.gen
           r == [q EXCEPT !.exec = g, !.retry = 0, !.dead = FALSE, !.completed = 0]
<1>0. Sync!TypeOK /\ q \in Sync!RowType /\ q.gen # 0 /\ Sync!Fresh(q)
  BY RowThere DEF Sync!Adopt
<1>1. g \in 0..MaxTaps /\ 0 \in 0..MaxTaps /\ 0 \in 0..MaxRetries
  BY <1>0, RowFields, QueueConstants
<1>2. queue' = [queue EXCEPT ![a] = r]
  BY <1>0, QueueTypes DEF Sync!Adopt
<1>3. /\ r \in Sync!RowType /\ r.gen = q.gen /\ r.created = q.created
      /\ r.attempted = q.attempted /\ r.completed = 0 /\ r.retry = 0 /\ r.dead = FALSE
      /\ r.exec = g /\ r.cancelled = q.cancelled /\ r.lease = q.lease
      /\ r.leaseGen = q.leaseGen
  <2> HIDE DEF q, g
  <2> QED BY <1>0, <1>1 DEF Sync!RowType
<1>4. /\ UNCHANGED <<ex, mirror, remote, effects, clock>>
      /\ errors' \in 0..MaxErrors /\ errors <= errors'
      /\ mishaps' \in 0..MaxMishaps /\ mishaps <= mishaps'
  BY <1>0, QueueTypes, QueueConstants DEF Sync!Adopt
<1> HIDE DEF r
<1> QED BY <1>0, <1>2, <1>3, <1>4, EditStep

LEMMA ReviveSafe ==
    ASSUME Sync!IndInv, NEW a \in Mutations, Sync!Revive(a)
    PROVE  Sync!IndInv' /\ Keeps
<1> DEFINE q == queue[a]
           r == [q EXCEPT !.dead = FALSE, !.retry = 0]
<1>0. Sync!TypeOK /\ q \in Sync!RowType /\ q.gen # 0 /\ 0 \in 0..MaxRetries
  BY RowThere, QueueConstants DEF Sync!Revive
<1>1. queue' = [queue EXCEPT ![a] = r]
  BY <1>0, QueueTypes DEF Sync!Revive
<1>2. /\ r \in Sync!RowType /\ r.gen = q.gen /\ r.created = q.created
      /\ r.attempted = q.attempted /\ r.completed = q.completed /\ r.retry = 0
      /\ r.dead = FALSE /\ r.exec = q.exec /\ r.cancelled = q.cancelled
      /\ r.lease = q.lease /\ r.leaseGen = q.leaseGen
  <2> HIDE DEF q
  <2> QED BY <1>0 DEF Sync!RowType
<1>3. /\ UNCHANGED <<ex, mirror, remote, effects, clock>>
      /\ errors' \in 0..MaxErrors /\ errors <= errors'
      /\ mishaps' \in 0..MaxMishaps /\ mishaps <= mishaps'
  BY <1>0, QueueTypes, QueueConstants DEF Sync!Revive
<1> HIDE DEF r
<1> QED BY <1>0, <1>1, <1>2, <1>3, EditStep

LEMMA ForceDueSafe ==
    ASSUME Sync!IndInv, NEW a \in Mutations, Sync!ForceDue(a)
    PROVE  Sync!IndInv' /\ Keeps
<1> DEFINE q == queue[a]
           r == Sync!Free(q)
<1>0. Sync!TypeOK /\ q \in Sync!RowType /\ q.gen # 0
  BY RowThere DEF Sync!ForceDue
<1>1. queue' = [queue EXCEPT ![a] = r]
  BY <1>0, QueueTypes DEF Sync!ForceDue, Sync!Free
<1>2. /\ r \in Sync!RowType /\ r.gen = q.gen /\ r.created = q.created
      /\ r.attempted = q.attempted /\ r.completed = q.completed /\ r.retry = q.retry
      /\ r.dead = q.dead /\ r.exec = q.exec /\ r.cancelled = q.cancelled
      /\ r.lease = NoLease
  BY <1>0, FreedRow
<1>3. /\ UNCHANGED <<ex, mirror, remote, effects, clock>>
      /\ errors' \in 0..MaxErrors /\ errors <= errors'
  BY <1>0, QueueTypes, QueueConstants DEF Sync!ForceDue
<1>4. /\ mishaps' \in 0..MaxMishaps /\ mishaps <= mishaps'
      /\ mishaps' = 0 => \A f \in Executors : ex[f].act = a => ~Sync!Owns(f)
  BY <1>0, LeaseEnds DEF Sync!ForceDue
<1> HIDE DEF r
<1> QED BY <1>0, <1>1, <1>2, <1>3, <1>4, EditStep

(* A purge: a row nobody has and that was never sent.                      *)
LEMMA PurgeStep ==
    ASSUME Sync!IndInv, NEW a \in Mutations, Sync!Exists(a), Sync!Idle(queue[a]),
           queue' = [queue EXCEPT ![a] = Sync!NoRow],
           UNCHANGED <<mirror, remote, effects, ex, clock, errors, mishaps>>,
           a \in Sync!Pair => ~Sync!Wanted(a) \/ queue[a].retry > 0
    PROVE  Sync!IndInv' /\ LeavesWell
<1>0. Sync!TypeOK /\ Sync!Marked /\ Sync!Counted
  BY DEF Sync!IndInv
<1>1. \A f \in Executors : ex'[f].act = a => ~Sync!Owns(f)
  BY QueueConstants DEF Sync!Idle, Sync!Owns, Sync!Row
<1>2. /\ ex' \in [Executors -> Sync!ExecType] /\ clock' \in 0..MaxTaps /\ clock <= clock'
      /\ \A f \in Executors : ex'[f] = ex[f] \/ ex'[f] = Sync!IdleExec
  BY <1>0, QueueTypes, QueueConstants
<1>3. Sync!IndInv'
  BY <1>1, <1>2, BlankRow, ReplaceStep
<1>4. /\ a \in Sync!NonIdempotent /\ mishaps = 0 => effects[a] = 0
      /\ a \in Sync!Pair => ~Sync!Wanted(a)
  BY <1>0 DEF Sync!Marked, Sync!Idle, Sync!Counted
<1>5. \A b \in Mutations : b # a => queue'[b] = queue[b]
  BY <1>0, QueueTypes
<1> QED BY <1>3, <1>4, <1>5 DEF LeavesWell, Sync!Exists

LEMMA SettleSafe ==
    ASSUME Sync!IndInv, NEW a \in Mutations,
           Sync!SettleCancelled(a) \/ Sync!AdminPurge(a)
    PROVE  Sync!IndInv' /\ LeavesWell
<1>1. CASE Sync!AdminPurge(a)
  BY <1>1, PurgeStep DEF Sync!AdminPurge
<1>2. CASE Sync!SettleCancelled(a) /\ ~(a \in Sync!Pair /\ Sync!Wanted(a))
  BY <1>2, PurgeStep DEF Sync!SettleCancelled
<1>3. CASE Sync!SettleCancelled(a) /\ a \in Sync!Pair /\ Sync!Wanted(a)
  <2> DEFINE q == queue[a]
             r == [q EXCEPT !.cancelled = FALSE]
  <2>0. Sync!TypeOK /\ q \in Sync!RowType /\ q.gen # 0 /\ q.cancelled /\ Sync!Idle(q)
    BY <1>3, RowThere DEF Sync!SettleCancelled
  <2>1. queue' = [queue EXCEPT ![a] = r]
    BY <1>3 DEF Sync!SettleCancelled
  <2>2. /\ r \in Sync!RowType /\ r.gen = q.gen /\ r.created = q.created
        /\ r.attempted = q.attempted /\ r.completed = q.completed /\ r.retry = q.retry
        /\ r.dead = q.dead /\ r.exec = q.exec /\ r.lease = q.lease /\ r.leaseGen = q.leaseGen
    <3> HIDE DEF q
    <3> QED BY <2>0 DEF Sync!RowType
  <2>3. /\ UNCHANGED <<ex, mirror, remote, effects, clock>>
        /\ errors' \in 0..MaxErrors /\ errors <= errors'
        /\ mishaps' \in 0..MaxMishaps /\ mishaps <= mishaps'
    BY <1>3, <2>0, QueueTypes, QueueConstants DEF Sync!SettleCancelled
  <2> HIDE DEF r
  <2>4. Sync!IndInv' /\ Keeps
    BY <1>3, <2>0, <2>1, <2>2, <2>3, EditStep
  <2> QED BY <2>4, KeepsWell
<1> QED BY <1>1, <1>2, <1>3

LEMMA FileSafe ==
    ASSUME Sync!IndInv, NEW a \in Mutations, Sync!File(a)
    PROVE  Sync!IndInv' /\ Keeps
<1> DEFINE now == clock + 1
           r == [Sync!NoRow EXCEPT !.gen = now, !.created = now, !.cancelled = FALSE]
<1>0. Sync!TypeOK /\ Sync!Rows /\ Sync!Marked /\ queue[a].gen = 0
  BY RowThere DEF Sync!File, Sync!IndInv
<1>1. now \in 0..MaxTaps /\ now \in 1..clock' /\ clock <= clock' /\ clock' \in 0..MaxTaps
  BY <1>0, QueueTypes, QueueConstants DEF Sync!File
<1>2. queue' = [queue EXCEPT ![a] = r]
  BY <1>0 DEF Sync!File, Sync!Upsert
<1>3. /\ r \in Sync!RowType /\ r.gen = now /\ r.created = now
      /\ r.lease = NoLease /\ r.attempted = 0 /\ r.completed = 0 /\ r.retry = 0
      /\ r.dead = FALSE
  <2> HIDE DEF now
  <2> QED BY <1>1, BlankRow DEF Sync!RowType
<1>4. queue[a] = Sync!NoRow
  BY <1>0, QueueConstants DEF Sync!Rows
<1>5. \A f \in Executors : ex[f].act = a => ~Sync!Owns(f)
  BY <1>4, BlankRow, QueueConstants DEF Sync!Owns, Sync!Row
<1>6. /\ a \in Sync!NonIdempotent /\ effects[a] = 0
      /\ UNCHANGED <<mirror, remote, effects, ex, errors, mishaps>>
  BY DEF Sync!File
<1>7. ex' \in [Executors -> Sync!ExecType]
      /\ \A f \in Executors : ex'[f] = ex[f] \/ ex'[f] = Sync!IdleExec
  BY <1>0, <1>6, QueueTypes
<1>8. \A f \in Executors : ex'[f].act = a => ~Sync!Owns(f)
  BY <1>5, <1>6
<1>9. Keeps
  <2>1. \A b \in Mutations : b # a => queue'[b] = queue[b]
    BY <1>0, <1>2, QueueTypes
  <2> QED BY <1>0, <2>1 DEF Keeps, Sync!Exists
<1> HIDE DEF r, now
<1>10. Sync!IndInv'
  BY <1>1, <1>2, <1>3, <1>6, <1>7, <1>8, ReplaceStep
<1> QED BY <1>9, <1>10

(* A wish: what becomes of the two rows of the target.                     *)
LEMMA WishedRows ==
    ASSUME Sync!IndInv, NEW a \in Mutations, Sync!Tap(a)
    PROVE  LET b == Sync!Inverse(a)
               q == queue[a]
               o == queue[b]
               now == clock + 1
               annuls == Sync!Exists(b) /\ ~o.cancelled /\ Sync!Idle(o)
           IN  \E r \in Sync!RowType, s \in Sync!RowType :
               /\ \A c \in Mutations :
                     queue'[c] = IF c = a THEN r ELSE IF c = b THEN s ELSE queue[c]
               /\ queue' \in [Mutations -> Sync!RowType]
               /\ r.lease = q.lease /\ r.leaseGen = q.leaseGen /\ r.attempted = q.attempted
               /\ r.completed = q.completed /\ r.retry = q.retry /\ r.dead = q.dead
               /\ \/ r = q /\ annuls /\ ~q.cancelled /\ q.gen # 0
                  \/ /\ ~(annuls /\ ~q.cancelled /\ q.gen # 0)
                     /\ r.gen = now /\ r.cancelled = annuls
                     /\ r.created = IF q.gen = 0 \/ q.cancelled THEN now ELSE q.created
               /\ s.lease = o.lease /\ s.leaseGen = o.leaseGen /\ s.attempted = o.attempted
               /\ s.completed = o.completed /\ s.retry = o.retry /\ s.dead = o.dead
               /\ s.gen = o.gen /\ s.created = o.created
               /\ s.cancelled = (o.cancelled \/ annuls)
               /\ o.gen = 0 => s = o
<1> DEFINE b == Sync!Inverse(a)
           q == queue[a]
           o == queue[b]
           now == clock + 1
           annuls == Sync!Exists(b) /\ ~o.cancelled /\ Sync!Idle(o)
           r == Sync!Upsert(q, annuls, now)
           s == [o EXCEPT !.cancelled = o.cancelled \/ annuls]
<1>0. Sync!TypeOK /\ Sync!Rows
  BY DEF Sync!IndInv
<1>1. a \in Sync!Pair /\ b \in Sync!Pair /\ b # a /\ b \in Mutations
  BY DEF Sync!Tap, Sync!Inverse, Sync!Pair, Mutations
<1>2. /\ q \in Sync!RowType /\ o \in Sync!RowType /\ queue \in [Mutations -> Sync!RowType]
      /\ now \in 0..MaxTaps /\ annuls \in BOOLEAN /\ o.cancelled \in BOOLEAN
      /\ q.cancelled \in BOOLEAN
  BY <1>0, <1>1, QueueTypes, QueueConstants, RowFields DEF Sync!Tap, Sync!Exists, Sync!Idle
<1>3. queue' = [queue EXCEPT ![a] = r, ![b] = s]
  <2>1. queue' = [queue EXCEPT ![a] = Sync!Upsert(@, annuls, now),
                              ![b].cancelled = @ \/ annuls]
    BY DEF Sync!Tap
  <2> HIDE DEF annuls, now, b
  <2> QED BY <1>1, <1>2, <2>1
<1>4. /\ s \in Sync!RowType /\ s.lease = o.lease /\ s.leaseGen = o.leaseGen
      /\ s.attempted = o.attempted /\ s.completed = o.completed /\ s.retry = o.retry
      /\ s.dead = o.dead /\ s.gen = o.gen /\ s.created = o.created
      /\ s.cancelled = (o.cancelled \/ annuls) /\ s.exec = o.exec
  <2> DEFINE x == o.cancelled \/ annuls
  <2>1. x \in BOOLEAN
    OBVIOUS
  <2> HIDE DEF x, o
  <2>2. LET y == [o EXCEPT !.cancelled = x] IN
        /\ y \in Sync!RowType /\ y.lease = o.lease /\ y.leaseGen = o.leaseGen
        /\ y.attempted = o.attempted /\ y.completed = o.completed /\ y.retry = o.retry
        /\ y.dead = o.dead /\ y.gen = o.gen /\ y.created = o.created
        /\ y.cancelled = x /\ y.exec = o.exec
    BY <1>2, <2>1 DEF Sync!RowType
  <2> QED BY <2>2 DEF x
<1>5. o.gen = 0 => s = o
  <2> SUFFICES ASSUME o.gen = 0 PROVE s = o
    OBVIOUS
  <2>1. annuls = FALSE
    BY DEF Sync!Exists
  <2>2. s = [o EXCEPT !.cancelled = o.cancelled]
    BY <1>2, <2>1
  <2> HIDE DEF o, s
  <2> QED BY <1>2, <2>2 DEF Sync!RowType
<1>6. /\ r \in Sync!RowType
      /\ r.lease = q.lease /\ r.leaseGen = q.leaseGen /\ r.attempted = q.attempted
      /\ r.completed = q.completed /\ r.retry = q.retry /\ r.dead = q.dead
      /\ \/ r = q /\ annuls /\ ~q.cancelled /\ q.gen # 0
         \/ /\ ~(annuls /\ ~q.cancelled /\ q.gen # 0)
            /\ r.gen = now /\ r.cancelled = annuls
            /\ r.created = IF q.gen = 0 \/ q.cancelled THEN now ELSE q.created
  <2>1. CASE annuls /\ ~q.cancelled /\ q.gen # 0
    BY <1>2, <2>1 DEF Sync!Upsert
  <2>2. CASE ~(annuls /\ ~q.cancelled /\ q.gen # 0)
    <3> DEFINE m == IF q.gen = 0 \/ q.cancelled THEN now ELSE q.created
               y == [q EXCEPT !.gen = now, !.cancelled = annuls, !.created = m]
    <3>1. m \in 0..MaxTaps
      BY <1>2, RowFields
    <3>2. r = y
      <4>1. CASE q.gen = 0
        <5>1. q = Sync!NoRow
          BY <1>0, <1>1, <4>1, QueueConstants DEF Sync!Rows
        <5>2. r = [Sync!NoRow EXCEPT !.gen = now, !.created = now, !.cancelled = annuls]
          BY <4>1 DEF Sync!Upsert
        <5>3. y = [Sync!NoRow EXCEPT !.gen = now, !.cancelled = annuls, !.created = now]
          BY <4>1, <5>1
        <5> HIDE DEF annuls, now
        <5>4. ASSUME NEW z \in Sync!RowType
              PROVE  [z EXCEPT !.gen = now, !.created = now, !.cancelled = annuls]
                     = [z EXCEPT !.gen = now, !.cancelled = annuls, !.created = now]
          BY DEF Sync!RowType
        <5> QED BY <5>2, <5>3, <5>4, BlankRow
      <4>2. CASE q.gen # 0
        <5>1. r = [q EXCEPT !.gen = now, !.cancelled = annuls,
                            !.created = IF q.cancelled THEN now ELSE @]
          BY <2>2, <4>2 DEF Sync!Upsert
        <5>2. m = IF q.cancelled THEN now ELSE q.created
          BY <4>2
        <5> HIDE DEF annuls, now, q, m
        <5> QED BY <1>2, <5>1, <5>2 DEF Sync!RowType
      <4> QED BY <4>1, <4>2
    <3>3. /\ y \in Sync!RowType
          /\ y.lease = q.lease /\ y.leaseGen = q.leaseGen /\ y.attempted = q.attempted
          /\ y.completed = q.completed /\ y.retry = q.retry /\ y.dead = q.dead
          /\ y.gen = now /\ y.cancelled = annuls /\ y.created = m
      <4> HIDE DEF annuls, now, q, m
      <4> QED BY <1>2, <3>1 DEF Sync!RowType
    <3> HIDE DEF y, annuls, q, r
    <3> QED BY <2>2, <3>2, <3>3
  <2> QED BY <2>1, <2>2
<1>7. /\ \A c \in Mutations :
            queue'[c] = IF c = a THEN r ELSE IF c = b THEN s ELSE queue[c]
      /\ queue' \in [Mutations -> Sync!RowType]
  <2> HIDE DEF r, s, b
  <2> QED BY <1>1, <1>2, <1>3, <1>4, <1>6
<1> HIDE DEF r, s
<1> QED BY <1>4, <1>5, <1>6, <1>7

LEMMA TapSafe ==
    ASSUME Sync!IndInv, NEW a \in Mutations, Sync!Tap(a)
    PROVE  Sync!IndInv' /\ Keeps
<1> USE QueueConstants
<1> DEFINE b == Sync!Inverse(a)
           q == queue[a]
           o == queue[b]
           now == clock + 1
           annuls == Sync!Exists(b) /\ ~o.cancelled /\ Sync!Idle(o)
<1>0. /\ Sync!TypeOK /\ Sync!Rows /\ Sync!Copied /\ Sync!Marked /\ Sync!Counted
      /\ Sync!Ordered /\ Sync!Served
  BY DEF Sync!IndInv
<1>1. /\ a \in Sync!Pair /\ b \in Sync!Pair /\ b # a /\ b \in Mutations
      /\ Sync!Pair = {a, b}
      /\ a \notin Sync!NonIdempotent /\ b \notin Sync!NonIdempotent
  BY DEF Sync!Tap, Sync!Inverse, Sync!Pair, Sync!NonIdempotent, Mutations
<1>2. PICK r \in Sync!RowType, s \in Sync!RowType :
        /\ \A c \in Mutations :
              queue'[c] = IF c = a THEN r ELSE IF c = b THEN s ELSE queue[c]
        /\ queue' \in [Mutations -> Sync!RowType]
        /\ r.lease = q.lease /\ r.leaseGen = q.leaseGen /\ r.attempted = q.attempted
        /\ r.completed = q.completed /\ r.retry = q.retry /\ r.dead = q.dead
        /\ \/ r = q /\ annuls /\ ~q.cancelled /\ q.gen # 0
           \/ /\ ~(annuls /\ ~q.cancelled /\ q.gen # 0)
              /\ r.gen = now /\ r.cancelled = annuls
              /\ r.created = IF q.gen = 0 \/ q.cancelled THEN now ELSE q.created
        /\ s.lease = o.lease /\ s.leaseGen = o.leaseGen /\ s.attempted = o.attempted
        /\ s.completed = o.completed /\ s.retry = o.retry /\ s.dead = o.dead
        /\ s.gen = o.gen /\ s.created = o.created
        /\ s.cancelled = (o.cancelled \/ annuls)
        /\ o.gen = 0 => s = o
  BY WishedRows
<1>3. /\ q \in Sync!RowType /\ o \in Sync!RowType
      /\ q.gen \in Nat /\ o.gen \in Nat /\ q.created \in Nat /\ o.created \in Nat
      /\ r.cancelled \in BOOLEAN /\ s.cancelled \in BOOLEAN /\ q.cancelled \in BOOLEAN
      /\ o.cancelled \in BOOLEAN /\ clock \in Nat /\ now \in Nat
  BY <1>0, <1>1, QueueTypes, RowFields
<1>4. /\ clock' = now /\ now \in 0..MaxTaps
      /\ mirror' = [mirror EXCEPT !.wanted = (a = "like"), !.v = now]
      /\ UNCHANGED <<remote, effects, ex, errors, mishaps>>
  BY <1>0, QueueTypes DEF Sync!Tap
<1>5. /\ mirror' \in [wanted : BOOLEAN, v : 0..MaxTaps, synced : 0..MaxTaps]
      /\ mirror'.wanted = (a = "like") /\ mirror'.v = now /\ mirror'.synced = mirror.synced
      /\ mirror.synced <= clock /\ mirror.synced \in Nat
  <2>1. /\ mirror \in [wanted : BOOLEAN, v : 0..MaxTaps, synced : 0..MaxTaps]
        /\ mirror.synced <= mirror.v /\ mirror.v <= clock
    BY <1>0, QueueTypes DEF Sync!Rows
  <2> DEFINE x == (a = "like")
  <2>2. x \in BOOLEAN
    OBVIOUS
  <2>3. mirror' = [mirror EXCEPT !.wanted = x, !.v = now]
    BY <1>4
  <2> HIDE DEF now, x
  <2>4. /\ mirror' \in [wanted : BOOLEAN, v : 0..MaxTaps, synced : 0..MaxTaps]
        /\ mirror'.wanted = x /\ mirror'.v = now /\ mirror'.synced = mirror.synced
    BY <1>4, <2>1, <2>2, <2>3
  <2>5. mirror.synced <= clock /\ mirror.synced \in Nat
    BY <1>3, <2>1
  <2> QED BY <2>4, <2>5 DEF x
<1>6. /\ q.gen # 0 => q.created \in 1..clock /\ q.gen \in 1..clock
      /\ o.gen # 0 => o.created \in 1..clock /\ o.gen \in 1..clock
  BY <1>0, <1>1 DEF Sync!Rows
<1>7. /\ Sync!Wanted(a)' /\ ~Sync!Wanted(b)'
      /\ r.gen # 0 /\ (annuls => Sync!Exists(b) /\ ~o.cancelled /\ Sync!Idle(o))
      /\ (Sync!Exists(b) /\ ~o.cancelled /\ Sync!Idle(o) => annuls)
      /\ Sync!Idle(r) = Sync!Idle(q) /\ Sync!Idle(s) = Sync!Idle(o)
      /\ queue'[a] = r /\ queue'[b] = s
      /\ \A c \in Sync!NonIdempotent : queue'[c] = queue[c]
  <2>1. Sync!Wanted(a)' /\ ~Sync!Wanted(b)'
    BY <1>1, <1>5 DEF Sync!Wanted, Sync!Pair
  <2>2. \A c \in Sync!NonIdempotent : queue'[c] = queue[c]
    BY <1>1, <1>2
  <2> QED BY <1>1, <1>2, <1>3, <2>1, <2>2 DEF Sync!Idle
<1> HIDE DEF annuls, b
<1>8. Sync!TypeOK'
  BY <1>0, <1>2, <1>4, <1>5 DEF Sync!TypeOK
<1>9. Sync!Rows'
  <2>1. ASSUME NEW c \in Mutations
        PROVE  IF queue'[c].gen = 0 THEN queue'[c] = Sync!NoRow
               ELSE queue'[c].created \in 1..clock' /\ queue'[c].gen \in 1..clock'
    <3>1. CASE c = a
      BY <1>2, <1>3, <1>4, <1>6, <1>7, <3>1
    <3>2. CASE c = b
      BY <1>0, <1>2, <1>3, <1>4, <1>6, <1>7, <3>2 DEF Sync!Rows
    <3>3. CASE c # a /\ c # b
      BY <1>0, <1>2, <1>3, <1>4, <3>3 DEF Sync!Rows
    <3> QED BY <3>1, <3>2, <3>3
  <2>2. mirror'.v <= clock' /\ mirror'.synced <= mirror'.v
    BY <1>3, <1>4, <1>5
  <2> QED BY <2>1, <2>2 DEF Sync!Rows
<1>10. \A c \in Mutations :
          /\ queue'[c].lease = queue[c].lease /\ queue'[c].leaseGen = queue[c].leaseGen
          /\ queue'[c].attempted = queue[c].attempted /\ queue'[c].retry = queue[c].retry
          /\ queue'[c].completed = queue[c].completed /\ queue'[c].dead = queue[c].dead
  BY <1>2
<1>11. ASSUME NEW f \in Executors, ex[f].act # "none"
       PROVE  /\ Sync!Owns(f)' = Sync!Owns(f)
              /\ Sync!Row(f)'.retry = Sync!Row(f).retry
              /\ Sync!Row(f)'.attempted = Sync!Row(f).attempted
              /\ ex[f].act \in Sync!NonIdempotent => Sync!Row(f)' = Sync!Row(f)
                                                     /\ Sync!Current(f)' = Sync!Current(f)
  <2>1. ex[f].act \in Mutations
    BY <1>0, <1>11, QueueTypes
  <2> QED BY <1>4, <1>7, <1>10, <2>1 DEF Sync!Owns, Sync!Row, Sync!Current
<1>12. Sync!Copied'
  <2> SUFFICES ASSUME NEW f \in Executors, ex[f].act # "none"
               PROVE  /\ Sync!Owns(f)' => Sync!Row(f)'.retry <= ex[f].retry
                      /\ (/\ Sync!Owns(f)' /\ ex[f].act \in Sync!Pair
                          /\ ex[f].pc \in {"refresh", "write", "rewrite", "success"})
                             => Sync!Row(f)'.attempted # 0
    BY <1>0, <1>4 DEF Sync!Copied
  <2> QED BY <1>0, <1>11 DEF Sync!Copied
<1>13. Sync!Marked'
  <2> SUFFICES ASSUME mishaps = 0, NEW c \in Sync!NonIdempotent,
                      NEW f \in Executors, ex[f].act = c
               PROVE  Sync!Known(f)'
    BY <1>0, <1>4, <1>7 DEF Sync!Marked, Sync!Exists
  <2>1. Sync!Known(f) /\ Sync!Row(f)' = Sync!Row(f) /\ Sync!Current(f)' = Sync!Current(f)
    BY <1>0, <1>11, Kinds DEF Sync!Marked
  <2> QED BY <1>4, <2>1 DEF Sync!Known, Sync!Fresh
<1>14. Sync!Counted'
  BY <1>0, <1>4, <1>10 DEF Sync!Counted
<1>15. Sync!Ordered'
  <2> SUFFICES ASSUME errors < MaxRetries, s.gen > 0
               PROVE  /\ r.created # s.created
                      /\ ~Sync!Idle(s) => Sync!Idle(r) /\ (r.cancelled \/ r.created > s.created)
                      /\ ~Sync!Idle(r) => Sync!Idle(s) /\ (s.cancelled \/ s.created > r.created)
                      /\ r.cancelled => r.created > s.created
    <3>1. ASSUME errors' < MaxRetries, NEW c \in Sync!Pair, NEW d \in Sync!Pair, c # d,
                 queue'[c].gen > 0, queue'[d].gen > 0
          PROVE  /\ queue'[c].created # queue'[d].created
                 /\ ~Sync!Idle(queue'[d]) => Sync!Idle(queue'[c])
                      /\ (queue'[c].cancelled \/ queue'[c].created > queue'[d].created)
                 /\ Sync!Wanted(c)' /\ queue'[c].cancelled
                      => queue'[c].created > queue'[d].created
      <4>1. CASE c = a /\ d = b
        BY <1>4, <1>7, <3>1, <4>1
      <4>2. CASE c = b /\ d = a
        BY <1>4, <1>7, <3>1, <4>2
      <4> QED BY <1>1, <3>1, <4>1, <4>2
    <3> QED BY <3>1, Zenon DEF Sync!Ordered, Sync!Exists, Sync!Idle
  <2>1. o.gen > 0 /\ Sync!Exists(b)
    BY <1>2 DEF Sync!Exists
  <2>2. q.gen # 0 => /\ q.created # o.created
                     /\ ~Sync!Idle(o) => Sync!Idle(q) /\ (q.cancelled \/ q.created > o.created)
                     /\ ~Sync!Idle(q) => Sync!Idle(o) /\ (o.cancelled \/ o.created > q.created)
    BY <1>0, <1>1, <1>3, <2>1 DEF Sync!Ordered, Sync!Exists
  <2>3. q.gen = 0 => Sync!Idle(q)
    BY <1>0, BlankRow DEF Sync!Rows, Sync!Idle
  <2>4. o.created \in 1..clock /\ s.created = o.created
    BY <1>2, <1>3, <1>6, <2>1
  <2>5. r.created # s.created
    BY <1>2, <1>3, <2>2, <2>4
  <2>6. ASSUME ~Sync!Idle(s)
        PROVE  Sync!Idle(r) /\ (r.cancelled \/ r.created > s.created)
    <3>1. ~annuls /\ ~Sync!Idle(o)
      BY <1>7, <2>6
    <3>2. r.created = IF q.gen = 0 \/ q.cancelled THEN now ELSE q.created
      BY <1>2, <3>1
    <3> QED BY <1>3, <1>7, <2>2, <2>3, <2>4, <3>1, <3>2
  <2>7. ASSUME ~Sync!Idle(r)
        PROVE  Sync!Idle(s) /\ (s.cancelled \/ s.created > r.created)
    <3>1. q.gen # 0 /\ ~Sync!Idle(q)
      BY <1>7, <2>3, <2>7
    <3>2. Sync!Idle(o)
      BY <2>2, <3>1
    <3>3. s.cancelled
      BY <1>2, <1>3, <1>7, <2>1, <3>2
    <3> QED BY <1>7, <3>2, <3>3
  <2>8. ASSUME r.cancelled PROVE r.created > s.created
    <3>1. q.gen = 0 \/ q.cancelled => r.created = now
      BY <1>2, <1>3
    <3>2. q.gen = 0 \/ q.cancelled
      BY <1>2, <1>3, <2>8
    <3> QED BY <1>3, <2>4, <3>1, <3>2
  <2> QED BY <2>5, <2>6, <2>7, <2>8
<1>16. Sync!Served'
  <2> SUFFICES ASSUME mishaps = 0, errors < MaxRetries, NEW c \in Sync!Pair
               PROVE  /\ \A f \in Executors : ex[f].act = c =>
                            /\ Sync!Owns(f)'
                            /\ ex[f].pc = "success" => remote \in {"gone", Sync!Brings(c)}
                      /\ queue'[c].completed # 0 => remote \in {"gone", Sync!Brings(c)}
                      /\ mirror'.synced # mirror'.v
    BY <1>4, Zenon DEF Sync!Served, Sync!Brings
  <2>1. mirror'.synced # mirror'.v
    BY <1>3, <1>5
  <2> QED BY <1>0, <1>10, <1>11, <2>1, Kinds DEF Sync!Served
<1>17. Keeps
  <2>1. Sync!Exists(a)'
    BY <1>2, <1>3, <1>7 DEF Sync!Exists
  <2>2. Sync!Exists(b)' = Sync!Exists(b)
    BY <1>2, <1>7 DEF Sync!Exists
  <2>3. \A c \in Mutations : c # a /\ c # b => queue'[c] = queue[c]
    BY <1>2
  <2> QED BY <2>1, <2>2, <2>3 DEF Keeps, Sync!Exists
<1> QED BY <1>8, <1>9, <1>12, <1>13, <1>14, <1>15, <1>16, <1>17 DEF Sync!IndInv

(* Who claims a mutation of the pair finds the other one at rest.          *)
LEMMA ClaimAlone ==
    ASSUME Sync!IndInv, NEW e \in Executors, NEW a \in Sync!Pair, Sync!Claim(e, a),
           errors < MaxRetries, NEW b \in Sync!Pair \ {a}, Sync!Exists(b)
    PROVE  Sync!Idle(queue[b]) /\ queue[b].created > queue[a].created
<1> USE QueueConstants
<1> DEFINE q == queue[a]
           o == queue[b]
<1>0. Sync!TypeOK /\ Sync!Counted /\ Sync!Ordered
  BY DEF Sync!IndInv
<1>1. q.created \in Nat /\ o.created \in Nat /\ errors \in Nat
  BY <1>0, QueueTypes, RowFields
<1>2. Sync!Exists(a) /\ ~Sync!Behind(a) /\ ~(q.cancelled /\ Sync!Idle(q))
  BY DEF Sync!Claim
<1>3. ~o.dead
  BY <1>0, <1>1 DEF Sync!Counted
<1>4. q.created <= o.created
  BY <1>1, <1>2, <1>3 DEF Sync!Behind
<1>5. /\ q.created # o.created
      /\ ~Sync!Idle(o) => Sync!Idle(q) /\ (q.cancelled \/ q.created > o.created)
  BY <1>0, <1>2 DEF Sync!Ordered
<1> QED BY <1>1, <1>2, <1>4, <1>5

(* A claim.                                                                *)
LEMMA ClaimSafe ==
    ASSUME Sync!IndInv, NEW e \in Executors, NEW a \in Actions, Sync!Claim(e, a)
    PROVE  /\ Sync!IndInv' /\ Keeps /\ ex'[e].act = a
           /\ \A f \in Executors : f # e => ex'[f] = ex[f]
<1> USE QueueConstants
<1> DEFINE q == queue[a]
           r == [q EXCEPT !.lease = e, !.leaseGen = q.gen]
           u == (q.attempted = q.gen /\ q.completed # q.gen)
           d == (q.completed = q.gen)
           c == [pc |-> "begin", act |-> a, gen |-> q.gen, unclear |-> u, result |-> d,
                 retry |-> q.retry]
<1>0. /\ Sync!TypeOK /\ Sync!Rows /\ Sync!Copied /\ Sync!Marked /\ Sync!Counted
      /\ Sync!Ordered /\ Sync!Served
  BY DEF Sync!IndInv
<1>1. /\ a \in Mutations /\ q \in Sync!RowType /\ q.gen # 0 /\ q.gen \in 0..MaxTaps
      /\ q.gen > 0 /\ q.retry \in 0..MaxRetries /\ ~Sync!Fresh(q)
      /\ q.exec = q.gen /\ ex[e].pc = "idle" /\ ex[e].act = "none"
  BY <1>0, RowThere, RowFields, QueueTypes DEF Sync!Claim, Sync!Fresh, Sync!Exists
<1>2. queue' = [queue EXCEPT ![a] = r] /\ ex' = [ex EXCEPT ![e] = c]
      /\ UNCHANGED <<mirror, remote, effects, clock, errors>>
  BY <1>0, <1>1, QueueTypes DEF Sync!Claim
<1>3. /\ r \in Sync!RowType /\ r.gen = q.gen /\ r.created = q.created
      /\ r.attempted = q.attempted /\ r.completed = q.completed /\ r.retry = q.retry
      /\ r.dead = q.dead /\ r.exec = q.exec /\ r.cancelled = q.cancelled
      /\ r.lease = e /\ r.leaseGen = q.gen
  <2> DEFINE g == q.gen
             L == Executors \cup {NoLease}
  <2>1. g \in 0..MaxTaps /\ e \in L
    BY <1>1
  <2>2. q \in [gen : 0..MaxTaps, exec : 0..MaxTaps, cancelled : BOOLEAN, created : 0..MaxTaps,
                lease : L, leaseGen : 0..MaxTaps, attempted : 0..MaxTaps,
                completed : 0..MaxTaps, retry : 0..MaxRetries, dead : BOOLEAN]
    BY <1>1 DEF Sync!RowType
  <2> HIDE DEF q, L, g
  <2>3. LET y == [q EXCEPT !.lease = e, !.leaseGen = g] IN
        /\ y \in [gen : 0..MaxTaps, exec : 0..MaxTaps, cancelled : BOOLEAN, created : 0..MaxTaps,
                  lease : L, leaseGen : 0..MaxTaps, attempted : 0..MaxTaps,
                  completed : 0..MaxTaps, retry : 0..MaxRetries, dead : BOOLEAN]
        /\ y.gen = q.gen /\ y.created = q.created
        /\ y.attempted = q.attempted /\ y.completed = q.completed /\ y.retry = q.retry
        /\ y.dead = q.dead /\ y.exec = q.exec /\ y.cancelled = q.cancelled
        /\ y.lease = e /\ y.leaseGen = g
    BY <2>1, <2>2
  <2> QED BY <2>3 DEF g, L, Sync!RowType
<1>4. /\ c \in Sync!ExecType /\ c.pc = "begin" /\ c.act = a /\ c.gen = q.gen
      /\ c.unclear = u /\ c.result = d /\ c.retry = q.retry
  <2>1. u \in BOOLEAN /\ d \in BOOLEAN
    OBVIOUS
  <2> HIDE DEF u, d, q
  <2> QED BY <1>1, <2>1 DEF Sync!ExecType
<1>5. /\ \A b \in Mutations : queue'[b] = IF b = a THEN r ELSE queue[b]
      /\ queue' \in [Mutations -> Sync!RowType]
      /\ \A f \in Executors : ex'[f] = IF f = e THEN c ELSE ex[f]
      /\ ex' \in [Executors -> Sync!ExecType]
  <2> HIDE DEF r, c, q
  <2> QED BY <1>0, <1>1, <1>2, <1>3, <1>4, QueueTypes
<1>6. /\ mishaps' \in 0..MaxMishaps
      /\ mishaps' = 0 => /\ mishaps = 0
                          /\ \A f \in Executors : ex[f].act = a => ~Sync!Owns(f)
  BY <1>0, <1>1, LeaseEnds DEF Sync!Claim
<1> HIDE DEF r, c
<1>7. ASSUME NEW f \in Executors, ex'[f].act # "none", f # e
      PROVE  /\ ex'[f] = ex[f] /\ ex[f].act # "none"
             /\ ex[f].act # a => /\ Sync!Row(f)' = Sync!Row(f) /\ Sync!Owns(f)' = Sync!Owns(f)
                                 /\ Sync!Current(f)' = Sync!Current(f)
             /\ ex[f].act = a => ~Sync!Owns(f)'
  <2>1. ex'[f] = ex[f] /\ ex[f].act \in Mutations
    BY <1>0, <1>5, <1>7, QueueTypes
  <2> QED BY <1>3, <1>5, <1>7, <2>1 DEF Sync!Row, Sync!Owns, Sync!Current
<1>8. /\ Sync!Row(e)' = r /\ Sync!Owns(e)' /\ Sync!Current(e)' /\ ex'[e] = c
  BY <1>1, <1>3, <1>4, <1>5 DEF Sync!Row, Sync!Owns, Sync!Current
<1>9. Sync!TypeOK'
  <2>1. \A f \in Executors : ex'[f].pc = "idle" <=> ex'[f].act = "none"
    BY <1>0, <1>1, <1>4, <1>5, QueueTypes
  <2> QED BY <1>0, <1>2, <1>5, <1>6, <2>1 DEF Sync!TypeOK
<1>10. Sync!Rows'
  BY <1>0, <1>1, <1>2, <1>3, <1>5 DEF Sync!Rows
<1>11. Sync!Copied'
  <2> SUFFICES ASSUME NEW f \in Executors
               PROVE  /\ ex'[f].pc \in {"list", "relist", "refreshList"} => ex'[f].act = "create"
                      /\ ex'[f].pc = "park" => ex'[f].act = "comment"
                      /\ ex'[f].act # "none" =>
                            /\ ex'[f].gen > 0
                            /\ Sync!Owns(f)' => Sync!Row(f)'.retry <= ex'[f].retry
                            /\ (/\ Sync!Owns(f)' /\ ex'[f].act \in Sync!Pair
                                /\ ex'[f].pc \in {"refresh", "write", "rewrite", "success"})
                                 => Sync!Row(f)'.attempted # 0
    BY DEF Sync!Copied
  <2>1. CASE f = e
    BY <1>1, <1>3, <1>4, <1>8, <2>1
  <2>2. CASE f # e
    BY <1>0, <1>5, <1>7, <2>2 DEF Sync!Copied
  <2> QED BY <2>1, <2>2
<1>12. Sync!Marked'
  <2> SUFFICES ASSUME mishaps' = 0, NEW b \in Sync!NonIdempotent
               PROVE  /\ effects[b] \in {0, 1}
                      /\ queue'[b].attempted \in {0, queue'[b].gen}
                      /\ queue'[b].completed \in {0, queue'[b].gen}
                      /\ queue'[b].gen > 0 /\ queue'[b].attempted = 0 => effects[b] = 0
                      /\ queue'[b].completed # 0 => queue'[b].attempted # 0 /\ effects[b] = 1
                      /\ \A f \in Executors : ex'[f].act = b => Sync!Known(f)'
    BY <1>2, Zenon DEF Sync!Marked, Sync!Exists
  <2>0. /\ mishaps = 0 /\ effects[b] \in {0, 1}
        /\ queue[b].attempted \in {0, queue[b].gen}
        /\ queue[b].completed \in {0, queue[b].gen}
        /\ queue[b].gen > 0 /\ queue[b].attempted = 0 => effects[b] = 0
        /\ queue[b].completed # 0 => queue[b].attempted # 0 /\ effects[b] = 1
        /\ \A f \in Executors : ex[f].act = b => Sync!Known(f) /\ Sync!Owns(f)
    BY <1>0, <1>6 DEF Sync!Marked, Sync!Exists, Sync!Known, Sync!Current
  <2>1. ASSUME NEW f \in Executors, ex'[f].act = b PROVE Sync!Known(f)'
    <3>1. CASE f = e
      <4>1. /\ b = a
            /\ ex'[e].unclear <=> (r.attempted # 0 /\ r.completed = 0)
            /\ ex'[e].result <=> r.completed # 0
        BY <1>1, <1>3, <1>4, <1>8, <2>0, <2>1, <3>1
      <4>2. Sync!Row(e)' = r /\ ~Sync!Fresh(r) /\ ex'[e].pc = "begin" /\ Sync!Current(e)'
        BY <1>1, <1>3, <1>4, <1>8 DEF Sync!Fresh
      <4> QED BY <3>1, <4>1, <4>2 DEF Sync!Known
    <3>2. CASE f # e
      <4>1. ex'[f] = ex[f] /\ Sync!Known(f) /\ ex[f].act # a /\ ex[f].act = b
        BY <1>6, <1>7, <2>0, <2>1, <3>2, Kinds
      <4>2. Sync!Row(f)' = Sync!Row(f) /\ Sync!Current(f)' = Sync!Current(f)
        BY <1>7, <2>1, <3>2, <4>1, Kinds
      <4> QED BY <1>2, <4>1, <4>2 DEF Sync!Known, Sync!Fresh
    <3> QED BY <3>1, <3>2
  <2>2. queue'[b].attempted = queue[b].attempted /\ queue'[b].gen = queue[b].gen
        /\ queue'[b].completed = queue[b].completed
    BY <1>3, <1>5
  <2> QED BY <2>0, <2>1, <2>2
<1>13. Sync!Counted'
  <2>1. ASSUME NEW b \in Sync!Pair
        PROVE  /\ queue'[b].retry = queue[b].retry /\ queue'[b].attempted = queue[b].attempted
               /\ queue'[b].dead = queue[b].dead
    BY <1>3, <1>5
  <2>2. ASSUME NEW f \in Executors, ex'[f].act \in Sync!Pair PROVE ex'[f].retry <= errors
    <3>1. CASE f = e
      BY <1>0, <1>4, <1>8, <2>2, <3>1 DEF Sync!Counted
    <3>2. CASE f # e
      BY <1>0, <1>5, <2>2, <3>2 DEF Sync!Counted
    <3> QED BY <3>1, <3>2
  <2> QED BY <1>0, <1>2, <2>1, <2>2 DEF Sync!Counted
<1>14. Sync!Ordered'
  <2> SUFFICES ASSUME errors < MaxRetries, NEW b \in Sync!Pair, NEW x \in Sync!Pair, b # x,
                      queue'[b].gen > 0, queue'[x].gen > 0
               PROVE  /\ queue'[b].created # queue'[x].created
                      /\ ~Sync!Idle(queue'[x]) => Sync!Idle(queue'[b])
                            /\ (queue'[b].cancelled \/ queue'[b].created > queue'[x].created)
                      /\ Sync!Wanted(b)' /\ queue'[b].cancelled
                            => queue'[b].created > queue'[x].created
    BY <1>2, Zenon DEF Sync!Ordered, Sync!Exists, Sync!Idle
  <2>1. \A y \in Sync!Pair : /\ queue'[y].gen = queue[y].gen
                             /\ queue'[y].created = queue[y].created
                             /\ queue'[y].cancelled = queue[y].cancelled
                             /\ y # a => queue'[y] = queue[y]
    BY <1>3, <1>5
  <2>2. Sync!Wanted(b)' = Sync!Wanted(b)
    BY <1>2 DEF Sync!Wanted
  <2>3. /\ queue[b].created # queue[x].created
        /\ ~Sync!Idle(queue[x]) => Sync!Idle(queue[b])
              /\ (queue[b].cancelled \/ queue[b].created > queue[x].created)
        /\ Sync!Wanted(b) /\ queue[b].cancelled => queue[b].created > queue[x].created
    BY <1>0, <2>1 DEF Sync!Ordered, Sync!Exists
  <2>4. CASE b # a /\ x # a
    BY <2>1, <2>2, <2>3, <2>4
  <2>5. CASE x = a
    <3>1. Sync!Idle(queue[b]) /\ queue[b].created > queue[a].created
      BY <2>1, <2>5, ClaimAlone DEF Sync!Exists
    <3> QED BY <2>1, <2>2, <2>3, <2>5, <3>1
  <2>6. CASE b = a
    <3>1. Sync!Idle(queue[x])
      BY <2>1, <2>6, ClaimAlone DEF Sync!Exists
    <3> QED BY <2>1, <2>2, <2>3, <2>6, <3>1
  <2> QED BY <2>4, <2>5, <2>6
<1>15. Sync!Served'
  <2> SUFFICES ASSUME mishaps' = 0, errors < MaxRetries, NEW b \in Sync!Pair
               PROVE  /\ \A f \in Executors : ex'[f].act = b =>
                            /\ Sync!Owns(f)'
                            /\ ex'[f].pc = "success" => remote \in {"gone", Sync!Brings(b)}
                      /\ queue'[b].completed # 0 => remote \in {"gone", Sync!Brings(b)}
                      /\ mirror.synced = mirror.v =>
                            IF Sync!Wanted(b) THEN remote \in {"gone", Sync!Brings(b)}
                            ELSE /\ queue'[b].attempted = 0 /\ queue'[b].completed = 0
                                 /\ \A f \in Executors : ex'[f].act = b =>
                                      ex'[f].pc = "begin" /\ ~ex'[f].result /\ Sync!Current(f)'
    BY <1>2, Zenon DEF Sync!Served, Sync!Wanted, Sync!Brings
  <2>0. /\ queue[b].completed # 0 => remote \in {"gone", Sync!Brings(b)}
        /\ mirror.synced = mirror.v =>
              IF Sync!Wanted(b) THEN remote \in {"gone", Sync!Brings(b)}
              ELSE /\ queue[b].attempted = 0 /\ queue[b].completed = 0
                   /\ \A f \in Executors : ex[f].act = b =>
                        ex[f].pc = "begin" /\ ~ex[f].result /\ Sync!Current(f)
    BY <1>0, <1>6 DEF Sync!Served
  <2>1. ASSUME NEW f \in Executors, ex'[f].act = b, f # e
        PROVE  /\ Sync!Owns(f)' /\ ex'[f] = ex[f] /\ ex[f].act = b
               /\ Sync!Current(f)' = Sync!Current(f)
               /\ ex'[f].pc = "success" => remote \in {"gone", Sync!Brings(b)}
    <3>1. ex'[f] = ex[f] /\ ex[f].act = b
      BY <1>5, <2>1
    <3>2. Sync!Owns(f) /\ (ex[f].pc = "success" => remote \in {"gone", Sync!Brings(b)})
      BY <1>0, <1>6, <3>1 DEF Sync!Served
    <3> QED BY <1>6, <1>7, <2>1, <3>1, <3>2, Kinds
  <2>2. ex'[e].act = a /\ ex'[e].pc = "begin" /\ Sync!Owns(e)' /\ Sync!Current(e)'
        /\ (a = b /\ queue[b].completed = 0 => ~ex'[e].result)
    BY <1>1, <1>4, <1>8
  <2>3. queue'[b].completed = queue[b].completed /\ queue'[b].attempted = queue[b].attempted
    BY <1>3, <1>5
  <2>4. ASSUME NEW f \in Executors, ex'[f].act = b
        PROVE  /\ Sync!Owns(f)'
               /\ ex'[f].pc = "success" => remote \in {"gone", Sync!Brings(b)}
    BY <2>1, <2>2, <2>4
  <2>5. ASSUME mirror.synced = mirror.v, ~Sync!Wanted(b), NEW f \in Executors, ex'[f].act = b
        PROVE  ex'[f].pc = "begin" /\ ~ex'[f].result /\ Sync!Current(f)'
    <3>1. CASE f = e
      BY <2>0, <2>2, <2>5, <3>1
    <3>2. CASE f # e
      BY <2>0, <2>1, <2>5, <3>2
    <3> QED BY <3>1, <3>2
  <2> QED BY <2>0, <2>3, <2>4, <2>5
<1>16. Keeps
  BY <1>3, <1>5 DEF Keeps, Sync!Exists
<1>17. ex'[e].act = a /\ \A f \in Executors : f # e => ex'[f] = ex[f]
  BY <1>4, <1>5
<1> QED BY <1>9, <1>10, <1>11, <1>12, <1>13, <1>14, <1>15, <1>16, <1>17 DEF Sync!IndInv

-----------------------------------------------------------------------------
(* Together.                                                               *)

(* Only a claim puts an executor to work.                                  *)
LEMMA OnlyClaimBegins ==
    ASSUME Sync!TypeOK, NEW e \in Executors, Sync!Step(e) \/ Sync!Trouble(e)
    PROVE  \A f \in Executors : ex[f].pc = "idle" => ex'[f].act = "none"
<1>1. (\E p : Sync!Go(e, p)) \/ Sync!Stop(e)
  <2>1. CASE Sync!Step(e)
    BY <2>1, Zenon DEF Sync!Step, Sync!Begin, Sync!ParkUnclearComment, Sync!Token,
        Sync!ConfirmUnclearCreate, Sync!RecordAttempt, Sync!Write, Sync!Success,
        Sync!Finalize, Sync!RecordSuccess
  <2>2. CASE Sync!Trouble(e)
    BY <2>2, Zenon DEF Sync!Trouble, Sync!HeldBack, Sync!WriteUnauthorized,
        Sync!WriteRefused, Sync!WriteInvalid, Sync!WriteUnclear, Sync!FinalizeFails, Sync!Crash
  <2> QED BY <2>1, <2>2
<1>2. CASE \E p : Sync!Go(e, p)
  <2>1. PICK p : ex' = [ex EXCEPT ![e].pc = p]
    BY <1>2 DEF Sync!Go
  <2>2. ex \in [Executors -> Sync!ExecType]
    BY QueueTypes
  <2>3. \A f \in Executors : ex'[f].act = ex[f].act
    BY <2>1, <2>2 DEF Sync!ExecType
  <2> QED BY <2>3, QueueTypes
<1>3. CASE Sync!Stop(e)
  BY <1>3, BlankCopy, QueueTypes DEF Sync!Stop
<1> QED BY <1>1, <1>2, <1>3

(* A step of the queue keeps the inductive invariant, what leaves leaves   *)
(* well, and only a claim begins.                                          *)
LEMMA QueueStep ==
    ASSUME Sync!IndInv, Sync!Next
    PROVE  /\ Sync!IndInv' /\ LeavesWell
           /\ \/ \A f \in Executors : ex[f].pc = "idle" => ex'[f].act = "none"
              \/ \E e \in Executors, a \in Actions :
                    /\ Sync!Claim(e, a) /\ ex'[e].act = a
                    /\ \A f \in Executors : f # e => ex'[f] = ex[f]
<1>0. Sync!TypeOK
  BY DEF Sync!IndInv
<1>1. ASSUME NEW a \in Actions, Sync!Table(a)
      PROVE  /\ Sync!IndInv' /\ LeavesWell
             /\ \A f \in Executors : ex[f].pc = "idle" => ex'[f].act = "none"
  <2>1. a \in Mutations
    BY QueueConstants
  <2>2. Sync!IndInv' /\ LeavesWell
    BY <1>1, <2>1, TapSafe, FileSafe, ReviveSafe, SettleSafe, AdoptSafe, ForceDueSafe, KeepsWell
       DEF Sync!Table
  <2>3. ex' = ex
    BY <1>1 DEF Sync!Table, Sync!Tap, Sync!File, Sync!Revive, Sync!AdminPurge, Sync!Adopt,
        Sync!SettleCancelled, Sync!ForceDue
  <2> QED BY <1>0, <2>2, <2>3, QueueTypes
<1>2. ASSUME NEW e \in Executors, Sync!Step(e) \/ Sync!Trouble(e)
      PROVE  /\ Sync!IndInv' /\ LeavesWell
             /\ \A f \in Executors : ex[f].pc = "idle" => ex'[f].act = "none"
  <2>1. Sync!IndInv' /\ LeavesWell
    <3>1. CASE Sync!Begin(e) \/ Sync!Finalize(e)
      BY <3>1, BeginSafe, FinalizeSafe
    <3>2. CASE \/ Sync!ParkUnclearComment(e) \/ Sync!Token(e) \/ Sync!ConfirmUnclearCreate(e)
               \/ Sync!RecordAttempt(e) \/ Sync!Write(e) \/ Sync!Success(e)
      BY <3>2, TroubleSafe, TokenSafe, ConfirmSafe, AttemptSafe, WriteSafe, KeepsWell
    <3>3. CASE Sync!Trouble(e)
      BY <3>3, TroubleSafe, TokenSafe, CrashSafe, KeepsWell DEF Sync!Trouble
    <3> QED BY <1>2, <3>1, <3>2, <3>3 DEF Sync!Step
  <2> QED BY <1>0, <1>2, <2>1, OnlyClaimBegins
<1>3. ASSUME Sync!TargetDisappears
      PROVE  /\ Sync!IndInv' /\ LeavesWell
             /\ \A f \in Executors : ex[f].pc = "idle" => ex'[f].act = "none"
  <2>1. ex' = ex
    BY <1>3 DEF Sync!TargetDisappears
  <2> QED BY <1>0, <1>3, <2>1, DisappearSafe, KeepsWell, QueueTypes
<1>4. ASSUME NEW e \in Executors, NEW a \in Actions, Sync!Claim(e, a)
      PROVE  /\ Sync!IndInv' /\ LeavesWell /\ ex'[e].act = a
             /\ \A f \in Executors : f # e => ex'[f] = ex[f]
  BY <1>4, ClaimSafe, KeepsWell
<1>m. ASSUME Sync!ListingMisleads \/ \E a \in Actions : Sync!Lands(a)
      PROVE  /\ Sync!IndInv' /\ LeavesWell
             /\ \A f \in Executors : ex[f].pc = "idle" => ex'[f].act = "none"
  BY <1>0, <1>m, MishapSafe, KeepsWell, QueueTypes
<1>5. \/ \E a \in Actions : Sync!Table(a)
      \/ \E e \in Executors, a \in Actions : Sync!Claim(e, a)
      \/ \E e \in Executors : Sync!Step(e) \/ Sync!Trouble(e)
      \/ Sync!TargetDisappears
      \/ Sync!ListingMisleads \/ \E a \in Actions : Sync!Lands(a)
  BY Zenon DEF Sync!Next
<1>6. CASE \E e \in Executors, a \in Actions : Sync!Claim(e, a)
  <2>1. PICK e \in Executors, a \in Actions : Sync!Claim(e, a)
    BY <1>6
  <2> QED BY <1>4, <2>1
<1> QED BY <1>1, <1>2, <1>3, <1>m, <1>5, <1>6

LEMMA QueueInit == Sync!Init => Sync!IndInv
<1> SUFFICES ASSUME Sync!Init PROVE Sync!IndInv
  OBVIOUS
<1> USE QueueConstants
<1>1. /\ \A a \in Mutations : queue[a] = Sync!NoRow
      /\ queue \in [Mutations -> Sync!RowType]
      /\ \A e \in Executors : ex[e] = Sync!IdleExec
      /\ ex \in [Executors -> Sync!ExecType]
      /\ \A a \in Sync!NonIdempotent : effects[a] = 0
      /\ effects \in [Sync!NonIdempotent -> Nat]
      /\ clock = 0 /\ errors = 0 /\ mishaps = 0
  BY BlankRow, BlankCopy DEF Sync!Init
<1>2. /\ mirror \in [wanted : BOOLEAN, v : 0..MaxTaps, synced : 0..MaxTaps]
      /\ mirror.v = 0 /\ mirror.synced = 0 /\ mirror.wanted = (remote = "on")
      /\ remote \in {"on", "off"}
  BY DEF Sync!Init
<1>3. \A e \in Executors : ex[e].act = "none" /\ ex[e].pc = "idle"
  BY <1>1, BlankCopy
<1>4. Sync!TypeOK
  BY <1>1, <1>2, <1>3 DEF Sync!TypeOK
<1>5. Sync!Rows
  BY <1>1, <1>2, BlankRow DEF Sync!Rows
<1>6. Sync!Copied
  BY <1>3 DEF Sync!Copied
<1>7. Sync!Marked
  BY <1>1, <1>3, BlankRow, Kinds DEF Sync!Marked, Sync!Exists
<1>8. Sync!Counted
  BY <1>1, <1>3, BlankRow, Kinds DEF Sync!Counted
<1>9. Sync!Ordered
  BY <1>1, BlankRow, Kinds DEF Sync!Ordered, Sync!Exists
<1>10. Sync!Served
  <2>1. \A a \in Sync!Pair : Sync!Wanted(a) => remote = Sync!Brings(a)
    BY <1>2 DEF Sync!Wanted, Sync!Brings, Sync!Pair
  <2> QED BY <1>1, <1>3, <2>1, BlankRow, Kinds DEF Sync!Served
<1> QED BY <1>4, <1>5, <1>6, <1>7, <1>8, <1>9, <1>10 DEF Sync!IndInv

(* What the invariant says of a state.                                     *)
LEMMA QueuePromises ==
    ASSUME Sync!IndInv
    PROVE  Sync!TypeOK /\ Sync!SentOnce /\ Sync!UnmarkedIsUnsent /\ Sync!SyncedIsTrue
<1> USE QueueConstants
<1>0. Sync!TypeOK /\ Sync!Marked /\ Sync!Served
  BY DEF Sync!IndInv
<1>1. Sync!SentOnce
  BY <1>0 DEF Sync!Marked, Sync!SentOnce
<1>2. Sync!UnmarkedIsUnsent
  BY <1>0 DEF Sync!Marked, Sync!UnmarkedIsUnsent
<1>3. Sync!SyncedIsTrue
  <2> SUFFICES ASSUME mishaps = 0, errors < MaxRetries, mirror.synced = mirror.v
               PROVE  remote \in {"gone", IF mirror.wanted THEN "on" ELSE "off"}
    BY DEF Sync!SyncedIsTrue
  <2>1. mirror.wanted \in BOOLEAN
    BY <1>0, QueueTypes
  <2>2. CASE mirror.wanted
    <3>1. "like" \in Sync!Pair /\ Sync!Wanted("like") /\ Sync!Brings("like") = "on"
      BY <2>1, <2>2 DEF Sync!Pair, Sync!Wanted, Sync!Brings
    <3> QED BY <1>0, <2>2, <3>1 DEF Sync!Served
  <2>3. CASE ~mirror.wanted
    <3>1. "unlike" \in Sync!Pair /\ Sync!Wanted("unlike") /\ Sync!Brings("unlike") = "off"
      BY <2>1, <2>3 DEF Sync!Pair, Sync!Wanted, Sync!Brings
    <3> QED BY <1>0, <2>3, <3>1 DEF Sync!Served
  <2> QED BY <2>1, <2>2, <2>3
<1> QED BY <1>0, <1>1, <1>2, <1>3

(* What the invariant says of a step, of either part.                      *)
LEMMA StepPromises ==
    ASSUME Sync!IndInv, [PartNext]_vars
    PROVE  /\ Sync!IndInv'
           /\ \A a \in Sync!NonIdempotent :
                 Sync!Exists(a) /\ ~Sync!Exists(a)' /\ mishaps = 0 =>
                     \/ effects[a] = 1 /\ queue[a].completed = queue[a].gen
                     \/ effects[a] = 0 /\ Sync!Idle(queue[a])
           /\ \A a \in Sync!Pair :
                 Sync!Exists(a) /\ ~Sync!Exists(a)' /\ Sync!Wanted(a)
                     => mirror'.synced = mirror.v
           /\ \A e \in Executors, a \in Sync!Pair :
                 errors < MaxRetries /\ ex[e].pc = "idle" /\ ex'[e].act = a =>
                     ~\E b \in Sync!Pair \ {a} :
                         /\ Sync!Exists(b) /\ ~queue[b].dead /\ ~Sync!Idle(queue[b])
                         /\ queue[b].gen < queue[a].gen
<1> USE QueueConstants
<1>0. Sync!TypeOK
  BY DEF Sync!IndInv
<1>1. Sync!Next \/ UNCHANGED queueVars
  BY Zenon DEF PartNext, vars
<1>2. /\ Sync!IndInv' /\ LeavesWell
      /\ \/ \A f \in Executors : ex[f].pc = "idle" => ex'[f].act = "none"
         \/ \E e \in Executors, a \in Actions :
               /\ Sync!Claim(e, a) /\ ex'[e].act = a
               /\ \A f \in Executors : f # e => ex'[f] = ex[f]
  <2>1. CASE Sync!Next
    BY <2>1, QueueStep
  <2>2. CASE UNCHANGED queueVars
    <3>1. ex' = ex
      BY <2>2 DEF queueVars
    <3> QED BY <1>0, <2>2, <3>1, UntouchedSafe, KeepsWell, QueueTypes
  <2> QED BY <1>1, <2>1, <2>2
<1>3. ASSUME NEW e \in Executors, NEW a \in Sync!Pair, errors < MaxRetries,
             ex[e].pc = "idle", ex'[e].act = a,
             NEW b \in Sync!Pair \ {a}, Sync!Exists(b), ~Sync!Idle(queue[b])
      PROVE  FALSE
  <2>1. a # "none" /\ ex[e].act = "none"
    BY <1>0, <1>3, Kinds, QueueTypes
  <2>2. PICK f \in Executors, c \in Actions :
                /\ Sync!Claim(f, c) /\ ex'[f].act = c
                /\ \A g \in Executors : g # f => ex'[g] = ex[g]
    BY <1>2, <1>3, <2>1
  <2>3. f = e /\ c = a
    BY <1>3, <2>1, <2>2
  <2> QED BY <1>3, <2>2, <2>3, ClaimAlone
<1>4. \A a \in Sync!NonIdempotent :
          Sync!Exists(a) /\ ~Sync!Exists(a)' /\ mishaps = 0 =>
              \/ effects[a] = 1 /\ queue[a].completed = queue[a].gen
              \/ effects[a] = 0 /\ Sync!Idle(queue[a])
  BY <1>2 DEF LeavesWell
<1>5. \A a \in Sync!Pair :
          Sync!Exists(a) /\ ~Sync!Exists(a)' /\ Sync!Wanted(a) => mirror'.synced = mirror.v
  BY <1>2 DEF LeavesWell
<1> QED BY <1>2, <1>3, <1>4, <1>5

LEMMA QueueInvariant == PartSpec => []Sync!IndInv
<1>1. Init => Sync!IndInv
  BY QueueInit DEF Init
<1>2. Sync!IndInv /\ [PartNext]_vars => Sync!IndInv'
  BY StepPromises
<1> QED BY <1>1, <1>2, PTL DEF PartSpec

\* As long as no execution outlives its lease a create and a comment are carried
\* out at most once, one without an attempt mark was never carried out, and one
\* leaves the queue only settled or never sent: for every number of executors,
\* taps, retries and errors, beside likes and unlikes (queue/execute.rs, *.sql).
THEOREM SendsAreSafe == PartSpec => SendsSafe
<1>1. Sync!IndInv => Sync!TypeOK /\ Sync!SentOnce /\ Sync!UnmarkedIsUnsent
  BY QueuePromises
<1>2. Sync!IndInv /\ [PartNext]_vars =>
        [\A a \in Sync!NonIdempotent :
            Sync!Exists(a) /\ ~Sync!Exists(a)' /\ mishaps = 0 =>
                \/ effects[a] = 1 /\ queue[a].completed = queue[a].gen
                \/ effects[a] = 0 /\ Sync!Idle(queue[a])]_(Sync!vars)
  BY StepPromises
<1> QED BY <1>1, <1>2, QueueInvariant, PTL
        DEF PartSpec, SendsSafe, Sync!NoneForgotten

\* The mirror says "synced" only of what SoundCloud has (as long as nothing
\* overran), a later intent is claimed only when the earlier one of its target is
\* at rest (both as long as nothing can be parked yet), and the last wish stays
\* queued until it is marked served, always: for every number of executors, taps,
\* retries and errors.
THEOREM WishesAreSafe == PartSpec => WishesSafe
<1>1. Sync!IndInv => Sync!SyncedIsTrue
  BY QueuePromises
<1>2. Sync!IndInv /\ [PartNext]_vars =>
        [\A e \in Executors, a \in Sync!Pair :
            errors < MaxRetries /\ ex[e].pc = "idle" /\ ex'[e].act = a =>
                ~\E b \in Sync!Pair \ {a} :
                    /\ Sync!Exists(b) /\ ~queue[b].dead /\ ~Sync!Idle(queue[b])
                    /\ queue[b].gen < queue[a].gen]_(Sync!vars)
  BY StepPromises
<1>3. Sync!IndInv /\ [PartNext]_vars =>
        [\A a \in Sync!Pair :
            Sync!Exists(a) /\ ~Sync!Exists(a)' /\ Sync!Wanted(a)
                => mirror'.synced = mirror.v]_(Sync!vars)
  BY StepPromises
<1> QED BY <1>1, <1>2, <1>3, QueueInvariant, PTL
        DEF PartSpec, WishesSafe, Sync!LaterIntentWaits, Sync!WantedUntilServed
=============================================================================
