------------------------------ MODULE TmpQuota ------------------------------
(***************************************************************************)
(* The quota on tmp/source of the storage service                          *)
(* (src/storage/src/routes/upload.rs): an atomic counter that every upload  *)
(* charges chunk by chunk before it writes, gives back when its reservation *)
(* is dropped, and that a rescan of the directory corrects downwards when a *)
(* chunk is refused.  A chunk is one unit; the counter has Width values and  *)
(* wraps as fetch_add and fetch_sub do.                                    *)
(***************************************************************************)
EXTENDS Integers, FiniteSets

CONSTANTS
    Uploads,    \* upload requests
    Limit,      \* tmp_max_bytes
    Width,      \* the number of values of the counter (2^64)
    MaxChunks,  \* bound: chunks of one body
    MaxRescans, \* bound: rescans whose cooldown had passed
    MaxFaults,  \* bound: write errors, broken forms, departures, outside cleanups
    None        \* model value: nobody rescans

QuotaAssumption ==
    /\ {Limit, MaxChunks} \subseteq Nat \ {0}
    /\ Width \in Nat /\ Width > Limit + MaxChunks * Cardinality(Uploads)
    /\ {MaxRescans, MaxFaults} \subseteq Nat
    /\ IsFiniteSet(Uploads) /\ None \notin Uploads

VARIABLES
    pc,         \* where an upload's handler is
    used,       \* tmp_used_bytes
    prev,       \* what fetch_add returned to an upload
    bytes,      \* what an upload's TmpReservation holds
    disk,       \* the size of an upload's source file
    scanner,    \* who holds tmp_rescan_lock
    pre,        \* the counter as the rescan loaded it
    found,      \* the directory's size as the rescan summed it
    rescans,    \* rescans made
    recovered,  \* bytes that rescans have taken off the counter
    astray,     \* uploads whose file outlives their reservation
    faults      \* faults used up

scan == <<scanner, pre, found, rescans, recovered>>
vars == <<pc, used, prev, bytes, disk, scan, astray, faults>>

\* The chunks numbered up to f[u] of every upload, and how many they are.
Chunks(f) == {c \in Uploads \X (1..MaxChunks) : c[2] <= f[c[1]]}
Total(f) == Cardinality(Chunks(f))

\* Counters within their width, chunks within their bound.
TypeOK ==
    /\ pc \in [Uploads -> {"idle", "reading", "adding", "refused", "walking", "walked",
                           "retry", "addingAgain", "write", "waiting", "submitted",
                           "orphan", "answered", "ended"}]
    /\ used \in 0..(Width - 1) /\ prev \in [Uploads -> 0..(Width - 1)]
    /\ bytes \in [Uploads -> 0..MaxChunks] /\ disk \in [Uploads -> 0..MaxChunks]
    /\ scanner \in Uploads \cup {None} /\ pre \in 0..(Width - 1) /\ found \in Nat
    /\ rescans \in 0..MaxRescans /\ recovered \in Nat
    /\ astray \subseteq Uploads /\ faults \in 0..MaxFaults

Init ==
    /\ pc = [u \in Uploads |-> "idle"]
    /\ used = 0 /\ prev = [u \in Uploads |-> 0]
    /\ bytes = [u \in Uploads |-> 0] /\ disk = [u \in Uploads |-> 0]
    /\ scanner = None /\ pre = 0 /\ found = 0 /\ rescans = 0 /\ recovered = 0
    /\ astray = {} /\ faults = 0

Fault == faults < MaxFaults /\ faults' = faults + 1
To(u, s) == pc' = [pc EXCEPT ![u] = s]

\* Drop of TmpReservation, together with what the caller takes off itself.
Drop(u, extra) ==
    /\ used' = (used - bytes[u] - extra) % Width
    /\ bytes' = [bytes EXCEPT ![u] = 0]

Start(u) ==
    /\ pc[u] = "idle"
    /\ To(u, "reading")
    /\ UNCHANGED <<used, prev, bytes, disk, scan, astray, faults>>

\* try_add, fetch_add: the counter is charged before it is compared.
Add(u) ==
    /\ \/ pc[u] = "reading" /\ disk[u] < MaxChunks /\ To(u, "adding")
       \/ pc[u] = "retry" /\ To(u, "addingAgain")
    /\ prev' = [prev EXCEPT ![u] = used]
    /\ used' = (used + 1) % Width
    /\ UNCHANGED <<bytes, disk, scan, astray, faults>>

\* saturating_add of one chunk.
Saturating(n) == IF n + 1 < Width THEN n + 1 ELSE Width - 1

\* try_add, the comparison.
Fits(u) == Saturating(prev[u]) <= Limit

Charge(u) ==
    /\ pc[u] \in {"adding", "addingAgain"} /\ Fits(u)
    /\ bytes' = [bytes EXCEPT ![u] = @ + 1]
    /\ To(u, "write")
    /\ UNCHANGED <<used, prev, disk, scan, astray, faults>>

\* The first refusal of a chunk rolls back and asks for a rescan.
Refuse(u) ==
    /\ pc[u] = "adding" /\ ~ Fits(u)
    /\ used' = (used - 1) % Width
    /\ To(u, "refused")
    /\ UNCHANGED <<prev, bytes, disk, scan, astray, faults>>

\* The second one removes the file and answers INSUFFICIENT_STORAGE.
RefuseAgain(u) ==
    /\ pc[u] = "addingAgain" /\ ~ Fits(u)
    /\ disk' = [disk EXCEPT ![u] = 0]
    /\ Drop(u, 1)
    /\ To(u, "ended")
    /\ UNCHANGED <<prev, scan, astray, faults>>

\* rescan_tmp_usage, early returns: another rescan runs, or one ran just now.
SkipRescan(u) ==
    /\ pc[u] = "refused"
    /\ To(u, "retry")
    /\ UNCHANGED <<used, prev, bytes, disk, scan, astray, faults>>

BeginRescan(u) ==
    /\ pc[u] = "refused" /\ scanner = None /\ rescans < MaxRescans
    /\ scanner' = u /\ pre' = used /\ rescans' = rescans + 1
    /\ To(u, "walking")
    /\ UNCHANGED <<used, prev, bytes, disk, found, recovered, astray, faults>>

\* dir_size_bytes; a directory that cannot be read ends the rescan.
Walk(u) ==
    /\ pc[u] = "walking"
    /\ \/ found' = Total(disk) /\ To(u, "walked") /\ UNCHANGED <<scanner, pre, faults>>
       \/ Fault /\ scanner' = None /\ pre' = 0 /\ To(u, "retry") /\ UNCHANGED found
    /\ UNCHANGED <<used, prev, bytes, disk, rescans, recovered, astray>>

\* The difference is taken off the counter as it is now.
Recover(u) ==
    /\ pc[u] = "walked"
    /\ LET gap == IF pre > found THEN pre - found ELSE 0 IN
       used' = (used - gap) % Width /\ recovered' = recovered + gap
    /\ scanner' = None /\ pre' = 0 /\ found' = 0
    /\ To(u, "retry")
    /\ UNCHANGED <<prev, bytes, disk, rescans, astray, faults>>

\* write_all; on an error the handler returns without removing the file.
Write(u) ==
    /\ pc[u] = "write"
    /\ \/ /\ disk' = [disk EXCEPT ![u] = @ + 1]
          /\ To(u, "reading")
          /\ UNCHANGED <<used, bytes, astray, faults>>
       \/ /\ Fault /\ Drop(u, 0)
          /\ astray' = IF disk[u] > 0 THEN astray \cup {u} ELSE astray
          /\ To(u, "ended")
          /\ UNCHANGED disk
    /\ UNCHANGED <<prev, scan>>

\* The body ends: an empty one is removed, a full one goes on to the file lock.
EndBody(u) ==
    /\ pc[u] = "reading"
    /\ To(u, IF disk[u] = 0 THEN "ended" ELSE "waiting")
    /\ UNCHANGED <<used, prev, bytes, disk, scan, astray, faults>>

\* A chunk cannot be read: the file is removed.
ReadError(u) ==
    /\ pc[u] = "reading" /\ Fault
    /\ disk' = [disk EXCEPT ![u] = 0]
    /\ Drop(u, 0)
    /\ To(u, "ended")
    /\ UNCHANGED <<prev, scan, astray>>

\* A later field of the form is broken, or the client leaves before the job is
\* submitted: the handler ends, the reservation with it, and the file stays.
Abandon(u) ==
    /\ pc[u] \in {"reading", "waiting"} /\ Fault
    /\ Drop(u, 0)
    /\ astray' = IF disk[u] > 0 THEN astray \cup {u} ELSE astray
    /\ To(u, "ended")
    /\ UNCHANGED <<prev, disk, scan>>

Submit(u) ==
    /\ pc[u] = "waiting"
    /\ To(u, "submitted")
    /\ UNCHANGED <<used, prev, bytes, disk, scan, astray, faults>>

\* The client leaves while the pipeline works: the job keeps its file.
Leave(u) ==
    /\ pc[u] = "submitted" /\ Fault
    /\ Drop(u, 0)
    /\ astray' = astray \cup {u}
    /\ To(u, "orphan")
    /\ UNCHANGED <<prev, disk, scan>>

\* The pipeline removes the source, then answers the handler.
Done(u) ==
    /\ pc[u] \in {"submitted", "orphan"}
    /\ disk' = [disk EXCEPT ![u] = 0]
    /\ To(u, IF pc[u] = "submitted" THEN "answered" ELSE "ended")
    /\ astray' = IF pc[u] = "orphan" THEN astray \ {u} ELSE astray
    /\ UNCHANGED <<used, prev, bytes, scan, faults>>

\* drop(reservation).
Finish(u) ==
    /\ pc[u] = "answered"
    /\ Drop(u, 0)
    /\ To(u, "ended")
    /\ UNCHANGED <<prev, disk, scan, astray, faults>>

\* Somebody else cleans the directory.
Cleanup(u) ==
    /\ disk[u] > 0 /\ pc[u] = "ended" /\ Fault
    /\ disk' = [disk EXCEPT ![u] = 0]
    /\ astray' = astray \ {u}
    /\ UNCHANGED <<pc, used, prev, bytes, scan>>

Next == \E u \in Uploads :
    \/ Start(u) \/ Add(u) \/ Charge(u) \/ Refuse(u) \/ RefuseAgain(u)
    \/ SkipRescan(u) \/ BeginRescan(u) \/ Walk(u) \/ Recover(u)
    \/ Write(u) \/ EndBody(u) \/ ReadError(u) \/ Abandon(u)
    \/ Submit(u) \/ Leave(u) \/ Done(u) \/ Finish(u) \/ Cleanup(u)

Spec == Init /\ [][Next]_vars

-----------------------------------------------------------------------------
\* An upload between fetch_add and the comparison.
Deciding(u) == pc[u] \in {"adding", "addingAgain"}

\* What an upload has on the counter: its reservation and a charge not yet judged.
Charged == [u \in Uploads |-> IF Deciding(u) THEN bytes[u] + 1 ELSE bytes[u]]

(* try_add, its rollback and the Drop guard: on every path, refused, failed,  *)
(* abandoned or done, the counter is what the reservations hold plus the     *)
(* charges not yet judged, less exactly what rescans have taken off.         *)
Conserved == used = (Total(Charged) - recovered) % Width

(* The quota keeps its promise: as long as no rescan has lowered the         *)
(* counter and no file outlives its reservation, the directory never         *)
(* exceeds the limit, however the charges of concurrent uploads interleave.  *)
WithinLimit == recovered = 0 /\ astray = {} => Total(disk) <= Limit

-----------------------------------------------------------------------------
(* The inductive invariant behind the two.                                   *)

\* A reservation covers its file, but for a file that went astray.
Covered == \A u \in Uploads :
    /\ pc[u] \in {"reading", "adding", "refused", "walking", "walked", "retry",
                  "addingAgain", "waiting", "submitted"} => bytes[u] = disk[u]
    /\ pc[u] \in {"adding", "refused", "walking", "walked", "retry", "addingAgain"} =>
         disk[u] < MaxChunks
    /\ pc[u] = "write" => bytes[u] = disk[u] + 1
    /\ pc[u] \in {"idle", "orphan", "ended"} => bytes[u] = 0
    /\ pc[u] \in {"idle", "answered"} => disk[u] = 0
    /\ u \notin astray => disk[u] <= bytes[u]

\* A charge that will pass the comparison counts as a reservation already: those
\* stay within the limit, since each was compared with all that was charged.
Granted == [u \in Uploads |-> IF Deciding(u) /\ Fits(u) THEN bytes[u] + 1 ELSE bytes[u]]

GrantsFit == recovered = 0 => Total(Granted) <= Limit

IndInv == TypeOK /\ Covered /\ Conserved /\ GrantsFit
=============================================================================
