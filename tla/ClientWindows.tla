--------------------------- MODULE ClientWindows ---------------------------
(***************************************************************************)
(* The per-client limits of api/src/common/windows.rs: Clients with its   *)
(* map of windows and its queue of openings, under one mutex.  A request  *)
(* reads the clock before it takes the mutex, so times need not come in   *)
(* order.                                                                  *)
(***************************************************************************)
EXTENDS Integers, Sequences, FiniteSets

CONSTANTS
    Clients,   \* the identities, numbered in the order of their names
    Limit,     \* admissions per window
    Window,    \* length of a window
    Tracked,   \* CLIENTS_TRACKED
    Skew,      \* how late a request may be at the mutex
    MaxTime    \* bound: the clock

ClientWindowsAssumption ==
    /\ Clients \subseteq Nat
    /\ Limit \in Nat \ {0} /\ Window \in Nat \ {0} /\ Tracked \in Nat \ {0}
    /\ Skew \in Nat /\ MaxTime \in Nat

VARIABLES
    now,       \* the clock
    windows,   \* the open windows: client -> start and admissions
    opened,    \* the queue of openings: start and client
    passed     \* times a client was admitted since it was last evicted

vars == <<now, windows, opened, passed>>

Init ==
    /\ now = 0
    /\ windows = <<>>
    /\ opened = <<>>
    /\ passed = [c \in Clients |-> <<>>]

Tick ==
    /\ now < MaxTime
    /\ now' = now + 1
    /\ UNCHANGED <<windows, opened, passed>>

Put(f, c, v) == [x \in DOMAIN f \cup {c} |-> IF x = c THEN v ELSE f[x]]
Drop(f, c) == [x \in DOMAIN f \ {c} |-> f[x]]

\* Mutant: a time before the start of the window counts as a whole window.
SinceStart(t, start) == IF t >= start THEN t - start ELSE Window

\* saturating_duration_since.
Since(t, start) == IF t > start THEN t - start ELSE 0

Matches(e) == e.client \in DOMAIN windows /\ windows[e.client].start = e.start

\* evict_oldest: stale openings are dropped on the way to the first that is
\* still the client's window.
Evict ==
    LET live == {i \in DOMAIN opened : Matches(opened[i])}
        i == CHOOSE i \in live : \A j \in live : i <= j
    IN  IF live = {} THEN [windows |-> windows, opened |-> <<>>, gone |-> {}]
        ELSE [windows |-> Drop(windows, opened[i].client),
              opened |-> SubSeq(opened, i + 1, Len(opened)), gone |-> {opened[i].client}]

Before(d, e) == d.start < e.start \/ (d.start = e.start /\ d.client < e.client)

\* sort: an opening stands behind those before it.
Sorted(S) ==
    [i \in 1 .. Cardinality(S) |->
        CHOOSE e \in S : Cardinality({d \in S : Before(d, e)}) = i - 1]

Openings(w) == {[start |-> w[c].start, client |-> c] : c \in DOMAIN w}

\* compact: the queue is rebuilt from the windows, in the order of their start.
Compact(w, q) == IF Len(q) <= 2 * Tracked THEN q ELSE Sorted(Openings(w))

Renew(c, t) ==
    /\ windows' = [windows EXCEPT ![c] = [start |-> t, used |-> 1]]
    /\ opened' = Compact(windows', Append(opened, [start |-> t, client |-> c]))
    /\ passed' = [passed EXCEPT ![c] = Append(@, t)]

Count(c, t) ==
    IF windows[c].used >= Limit THEN UNCHANGED <<windows, opened, passed>>
    ELSE /\ windows' = [windows EXCEPT ![c].used = @ + 1]
         /\ passed' = [passed EXCEPT ![c] = Append(@, t)]
         /\ UNCHANGED opened

\* A client without a window; the oldest is evicted when the map is full.
Open(c, t) ==
    LET after == IF Cardinality(DOMAIN windows) >= Tracked THEN Evict
                 ELSE [windows |-> windows, opened |-> opened, gone |-> {}]
    IN  /\ windows' = Put(after.windows, c, [start |-> t, used |-> 1])
        /\ opened' = Compact(windows', Append(after.opened, [start |-> t, client |-> c]))
        /\ passed' = [d \in Clients |-> IF d = c THEN Append(passed[d], t)
                                        ELSE IF d \in after.gone THEN <<>> ELSE passed[d]]

\* admit, with a time read up to Skew ago.
Admit(c) ==
    /\ \E t \in (now - Skew) .. now :
        /\ t >= 0
        /\ IF c \notin DOMAIN windows THEN Open(c, t)
           ELSE IF Since(t, windows[c].start) < Window THEN Count(c, t) ELSE Renew(c, t)
    /\ UNCHANGED now

Next == Tick \/ \E c \in Clients : Admit(c)

Spec == Init /\ [][Next]_vars

----------------------------------------------------------------------------

TypeOK ==
    /\ now \in 0 .. MaxTime
    /\ DOMAIN windows \subseteq Clients
    /\ \A c \in DOMAIN windows : windows[c].start \in 0 .. MaxTime /\ windows[c].used \in 1 .. Limit
    /\ \A i \in DOMAIN opened : opened[i].start \in 0 .. MaxTime /\ opened[i].client \in Clients

\* Memory is bounded: no more windows than CLIENTS_TRACKED and no more than
\* twice as many queued openings, however the clients renew and are evicted.
Bounded == Cardinality(DOMAIN windows) <= Tracked /\ Len(opened) <= 2 * Tracked

\* Every window can be evicted: its own opening is in the queue.  Without it an
\* eviction finds nothing to remove and the map grows.
Evictable ==
    \A c \in DOMAIN windows : \E i \in DOMAIN opened :
        opened[i] = [start |-> windows[c].start, client |-> c]

\* What a limit is worth: a client that is not evicted passes less than twice the
\* limit in any span of one window's length less what requests may be late at the
\* mutex: a late one counts in the window that is open when it gets there, so that
\* a whole window's length may touch three of them.
Span(p, t) ==
    {i \in DOMAIN p : p[i] >= t /\ p[i] < t + Window /\ p[i] + Skew <= t + Window}

Burst ==
    \A c \in Clients : \A t \in 0 .. MaxTime : Cardinality(Span(passed[c], t)) < 2 * Limit
-----------------------------------------------------------------------------
(* The inductive invariant *)

\* The windows are a finite map, and nobody without a window has a history.
Kept ==
    /\ IsFiniteSet(DOMAIN windows)
    /\ windows \in [DOMAIN windows -> [start : 0 .. now, used : 1 .. Limit]]
    /\ opened \in Seq([start : 0 .. MaxTime, client : Clients])
    /\ passed \in [Clients -> Seq(0 .. MaxTime)]
    /\ \A c \in Clients \ DOMAIN windows : passed[c] = <<>>

\* The last of a client's admissions are those of its window, which the first of
\* them opened; the ones before came before the window, and of those all but the
\* last Limit - 1 a window's length before it, all but the last Limit longer ago.
Block(p, s, used) ==
    LET n == Len(p) - used
    IN  /\ n >= 0 /\ p[n + 1] = s
        /\ \A i \in DOMAIN p :
            /\ p[i] < s + Window
            /\ i <= n => p[i] < s
            /\ i <= n - Limit + 1 => p[i] + Window <= s
            /\ i <= n - Limit => p[i] + Window < s

Blocks ==
    \A c \in DOMAIN windows : Block(passed[c], windows[c].start, windows[c].used)

IndInv == TypeOK /\ Kept /\ Bounded /\ Evictable /\ Blocks /\ Burst
=============================================================================
