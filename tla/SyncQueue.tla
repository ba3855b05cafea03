----------------------------- MODULE SyncQueue -----------------------------
(***************************************************************************)
(* The queue of SoundCloud writes (table sync_queue): the API files a      *)
(* mutation in the transaction that records what the user wants; the jobs  *)
(* service leases it, sends it, records the answer and settles it.         *)
(*                                                                         *)
(* One user.  "like" and "unlike" are the two mutations of one target and  *)
(* share its mirror row; "create" (playlist_create) and "comment" are      *)
(* mutations that must not be sent twice, each with a target of its own.   *)
(* Times are left out: a row that is not dead may be due at any moment.    *)
(* An executor is a slot of buffer_unordered that handles one claimed      *)
(* mutation at a time; as its lease ids are never used again, the slot     *)
(* itself serves as the lease id.                                          *)
(***************************************************************************)
EXTENDS Integers, FiniteSets

CONSTANTS
    Actions,      \* the mutations of this instance
    Executors,
    NoLease,
    MaxRetries,   \* SYNC_QUEUE_MAX_RETRIES
    MaxTaps,      \* bound on what the user asks for
    MaxErrors,    \* bound on answers other than success, and on crashes
    MaxMishaps    \* bound on what the queue does not guard against

Pair == {"like", "unlike"}
NonIdempotent == {"create", "comment"}

SyncAssumption ==
    /\ Actions \subseteq Pair \cup NonIdempotent
    /\ NoLease \notin Executors
    /\ {MaxRetries, MaxTaps, MaxErrors, MaxMishaps} \subseteq Nat
    /\ MaxRetries > 0

VARIABLES
    queue,     \* action -> its row; gen 0 is no row
    mirror,    \* wanted state, version of the wish, version settled
    remote,    \* the target at SoundCloud: "on", "off" or "gone"
    effects,   \* how often SoundCloud carried out a create or a comment
    ex,        \* executor -> the claimed copy it works on
    clock,     \* generations, versions and creation times (scd_hlc, now())
    errors,
    mishaps,   \* executions that outlived their lease, requests SoundCloud
               \* carried out late, listings that mislead
    late       \* requests nobody waits for that may still be carried out

vars == <<queue, mirror, remote, effects, ex, clock, errors, mishaps, late>>

NoRow == [gen |-> 0, exec |-> 0, cancelled |-> FALSE, created |-> 0,
          lease |-> NoLease, leaseGen |-> 0, attempted |-> 0, completed |-> 0,
          retry |-> 0, dead |-> FALSE]

IdleExec == [pc |-> "idle", act |-> "none", gen |-> 0, unclear |-> FALSE,
             result |-> FALSE, retry |-> 0]

Exists(a) == queue[a].gen > 0
Inverse(a) == IF a = "like" THEN "unlike" ELSE "like"

\* Nothing was sent for the row and nobody works on it.
Idle(r) == r.lease = NoLease /\ r.attempted = 0 /\ r.completed = 0

\* An intent the executor has not taken over yet.
Fresh(r) == r.exec # r.gen

\* What the mirror asks of this mutation.
Wanted(a) == mirror.wanted = (a = "like")

Init ==
    /\ queue = [a \in Pair \cup NonIdempotent |-> NoRow]
    /\ remote \in {"on", "off"}
    /\ mirror = [wanted |-> remote = "on", v |-> 0, synced |-> 0]
    /\ effects = [a \in NonIdempotent |-> 0]
    /\ ex = [e \in Executors |-> IdleExec]
    /\ clock = 0 /\ errors = 0 /\ mishaps = 0 /\ late = {}

-----------------------------------------------------------------------------
(* The API *)

\* enqueue.sql: a new row, or a new generation of the stored one; a wish that
\* annuls the other one leaves a row that is not cancelled alone.
Upsert(r, annuls, now) ==
    IF r.gen = 0
    THEN [NoRow EXCEPT !.gen = now, !.created = now, !.cancelled = annuls]
    ELSE IF annuls /\ ~r.cancelled
    THEN r
    ELSE [r EXCEPT !.gen = now, !.cancelled = annuls,
                   !.created = IF r.cancelled THEN now ELSE @]

\* A like, an unlike, a follow or an unfollow: the mirror row and the pair of
\* queue rows in one transaction.
Tap(a) ==
    /\ a \in Pair /\ clock < MaxTaps
    /\ LET now == clock + 1
           other == queue[Inverse(a)]
           annuls == Exists(Inverse(a)) /\ ~other.cancelled /\ Idle(other)
       IN  /\ clock' = now
           /\ mirror' = [mirror EXCEPT !.wanted = (a = "like"), !.v = now]
           /\ queue' = [queue EXCEPT ![a] = Upsert(@, annuls, now),
                                     ![Inverse(a)].cancelled = @ \/ annuls]
    /\ UNCHANGED <<remote, effects, ex, errors, mishaps, late>>

\* A playlist (its target is a fresh nonce) or a comment (a plain insert).
File(a) ==
    /\ a \in NonIdempotent /\ clock < MaxTaps /\ ~Exists(a) /\ effects[a] = 0
    /\ clock' = clock + 1
    /\ queue' = [queue EXCEPT ![a] = Upsert(@, FALSE, clock + 1)]
    /\ UNCHANGED <<mirror, remote, effects, ex, errors, mishaps, late>>

\* The user's "try again" for parked edits; comments and likes are left out.
Revive(a) ==
    /\ queue[a].dead /\ a \notin Pair \cup {"comment"}
    /\ errors < MaxErrors /\ errors' = errors + 1
    /\ queue' = [queue EXCEPT ![a].dead = FALSE, ![a].retry = 0]
    /\ UNCHANGED <<mirror, remote, effects, ex, clock, mishaps, late>>

\* The administrator's purge of failing rows that were never sent.
AdminPurge(a) ==
    /\ Exists(a) /\ queue[a].retry > 0 /\ Idle(queue[a])
    /\ queue' = [queue EXCEPT ![a] = NoRow]
    /\ UNCHANGED <<mirror, remote, effects, ex, clock, errors, mishaps, late>>

-----------------------------------------------------------------------------
(* flush: what happens to the table before anything is claimed *)

\* Mutant: only rows that were never taken over are adopted.
AdoptOnlyNew(a) ==
    /\ Exists(a) /\ queue[a].exec = 0
    /\ queue' = [queue EXCEPT ![a].exec = queue[a].gen, ![a].retry = 0]
    /\ UNCHANGED <<mirror, remote, effects, ex, clock, errors, mishaps, late>>

Adopt(a) ==
    /\ Exists(a) /\ Fresh(queue[a])
    /\ queue' = [queue EXCEPT ![a].exec = queue[a].gen, ![a].retry = 0,
                              ![a].dead = FALSE, ![a].completed = 0]
    /\ UNCHANGED <<mirror, remote, effects, ex, clock, errors, mishaps, late>>

\* Mutant: a cancelled row is purged whatever the mirror wants by now.
SettleBlindly(a) ==
    /\ Exists(a) /\ queue[a].cancelled /\ Idle(queue[a])
    /\ queue' = [queue EXCEPT ![a] = NoRow]
    /\ UNCHANGED <<mirror, remote, effects, ex, clock, errors, mishaps, late>>

SettleCancelled(a) ==
    /\ Exists(a) /\ queue[a].cancelled /\ Idle(queue[a])
    /\ queue' = [queue EXCEPT ![a] = IF a \in Pair /\ Wanted(a)
                                     THEN [@ EXCEPT !.cancelled = FALSE] ELSE NoRow]
    /\ UNCHANGED <<mirror, remote, effects, ex, clock, errors, mishaps, late>>

-----------------------------------------------------------------------------
(* Claiming *)

\* Mutations of one target are sent in the order they were filed in.
Behind(a) ==
    \E b \in Pair \ {a} :
        /\ a \in Pair
        /\ Exists(b) /\ ~queue[b].dead /\ queue[b].created < queue[a].created

\* The lease has no heartbeat: it runs out when its holder is gone, or when
\* the execution took longer than the lease.
HolderWorks(a) ==
    \E e \in Executors : ex[e].act = a /\ queue[a].lease = e

Mishap == mishaps < MaxMishaps /\ mishaps' = mishaps + 1

LeaseOver(a) ==
    IF HolderWorks(a)
    THEN Mishap
    ELSE UNCHANGED mishaps

\* A flush with force: leases that ran out are cleared and everything is due.
ForceDue(a) ==
    /\ Exists(a) /\ ~queue[a].dead /\ queue[a].lease # NoLease /\ LeaseOver(a)
    /\ queue' = [queue EXCEPT ![a].lease = NoLease, ![a].leaseGen = 0]
    /\ UNCHANGED <<mirror, remote, effects, ex, clock, errors, late>>

Claim(e, a) ==
    LET r == queue[a] IN
    /\ ex[e].pc = "idle"
    /\ Exists(a) /\ ~r.dead /\ ~Fresh(r) /\ ~Behind(a)
    /\ ~(r.cancelled /\ Idle(r))
    /\ LeaseOver(a)
    /\ queue' = [queue EXCEPT ![a].lease = e, ![a].leaseGen = r.gen]
    /\ ex' = [ex EXCEPT ![e] = [pc |-> "begin", act |-> a, gen |-> r.gen,
                                unclear |-> r.attempted = r.gen /\ r.completed # r.gen,
                                result |-> r.completed = r.gen, retry |-> r.retry]]
    /\ UNCHANGED <<mirror, remote, effects, clock, errors, late>>

-----------------------------------------------------------------------------
(* The statements an execution ends with; all are fenced *)

Row(e) == queue[ex[e].act]
Owns(e) == Row(e).lease = e /\ Row(e).leaseGen = ex[e].gen
Current(e) == Owns(e) /\ Row(e).gen = ex[e].gen
Free(r) == [r EXCEPT !.lease = NoLease, !.leaseGen = 0]

Store(e, r) == queue' = [queue EXCEPT ![ex[e].act] = r]
Go(e, pc) == ex' = [ex EXCEPT ![e].pc = pc]
Stop(e) == ex' = [ex EXCEPT ![e] = IdleExec]

\* release_lease.sql
Release(e) == IF Owns(e) THEN Store(e, Free(Row(e))) ELSE UNCHANGED queue

Postpone(e) ==
    IF Current(e) THEN Store(e, Free(Row(e))) ELSE Release(e)

PostponeUnattempted(e) ==
    IF Current(e) /\ Row(e).completed = 0
    THEN Store(e, [Free(Row(e)) EXCEPT !.attempted = IF ex[e].act \in Pair THEN @ ELSE 0])
    ELSE Release(e)

PostponeBeforePost(e) == IF ex[e].unclear THEN Postpone(e) ELSE PostponeUnattempted(e)

Retry(e) ==
    IF Current(e) THEN Store(e, [Free(Row(e)) EXCEPT !.retry = @ + 1]) ELSE Release(e)

Park(e) ==
    IF Current(e) THEN Store(e, [Free(Row(e)) EXCEPT !.dead = TRUE, !.retry = MaxRetries])
    ELSE Release(e)

\* Up to MaxRetries, counted from the claimed copy.
RetryOrPark(e) == IF ex[e].retry + 1 >= MaxRetries THEN Park(e) ELSE Retry(e)

ConnectionFailure(e) ==
    IF ex[e].act \in NonIdempotent THEN PostponeBeforePost(e) ELSE Postpone(e)

-----------------------------------------------------------------------------
(* execute *)

Fails == errors < MaxErrors /\ errors' = errors + 1

Superseded(e) ==
    /\ Current(e) /\ Row(e).attempted # Row(e).gen /\ Row(e).completed = 0
    /\ ex[e].act \in Pair /\ ~Wanted(ex[e].act)

Begin(e) ==
    /\ ex[e].pc = "begin"
    /\ \/ ex[e].result /\ Go(e, "finalize") /\ UNCHANGED queue
       \/ ~ex[e].result /\ Superseded(e) /\ Store(e, NoRow) /\ Stop(e)
       \/ /\ ~ex[e].result /\ ~Superseded(e) /\ UNCHANGED queue
          /\ Go(e, IF ex[e].act = "comment" /\ ex[e].unclear THEN "park" ELSE "token")
    /\ UNCHANGED <<mirror, remote, effects, clock, errors, mishaps, late>>

ParkUnclearComment(e) ==
    /\ ex[e].pc = "park"
    /\ Park(e) /\ Stop(e)
    /\ UNCHANGED <<mirror, remote, effects, clock, errors, mishaps, late>>

Token(e) ==
    /\ ex[e].pc \in {"token", "refresh", "refreshList"}
    /\ \/ /\ Go(e, CASE ex[e].pc = "refresh" -> "rewrite"
                     [] ex[e].pc = "refreshList" -> "relist"
                     [] OTHER -> IF ex[e].act = "create" /\ ex[e].unclear
                                 THEN "list" ELSE "attempt")
          /\ UNCHANGED <<queue, errors>>
       \/ Fails /\ ConnectionFailure(e) /\ Stop(e)
    /\ UNCHANGED <<mirror, remote, effects, clock, mishaps, late>>

\* record_remote_success.sql: FALSE when the row has moved on.
Recordable(e) == Current(e) /\ Row(e).attempted = Row(e).gen /\ Row(e).completed = 0

RecordSuccess(e) ==
    IF Recordable(e)
    THEN Store(e, [Row(e) EXCEPT !.completed = ex[e].gen]) /\ Go(e, "finalize")
    ELSE Release(e) /\ Stop(e)

\* Mutant: an unclear create is sent again without a look.
ResendUnclearCreate(e) ==
    /\ ex[e].pc \in {"list", "relist"}
    /\ Go(e, "attempt")
    /\ UNCHANGED <<queue, mirror, remote, effects, clock, errors, mishaps, late>>

\* An unclear create is looked up in the user's playlists first: by its title
\* and time, on at most MAX_PAGES pages, so that a listing may mislead.  One
\* that is not found is sent again.
ConfirmUnclearCreate(e) ==
    /\ ex[e].pc \in {"list", "relist"}
    /\ \/ /\ effects["create"] > 0 \/ mishaps > 0
          /\ RecordSuccess(e) /\ UNCHANGED errors
       \/ /\ effects["create"] = 0 \/ mishaps > 0
          /\ Go(e, "attempt") /\ UNCHANGED <<queue, errors>>
       \/ ex[e].pc = "list" /\ Fails /\ Go(e, "refreshList") /\ UNCHANGED queue
       \/ Fails /\ (RetryOrPark(e) \/ Park(e)) /\ Stop(e)
    /\ UNCHANGED <<mirror, remote, effects, clock, mishaps, late>>

\* Account pauses, spacing and write pauses hold the write back, ...
HeldBack(e) ==
    /\ ex[e].pc \in {"attempt", "write", "rewrite"} /\ Fails
    /\ PostponeBeforePost(e) /\ Stop(e)
    /\ UNCHANGED <<mirror, remote, effects, clock, mishaps, late>>

\* ... or the attempt is recorded before anything is sent.
RecordAttempt(e) ==
    /\ ex[e].pc = "attempt"
    /\ IF Current(e) /\ Row(e).completed = 0
       THEN Store(e, [Row(e) EXCEPT !.attempted = ex[e].gen]) /\ Go(e, "write")
       ELSE Release(e) /\ Stop(e)
    /\ UNCHANGED <<mirror, remote, effects, clock, errors, mishaps, late>>

\* The state a mutation of the pair brings about.
Brings(a) == IF a = "like" THEN "on" ELSE "off"

\* What SoundCloud does when it carries the request out.
Carried(a) ==
    /\ remote' = IF a \in Pair /\ remote # "gone" THEN Brings(a) ELSE remote
    /\ effects' = IF a \in NonIdempotent THEN [effects EXCEPT ![a] = @ + 1] ELSE effects

\* The request and its answer.  A target SoundCloud does not have closes a
\* like or an unlike.
Write(e) ==
    /\ ex[e].pc \in {"write", "rewrite"}
    /\ Carried(ex[e].act)
    /\ Go(e, "success")
    /\ UNCHANGED <<queue, mirror, clock, errors, mishaps, late>>

\* 401: refused; a fresh token is tried once.
WriteUnauthorized(e) ==
    /\ ex[e].pc \in {"write", "rewrite"} /\ Fails
    /\ IF ex[e].pc = "write"
       THEN Go(e, "refresh") /\ UNCHANGED queue
       ELSE PostponeBeforePost(e) /\ Stop(e)
    /\ UNCHANGED <<mirror, remote, effects, clock, mishaps, late>>

\* Limited, banned or not paid for: refused, nothing was done.
WriteRefused(e) ==
    /\ ex[e].pc \in {"write", "rewrite"} /\ Fails
    /\ IF ex[e].act \in NonIdempotent THEN PostponeUnattempted(e) ELSE Postpone(e)
    /\ Stop(e)
    /\ UNCHANGED <<mirror, remote, effects, clock, mishaps, late>>

\* Another 4xx answer: refused for good.
WriteInvalid(e) ==
    /\ ex[e].pc \in {"write", "rewrite"} /\ Fails
    /\ IF ex[e].act \in NonIdempotent THEN Park(e) ELSE RetryOrPark(e)
    /\ Stop(e)
    /\ UNCHANGED <<mirror, remote, effects, clock, mishaps, late>>

\* A 5xx answer, a lost answer, a timeout: it was done, or it will be done
\* later or never.
WriteUnclear(e) ==
    /\ ex[e].pc \in {"write", "rewrite"} /\ Fails
    /\ \/ Carried(ex[e].act) /\ UNCHANGED late
       \/ UNCHANGED <<remote, effects>> /\ late' = late \cup {ex[e].act}
    /\ IF ex[e].act = "comment" THEN Park(e) ELSE RetryOrPark(e)
    /\ Stop(e)
    /\ UNCHANGED <<mirror, clock, mishaps>>

Success(e) ==
    /\ ex[e].pc = "success"
    /\ RecordSuccess(e)
    /\ UNCHANGED <<mirror, remote, effects, clock, errors, mishaps, late>>

\* The transaction that settles the mirror and removes the row.
Finalize(e) ==
    /\ ex[e].pc = "finalize"
    /\ IF Current(e) /\ Row(e).completed = ex[e].gen
       THEN /\ Store(e, NoRow)
            /\ mirror' = IF ex[e].act \in Pair /\ Wanted(ex[e].act)
                         THEN [mirror EXCEPT !.synced = mirror.v] ELSE mirror
       ELSE Release(e) /\ UNCHANGED mirror
    /\ Stop(e)
    /\ UNCHANGED <<remote, effects, clock, errors, mishaps, late>>

\* The database failed, or the stored answer to a create cannot be used.
FinalizeFails(e) ==
    /\ ex[e].pc = "finalize" /\ Fails
    /\ Postpone(e) \/ (ex[e].act = "create" /\ Park(e))
    /\ Stop(e)
    /\ UNCHANGED <<mirror, remote, effects, clock, mishaps, late>>

\* A crash, or a database error that ends the execution: the lease stays.
Crash(e) ==
    /\ ex[e].pc # "idle" /\ Fails
    /\ Stop(e)
    /\ UNCHANGED <<queue, mirror, remote, effects, clock, mishaps, late>>

\* The target is deleted at SoundCloud.
TargetDisappears ==
    /\ remote # "gone" /\ Fails
    /\ remote' = "gone"
    /\ UNCHANGED <<queue, mirror, effects, ex, clock, mishaps, late>>

\* A request is carried out after its answer was given up on.
Lands(a) ==
    /\ a \in late /\ Mishap
    /\ Carried(a)
    /\ late' = late \ {a}
    /\ UNCHANGED <<queue, mirror, ex, clock, errors>>

\* The user's playlists come to mislead the look at an unclear create: the one
\* created is on a later page, behind a link that is not followed, renamed or
\* with a time out of the window, or another one has its title.
ListingMisleads ==
    /\ Mishap
    /\ UNCHANGED <<queue, mirror, remote, effects, ex, clock, errors, late>>

-----------------------------------------------------------------------------
Table(a) ==
    \/ Tap(a) \/ File(a) \/ Revive(a) \/ AdminPurge(a)
    \/ Adopt(a) \/ SettleCancelled(a) \/ ForceDue(a)

Step(e) ==
    \/ Begin(e) \/ ParkUnclearComment(e) \/ Token(e) \/ ConfirmUnclearCreate(e)
    \/ RecordAttempt(e) \/ Write(e) \/ Success(e) \/ Finalize(e)

Trouble(e) ==
    \/ HeldBack(e) \/ WriteUnauthorized(e) \/ WriteRefused(e)
    \/ WriteInvalid(e) \/ WriteUnclear(e) \/ FinalizeFails(e) \/ Crash(e)

Next ==
    \/ \E a \in Actions : Table(a) \/ \E e \in Executors : Claim(e, a)
    \/ \E e \in Executors : Step(e) \/ Trouble(e)
    \/ TargetDisappears \/ ListingMisleads \/ \E a \in Actions : Lands(a)

Spec == Init /\ [][Next]_vars

\* The flush runs every minute and on demand: it adopts, settles and claims
\* what it can, and a live execution goes on.
Fairness ==
    /\ \A a \in Actions : WF_vars(Adopt(a)) /\ WF_vars(SettleCancelled(a))
    /\ \A a \in Actions : WF_vars(\E e \in Executors : Claim(e, a))
    /\ \A e \in Executors : WF_vars(Step(e))

FairSpec == Spec /\ Fairness

-----------------------------------------------------------------------------
(* Properties *)

RowType ==
    [gen : 0..MaxTaps, exec : 0..MaxTaps, cancelled : BOOLEAN, created : 0..MaxTaps,
     lease : Executors \cup {NoLease}, leaseGen : 0..MaxTaps, attempted : 0..MaxTaps,
     completed : 0..MaxTaps, retry : 0..MaxRetries, dead : BOOLEAN]

ExecType ==
    [pc : {"idle", "begin", "park", "token", "refresh", "refreshList", "list", "relist",
           "attempt", "write", "rewrite", "success", "finalize"},
     act : Actions \cup {"none"}, gen : 0..MaxTaps, unclear : BOOLEAN,
     result : BOOLEAN, retry : 0..MaxRetries]

\* Rows, copies and counters keep their shape; a retry count never passes
\* SYNC_QUEUE_MAX_RETRIES although it is counted from a copy.
TypeOK ==
    /\ queue \in [Pair \cup NonIdempotent -> RowType]
    /\ mirror \in [wanted : BOOLEAN, v : 0..MaxTaps, synced : 0..MaxTaps]
    /\ remote \in {"on", "off", "gone"}
    /\ effects \in [NonIdempotent -> Nat]
    /\ ex \in [Executors -> ExecType]
    /\ \A e \in Executors : ex[e].pc = "idle" <=> ex[e].act = "none"
    /\ clock \in 0..MaxTaps /\ errors \in 0..MaxErrors /\ mishaps \in 0..MaxMishaps

\* As long as no execution outlives its lease, no request is carried out late
\* and no listing misleads, a create and a comment reach SoundCloud at most
\* once, whatever crashed, timed out or was refused (the attempt mark, the
\* parked comment and the looked-up create).
SentOnce == mishaps = 0 => \A a \in NonIdempotent : effects[a] <= 1

\* A mutation that shows no attempt was never carried out: it may be purged
\* (sync_queue.purge, annulment) or sent without a look at SoundCloud.
UnmarkedIsUnsent ==
    mishaps = 0 => \A a \in NonIdempotent :
        Exists(a) /\ queue[a].attempted = 0 => effects[a] = 0

\* As long as there is no such mishap and too little went wrong for a mutation
\* to be parked, the mirror says "synced for this wish" only when
\* SoundCloud has that state: no write of the opposite mutation comes after it.
SyncedIsTrue ==
    mishaps = 0 /\ errors < MaxRetries /\ mirror.synced = mirror.v =>
        remote \in {"gone", IF mirror.wanted THEN "on" ELSE "off"}

\* A later intent waits behind an earlier one of the same target that is at
\* work or in backoff: what was begun for the old wish cannot come after it.
\* (A parked one holds nothing up, and asked for again it keeps its place.)
LaterIntentWaits ==
    [][\A e \in Executors, a \in Pair :
          errors < MaxRetries /\ ex[e].pc = "idle" /\ ex'[e].act = a =>
              ~\E b \in Pair \ {a} :
                  /\ Exists(b) /\ ~queue[b].dead /\ ~Idle(queue[b])
                  /\ queue[b].gen < queue[a].gen]_vars

\* A create or a comment leaves the queue only carried out and settled, or
\* purged while it was never sent: none is both lost and forgotten.
NoneForgotten ==
    [][\A a \in NonIdempotent :
          Exists(a) /\ ~Exists(a)' /\ mishaps = 0 =>
              \/ effects[a] = 1 /\ queue[a].completed = queue[a].gen
              \/ effects[a] = 0 /\ Idle(queue[a])]_vars

\* What the user wants last leaves the queue only when the mirror is marked
\* synced for that very wish, also when old executions are still at work.
WantedUntilServed ==
    [][\A a \in Pair :
          Exists(a) /\ ~Exists(a)' /\ Wanted(a) => mirror'.synced = mirror.v]_vars

\* When the user has stopped and the errors have, the last wish is served:
\* the mirror is synced for it and stays so.
LastWishServed == <>[](mirror.synced = mirror.v)

\* A filed create or comment is eventually carried out and settled, or parked.
EachSettles ==
    \A a \in NonIdempotent : []<>(~Exists(a) \/ queue[a].dead)
-----------------------------------------------------------------------------
(* The inductive invariant *)

\* A row that is not there is blank; generations and times come from the clock.
Rows ==
    /\ \A a \in Pair \cup NonIdempotent :
        IF queue[a].gen = 0 THEN queue[a] = NoRow
        ELSE queue[a].created \in 1..clock /\ queue[a].gen \in 1..clock
    /\ mirror.v <= clock /\ mirror.synced <= mirror.v

\* Copies: only a create is looked up and only a comment parked unseen; a
\* holder's row counts no more retries than its copy; a like or an unlike is
\* marked before it is written.
Copied ==
    \A e \in Executors :
        /\ ex[e].pc \in {"list", "relist", "refreshList"} => ex[e].act = "create"
        /\ ex[e].pc = "park" => ex[e].act = "comment"
        /\ ex[e].act # "none" =>
            /\ ex[e].gen > 0
            /\ Owns(e) => Row(e).retry <= ex[e].retry
            /\ Owns(e) /\ ex[e].act \in Pair /\ ex[e].pc \in {"refresh", "write", "rewrite", "success"}
                => Row(e).attempted # 0

\* What is known about a create or a comment at each step of its execution.
Known(e) ==
    LET r == Row(e) a == ex[e].act p == ex[e].pc IN
    /\ Current(e) /\ ~Fresh(r)
    /\ p = "begin" => /\ ex[e].result <=> r.completed # 0
                      /\ ex[e].unclear <=> r.attempted # 0 /\ r.completed = 0
    /\ p = "finalize" => r.completed # 0
    /\ p \notin {"begin", "finalize"} => r.completed = 0
    /\ p \in {"park", "token", "list", "relist", "refreshList"} =>
            (ex[e].unclear <=> r.attempted # 0)
    /\ p \in {"list", "relist", "refreshList"} => ex[e].unclear
    /\ p = "token" /\ a = "comment" => ~ex[e].unclear
    /\ p \in {"attempt", "refresh", "write", "rewrite"} => effects[a] = 0
    /\ p \in {"refresh", "write", "rewrite", "success"} => r.attempted # 0
    /\ p = "success" => effects[a] = 1

\* Without a mishap: the marks of a create or a comment are of its one
\* generation and tell what SoundCloud did.
Marked ==
    mishaps = 0 => \A a \in NonIdempotent :
        /\ effects[a] \in {0, 1}
        /\ queue[a].attempted \in {0, queue[a].gen} /\ queue[a].completed \in {0, queue[a].gen}
        /\ Exists(a) /\ queue[a].attempted = 0 => effects[a] = 0
        /\ queue[a].completed # 0 => queue[a].attempted # 0 /\ effects[a] = 1
        /\ \A e \in Executors : ex[e].act = a => Known(e)

\* Retries of likes and unlikes count errors: none is parked before MaxRetries
\* of them, and none that was never sent has any.
Counted ==
    /\ \A a \in Pair : /\ queue[a].retry <= errors
                       /\ queue[a].retry > 0 => queue[a].attempted # 0
                       /\ queue[a].dead => errors >= MaxRetries
    /\ \A e \in Executors : ex[e].act \in Pair => ex[e].retry <= errors

\* Of the two mutations of a target one is at work, and the other is annulled
\* or was filed later; an annulled one that is wanted again was filed later.
Ordered ==
    errors < MaxRetries => \A a, b \in Pair :
        a # b /\ Exists(a) /\ Exists(b) =>
            /\ queue[a].created # queue[b].created
            /\ ~Idle(queue[b]) => Idle(queue[a]) /\ (queue[a].cancelled
                                                    \/ queue[a].created > queue[b].created)
            /\ Wanted(a) /\ queue[a].cancelled => queue[a].created > queue[b].created

\* Without a mishap and with nothing parked: who works on a mutation has
\* its lease, what was carried out is still so, and beside a synced wish the
\* opposite mutation is at most about to find itself superseded.
Served ==
    mishaps = 0 /\ errors < MaxRetries => \A a \in Pair :
        /\ \A e \in Executors : ex[e].act = a =>
            /\ Owns(e)
            /\ ex[e].pc = "success" => remote \in {"gone", Brings(a)}
        /\ queue[a].completed # 0 => remote \in {"gone", Brings(a)}
        /\ mirror.synced = mirror.v =>
            IF Wanted(a) THEN remote \in {"gone", Brings(a)}
            ELSE /\ queue[a].attempted = 0 /\ queue[a].completed = 0
                 /\ \A e \in Executors : ex[e].act = a =>
                        ex[e].pc = "begin" /\ ~ex[e].result /\ Current(e)

IndInv == TypeOK /\ Rows /\ Copied /\ Marked /\ Counted /\ Ordered /\ Served
=============================================================================
