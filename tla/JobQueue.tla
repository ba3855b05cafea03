----------------------------- MODULE JobQueue -----------------------------
(***************************************************************************)
(* The durable background job queue: table background_jobs, the statements *)
(* of jobs/queries/queue and the workers of jobs/src/queue that drive them.*)
(*                                                                         *)
(* Every SQL statement is one atomic action (one row, READ COMMITTED, the  *)
(* WHERE clause re-evaluated under the row lock).  Between two statements  *)
(* of one execution anything may happen: another worker, a producer, a     *)
(* sweep, the clock, or a crash.                                           *)
(*                                                                         *)
(* Abstractions.  Rows are indexed by their unique (kind, dedup_key).  The *)
(* lease_id is the slot that holds the lease: a slot runs one execution at *)
(* a time and a row is claimed only while unleased, so "row id and lease   *)
(* id are mine" is exactly "row[key].lease = s" while s runs key.  Clocks  *)
(* are two flags per row: due (available_at <= now()) and expired          *)
(* (lease_expires_at <= now()).  Priority and lane only order claims, which *)
(* are a free choice here.                                                 *)
(***************************************************************************)
EXTENDS Naturals, FiniteSets

CONSTANTS
    Keys,         \* (kind, dedup_key) pairs
    Paged,        \* keys of kind catalog.collection: handlers that commit pages
    Droppable,    \* keys of kind indexing.track: an unleased trigger may be dropped
    Commands,     \* ids of enqueue commands; a command stands for its payload too
    KeyOf,        \* KeyOf[c]: the key of a command
    MaxAttempts,  \* MaxAttempts[c]: its max_attempts
    Slots,        \* concurrent executions over all workers and processes
    Budget,       \* bound on postponements and page commits
    NoRow, NoLease, NoRun

(* MaxAttempts: CHECK background_jobs_attempts_valid and the rejection of  *)
(* max_attempts <= 0 at the ingress.                                       *)
ASSUME ConstantsOK ==
    /\ Paged \subseteq Keys
    /\ Droppable \subseteq Keys
    /\ KeyOf \in [Commands -> Keys]
    /\ MaxAttempts \in [Commands -> Nat \ {0}]
    /\ Budget \in Nat

Steps == {"work", "complete", "postpone", "fail", "bury", "retry", "release"}

Rows ==
    [payload : Commands, gen : Nat, attempts : Nat, max : Nat, due : BOOLEAN,
     lease : Slots \cup {NoLease}, leaseGen : Nat, expired : BOOLEAN]

Runs ==
    [key : Keys, payload : Commands, gen : Nat, attempts : Nat, max : Nat,
     step : Steps, paged : BOOLEAN, retryable : BOOLEAN]

ASSUME NullsOK ==
    /\ NoRow \notin Rows
    /\ NoRun \notin Runs
    /\ NoLease \notin Slots
    /\ NoRun \notin Commands

VARIABLES
    row,        \* row[k]: the background_jobs row of key k, or NoRow
    run,        \* run[s]: the LeasedJob slot s executes and where it is, or NoRun
    receipts,   \* background_job_enqueues: ids of accepted commands
    archive,    \* background_job_failures: commands archived as failed
    begun,      \* history: commands that were handed to some execution
    budget      \* postponements and page commits that are left

vars == <<row, run, receipts, archive, begun, budget>>

Init ==
    /\ row = [k \in Keys |-> NoRow]
    /\ run = [s \in Slots |-> NoRun]
    /\ receipts = {}
    /\ archive = {}
    /\ begun = {}
    /\ budget = Budget

---------------------------------------------------------------------------
(* The WHERE clauses of the statements an execution issues.                *)

(* id = $1 AND lease_id = $2 AND lease_generation = $3                     *)
Holds(s) ==
    LET r == row[run[s].key]
    IN  r # NoRow /\ r.lease = s /\ r.leaseGen = run[s].gen

Current(s)    == Holds(s) /\ row[run[s].key].gen = run[s].gen
Superseded(s) == Holds(s) /\ row[run[s].key].gen # run[s].gen

(* The row with its lease columns cleared, and new attempts and due.       *)
Unleased(r, attempts, due) ==
    [payload |-> r.payload, gen |-> r.gen, attempts |-> attempts, max |-> r.max,
     due |-> due, lease |-> NoLease, leaseGen |-> 0, expired |-> FALSE]

At(s, step) == run[s] # NoRun /\ run[s].step = step
Goto(s, step) == run' = [run EXCEPT ![s].step = step]
EndRun(s) == run' = [run EXCEPT ![s] = NoRun]
SetRow(k, r) == row' = [row EXCEPT ![k] = r]

---------------------------------------------------------------------------
(* Producers.  A command whose id has a receipt changes nothing, so only   *)
(* the first delivery of a command is a step.                              *)

NewRow(c, due) ==
    [payload |-> c, gen |-> 1, attempts |-> 0, max |-> MaxAttempts[c],
     due |-> due, lease |-> NoLease, leaseGen |-> 0, expired |-> FALSE]

(* Mutant: the overwriting command does not bump the generation.           *)
OverwrittenInPlace(r, c, due) ==
    [payload |-> c, gen |-> r.gen, attempts |-> 0, max |-> MaxAttempts[c],
     due |-> due, lease |-> r.lease, leaseGen |-> r.leaseGen, expired |-> r.expired]

(* available_at of a row a newer command overwrites: the new one while the *)
(* current generation is executing, else the earlier of the two.           *)
Overwritten(r, c, due) ==
    [payload |-> c, gen |-> r.gen + 1, attempts |-> 0, max |-> MaxAttempts[c],
     due |-> IF r.lease # NoLease /\ r.leaseGen = r.gen
             THEN due ELSE r.due \/ due,
     lease |-> r.lease, leaseGen |-> r.leaseGen, expired |-> r.expired]

(* Mutant: a redelivered command is inserted again.                        *)
EnqueueWithoutReceipt(c, due) ==
    /\ receipts' = receipts \cup {c}
    /\ LET r == row[KeyOf[c]]
       IN  SetRow(KeyOf[c],
                  IF r = NoRow THEN NewRow(c, due) ELSE Overwritten(r, c, due))
    /\ UNCHANGED <<run, archive, begun, budget>>

Enqueue(c, due) ==
    /\ c \notin receipts
    /\ receipts' = receipts \cup {c}
    /\ LET r == row[KeyOf[c]]
       IN  SetRow(KeyOf[c],
                  IF r = NoRow THEN NewRow(c, due) ELSE Overwritten(r, c, due))
    /\ UNCHANGED <<run, archive, begun, budget>>

(* Also what the scheduler's enqueue_due and the lyrics wake delivery do   *)
(* with their fresh ids: an existing row keeps everything but its order.   *)
EnqueueIfAbsent(c, due) ==
    /\ c \notin receipts
    /\ receipts' = receipts \cup {c}
    /\ LET r == row[KeyOf[c]]
       IN  SetRow(KeyOf[c], IF r = NoRow THEN NewRow(c, due) ELSE r)
    /\ UNCHANGED <<run, archive, begun, budget>>

(* storage_uploaded: the pending trigger of a finished upload is dropped.  *)
DropTrigger(k) ==
    /\ k \in Droppable
    /\ row[k] # NoRow
    /\ row[k].lease = NoLease
    /\ SetRow(k, NoRow)
    /\ UNCHANGED <<run, receipts, archive, begun, budget>>

---------------------------------------------------------------------------
(* Execution.                                                              *)

Claimable(r) ==
    /\ r # NoRow
    /\ r.due
    /\ r.attempts < r.max
    /\ r.lease = NoLease

Leased(r, s) ==
    [payload |-> r.payload, gen |-> r.gen, attempts |-> r.attempts + 1,
     max |-> r.max, due |-> r.due, lease |-> s, leaseGen |-> r.gen,
     expired |-> FALSE]

(* What the claim returns: the worker's copy of the row.                   *)
LeasedJob(r, k) ==
    [key |-> k, payload |-> r.payload, gen |-> r.gen,
     attempts |-> r.attempts + 1, max |-> r.max,
     step |-> "work", paged |-> FALSE, retryable |-> TRUE]

Claim(s, k) ==
    /\ run[s] = NoRun
    /\ Claimable(row[k])
    /\ SetRow(k, Leased(row[k], s))
    /\ run' = [run EXCEPT ![s] = LeasedJob(row[k], k)]
    /\ begun' = begun \cup {row[k].payload}
    /\ UNCHANGED <<receipts, archive, budget>>

(* The renewal does not look at lease_expires_at: a lease that ran out but *)
(* was not taken away is revived.                                          *)
HeartbeatRenews(s) ==
    /\ At(s, "work")
    /\ Current(s)
    /\ SetRow(run[s].key, [row[run[s].key] EXCEPT !.expired = FALSE])
    /\ UNCHANGED <<run, receipts, archive, begun, budget>>

(* Execution::LostLease: process_job returns and leaves the row alone.     *)
HeartbeatLosesLease(s) ==
    /\ At(s, "work")
    /\ ~Current(s)
    /\ EndRun(s)
    /\ UNCHANGED <<row, receipts, archive, begun, budget>>

(* CollectionWriter::persist: the fence and the reset of the attempts, in  *)
(* the transaction that stores the page.  It is the last thing its handler *)
(* does: what follows is success, a postponement to the next page, or a    *)
(* retryable error when the acknowledgement of the commit is lost.         *)
PersistPage(s) ==
    /\ At(s, "work")
    /\ ~run[s].paged
    /\ run[s].key \in Paged
    /\ Current(s)
    /\ ~row[run[s].key].expired
    /\ budget > 0
    /\ budget' = budget - 1
    /\ SetRow(run[s].key, [row[run[s].key] EXCEPT !.attempts = 0])
    /\ run' = [run EXCEPT ![s].paged = TRUE]
    /\ UNCHANGED <<receipts, archive, begun>>

WorkSucceeds(s) ==
    /\ At(s, "work")
    /\ Goto(s, "complete")
    /\ UNCHANGED <<row, receipts, archive, begun, budget>>

WorkIsPostponed(s) ==
    /\ At(s, "work")
    /\ budget > 0
    /\ budget' = budget - 1
    /\ Goto(s, "postpone")
    /\ UNCHANGED <<row, receipts, archive, begun>>

(* A retryable error (the execution limit is one), or a permanent or       *)
(* settled one.                                                            *)
WorkFails(s, retryable) ==
    /\ At(s, "work")
    /\ retryable \/ ~run[s].paged
    /\ run' = [run EXCEPT ![s].step = "fail", ![s].retryable = retryable]
    /\ UNCHANGED <<row, receipts, archive, begun, budget>>

(* Mutant: DELETE without AND generation = $3.                             *)
CompleteAnyGeneration(s) ==
    /\ At(s, "complete")
    /\ \/ /\ Holds(s)
          /\ SetRow(run[s].key, NoRow)
          /\ EndRun(s)
       \/ /\ ~Holds(s)
          /\ Goto(s, "release")
          /\ UNCHANGED row
    /\ UNCHANGED <<receipts, archive, begun, budget>>

Complete(s) ==
    /\ At(s, "complete")
    /\ \/ /\ Current(s)
          /\ SetRow(run[s].key, NoRow)
          /\ EndRun(s)
       \/ /\ ~Current(s)
          /\ Goto(s, "release")
          /\ UNCHANGED row
    /\ UNCHANGED <<receipts, archive, begun, budget>>

GivenBack(n) == IF n = 0 THEN 0 ELSE n - 1

(* A postponement gives the attempt back, and unlike the other statements  *)
(* it needs a lease that has not run out.                                  *)
Postpone(s) ==
    /\ At(s, "postpone")
    /\ LET r == row[run[s].key]
           live == Current(s) /\ ~r.expired
       IN  \/ /\ live
              /\ SetRow(run[s].key, Unleased(r, GivenBack(r.attempts), FALSE))
              /\ EndRun(s)
           \/ /\ ~live
              /\ Goto(s, "release")
              /\ UNCHANGED row
    /\ UNCHANGED <<receipts, archive, begun, budget>>

(* Mutant: a retryable error is retried for ever.                          *)
SpentIgnoringAttempts(j) == ~j.retryable

(* JobRepository::fail, first statement, and the choice it makes from the  *)
(* attempt count it read when it claimed.                                  *)
SpentInMemory(j) == ~j.retryable \/ j.attempts >= j.max

Fail(s) ==
    /\ At(s, "fail")
    /\ \/ /\ Superseded(s)
          /\ SetRow(run[s].key, Unleased(row[run[s].key], row[run[s].key].attempts,
                                       row[run[s].key].due))
          /\ EndRun(s)
       \/ /\ ~Superseded(s)
          /\ Goto(s, IF SpentInMemory(run[s]) THEN "bury" ELSE "retry")
          /\ UNCHANGED row
    /\ UNCHANGED <<receipts, archive, begun, budget>>

(* dead_letter.sql moves the row into background_job_failures.  Its CHECK  *)
(* refuses a row with no attempts: then the statement is rolled back, the  *)
(* error ends the task and the lease stays.                                *)
ArchiveAccepts(r) == r.attempts >= 1 /\ r.attempts <= r.max

DeadLetter(s) ==
    /\ At(s, "bury")
    /\ LET r == row[run[s].key]
       IN  \/ /\ Current(s)
              /\ ArchiveAccepts(r)
              /\ SetRow(run[s].key, NoRow)
              /\ archive' = archive \cup {r.payload}
              /\ EndRun(s)
           \/ /\ Current(s)
              /\ ~ArchiveAccepts(r)
              /\ EndRun(s)
              /\ UNCHANGED <<row, archive>>
           \/ /\ ~Current(s)
              /\ Goto(s, "release")
              /\ UNCHANGED <<row, archive>>
    /\ UNCHANGED <<receipts, begun, budget>>

Retry(s) ==
    /\ At(s, "retry")
    /\ \/ /\ Current(s)
          /\ SetRow(run[s].key, Unleased(row[run[s].key], row[run[s].key].attempts, FALSE))
          /\ EndRun(s)
       \/ /\ ~Current(s)
          /\ Goto(s, "release")
          /\ UNCHANGED row
    /\ UNCHANGED <<receipts, archive, begun, budget>>

(* The second statement of every terminal write that matched no row.       *)
ReleaseSuperseded(s) ==
    /\ At(s, "release")
    /\ \/ /\ Superseded(s)
          /\ SetRow(run[s].key, Unleased(row[run[s].key], row[run[s].key].attempts,
                                       row[run[s].key].due))
       \/ /\ ~Superseded(s)
          /\ UNCHANGED row
    /\ EndRun(s)
    /\ UNCHANGED <<receipts, archive, begun, budget>>

(* A crash, a panic, a failed statement: the execution is gone and its     *)
(* lease stays.                                                            *)
Abandon(s) ==
    /\ run[s] # NoRun
    /\ EndRun(s)
    /\ UNCHANGED <<row, receipts, archive, begun, budget>>

---------------------------------------------------------------------------
(* Clock and sweeps.                                                       *)

BecomeDue(k) ==
    /\ row[k] # NoRow
    /\ ~row[k].due
    /\ SetRow(k, [row[k] EXCEPT !.due = TRUE])
    /\ UNCHANGED <<run, receipts, archive, begun, budget>>

LeaseRunsOut(k) ==
    /\ row[k] # NoRow
    /\ row[k].lease # NoLease
    /\ ~row[k].expired
    /\ SetRow(k, [row[k] EXCEPT !.expired = TRUE])
    /\ UNCHANGED <<run, receipts, archive, begun, budget>>

(* Mutant: only leases of the current generation are taken away.           *)
ReleaseExpiredCurrent(k) ==
    /\ row[k] # NoRow
    /\ row[k].attempts < row[k].max
    /\ row[k].lease # NoLease
    /\ row[k].leaseGen = row[k].gen
    /\ row[k].expired
    /\ SetRow(k, Unleased(row[k], row[k].attempts, TRUE))
    /\ UNCHANGED <<run, receipts, archive, begun, budget>>

ReleaseExpired(k) ==
    /\ row[k] # NoRow
    /\ row[k].attempts < row[k].max
    /\ row[k].lease # NoLease
    /\ row[k].expired
    /\ SetRow(k, Unleased(row[k], row[k].attempts, TRUE))
    /\ UNCHANGED <<run, receipts, archive, begun, budget>>

RecoverExhausted(k) ==
    /\ row[k] # NoRow
    /\ row[k].attempts >= row[k].max
    /\ row[k].lease = NoLease \/ row[k].expired
    /\ archive' = archive \cup {row[k].payload}
    /\ SetRow(k, NoRow)
    /\ UNCHANGED <<run, receipts, begun, budget>>

---------------------------------------------------------------------------
Produce ==
    \/ \E c \in Commands, due \in BOOLEAN : Enqueue(c, due) \/ EnqueueIfAbsent(c, due)
    \/ \E k \in Keys : DropTrigger(k)

Return(s) ==
    \/ WorkSucceeds(s)
    \/ WorkIsPostponed(s)
    \/ \E retryable \in BOOLEAN : WorkFails(s, retryable)

Conclude(s) ==
    \/ Complete(s)
    \/ Postpone(s)
    \/ Fail(s)
    \/ DeadLetter(s)
    \/ Retry(s)
    \/ ReleaseSuperseded(s)

Execute ==
    \E s \in Slots :
        \/ \E k \in Keys : Claim(s, k)
        \/ HeartbeatRenews(s)
        \/ HeartbeatLosesLease(s)
        \/ PersistPage(s)
        \/ Return(s)
        \/ Conclude(s)
        \/ Abandon(s)

Sweep ==
    \E k \in Keys :
        \/ BecomeDue(k)
        \/ LeaseRunsOut(k)
        \/ ReleaseExpired(k)
        \/ RecoverExhausted(k)

Next == Produce \/ Execute \/ Sweep

(* Workers poll, sweeps tick, time passes, an execution ends by its limit, *)
(* and the statements of an execution that is not abandoned are issued.    *)
Fairness ==
    /\ \A s \in Slots : WF_vars(Return(s)) /\ WF_vars(Conclude(s))
    /\ \A k \in Keys :
         /\ WF_vars(\E s \in Slots : Claim(s, k))
         /\ WF_vars(BecomeDue(k))
         /\ WF_vars(LeaseRunsOut(k))
         /\ WF_vars(ReleaseExpired(k))
         /\ WF_vars(RecoverExhausted(k))

Spec == Init /\ [][Next]_vars
FairSpec == Spec /\ Fairness

---------------------------------------------------------------------------
(* Properties.                                                             *)

(* Every column keeps its domain: in particular the attempt postpone.sql   *)
(* gives back never takes the count below zero (GREATEST) when a page      *)
(* commit of the same execution has reset it.                              *)
TypeOK ==
    /\ row \in [Keys -> Rows \cup {NoRow}]
    /\ run \in [Slots -> Runs \cup {NoRun}]
    /\ receipts \subseteq Commands
    /\ archive \subseteq Commands
    /\ begun \subseteq Commands
    /\ budget \in 0..Budget

(* The generation fence: an execution whose lease and generation still     *)
(* match (so whose page commit, completion, retry, postponement or burial  *)
(* would take effect) is running the newest payload of its key, however    *)
(* often the row was overwritten, deleted, re-created and re-claimed since *)
(* it was claimed.                                                         *)
HolderRunsNewest ==
    \A s \in Slots :
        run[s] # NoRun /\ Current(s) => run[s].payload = row[run[s].key].payload

(* Every row that no one leases can be claimed once it is due: the attempt *)
(* count fail() compares is the one it read at its claim, while page       *)
(* commits and newer commands reset the stored one, yet no path leaves an  *)
(* unleased row with its attempts used up, waiting for the 60 s sweep.     *)
FreeRowClaimable ==
    \A k \in Keys :
        row[k] # NoRow /\ row[k].lease = NoLease => row[k].attempts < row[k].max

(* The job a row carries, without who leases it.                           *)
Job(r) == [payload |-> r.payload, gen |-> r.gen, attempts |-> r.attempts,
           max |-> r.max, due |-> r.due]

(* What a step of an execution may do to a row whose payload is not its.   *)
StaleRunStep ==
    \A s \in Slots :
        LET k == run[s].key
        IN  /\ run[s] # NoRun
            /\ run'[s] # run[s]
            /\ row[k] # NoRow
            /\ row[k].payload # run[s].payload
            => /\ row'[k] # NoRow
               /\ Job(row'[k]) = Job(row[k])
               /\ row'[k].lease = row[k].lease \/ row[k].lease = s

(* An execution of a superseded payload never harms the newer one: no step *)
(* of it deletes, archives, delays or charges an attempt to the row, or    *)
(* takes the lease of another execution; all it may do is give up the      *)
(* lease it holds itself.                                                  *)
StaleRunHarmless == [][StaleRunStep]_vars

ArchiveStep ==
    \A k \in Keys :
        row[k] # NoRow /\ row[k].payload \in archive' \ archive
        => \/ row[k].attempts = row[k].max
           \/ \E s \in Slots : /\ run[s] # NoRun
                               /\ run[s].payload = row[k].payload
                               /\ ~run[s].retryable

(* A command is archived as failed only when an execution of that command  *)
(* failed for good, or when its row really has used up all its attempts:   *)
(* the stale attempt count in memory never archives a job whose attempts   *)
(* were reset under the same lease.                                        *)
ArchivedOnlyWhenSpent == [][ArchiveStep]_vars

(* The mailbox the queue implements: the payload a row carries is what its *)
(* key owes, the payload an execution works on is what its slot does.      *)
Owed  == [k \in Keys |-> IF row[k] = NoRow THEN NoRun ELSE row[k].payload]
Doing == [s \in Slots |-> IF run[s] = NoRun THEN NoRun ELSE run[s].payload]

Mailbox == INSTANCE JobMailbox WITH
    Nothing <- NoRun, accepted <- receipts, owed <- Owed, doing <- Doing

(* Every behaviour of the queue is one of JobMailbox: a command is owed    *)
(* until a run of that very command settles it, a newer one replaces it,   *)
(* it is archived after having been begun, or it is dropped; redelivered   *)
(* commands never come back.                                               *)
ImplementsMailbox == Mailbox!MSpec
=============================================================================
