------------------------------ MODULE Batcher -------------------------------
(***************************************************************************)
(* The worker's batcher: runtime/batcher.py.                               *)
(*                                                                         *)
(* Callers submit rows of one form with a deadline.  A loop collects rows  *)
(* of several submissions into a batch, acquires an engine for it and      *)
(* starts a call; the calls of several engines run beside the loop.  What  *)
(* comes back decides for every row whether it is settled or goes back to  *)
(* the front of its queue, alone, isolated, or in smaller company.  The    *)
(* coroutines run in one thread: a step is what runs between two awaits.   *)
(* The pool of engines is EnginePool, here only what it answers.           *)
(***************************************************************************)
EXTENDS Integers, FiniteSets, Sequences, SequencesExt

CONSTANTS
    Subs,           \* submissions
    RowsOf,         \* submission -> number of rows
    CostOf,         \* submission -> cost of a row of it
    Deadline,       \* submission -> time of its deadline
    FormOf,         \* submission -> form
    Priority,       \* submissions of priority
    Bad,            \* submissions the model refuses
    Hanging,        \* submissions the model does not return from
    Engines,
    MaxBatch,       \* max_batch: rows and cost of a call
    MaxPreemptions, \* MAX_PREEMPTIONS
    PromptCalls,    \* no deadline passes between acquiring and calling
    MaxTime,        \* bound: the clock
    MaxFaults       \* bound: crashes, ooms, refusals and cancelled callers

BatcherAssumption ==
    /\ MaxBatch \in Nat \ {0} /\ MaxPreemptions \in Nat /\ PromptCalls \in BOOLEAN
    /\ MaxTime \in Nat /\ MaxFaults \in Nat
    /\ \A s \in Subs : RowsOf[s] \in Nat \ {0} /\ CostOf[s] \in {1, 2} /\ Deadline[s] \in Nat
    /\ Priority \cup Bad \cup Hanging \subseteq Subs

Rows == {r \in Subs \X (1 .. MaxBatch + 1) : r[2] <= RowsOf[r[1]]}

VARIABLES
    sub,        \* a submission: whether it came, its settled rows, its error, caller gone
    row,        \* a row: solo, isolate, cap, preemptions
    high, normal,  \* the queues
    loop,       \* the loop: where it is and the batch it has
    calls,      \* the call of an engine
    wake,       \* _wake
    arrived,    \* _priority_arrived
    limit, shrunk, \* _limit, and whether an oom made it smaller
    soloTime,   \* before _solo_until
    slow,       \* the learnt pace leaves no time for what is due next
    closed, now, faults

vars == <<sub, row, high, normal, loop, calls, wake, arrived, limit, shrunk, soloTime, slow, closed,
          now, faults>>

NoCall == [pc |-> "none", batch |-> <<>>, preemptible |-> FALSE]
Plain == [solo |-> FALSE, isolate |-> FALSE, cap |-> 0, pre |-> 0]

Init ==
    /\ sub = [s \in Subs |-> [here |-> FALSE, settled |-> {}, err |-> "none", gone |-> FALSE]]
    /\ row = [r \in Rows |-> Plain]
    /\ high = <<>> /\ normal = <<>>
    /\ loop = [pc |-> "sleep", batch |-> <<>>]
    /\ calls = [e \in Engines |-> NoCall]
    /\ wake = FALSE /\ arrived = FALSE
    /\ limit = MaxBatch /\ shrunk = FALSE
    /\ soloTime = FALSE /\ slow = FALSE /\ closed = FALSE
    /\ now = 0 /\ faults = 0

Fault == faults < MaxFaults /\ faults' = faults + 1

All(s) == 1 .. RowsOf[s]
Done(s) == sub[s].settled = All(s)
Abandoned(r) == sub[r[1]].err # "none" \/ sub[r[1]].gone
IsHigh(b) == b[1][1] \in Priority
Due(b) == Min({Deadline[r[1]] : r \in ToSet(b)})
SubsOf(b) == {r[1] : r \in ToSet(b)}

\* _settle: the rows are settled; the first error of a submission stays.
Settle(st, rows, err) ==
    [s \in Subs |->
        LET mine == {r[2] : r \in {q \in rows : q[1] = s}} IN
        IF mine = {} THEN st[s]
        ELSE [st[s] EXCEPT !.settled = @ \cup mine,
                           !.err = IF @ = "none" THEN err ELSE @]]

\* Mutant: rows go back although the batcher is closed.
RequeueOpen(st, b) ==
    /\ sub' = st
    /\ IF b = <<>> THEN UNCHANGED <<high, normal, wake>>
       ELSE /\ wake' = TRUE
            /\ IF IsHigh(b) THEN high' = b \o high /\ UNCHANGED normal
               ELSE normal' = b \o normal /\ UNCHANGED high

\* _requeue at the front; st are the submissions with what was settled before.
Requeue(st, b) ==
    IF b = <<>> \/ closed
    THEN sub' = Settle(st, ToSet(b), "stopped") /\ UNCHANGED <<high, normal, wake>>
    ELSE /\ sub' = st
         /\ wake' = TRUE
         /\ IF IsHigh(b) THEN high' = b \o high /\ UNCHANGED normal
            ELSE normal' = b \o normal /\ UNCHANGED high

(***************************************************************************)
(* submit.                                                                 *)
(***************************************************************************)
Submit(s) ==
    /\ ~closed /\ ~sub[s].here
    /\ sub' = [sub EXCEPT ![s].here = TRUE]
    /\ LET rows == [i \in All(s) |-> <<s, i>>] IN
        IF s \in Priority THEN high' = high \o rows /\ UNCHANGED normal
        ELSE normal' = normal \o rows /\ UNCHANGED high
    /\ wake' = TRUE
    /\ arrived' = (arrived \/ s \in Priority)
    /\ UNCHANGED <<row, loop, calls, limit, shrunk, soloTime, slow, closed, now, faults>>

\* The caller is cancelled and its future with it.
Cancel(s) ==
    /\ sub[s].here /\ ~sub[s].gone /\ ~Done(s)
    /\ Fault
    /\ sub' = [sub EXCEPT ![s].gone = TRUE]
    /\ UNCHANGED <<row, high, normal, loop, calls, wake, arrived, limit, shrunk, soloTime, slow,
                   closed, now>>

(***************************************************************************)
(* The loop.                                                               *)
(***************************************************************************)

\* _peek drops the abandoned rows at the head of a queue.
Dropped(q) == SelectInSeq(q, LAMBDA r : ~Abandoned(r))
Head1(q) == IF Dropped(q) = 0 THEN Len(q) + 1 ELSE Dropped(q)
Rest(q) == SubSeq(q, Head1(q), Len(q))
Cut(q) == ToSet(SubSeq(q, 1, Head1(q) - 1))

Solo(head) == row[head].solo \/ soloTime
Cap(r) == IF row[r].cap > 0 THEN row[r].cap ELSE MaxBatch

\* What may be in a batch with the head.
MayJoin(head, r) ==
    /\ ~Abandoned(r)
    /\ FormOf[r[1]] = FormOf[head[1]]
    /\ (row[head].isolate \/ row[r].isolate) => r[1] = head[1]

\* A row is taken if the batch has room for it, the first one always.
Add(head, lim, acc, r) ==
    LET full == \/ Len(acc.batch) >= acc.room
                \/ acc.cost + CostOf[r[1]] > (IF Solo(head) THEN CostOf[head[1]] ELSE lim)
                \/ Len(acc.batch) >= Cap(r)
    IN
    IF ~MayJoin(head, r) \/ (acc.batch # <<>> /\ full) THEN acc
    ELSE [batch |-> Append(acc.batch, r),
          cost |-> acc.cost + CostOf[r[1]],
          room |-> Min({acc.room, Cap(r)})]

\* The dearest rows come first.
Sorted(b) ==
    SelectSeq(b, LAMBDA r : CostOf[r[1]] = 2) \o SelectSeq(b, LAMBDA r : CostOf[r[1]] = 1)

Collect(q, lim) ==
    Sorted(FoldLeft(LAMBDA acc, r : Add(q[1], lim, acc, r),
                    [batch |-> <<>>, cost |-> 0, room |-> IF Solo(q[1]) THEN 1 ELSE Cap(q[1])],
                    q).batch)

Cost(b) == FoldLeft(LAMBDA c, r : c + CostOf[r[1]], 0, b)

WorthWaiting(head, b, lim) == ~Solo(head) /\ Len(b) < Cap(head) /\ Cost(b) < lim

Late(r) == Deadline[r[1]] <= now
Shed(r) == slow /\ r[1] \notin Priority /\ Deadline[r[1]] <= now + 1
Live(b) == SelectSeq(b, LAMBDA r : ~Abandoned(r) /\ ~Late(r) /\ ~Shed(r))

\* _expire: what is settled of a batch that is not live.
Expired(st, b) ==
    LET rows == ToSet(b)
        gone == {r \in rows : Abandoned(r)}
        late == {r \in rows \ gone : Late(r)}
        shed == {r \in rows \ (gone \cup late) : Shed(r)}
    IN Settle(Settle(Settle(st, gone, "none"), late, "deadline"), shed, "projected")

\* _run: the loop takes the head of the first queue that has one, collects its
\* batch, waits once if more may come, and goes to acquire an engine.
Gather ==
    /\ loop.pc \in {"run", "hold"} /\ ~closed
    /\ \E lim \in IF shrunk /\ loop.pc = "run" THEN {limit, MaxBatch} ELSE {limit} :
       \E h \in {Rest(high)} :
       \E n \in {IF h = <<>> THEN Rest(normal) ELSE normal} :
       \E q \in {IF h = <<>> THEN n ELSE h} :
       \E b \in {IF q = <<>> THEN q ELSE Collect(q, lim)} :
       LET cut == Cut(high) \cup (IF h = <<>> THEN Cut(normal) ELSE {})
           st == Settle(sub, cut, "none")
           left == SelectSeq(q, LAMBDA r : r \notin ToSet(b))
       IN
       /\ limit' = IF q = <<>> THEN limit ELSE lim
       /\ shrunk' = (shrunk /\ limit' # MaxBatch)
       /\ IF q = <<>> THEN
            /\ sub' = st /\ high' = h /\ normal' = n
            /\ loop' = [loop EXCEPT !.pc = IF @ = "run" THEN "sleep" ELSE "run"]
            /\ wake' = (wake /\ loop.pc # "run")
            /\ UNCHANGED arrived
          ELSE IF loop.pc = "run" /\ WorthWaiting(q[1], b, lim) THEN
            /\ sub' = st /\ high' = h /\ normal' = n
            /\ loop' = [loop EXCEPT !.pc = "hold"]
            /\ UNCHANGED <<wake, arrived>>
          ELSE
            /\ sub' = Expired(st, b)
            /\ high' = IF h = <<>> THEN h ELSE left
            /\ normal' = IF h = <<>> THEN left ELSE n
            /\ IF Live(b) = <<>> THEN loop' = [pc |-> "run", batch |-> <<>>] /\ UNCHANGED arrived
               ELSE /\ loop' = [pc |-> "acquire", batch |-> Live(b)]
                    /\ arrived' = (arrived /\ IsHigh(b))
            /\ UNCHANGED wake
    /\ UNCHANGED <<row, calls, soloTime, slow, closed, now, faults>>

Woken ==
    /\ loop.pc = "sleep" /\ wake /\ ~closed
    /\ loop' = [loop EXCEPT !.pc = "run"]
    /\ UNCHANGED <<sub, row, high, normal, calls, wake, arrived, limit, shrunk, soloTime, slow,
                   closed, now, faults>>

Back == loop' = [pc |-> "run", batch |-> <<>>]

\* An engine is granted.  It is given back if a row has expired meanwhile or
\* priority rows wait behind a bulk batch.
Granted(e) ==
    LET b == loop.batch
        back == Live(b) # b \/ (~IsHigh(b) /\ high # <<>>)
    IN
    /\ loop.pc = "acquire"
    /\ calls[e].pc = "none"
    /\ Back
    /\ IF back
       THEN Requeue(Expired(sub, b), Live(b)) /\ UNCHANGED calls
       ELSE /\ calls' = [calls EXCEPT ![e] = [NoCall EXCEPT !.pc = "start", !.batch = b]]
            /\ UNCHANGED <<sub, high, normal, wake>>
    /\ UNCHANGED <<row, arrived, limit, shrunk, soloTime, slow, closed, now, faults>>

\* A priority row arrives while a bulk batch waits for an engine.
Yield ==
    /\ loop.pc = "acquire" /\ ~IsHigh(loop.batch)
    /\ arrived
    /\ Back
    /\ Requeue(sub, loop.batch)
    /\ UNCHANGED <<row, calls, arrived, limit, shrunk, soloTime, slow, closed, now, faults>>

\* The earliest deadline passes.
AcquireLate ==
    /\ loop.pc = "acquire"
    /\ Due(loop.batch) <= now
    /\ Back
    /\ Requeue(Expired(sub, loop.batch), Live(loop.batch))
    /\ UNCHANGED <<row, calls, arrived, limit, shrunk, soloTime, slow, closed, now, faults>>

\* SlotUnavailable.
Unavailable ==
    /\ loop.pc = "acquire"
    /\ Fault
    /\ Back
    /\ sub' = Settle(sub, ToSet(loop.batch), "unavailable")
    /\ UNCHANGED <<row, high, normal, calls, wake, arrived, limit, shrunk, soloTime, slow, closed, now>>

(***************************************************************************)
(* _execute.                                                               *)
(***************************************************************************)

Preemptible(b) ==
    /\ ~IsHigh(b)
    /\ \A r \in ToSet(b) : row[r].pre < MaxPreemptions
    /\ (slow /\ \E r \in ToSet(b) : row[r].pre > 0) => Due(b) > now + 1

\* The call is made; one that is past its deadline by then is not, and all its
\* rows fail.
Start(e) ==
    LET b == calls[e].batch IN
    /\ calls[e].pc = "start"
    /\ IF Due(b) <= now
       THEN /\ calls' = [calls EXCEPT ![e] = NoCall]
            /\ sub' = Settle(sub, ToSet(b), "deadline")
       ELSE /\ calls' = [calls EXCEPT ![e].pc = "call", ![e].preemptible = Preemptible(b)]
            /\ UNCHANGED sub
    /\ UNCHANGED <<row, high, normal, loop, wake, arrived, limit, shrunk, soloTime, slow, closed,
                   now, faults>>

Runs(e) == calls[e].pc = "call"
Ends(e) == calls' = [calls EXCEPT ![e] = NoCall]
Returns(e) == Runs(e) /\ SubsOf(calls[e].batch) \cap Hanging = {}
Mark(b, field, value) ==
    row' = [r \in Rows |-> IF r \in ToSet(b) THEN [row[r] EXCEPT ![field] = value] ELSE row[r]]

\* _distribute, with what is learnt of the pace.
Reply(e) ==
    LET b == calls[e].batch IN
    /\ Returns(e) /\ SubsOf(b) \cap Bad = {}
    /\ Ends(e)
    /\ sub' = Settle(sub, ToSet(b), "none")
    /\ IF IsHigh(b) \/ 2 * Cost(b) < MaxBatch THEN UNCHANGED slow ELSE slow' \in BOOLEAN
    /\ UNCHANGED <<row, high, normal, loop, wake, arrived, limit, shrunk, soloTime, closed, now, faults>>

Preempted(e) ==
    LET b == calls[e].batch IN
    /\ Runs(e) /\ calls[e].preemptible
    /\ Ends(e)
    /\ row' = [r \in Rows |-> IF r \in ToSet(b) THEN [row[r] EXCEPT !.pre = @ + 1] ELSE row[r]]
    /\ Requeue(sub, b)
    /\ UNCHANGED <<loop, arrived, limit, shrunk, soloTime, slow, closed, now, faults>>

\* Mutant: a call that expires takes all its rows with it.
CutoffAll(b) == ToSet(b)

Cutoff(b) == {r \in ToSet(b) : Deadline[r[1]] <= Due(b)}

\* _after_expiry: only the earliest rows fail.
CallExpired(e) ==
    LET b == calls[e].batch IN
    /\ Returns(e)
    /\ Due(b) <= now
    /\ Ends(e)
    /\ Requeue(Settle(sub, Cutoff(b), "deadline"), SelectSeq(b, LAMBDA r : r \notin Cutoff(b)))
    /\ UNCHANGED <<row, loop, arrived, limit, shrunk, soloTime, slow, closed, now, faults>>

Half(n) == (n + 1) \div 2
Shrink(n) == IF n = 1 THEN 1 ELSE (3 * n) \div 4

\* An oom halves the batch; a row that is alone fails.
OutOfMemory(e) ==
    LET b == calls[e].batch IN
    /\ Returns(e)
    /\ Fault
    /\ Ends(e)
    /\ shrunk' = TRUE
    /\ limit' = Shrink(limit)
    /\ IF Len(b) > 1
       THEN Mark(b, "cap", Half(Len(b))) /\ Requeue(sub, b)
       ELSE sub' = Settle(sub, ToSet(b), "oom") /\ UNCHANGED <<row, high, normal, wake>>
    /\ UNCHANGED <<loop, arrived, soloTime, slow, closed, now>>

\* The model refuses the call: several submissions are isolated, one alone is
\* to blame.
Refused(e) ==
    LET b == calls[e].batch IN
    /\ Returns(e) /\ SubsOf(b) \cap Bad # {}
    /\ Ends(e)
    /\ IF Cardinality(SubsOf(b)) > 1
       THEN Mark(b, "isolate", TRUE) /\ Requeue(sub, b)
       ELSE sub' = Settle(sub, ToSet(b), "model") /\ UNCHANGED <<row, high, normal, wake>>
    /\ UNCHANGED <<loop, arrived, limit, shrunk, soloTime, slow, closed, now, faults>>

\* _after_kill: rows whose time is over fail, the others run again alone.
AfterKill(b) ==
    LET over == {r \in ToSet(b) : Late(r)}
        innocent == SelectSeq(b, LAMBDA r : ~Late(r))
    IN
    /\ Mark(innocent, "solo", TRUE)
    /\ Requeue(Settle(sub, over, "deadline"), innocent)

\* The engine is killed for the call's deadline.
Killed(e) ==
    /\ Runs(e)
    /\ Due(calls[e].batch) <= now
    /\ Ends(e)
    /\ AfterKill(calls[e].batch)
    /\ soloTime' = TRUE /\ shrunk' = FALSE /\ limit' = MaxBatch
    /\ UNCHANGED <<loop, arrived, slow, closed, now, faults>>

\* The engine is killed for another reason.
KilledOtherwise(e) ==
    /\ Runs(e)
    /\ Fault
    /\ Ends(e)
    /\ AfterKill(calls[e].batch)
    /\ UNCHANGED <<loop, arrived, limit, shrunk, soloTime, slow, closed, now>>

\* The engine dies, or answers what cannot be read.
Crashed(e) ==
    /\ Runs(e)
    /\ Fault
    /\ Ends(e)
    /\ sub' = Settle(sub, ToSet(calls[e].batch), "crashed")
    /\ UNCHANGED <<row, high, normal, loop, wake, arrived, limit, shrunk, soloTime, slow, closed, now>>

(***************************************************************************)
(* stop_intake, and the clock.                                             *)
(***************************************************************************)

\* The loop is cancelled: the batch it has and the queues are settled.
Close ==
    /\ ~closed
    /\ closed' = TRUE
    /\ wake' = TRUE
    /\ sub' = Settle(sub, ToSet(loop.batch) \cup ToSet(high) \cup ToSet(normal), "stopped")
    /\ high' = <<>> /\ normal' = <<>>
    /\ loop' = [pc |-> "end", batch |-> <<>>]
    /\ UNCHANGED <<row, calls, arrived, limit, shrunk, soloTime, slow, now, faults>>

SoloEnds ==
    /\ soloTime
    /\ soloTime' = FALSE
    /\ UNCHANGED <<sub, row, high, normal, loop, calls, wake, arrived, limit, shrunk, slow, closed,
                   now, faults>>

Tick ==
    /\ now < MaxTime
    /\ PromptCalls => \A e \in Engines : calls[e].pc # "start"
    /\ now' = now + 1
    /\ UNCHANGED <<sub, row, high, normal, loop, calls, wake, arrived, limit, shrunk, soloTime,
                   slow, closed, faults>>

----------------------------------------------------------------------------

Loop == Gather \/ Woken \/ Yield \/ AcquireLate \/ \E e \in Engines : Granted(e)

Execute(e) ==
    \/ Start(e) \/ Reply(e) \/ Preempted(e) \/ CallExpired(e) \/ OutOfMemory(e) \/ Refused(e)
    \/ Killed(e) \/ KilledOtherwise(e) \/ Crashed(e)

Next ==
    \/ Loop \/ Unavailable \/ Close \/ SoloEnds \/ Tick
    \/ \E s \in Subs : Submit(s) \/ Cancel(s)
    \/ \E e \in Engines : Execute(e)

Spec == Init /\ [][Next]_vars

\* The loop runs on, an engine that is free is granted, calls return, hanging
\* ones when they are killed at their deadline.
FairSpec ==
    /\ Spec
    /\ WF_vars(Loop) /\ WF_vars(Tick)
    /\ \A e \in Engines :
        WF_vars(Start(e) \/ Reply(e) \/ Refused(e) \/ Killed(e) \/ CallExpired(e))

----------------------------------------------------------------------------

TypeOK ==
    /\ \A s \in Subs :
        /\ sub[s].settled \subseteq All(s)
        /\ sub[s].err \in {"none", "deadline", "projected", "unavailable", "oom", "model", "crashed", "stopped"}
    /\ \A r \in Rows : row[r].cap \in 0 .. MaxBatch /\ row[r].pre \in 0 .. MaxPreemptions
    /\ high \in Seq(Rows) /\ normal \in Seq(Rows)
    /\ loop.pc \in {"sleep", "run", "hold", "acquire", "end"}
    /\ limit \in 1 .. MaxBatch

Places == <<high, normal, loop.batch>>
Count(r) ==
    Cardinality({p \in 1 .. 3 : r \in ToSet(Places[p])}) + Cardinality({e \in Engines : r \in ToSet(calls[e].batch)})

\* A row that was submitted is in one place, a queue, the loop's batch or a
\* call, until it is settled, and then in none: whatever happens to a batch,
\* none of its rows is lost, run twice at a time or answered twice.
RowsKept ==
    \A s \in Subs : \A i \in All(s) :
        Count(<<s, i>>) = IF sub[s].here /\ i \notin sub[s].settled THEN 1 ELSE 0

\* Who is refused is to blame: a submission that shares a call with one the
\* model refuses does not fail with it, however batches are split and put back.
OnlyGuilty == \A s \in Subs : sub[s].err = "model" => s \in Bad

\* A submission fails for its deadline after its deadline, also when the call it
\* was in hung, expired or was killed for a neighbour's.
OnlyLate == \A s \in Subs : sub[s].err = "deadline" => Deadline[s] <= now

\* Every submission is answered: again and again there is none that waits.
EverySubmissionSettles == \A s \in Subs : []<>(sub[s].here => Done(s))
=============================================================================
