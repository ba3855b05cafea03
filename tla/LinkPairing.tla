---------------------------- MODULE LinkPairing ----------------------------
(***************************************************************************)
(* Pairing a voice assistant with a user by a six digit code:              *)
(* api/src/modules/remote/linking.rs with confirm.rs and links.rs, and     *)
(* their callers in oauth/handlers.rs (a page) and skills/salut.rs (a      *)
(* speaker).                                                               *)
(*                                                                         *)
(* An attempt finds the code, takes its lock in Redis, counts itself and   *)
(* asks the user's desktop; a ticket remembers the question.  Polls of the *)
(* ticket, several at a time, look for the desktop's answer, consume the   *)
(* code and link.  Every call of Redis or Postgres is a step and may fail; *)
(* a handler may die between two of them.                                  *)
(***************************************************************************)
EXTENDS Integers, FiniteSets

CONSTANTS
    Attempts,     \* attempts with the code
    Speakers,     \* attempts of a speaker; the others come from the page
    Polls,        \* polls of tickets
    MaxCodeAsks,  \* MAX_CODE_ASKS
    PerDay,       \* confirm_per_user_day
    MaxFaults     \* bound: failed calls, handlers that die

ASSUME LinkPairingAssumption ==
    /\ Speakers \subseteq Attempts /\ "free" \notin Attempts
    /\ MaxCodeAsks \in Nat \ {0} /\ PerDay \in Nat \ {0} /\ MaxFaults \in Nat

Free == "free"
NoPoll == "none"

VARIABLES
    code,      \* the row of remote_link_codes: live, used, denied or gone
    lock,      \* the holder of the code's lock, or Free
    asks,      \* the counter of questions of the code
    today,     \* the counter of questions of the user
    pc,        \* where an attempt is
    posted,    \* attempts whose question is in the hub
    reply,     \* the desktop's answer to a question: none, yes or no
    past,      \* questions past their deadline
    ticket,    \* the stored ticket of an attempt: its status, or none
    poll,      \* a poll: its attempt, where it is and the status it found
    linked,    \* attempts an auth code was issued or a speaker bound for
    faults

vars == <<code, lock, asks, today, pc, posted, reply, past, ticket, poll, linked, faults>>

Init ==
    /\ code = "live"
    /\ lock = Free
    /\ asks = 0
    /\ today = 0
    /\ pc = [a \in Attempts |-> "idle"]
    /\ posted = {}
    /\ reply = [a \in Attempts |-> "none"]
    /\ past = {}
    /\ ticket = [a \in Attempts |-> "none"]
    /\ poll = [p \in Polls |-> [of |-> NoPoll, pc |-> "idle", status |-> "pending"]]
    /\ linked = {}
    /\ faults = 0

Fault == faults < MaxFaults /\ faults' = faults + 1
Goto(a, l) == pc' = [pc EXCEPT ![a] = l]

(***************************************************************************)
(* The code and its lock.                                                  *)
(***************************************************************************)

\* The code's ten minutes are over, or create_code deleted it for a new one.
CodeEnds ==
    /\ code = "live"
    /\ code' = "gone"
    /\ UNCHANGED <<lock, asks, today, pc, posted, reply, past, ticket, poll, linked, faults>>

\* Mutant: a release deletes the lock, whoever holds it.
ReleaseAny(a) == Free

\* RELEASE_OWN_LOCK.
Release(a) == IF lock = a THEN Free ELSE lock

\* The lock's 70 seconds are over.  A question is open for 60 of them, and the
\* calls that lead to it take less than the rest.
Asking == {"asks", "day", "reach", "count_day", "count_code", "post", "put"}

LockEnds ==
    /\ lock # Free
    /\ pc[lock] \notin Asking
    /\ lock \in posted => lock \in past
    /\ lock' = Free
    /\ UNCHANGED <<code, asks, today, pc, posted, reply, past, ticket, poll, linked, faults>>

(***************************************************************************)
(* find and ask.                                                           *)
(***************************************************************************)
Find(a) ==
    /\ pc[a] = "idle"
    /\ Goto(a, IF code = "live" THEN "claim" ELSE "ended")
    /\ UNCHANGED <<code, lock, asks, today, posted, reply, past, ticket, poll, linked, faults>>

\* SET NX; somebody else's lock answers that the code is in use.
Claim(a) ==
    /\ pc[a] = "claim"
    /\ lock' = IF lock = Free THEN a ELSE lock
    /\ Goto(a, IF lock = Free THEN "asks" ELSE "ended")
    /\ UNCHANGED <<code, asks, today, posted, reply, past, ticket, poll, linked, faults>>

\* A code that was asked about too often is consumed.
CheckAsks(a) ==
    /\ pc[a] = "asks"
    /\ IF asks >= MaxCodeAsks
       THEN /\ code' = IF code = "live" THEN "gone" ELSE code
            /\ lock' = Release(a)
            /\ Goto(a, "ended")
       ELSE Goto(a, "day") /\ UNCHANGED <<code, lock>>
    /\ UNCHANGED <<asks, today, posted, reply, past, ticket, poll, linked, faults>>

CheckDay(a) ==
    /\ pc[a] = "day"
    /\ lock' = IF today >= PerDay THEN Release(a) ELSE lock
    /\ Goto(a, IF today >= PerDay THEN "ended" ELSE "reach")
    /\ UNCHANGED <<code, asks, today, posted, reply, past, ticket, poll, linked, faults>>

\* link_confirm builds the command if a device is present.
Reach(a) ==
    /\ pc[a] = "reach"
    /\ \/ Goto(a, "count_day") /\ UNCHANGED lock
       \/ Goto(a, "unasked") /\ lock' = Release(a)
    /\ UNCHANGED <<code, asks, today, posted, reply, past, ticket, poll, linked, faults>>

CountDay(a) ==
    /\ pc[a] = "count_day"
    /\ today' = today + 1
    /\ Goto(a, "count_code")
    /\ UNCHANGED <<code, lock, asks, posted, reply, past, ticket, poll, linked, faults>>

CountCode(a) ==
    /\ pc[a] = "count_code"
    /\ asks' = asks + 1
    /\ Goto(a, "post")
    /\ UNCHANGED <<code, lock, today, posted, reply, past, ticket, poll, linked, faults>>

Post(a) ==
    /\ pc[a] = "post"
    /\ posted' = posted \cup {a}
    /\ Goto(a, "put")
    /\ UNCHANGED <<code, lock, asks, today, reply, past, ticket, poll, linked, faults>>

\* A call of find or ask fails: the lock is given back.  A counter may have
\* been raised and a question may have been posted all the same.  A failed
\* ask still stores a ticket, to tell the outcome; a failed find does not.
AskFails(a) ==
    /\ pc[a] \in {"asks", "day", "reach", "count_day", "count_code", "post"}
    /\ Fault
    /\ today' \in {today} \cup IF pc[a] = "count_day" THEN {today + 1} ELSE {}
    /\ asks' \in {asks} \cup IF pc[a] = "count_code" THEN {asks + 1} ELSE {}
    /\ posted' \in {posted} \cup IF pc[a] = "post" THEN {posted \cup {a}} ELSE {}
    /\ lock' = Release(a)
    /\ Goto(a, IF pc[a] \in {"asks", "day"} THEN "ended" ELSE "unasked")
    /\ UNCHANGED <<code, reply, past, ticket, poll, linked>>

\* The ticket: a question that is open, or the status of one that is not.
Put(a) ==
    /\ pc[a] \in {"put", "unasked"}
    /\ ticket' = [ticket EXCEPT ![a] = IF pc[a] = "put" THEN "pending" ELSE "failed"]
    /\ Goto(a, "asked")
    /\ UNCHANGED <<code, lock, asks, today, posted, reply, past, poll, linked, faults>>

\* The ticket was not stored: the question is given up.
PutFails(a) ==
    /\ pc[a] \in {"put", "unasked"}
    /\ Fault
    /\ lock' = Release(a)
    /\ Goto(a, "ended")
    /\ UNCHANGED <<code, asks, today, posted, reply, past, ticket, poll, linked>>

\* The handler dies; what it holds stays.
Die(a) ==
    /\ pc[a] \in Asking \cup {"unasked"}
    /\ Fault
    /\ Goto(a, "ended")
    /\ UNCHANGED <<code, lock, asks, today, posted, reply, past, ticket, poll, linked>>

\* The desktop answers, perhaps after the deadline.
Answer(a) ==
    /\ a \in posted
    /\ reply[a] = "none"
    /\ \E r \in {"yes", "no"} : reply' = [reply EXCEPT ![a] = r]
    /\ UNCHANGED <<code, lock, asks, today, pc, posted, past, ticket, poll, linked, faults>>

Deadline(a) ==
    /\ a \in posted \ past
    /\ past' = past \cup {a}
    /\ UNCHANGED <<code, lock, asks, today, pc, posted, reply, ticket, poll, linked, faults>>

(***************************************************************************)
(* authorize_status and after_confirmation: polls of a ticket.             *)
(***************************************************************************)
Step(p, l) == poll' = [poll EXCEPT ![p].pc = l]
Found(p, l, status) == poll' = [poll EXCEPT ![p] = [of |-> @.of, pc |-> l, status |-> status]]

\* The ticket is read and stays; one that is not pending says its status.
ReadTicket(p, a) ==
    /\ poll[p].pc = "idle"
    /\ ticket[a] # "none"
    /\ poll' = [poll EXCEPT ![p] = [of |-> a, pc |-> IF ticket[a] = "pending" THEN "answer" ELSE "take",
                                   status |-> ticket[a]]]
    /\ UNCHANGED <<code, lock, asks, today, pc, posted, reply, past, ticket, linked, faults>>

\* Mutant: an answer is taken for an approval.
OutcomeAny(p) ==
    LET a == poll[p].of IN
    /\ poll[p].pc = "answer"
    /\ \/ reply[a] # "none" /\ Step(p, "consume") /\ UNCHANGED faults
       \/ /\ IF reply[a] = "none" THEN UNCHANGED faults ELSE Fault
          /\ IF a \in past THEN Found(p, "release", "silent") ELSE Step(p, "ended")
    /\ UNCHANGED <<code, lock, asks, today, pc, posted, reply, past, ticket, linked>>

\* outcome: without an answer the poll goes on waiting until the deadline.  An
\* answer that could not be read is none.
Outcome(p) ==
    LET a == poll[p].of IN
    /\ poll[p].pc = "answer"
    /\ \/ reply[a] = "yes" /\ Step(p, "consume") /\ UNCHANGED faults
       \/ reply[a] = "no" /\ Step(p, "deny") /\ UNCHANGED faults
       \/ /\ IF reply[a] = "none" THEN UNCHANGED faults ELSE Fault
          /\ IF a \in past THEN Found(p, "release", "silent") ELSE Step(p, "ended")
    /\ UNCHANGED <<code, lock, asks, today, pc, posted, reply, past, ticket, linked>>

\* consume_code: one caller deletes the row.
Consume(p) ==
    /\ poll[p].pc = "consume"
    /\ code' = IF code = "live" THEN "used" ELSE code
    /\ Found(p, "release", IF code = "live" THEN "approved" ELSE "failed")
    /\ UNCHANGED <<lock, asks, today, pc, posted, reply, past, ticket, linked, faults>>

Deny(p) ==
    /\ poll[p].pc = "deny"
    /\ code' = IF code = "live" THEN "denied" ELSE code
    /\ Found(p, "release", "denied")
    /\ UNCHANGED <<lock, asks, today, pc, posted, reply, past, ticket, linked, faults>>

\* The statement failed, whether the row is deleted or not.
ConsumeFails(p) ==
    /\ poll[p].pc \in {"consume", "deny"}
    /\ Fault
    /\ code' \in {code} \cup IF code = "live" THEN {"gone"} ELSE {}
    /\ Found(p, "release", IF poll[p].pc = "deny" THEN "denied" ELSE "failed")
    /\ UNCHANGED <<lock, asks, today, pc, posted, reply, past, ticket, linked>>

\* An approved page issues an auth code before its ticket is taken, a speaker
\* is bound after it.
ReleaseLock(p) ==
    /\ poll[p].pc = "release"
    /\ \/ lock' = Release(poll[p].of) /\ UNCHANGED faults
       \/ Fault /\ UNCHANGED lock
    /\ Step(p, IF poll[p].status = "approved" /\ poll[p].of \notin Speakers THEN "link" ELSE "take")
    /\ UNCHANGED <<code, asks, today, pc, posted, reply, past, ticket, linked>>

Take(p) ==
    /\ poll[p].pc = "take"
    /\ \/ ticket' = [ticket EXCEPT ![poll[p].of] = "none"] /\ UNCHANGED faults
       \/ Fault /\ UNCHANGED ticket
    /\ Step(p, IF poll[p].status = "approved" /\ poll[p].of \in Speakers THEN "link" ELSE "ended")
    /\ UNCHANGED <<code, lock, asks, today, pc, posted, reply, past, linked>>

\* issue_auth_code or bind_salut.
Link(p) ==
    /\ poll[p].pc = "link"
    /\ linked' = linked \cup {poll[p].of}
    /\ Step(p, IF poll[p].of \in Speakers THEN "ended" ELSE "take")
    /\ UNCHANGED <<code, lock, asks, today, pc, posted, reply, past, ticket, faults>>

\* It failed: the page says so, the speaker's ticket is put back as approved.
LinkFails(p) ==
    LET a == poll[p].of IN
    /\ poll[p].pc = "link"
    /\ Fault
    /\ linked' \in {linked} \cup IF a \in Speakers THEN {linked \cup {a}} ELSE {}
    /\ IF a \in Speakers THEN Step(p, "put") ELSE Found(p, "take", "failed")
    /\ UNCHANGED <<code, lock, asks, today, pc, posted, reply, past, ticket>>

PutBack(p) ==
    /\ poll[p].pc = "put"
    /\ \/ ticket' = [ticket EXCEPT ![poll[p].of] = "approved"] /\ UNCHANGED faults
       \/ Fault /\ UNCHANGED ticket
    /\ Step(p, "ended")
    /\ UNCHANGED <<code, lock, asks, today, pc, posted, reply, past, linked>>

\* The client leaves and its handler is dropped where it is.
PollDies(p) ==
    /\ poll[p].pc \notin {"idle", "ended"}
    /\ Fault
    /\ Step(p, "ended")
    /\ UNCHANGED <<code, lock, asks, today, pc, posted, reply, past, ticket, linked>>

----------------------------------------------------------------------------

Attempt(a) ==
    \/ Find(a) \/ Claim(a) \/ CheckAsks(a) \/ CheckDay(a) \/ Reach(a) \/ CountDay(a) \/ CountCode(a)
    \/ Post(a) \/ AskFails(a) \/ Put(a) \/ PutFails(a) \/ Die(a) \/ Answer(a) \/ Deadline(a)

Polling(p) ==
    \/ \E a \in Attempts : ReadTicket(p, a)
    \/ Outcome(p) \/ Consume(p) \/ Deny(p) \/ ConsumeFails(p) \/ ReleaseLock(p) \/ Take(p)
    \/ Link(p) \/ LinkFails(p) \/ PutBack(p) \/ PollDies(p)

Next ==
    \/ CodeEnds \/ LockEnds
    \/ \E a \in Attempts : Attempt(a)
    \/ \E p \in Polls : Polling(p)

Spec == Init /\ [][Next]_vars

----------------------------------------------------------------------------

Statuses == {"pending", "approved", "denied", "silent", "failed"}
PollSteps ==
    {"idle", "answer", "consume", "deny", "release", "link", "take", "put", "ended"}

\* Attempts, tickets and polls keep their shape.
TypeOK ==
    /\ code \in {"live", "used", "denied", "gone"}
    /\ lock \in Attempts \cup {Free}
    /\ asks \in Nat /\ today \in Nat
    /\ pc \in [Attempts -> Asking \cup {"idle", "claim", "unasked", "asked", "ended"}]
    /\ posted \subseteq Attempts /\ past \subseteq posted /\ linked \subseteq Attempts
    /\ reply \in [Attempts -> {"none", "yes", "no"}]
    /\ ticket \in [Attempts -> {"none", "pending", "approved", "failed"}]
    /\ poll \in [Polls -> [of : Attempts \cup {NoPoll}, pc : PollSteps, status : Statuses]]
    /\ \A p \in Polls : poll[p].pc # "idle" => poll[p].of \in Attempts
    /\ faults \in 0 .. MaxFaults

\* A code links once: however many attempts and polls of their tickets race,
\* whichever locks ran out and whichever calls failed, one attempt is linked,
\* and it is one the desktop approved.
LinksOnce ==
    /\ \A a, b \in linked : a = b
    /\ \A a \in linked : reply[a] = "yes"

\* A code that the desktop was asked about too often is worth nothing: no more
\* questions than MAX_CODE_ASKS are posted for it, those of failed and of
\* dead handlers included.
AsksBounded == Cardinality(posted) <= MaxCodeAsks

\* One question at a time: while an attempt is on its way to ask, or its
\* question is open and its ticket stored, no other attempt asks with the
\* same code; a stale attempt does not release a newer lock.
Open(a) ==
    \/ pc[a] \in Asking
    \/ pc[a] = "asked" /\ a \in posted \ past /\ reply[a] = "none" /\ ticket[a] = "pending"

OneQuestion == \A a, b \in Attempts : Open(a) /\ Open(b) => a = b

\* The questions of a code, one at a time and no more than MAX_CODE_ASKS.
QuestionsBounded == OneQuestion /\ AsksBounded

\* The code is consumed for a link: it is made, or on its way, or waiting as
\* an approved ticket, as long as no call failed.
ApprovalNotLost ==
    code = "used" /\ faults = 0 =>
        \/ linked # {}
        \/ \E p \in Polls : poll[p].status = "approved" /\ poll[p].pc # "ended"

\* A code pairs one attempt the desktop approved, and is not spent for nothing.
PairsOnce == LinksOnce /\ ApprovalNotLost
=============================================================================
