----------------------------- MODULE RemoteHub -----------------------------
(***************************************************************************)
(* Voice commands of one user: api/src/modules/remote/hub.rs with its     *)
(* store, waits and devices.                                               *)
(*                                                                         *)
(* A skill dispatches a command: it subscribes to the command's replies,  *)
(* appends it to a stream and listens until its deadline, then reads the  *)
(* replies bucket once.  Desktops poll: a wait announces its device, scans *)
(* the stream from the client's cursor and claims, in a bucket of first   *)
(* writers, the commands of which its device is the target (the device    *)
(* that was active last).  Every call of the store is a step of its own,  *)
(* and may fail; a client may give up a wait and poll again with the      *)
(* cursor it had.                                                          *)
(***************************************************************************)
EXTENDS Integers, Sequences, FiniteSets

CONSTANTS
    Devices,      \* the user's devices, numbered: ties go to the larger name
    Commands,     \* the commands skills dispatch
    Answers,      \* the answers a device may give to a command
    MaxWaits,     \* bound: polls of the devices
    MaxActive,    \* bound: activity stamps
    MaxFaults     \* bound: failed store calls, lost messages and answers

RemoteHubAssumption ==
    /\ Devices \subseteq Nat \ {0}
    /\ Answers \subseteq Nat \ {0}
    /\ Devices # {} /\ IsFiniteSet(Devices)
    /\ MaxWaits \in Nat /\ MaxActive \in Nat \ {0} /\ MaxFaults \in Nat

Nothing == 0
Waits == 1 .. MaxWaits
NoCursor == -1

VARIABLES
    stream,     \* the stored commands, in order
    claims,     \* the device a command was claimed for
    replies,    \* the first answer recorded for a command
    seen,       \* the devices entry: activity of a present device, 0 if absent
    ask,        \* a dispatch: where it is, what it heard, its outcome
    expired,    \* commands past their expires_at
    wait,       \* the polls, in the order they were started
    held,       \* Waits: the poll that holds a device's slot
    client,     \* a device: its cursor, current poll, activity, what it got
    answering,  \* answers recorded and not yet published
    faults      \* faults so far

vars == <<stream, claims, replies, seen, ask, expired, wait, held, client, answering, faults>>

NoWait == [dev |-> Nothing, pc |-> "unused", since |-> 0, from |-> 0, shake |-> FALSE, ready |-> {},
           ok |-> FALSE, winner |-> Nothing, woken |-> FALSE, replaced |-> FALSE, cmd |-> Nothing]

Init ==
    /\ stream = <<>>
    /\ claims = [c \in Commands |-> Nothing]
    /\ replies = [c \in Commands |-> Nothing]
    /\ seen = [d \in Devices |-> 0]
    /\ ask = [c \in Commands |-> [pc |-> "idle", heard |-> Nothing]]
    /\ expired = {}
    /\ wait = [w \in Waits |-> NoWait]
    /\ held = [d \in Devices |-> Nothing]
    \* Some devices have shaken hands with the empty stream.
    /\ \E cursor \in [Devices -> {0, NoCursor}] :
        client = [d \in Devices |->
            [cursor |-> cursor[d], poll |-> Nothing, active |-> 1, got |-> {}]]
    /\ answering = {}
    /\ faults = 0

Fault == faults < MaxFaults /\ faults' = faults + 1

(***************************************************************************)
(* Devices.                                                                *)
(***************************************************************************)
Present == {d \in Devices : seen[d] > 0}

\* The device active most recently, by name when two are equal; Nothing if none.
Winner ==
    IF Present = {} THEN Nothing
    ELSE CHOOSE d \in Present : \A e \in Present :
            seen[e] < seen[d] \/ (seen[e] = seen[d] /\ e <= d)

\* Somebody uses the device: its next poll carries a newer activity stamp.
Touch(d) ==
    /\ \E e \in Devices \ {d} : client[e].active >= client[d].active
    /\ \E a \in 1 .. MaxActive :
        /\ \A e \in Devices : client[e].active < a
        /\ client' = [client EXCEPT ![d].active = a]
    /\ UNCHANGED <<stream, claims, replies, seen, ask, expired, wait, held, answering, faults>>

\* The entry of a device whose last announcement is 45 seconds old drops out;
\* a poll lasts 20 seconds and announces at least every 22.
Announced(w) == wait[w].pc \notin {"unused", "enter", "done"}

GoStale(d) ==
    /\ seen[d] > 0
    /\ \A w \in Waits : wait[w].dev = d => ~Announced(w)
    /\ seen' = [seen EXCEPT ![d] = 0]
    /\ UNCHANGED <<stream, claims, replies, ask, expired, wait, held, client, answering, faults>>

(***************************************************************************)
(* dispatch.                                                               *)
(***************************************************************************)
Step(c, pc) == ask' = [ask EXCEPT ![c].pc = pc]

\* reachable: nobody polls for the user, or somebody does; then subscribe.
Reachable(c) ==
    /\ ask[c].pc = "idle"
    /\ Step(c, IF Winner = Nothing THEN "offline" ELSE "publish")
    /\ UNCHANGED <<stream, claims, replies, seen, expired, wait, held, client, answering, faults>>

\* A command that is stored wakes the polls that have subscribed.
Store(c) ==
    /\ stream' = Append(stream, c)
    /\ wait' = [w \in Waits |->
        IF wait[w].pc \in {"scan", "next", "check", "claim", "hold"}
        THEN [wait[w] EXCEPT !.woken = TRUE] ELSE wait[w]]

Publish(c) ==
    /\ ask[c].pc = "publish"
    /\ Store(c)
    /\ Step(c, "listen")
    /\ UNCHANGED <<claims, replies, seen, expired, held, client, answering, faults>>

\* The publish failed: stored or not, the skill is told that the hub is busy.
PublishFails(c) ==
    /\ ask[c].pc = "publish"
    /\ Fault
    /\ Step(c, "busy")
    /\ Store(c) \/ UNCHANGED <<stream, wait>>
    /\ UNCHANGED <<claims, replies, seen, expired, held, client, answering>>

\* The publish was not acknowledged in time: the command may land later.
PublishUnsure(c) ==
    /\ ask[c].pc = "publish"
    /\ Fault
    /\ Step(c, "listen")
    /\ UNCHANGED <<stream, claims, replies, seen, expired, wait, held, client, answering>>

LandLate(c) ==
    /\ ask[c].pc \in {"listen", "late", "reply", "silent", "unread"}
    /\ \A i \in DOMAIN stream : stream[i] # c
    /\ c \notin expired
    /\ Store(c)
    /\ UNCHANGED <<claims, replies, seen, ask, expired, held, client, answering, faults>>

Hear(c) ==
    /\ ask[c].pc = "listen"
    /\ ask[c].heard # Nothing
    /\ Step(c, "reply")
    /\ UNCHANGED <<stream, claims, replies, seen, expired, wait, held, client, answering, faults>>

\* listen_until: 50 ms are left to read the answer that was not heard.
StopListening(c) ==
    /\ ask[c].pc = "listen"
    /\ ask[c].heard = Nothing
    /\ Step(c, "late")
    /\ UNCHANGED <<stream, claims, replies, seen, expired, wait, held, client, answering, faults>>

LateAnswer(c) ==
    /\ ask[c].pc = "late"
    /\ ask' = [ask EXCEPT ![c] =
        IF replies[c] # Nothing THEN [pc |-> "reply", heard |-> replies[c]]
        ELSE [@ EXCEPT !.pc = "silent"]]
    /\ UNCHANGED <<stream, claims, replies, seen, expired, wait, held, client, answering, faults>>

\* The bucket could not be read: the asker is told that nobody answered.
LateAnswerFails(c) ==
    /\ ask[c].pc = "late"
    /\ Fault
    /\ Step(c, "unread")
    /\ UNCHANGED <<stream, claims, replies, seen, expired, wait, held, client, answering>>

\* expires_at is a second after the dispatch's deadline.
Expire(c) ==
    /\ ask[c].pc \in {"reply", "silent", "unread", "busy"}
    /\ c \notin expired
    /\ expired' = expired \cup {c}
    /\ UNCHANGED <<stream, claims, replies, seen, ask, wait, held, client, answering, faults>>

(***************************************************************************)
(* wait.                                                                   *)
(***************************************************************************)

\* Waits::enter: a newer poll of the device takes the slot and wakes the one
\* that had it.  A poll without a cursor takes no slot.
Enter(d, w) ==
    /\ client[d].poll = Nothing
    /\ wait[w].pc = "unused"
    /\ \A v \in Waits : v < w => wait[v].pc # "unused"
    /\ LET shake == client[d].cursor = NoCursor
           since == IF shake THEN 0 ELSE client[d].cursor
           fresh == [NoWait EXCEPT !.dev = d, !.pc = "enter", !.shake = shake,
                                   !.since = since, !.from = since]
       IN /\ wait' = [v \in Waits |->
                IF v = w THEN fresh
                ELSE IF v = held[d] /\ ~shake THEN [wait[v] EXCEPT !.replaced = TRUE]
                ELSE wait[v]]
          /\ held' = IF shake THEN held ELSE [held EXCEPT ![d] = w]
    /\ client' = [client EXCEPT ![d].poll = w]
    /\ UNCHANGED <<stream, claims, replies, seen, ask, expired, answering, faults>>

Go(w, pc) == wait' = [wait EXCEPT ![w].pc = pc]

\* announce: the devices entry is read, noted and written under its revision.
Announce(w) ==
    /\ wait[w].pc = "enter"
    /\ seen' = [seen EXCEPT ![wait[w].dev] = client[wait[w].dev].active]
    /\ wait' = [wait EXCEPT ![w].pc = IF wait[w].shake THEN "shake" ELSE "scan", ![w].ok = TRUE]
    /\ UNCHANGED <<stream, claims, replies, ask, expired, held, client, answering, faults>>

AnnounceFails(w) ==
    /\ wait[w].pc = "enter"
    /\ Fault
    /\ Go(w, IF wait[w].shake THEN "shake" ELSE "scan")
    /\ UNCHANGED <<stream, claims, replies, seen, ask, expired, held, client, answering>>

\* The handshake answers with the end of the stream.
Handshake(w) ==
    /\ wait[w].pc = "shake"
    /\ wait' = [wait EXCEPT ![w].pc = "respond", ![w].from = Len(stream)]
    /\ UNCHANGED <<stream, claims, replies, seen, ask, expired, held, client, answering, faults>>

\* scan_once begins with the devices it decides by; it runs until it has a
\* pc of its own again.
ReadDevices(w) ==
    /\ wait[w].pc = "scan"
    /\ wait' = [wait EXCEPT ![w].pc = "next", ![w].winner = Winner]
    /\ UNCHANGED <<stream, claims, replies, seen, ask, expired, held, client, answering, faults>>

\* A scan that found something ends the poll, another one holds it.
AfterScan(w) == [wait[w] EXCEPT !.pc = IF wait[w].ready = {} THEN "hold" ELSE "respond",
                                !.winner = Nothing, !.cmd = Nothing]

\* Mutant: a poll whose presence was not written skips what is not its own.
NextCommandBlind(w) ==
    /\ wait[w].pc = "next"
    /\ IF wait[w].from >= Len(stream) THEN wait' = [wait EXCEPT ![w] = AfterScan(w)]
       ELSE LET c == stream[wait[w].from + 1]
                target == wait[w].winner \in {Nothing, wait[w].dev}
            IN  IF c \in expired \/ ~target
                THEN wait' = [wait EXCEPT ![w].from = @ + 1]
                ELSE wait' = [wait EXCEPT ![w].pc = "check", ![w].cmd = c]
    /\ UNCHANGED <<stream, claims, replies, seen, ask, expired, held, client, answering, faults>>

\* next_after: expired commands and other devices' are passed over, the
\* latter only by a poll whose own presence was written.
NextCommand(w) ==
    /\ wait[w].pc = "next"
    /\ IF wait[w].from >= Len(stream) THEN wait' = [wait EXCEPT ![w] = AfterScan(w)]
       ELSE LET c == stream[wait[w].from + 1]
                target == wait[w].winner \in {Nothing, wait[w].dev}
            IN  IF c \notin expired /\ ~target /\ ~wait[w].ok THEN wait' = [wait EXCEPT ![w] = AfterScan(w)]
                ELSE IF c \in expired \/ ~target
                THEN wait' = [wait EXCEPT ![w].from = @ + 1]
                ELSE wait' = [wait EXCEPT ![w].pc = "check", ![w].cmd = c]
    /\ UNCHANGED <<stream, claims, replies, seen, ask, expired, held, client, answering, faults>>

Pass(w) == [wait[w] EXCEPT !.pc = "next", !.from = @ + 1, !.cmd = Nothing]

\* deliverable: an answered command is passed over.
CheckAnswer(w) ==
    /\ wait[w].pc = "check"
    /\ wait' = [wait EXCEPT ![w] =
        IF replies[wait[w].cmd] # Nothing THEN Pass(w) ELSE [@ EXCEPT !.pc = "claim"]]
    /\ UNCHANGED <<stream, claims, replies, seen, ask, expired, held, client, answering, faults>>

\* claim: the first device to claim has it, and may claim it again.
Claim(w) ==
    /\ wait[w].pc = "claim"
    /\ LET c == wait[w].cmd
           d == wait[w].dev
       IN /\ claims' = [claims EXCEPT ![c] = IF @ = Nothing THEN d ELSE @]
          /\ wait' = [wait EXCEPT ![w] =
                [Pass(w) EXCEPT !.ready = IF claims[c] \in {Nothing, d} THEN @ \cup {c} ELSE @]]
    /\ UNCHANGED <<stream, replies, seen, ask, expired, held, client, answering, faults>>

\* A call of the scan fails or the hold ends in it: the scan stops where it
\* is; a claim may have been written all the same.
ScanFails(w) ==
    /\ wait[w].pc \in {"scan", "next", "check", "claim"}
    /\ Fault
    /\ \/ UNCHANGED claims
       \/ /\ wait[w].pc = "claim"
          /\ claims[wait[w].cmd] = Nothing
          /\ claims' = [claims EXCEPT ![wait[w].cmd] = wait[w].dev]
    /\ wait' = [wait EXCEPT ![w] = AfterScan(w)]
    /\ UNCHANGED <<stream, replies, seen, ask, expired, held, client, answering>>

\* settle: a wake scans again, and so do the rechecks after it.
Wake(w) ==
    /\ wait[w].pc = "hold"
    /\ wait[w].woken
    /\ Go(w, "scan")
    /\ UNCHANGED <<stream, claims, replies, seen, ask, expired, held, client, answering, faults>>

\* The hold is over, or a newer poll of the device took the slot.
HoldEnds(w) ==
    /\ wait[w].pc = "hold"
    /\ Go(w, "respond")
    /\ UNCHANGED <<stream, claims, replies, seen, ask, expired, held, client, answering, faults>>

\* Slot::drop: only the poll that still holds the slot frees it.
SlotAfter(w) == [held EXCEPT ![wait[w].dev] = IF @ = w THEN Nothing ELSE @]

\* The answer goes to the client, unless the client has given up the poll:
\* then it is lost, and the client keeps its cursor.
Respond(w) ==
    /\ wait[w].pc = "respond"
    /\ wait' = [wait EXCEPT ![w] = [NoWait EXCEPT !.dev = wait[w].dev, !.pc = "done"]]
    /\ held' = SlotAfter(w)
    /\ LET d == wait[w].dev
       IN client' = [client EXCEPT ![d] =
            IF @.poll # w THEN @
            ELSE [@ EXCEPT !.poll = Nothing, !.cursor = wait[w].from,
                           !.got = client[d].got \cup wait[w].ready]]
    /\ UNCHANGED <<stream, claims, replies, seen, ask, expired, answering, faults>>

\* The client gives up the poll; the hub does not notice.
GiveUp(d) ==
    /\ client[d].poll # Nothing
    /\ Fault
    /\ client' = [client EXCEPT ![d].poll = Nothing]
    /\ UNCHANGED <<stream, claims, replies, seen, ask, expired, wait, held, answering>>

(***************************************************************************)
(* reply.                                                                  *)
(***************************************************************************)

\* record_reply: the first answer is kept, and it is the one published.
RecordFirst(c, a) ==
    LET first == IF replies[c] = Nothing THEN a ELSE replies[c]
    IN  /\ replies' = [replies EXCEPT ![c] = first]
        /\ answering' = answering \cup {<<c, first>>}

\* A device answers a command it was given; only a claimed one can be.
Reply(d, c, a) ==
    /\ c \in client[d].got
    /\ claims[c] # Nothing
    /\ RecordFirst(c, a)
    /\ UNCHANGED <<stream, claims, seen, ask, expired, wait, held, client, faults>>

\* The answer reaches whoever listens.
PublishReply(c, a) ==
    /\ <<c, a>> \in answering
    /\ answering' = answering \ {<<c, a>>}
    /\ ask' = [ask EXCEPT ![c].heard = IF ask[c].pc = "listen" /\ @ = Nothing THEN a ELSE @]
    /\ UNCHANGED <<stream, claims, replies, seen, expired, wait, held, client, faults>>

\* The message is lost, or its publisher stops before it.
LoseReply(c, a) ==
    /\ <<c, a>> \in answering
    /\ Fault
    /\ answering' = answering \ {<<c, a>>}
    /\ UNCHANGED <<stream, claims, replies, seen, ask, expired, wait, held, client>>

----------------------------------------------------------------------------

Dispatching(c) ==
    \/ Reachable(c) \/ Publish(c) \/ PublishFails(c) \/ PublishUnsure(c) \/ LandLate(c)
    \/ Hear(c) \/ StopListening(c) \/ LateAnswer(c) \/ LateAnswerFails(c) \/ Expire(c)

Polling(w) ==
    \/ Announce(w) \/ AnnounceFails(w) \/ Handshake(w) \/ ReadDevices(w) \/ NextCommand(w)
    \/ CheckAnswer(w) \/ Claim(w) \/ ScanFails(w) \/ Wake(w) \/ HoldEnds(w) \/ Respond(w)

Next ==
    \/ \E c \in Commands : Dispatching(c)
    \/ \E w \in Waits : Polling(w)
    \/ \E d \in Devices : Touch(d) \/ GoStale(d) \/ GiveUp(d) \/ \E w \in Waits : Enter(d, w)
    \/ \E d \in Devices, c \in Commands, a \in Answers : Reply(d, c, a)
    \/ \E c \in Commands, a \in Answers : PublishReply(c, a) \/ LoseReply(c, a)

Spec == Init /\ [][Next]_vars

----------------------------------------------------------------------------

PollRecords ==
    [dev : Devices \cup {Nothing},
     pc : {"unused", "enter", "shake", "scan", "next", "check", "claim", "hold",
           "respond", "done"},
     since : Nat, from : Nat, shake : BOOLEAN, ready : SUBSET Commands, ok : BOOLEAN,
     winner : Devices \cup {Nothing}, woken : BOOLEAN, replaced : BOOLEAN,
     cmd : Commands \cup {Nothing}]

Asks == [pc : {"idle", "offline", "publish", "listen", "late", "reply", "silent",
               "unread", "busy"},
         heard : Answers \cup {Nothing}]

Clients == [cursor : Nat \cup {NoCursor}, poll : Waits \cup {Nothing},
            active : 1 .. MaxActive, got : SUBSET Commands]

TypeOK ==
    /\ stream \in Seq(Commands)
    /\ claims \in [Commands -> Devices \cup {Nothing}]
    /\ replies \in [Commands -> Answers \cup {Nothing}]
    /\ seen \in [Devices -> 0 .. MaxActive]
    /\ ask \in [Commands -> Asks]
    /\ expired \subseteq Commands
    /\ wait \in [Waits -> PollRecords]
    /\ held \in [Devices -> Waits \cup {Nothing}]
    /\ client \in [Devices -> Clients]
    /\ answering \subseteq Commands \X Answers
    /\ faults \in 0 .. MaxFaults

\* A command goes to one device even when another takes over: no two devices
\* are given the same command, whatever they announce and whenever a scan
\* read the devices it decides by.
OneDevice ==
    \A c \in Commands : \A d, e \in Devices :
        c \in client[d].got /\ c \in client[e].got => d = e

\* The first answer wins: what the asker hears, over the subscription or from
\* the bucket, is the answer that was recorded first.
FirstAnswerWins ==
    \A c \in Commands : ask[c].heard # Nothing => ask[c].heard = replies[c]

\* A second poll of a device replaces the first: the slot of a device is the
\* newest of its polls that still runs, so a replaced poll that ends late
\* leaves the newer one in place.
Running(w) == wait[w].pc \notin {"unused", "done"}

NewestHolds ==
    /\ \A d \in Devices : held[d] # Nothing => Running(held[d]) /\ wait[held[d]].dev = d
    /\ \A w \in Waits :
        /\ Running(w) /\ ~wait[w].shake
        /\ \A v \in Waits : v > w => wait[v].dev # wait[w].dev
        => held[wait[w].dev] = w

\* Where in the stream a command is.
At(c) == CHOOSE i \in DOMAIN stream : stream[i] = c
Stored(c) == \E i \in DOMAIN stream : stream[i] = c

\* No other device has polled.
Solo(d) == \A w \in Waits : wait[w].dev \in {Nothing, d}

\* A lost answer is resent to the same device, as long as it is the only one: its
\* cursor does not pass a live, unanswered command that was claimed for it before
\* it was given the command.
ResentToClaimer ==
    \A c \in Commands : \A d \in Devices :
        /\ Solo(d) /\ Stored(c) /\ claims[c] = d
        /\ c \notin expired /\ replies[c] = Nothing
        /\ client[d].cursor >= At(c)
        => c \in client[d].got

\* A command the poll took, or need not take: it expired, is answered or
\* another device's.
Passed(w, i) ==
    LET c == stream[i]
    IN  \/ c \in wait[w].ready \cup expired
        \/ replies[c] # Nothing
        \/ claims[c] \notin {Nothing, wait[w].dev}

\* A poll whose presence could not be written passes over no live command:
\* it answers with a cursor before the first it neither took nor saw answered.
BlindSkipsNothing ==
    \A w \in Waits : Running(w) /\ ~wait[w].shake /\ ~wait[w].ok =>
        \A i \in wait[w].since + 1 .. wait[w].from : Passed(w, i)

\* An answer recorded before the asker's deadline reaches it, although the
\* message that carries it may be lost: nobody is told that there was no
\* answer while one is recorded, whatever the order of the messages.
\* (What every step keeps.)
RecordedIsHeard ==
    \A c \in Commands : ask[c].pc # "silent" /\ ask'[c].pc = "silent" => replies[c] = Nothing

(***************************************************************************)
(* What the steps keep besides: the inductive invariant.                   *)
(***************************************************************************)

\* A poll stays within the stream, from where it began; one that shakes hands
\* scans nothing; one that checks or claims is at its command.
PollFine(w) ==
    /\ wait[w].since <= wait[w].from /\ wait[w].from <= Len(stream)
    /\ ~Running(w) => wait[w].ready = {}
    /\ wait[w].shake => wait[w].ready = {} /\ wait[w].pc \in {"enter", "shake", "respond"}
    /\ wait[w].pc = "shake" => wait[w].shake
    /\ wait[w].pc \in {"check", "claim"} =>
          wait[w].from < Len(stream) /\ wait[w].cmd = stream[wait[w].from + 1]

\* Polls are started in order, each by a device.
Started ==
    /\ \A w \in Waits : PollFine(w)
    /\ \A w \in Waits : wait[w].dev = Nothing <=> wait[w].pc = "unused"
    /\ \A v, w \in Waits : v < w /\ wait[v].pc = "unused" => wait[w].pc = "unused"

\* A command is stored once, and not before its dispatch publishes it.
StoredOnce ==
    /\ \A i, j \in DOMAIN stream : stream[i] = stream[j] => i = j
    /\ \A c \in Commands : ask[c].pc \in {"idle", "offline", "publish"} => ~Stored(c)

\* What a poll carries or a client was given is claimed for its device.
Claimed ==
    /\ \A w \in Waits : \A c \in wait[w].ready : claims[c] = wait[w].dev
    /\ \A d \in Devices : \A c \in client[d].got : claims[c] = d

\* An answer on its way is the recorded one.
Recorded == \A x \in answering : replies[x[1]] = x[2]

\* Who is present, or was when a scan began, has polled.
HasPolled(d) == \E v \in Waits : wait[v].dev = d

Polled ==
    /\ \A d \in Devices : seen[d] > 0 => HasPolled(d)
    /\ \A w \in Waits : wait[w].winner # Nothing => HasPolled(wait[w].winner)

\* A poll of the only device passes over nothing, like one that is blind.
SoloSkipsNothing ==
    \A w \in Waits : Running(w) /\ ~wait[w].shake /\ Solo(wait[w].dev) =>
        \A i \in wait[w].since + 1 .. wait[w].from : Passed(w, i)

\* A running poll of the device that has a cursor.
Scanning(w, d) == wait[w].dev = d /\ Running(w) /\ ~wait[w].shake

\* The current poll of a client began at its cursor; nothing is claimed for a
\* client without one.
CursorFine(d) ==
    /\ client[d].cursor <= Len(stream)
    /\ client[d].poll # Nothing =>
         LET p == wait[client[d].poll]
         IN  /\ p.dev = d /\ Running(client[d].poll)
             /\ p.shake <=> client[d].cursor = NoCursor
             /\ ~p.shake => p.since = client[d].cursor
    /\ \A w \in Waits : Scanning(w, d) => wait[w].since <= client[d].cursor
    /\ client[d].cursor = NoCursor => \A c \in Commands : claims[c] # d

Cursors == \A d \in Devices : CursorFine(d)

\* Up to the cursor of the only device a command was given to it, has expired, is
\* answered or another's, or no poll of the device can claim it any more.
Settled(d, i) ==
    LET c == stream[i]
    IN  \/ c \in client[d].got \cup expired
        \/ replies[c] # Nothing
        \/ claims[c] \notin {Nothing, d}
        \/ claims[c] = Nothing /\ \A w \in Waits : Scanning(w, d) => wait[w].since >= i

Delivered ==
    \A d \in Devices : Solo(d) => \A i \in 1 .. client[d].cursor : Settled(d, i)

IndInv ==
    /\ TypeOK /\ Started /\ StoredOnce /\ Claimed /\ Recorded /\ FirstAnswerWins
    /\ NewestHolds /\ Polled /\ BlindSkipsNothing /\ SoloSkipsNothing /\ Cursors /\ Delivered
=============================================================================
