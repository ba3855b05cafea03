------------------------ MODULE LinkPairingProofs -------------------------
(***************************************************************************)
(* Proofs about the pairing of an assistant by code (LinkPairing), for any *)
(* number of attempts, polls and faults, and about the hub that carries    *)
(* its commands (RemoteHub), for any devices, commands, polls and faults.  *)
(*                                                                         *)
(* Questions: whoever is on the way to ask holds the code's lock, and a    *)
(* question that is open keeps it, because only a poll that found an       *)
(* answer or the deadline gives the lock of its own attempt back.          *)
(* Links: who consumed the live code is the only attempt that is linked,   *)
(* waits as an approved ticket or is handled by a poll as approved.        *)
(* Hub: its invariant Hub!IndInv is kept by four kinds of steps as far as  *)
(* polls go (the polls stay, one moves, one starts, one answers), and by   *)
(* three as far as questions go (none, a dispatch goes on, an answer is    *)
(* recorded).  What a poll has passed over, what its client was given and  *)
(* what is claimed are tied to the client's cursor.                        *)
(***************************************************************************)
EXTENDS MCDevices, Sequences, FiniteSetTheorems, WellFoundedInduction, TLAPS

\* The lock of the code is with whoever is on the way to ask.
AskingHolds == \A a \in Attempts : pc[a] \in Asking => lock = a

\* Tickets, and polls of them, come after the attempt has asked.
AskedFirst ==
    /\ \A a \in Attempts : ticket[a] # "none" => pc[a] = "asked"
    /\ \A p \in Polls : poll[p].pc # "idle" => pc[poll[p].of] = "asked"

\* A poll goes on to consume, deny or release after an answer or the deadline.
AnsweredFirst ==
    \A p \in Polls :
        /\ poll[p].pc = "consume" => reply[poll[p].of] = "yes"
        /\ poll[p].pc \in {"deny", "release"} =>
               reply[poll[p].of] # "none" \/ poll[p].of \in past

\* An open question keeps the lock.
OpenHolds == \A a \in Attempts : Open(a) => lock = a

\* Questions are counted before they are posted, and refused at the limit.
Counted ==
    /\ IsFiniteSet(posted)
    /\ Cardinality(posted) <= asks
    /\ asks <= MaxCodeAsks
    /\ \A a \in Attempts :
          /\ pc[a] = "post" => Cardinality(posted) + 1 <= asks
          /\ pc[a] \in {"day", "reach", "count_day", "count_code"} => asks < MaxCodeAsks

\* The attempt for which the code was consumed.
Winner(a) ==
    \/ a \in linked
    \/ ticket[a] = "approved"
    \/ \E p \in Polls : poll[p].of = a /\ poll[p].status = "approved"

\* There is at most one, the desktop said yes to it and the code is used; what
\* a poll links or puts back is approved.
OneWinner ==
    /\ \A a, b \in Attempts : Winner(a) /\ Winner(b) => a = b
    /\ \A a \in Attempts : Winner(a) => code = "used" /\ reply[a] = "yes"
    /\ \A p \in Polls : poll[p].pc \in {"link", "put"} => poll[p].status = "approved"
    /\ \A p \in Polls : poll[p].pc = "idle" => poll[p].status = "pending"

\* Without faults a consumed code has its link, or a poll on the way to it.
OnItsWay ==
    code = "used" /\ faults = 0 =>
        \/ linked # {}
        \/ \E p \in Polls : /\ poll[p].status = "approved"
                            /\ \/ poll[p].pc \in {"release", "link"}
                               \/ poll[p].pc = "take" /\ poll[p].of \in Speakers

Questions == AskingHolds /\ AskedFirst /\ AnsweredFirst /\ OpenHolds /\ Counted
Links == OneWinner /\ OnItsWay
IInv == TypeOK /\ Questions /\ Links

-----------------------------------------------------------------------------
\* The initial state satisfies the invariant.
LEMMA InitInv == Init => IInv
<1> SUFFICES ASSUME Init PROVE IInv
  OBVIOUS
<1> USE LinkPairingAssumption DEF Init
<1>1. TypeOK
  BY DEF TypeOK, Free, NoPoll, Statuses, PollSteps, Asking
<1>2. Questions
  <2>1. IsFiniteSet(posted) /\ Cardinality(posted) = 0
    BY FS_EmptySet
  <2> QED BY <2>1 DEF Questions, AskingHolds, AskedFirst, AnsweredFirst, OpenHolds, Open,
                      Counted, Asking
<1>3. Links
  BY DEF Links, OneWinner, Winner, OnItsWay
<1> QED BY <1>1, <1>2, <1>3 DEF IInv

\* Every step keeps the types.
LEMMA TypeStep == IInv /\ Next => TypeOK'
<1> SUFFICES ASSUME IInv, Next PROVE TypeOK'
  OBVIOUS
<1> DEFINE Goal == TypeOK'
<1> USE LinkPairingAssumption
<1> USE DEF IInv, TypeOK, Free, Asking, PollSteps, Statuses
<1>1. CASE CodeEnds
  BY <1>1 DEF CodeEnds
<1>2. CASE LockEnds
  BY <1>2 DEF LockEnds
<1>3. ASSUME NEW a \in Attempts, Find(a) PROVE Goal
  BY <1>3 DEF Find, Goto
<1>4. ASSUME NEW a \in Attempts, Claim(a) PROVE Goal
  BY <1>4 DEF Claim, Goto
<1>5. ASSUME NEW a \in Attempts, CheckAsks(a) PROVE Goal
  BY <1>5 DEF CheckAsks, Goto, Release
<1>6. ASSUME NEW a \in Attempts, CheckDay(a) PROVE Goal
  BY <1>6 DEF CheckDay, Goto, Release
<1>7. ASSUME NEW a \in Attempts, Reach(a) PROVE Goal
  BY <1>7 DEF Reach, Goto, Release
<1>8. ASSUME NEW a \in Attempts, CountDay(a) PROVE Goal
  BY <1>8 DEF CountDay, Goto
<1>9. ASSUME NEW a \in Attempts, CountCode(a) PROVE Goal
  BY <1>9 DEF CountCode, Goto
<1>10. ASSUME NEW a \in Attempts, Post(a) PROVE Goal
  BY <1>10 DEF Post, Goto
<1>11. ASSUME NEW a \in Attempts, AskFails(a) PROVE Goal
  BY <1>11 DEF AskFails, Goto, Release, Fault
<1>12. ASSUME NEW a \in Attempts, Put(a) PROVE Goal
  BY <1>12 DEF Put, Goto
<1>13. ASSUME NEW a \in Attempts, PutFails(a) PROVE Goal
  BY <1>13 DEF PutFails, Goto, Release, Fault
<1>14. ASSUME NEW a \in Attempts, Die(a) PROVE Goal
  BY <1>14 DEF Die, Goto, Fault
<1>15. ASSUME NEW a \in Attempts, Answer(a) PROVE Goal
  BY <1>15 DEF Answer
<1>16. ASSUME NEW a \in Attempts, Deadline(a) PROVE Goal
  BY <1>16 DEF Deadline
<1>17. ASSUME NEW p \in Polls, NEW a \in Attempts, ReadTicket(p, a) PROVE Goal
  BY <1>17 DEF ReadTicket
<1>18. ASSUME NEW p \in Polls, Outcome(p) PROVE Goal
  BY <1>18 DEF Outcome, Step, Found, Fault
<1>19. ASSUME NEW p \in Polls, Consume(p) PROVE Goal
  BY <1>19 DEF Consume, Found
<1>20. ASSUME NEW p \in Polls, Deny(p) PROVE Goal
  BY <1>20 DEF Deny, Found
<1>21. ASSUME NEW p \in Polls, ConsumeFails(p) PROVE Goal
  BY <1>21 DEF ConsumeFails, Found, Fault
<1>22. ASSUME NEW p \in Polls, ReleaseLock(p) PROVE Goal
  BY <1>22 DEF ReleaseLock, Step, Release, Fault
<1>23. ASSUME NEW p \in Polls, Take(p) PROVE Goal
  BY <1>23 DEF Take, Step, Fault
<1>24. ASSUME NEW p \in Polls, Link(p) PROVE Goal
  BY <1>24 DEF Link, Step
<1>25. ASSUME NEW p \in Polls, LinkFails(p) PROVE Goal
  BY <1>25 DEF LinkFails, Step, Found, Fault
<1>26. ASSUME NEW p \in Polls, PutBack(p) PROVE Goal
  BY <1>26 DEF PutBack, Step, Fault
<1>27. ASSUME NEW p \in Polls, PollDies(p) PROVE Goal
  BY <1>27 DEF PollDies, Step, Fault
<1> QED BY <1>1, <1>2, <1>3, <1>4, <1>5, <1>6, <1>7, <1>8, <1>9, <1>10, <1>11, <1>12, <1>13, <1>14, <1>15, <1>16, <1>17, <1>18, <1>19, <1>20, <1>21, <1>22, <1>23, <1>24, <1>25, <1>26, <1>27 DEF Next, Attempt, Polling

\* Every step keeps AskingHolds.
LEMMA AskingHoldsStep == IInv /\ Next => AskingHolds'
<1> SUFFICES ASSUME IInv, Next PROVE AskingHolds'
  OBVIOUS
<1> DEFINE Goal == AskingHolds'
<1> USE LinkPairingAssumption
<1> USE DEF IInv, TypeOK, Free, Asking, PollSteps, Statuses, Questions, AskingHolds, AskedFirst
<1>1. CASE CodeEnds
  BY <1>1 DEF CodeEnds
<1>2. CASE LockEnds
  BY <1>2 DEF LockEnds
<1>3. ASSUME NEW a \in Attempts, Find(a) PROVE Goal
  BY <1>3 DEF Find, Goto
<1>4. ASSUME NEW a \in Attempts, Claim(a) PROVE Goal
  BY <1>4 DEF Claim, Goto
<1>5. ASSUME NEW a \in Attempts, CheckAsks(a) PROVE Goal
  BY <1>5 DEF CheckAsks, Goto, Release
<1>6. ASSUME NEW a \in Attempts, CheckDay(a) PROVE Goal
  BY <1>6 DEF CheckDay, Goto, Release
<1>7. ASSUME NEW a \in Attempts, Reach(a) PROVE Goal
  BY <1>7 DEF Reach, Goto, Release
<1>8. ASSUME NEW a \in Attempts, CountDay(a) PROVE Goal
  BY <1>8 DEF CountDay, Goto
<1>9. ASSUME NEW a \in Attempts, CountCode(a) PROVE Goal
  BY <1>9 DEF CountCode, Goto
<1>10. ASSUME NEW a \in Attempts, Post(a) PROVE Goal
  BY <1>10 DEF Post, Goto
<1>11. ASSUME NEW a \in Attempts, AskFails(a) PROVE Goal
  BY <1>11 DEF AskFails, Goto, Release, Fault
<1>12. ASSUME NEW a \in Attempts, Put(a) PROVE Goal
  BY <1>12 DEF Put, Goto
<1>13. ASSUME NEW a \in Attempts, PutFails(a) PROVE Goal
  BY <1>13 DEF PutFails, Goto, Release, Fault
<1>14. ASSUME NEW a \in Attempts, Die(a) PROVE Goal
  BY <1>14 DEF Die, Goto, Fault
<1>15. ASSUME NEW a \in Attempts, Answer(a) PROVE Goal
  BY <1>15 DEF Answer
<1>16. ASSUME NEW a \in Attempts, Deadline(a) PROVE Goal
  BY <1>16 DEF Deadline
<1>17. ASSUME NEW p \in Polls, NEW a \in Attempts, ReadTicket(p, a) PROVE Goal
  BY <1>17 DEF ReadTicket
<1>18. ASSUME NEW p \in Polls, Outcome(p) PROVE Goal
  BY <1>18 DEF Outcome, Step, Found, Fault
<1>19. ASSUME NEW p \in Polls, Consume(p) PROVE Goal
  BY <1>19 DEF Consume, Found
<1>20. ASSUME NEW p \in Polls, Deny(p) PROVE Goal
  BY <1>20 DEF Deny, Found
<1>21. ASSUME NEW p \in Polls, ConsumeFails(p) PROVE Goal
  BY <1>21 DEF ConsumeFails, Found, Fault
<1>22. ASSUME NEW p \in Polls, ReleaseLock(p) PROVE Goal
  BY <1>22 DEF ReleaseLock, Step, Release, Fault
<1>23. ASSUME NEW p \in Polls, Take(p) PROVE Goal
  BY <1>23 DEF Take, Step, Fault
<1>24. ASSUME NEW p \in Polls, Link(p) PROVE Goal
  BY <1>24 DEF Link, Step
<1>25. ASSUME NEW p \in Polls, LinkFails(p) PROVE Goal
  BY <1>25 DEF LinkFails, Step, Found, Fault
<1>26. ASSUME NEW p \in Polls, PutBack(p) PROVE Goal
  BY <1>26 DEF PutBack, Step, Fault
<1>27. ASSUME NEW p \in Polls, PollDies(p) PROVE Goal
  BY <1>27 DEF PollDies, Step, Fault
<1> QED BY <1>1, <1>2, <1>3, <1>4, <1>5, <1>6, <1>7, <1>8, <1>9, <1>10, <1>11, <1>12, <1>13, <1>14, <1>15, <1>16, <1>17, <1>18, <1>19, <1>20, <1>21, <1>22, <1>23, <1>24, <1>25, <1>26, <1>27 DEF Next, Attempt, Polling

\* Every step keeps AskedFirst.
LEMMA AskedFirstStep == IInv /\ Next => AskedFirst'
<1> SUFFICES ASSUME IInv, Next PROVE AskedFirst'
  OBVIOUS
<1> DEFINE Goal == AskedFirst'
<1> USE LinkPairingAssumption
<1> USE DEF IInv, TypeOK, Free, Asking, PollSteps, Statuses, Questions, AskedFirst
<1>1. CASE CodeEnds
  BY <1>1 DEF CodeEnds
<1>2. CASE LockEnds
  BY <1>2 DEF LockEnds
<1>3. ASSUME NEW a \in Attempts, Find(a) PROVE Goal
  BY <1>3 DEF Find, Goto
<1>4. ASSUME NEW a \in Attempts, Claim(a) PROVE Goal
  BY <1>4 DEF Claim, Goto
<1>5. ASSUME NEW a \in Attempts, CheckAsks(a) PROVE Goal
  BY <1>5 DEF CheckAsks, Goto, Release
<1>6. ASSUME NEW a \in Attempts, CheckDay(a) PROVE Goal
  BY <1>6 DEF CheckDay, Goto, Release
<1>7. ASSUME NEW a \in Attempts, Reach(a) PROVE Goal
  BY <1>7 DEF Reach, Goto, Release
<1>8. ASSUME NEW a \in Attempts, CountDay(a) PROVE Goal
  BY <1>8 DEF CountDay, Goto
<1>9. ASSUME NEW a \in Attempts, CountCode(a) PROVE Goal
  BY <1>9 DEF CountCode, Goto
<1>10. ASSUME NEW a \in Attempts, Post(a) PROVE Goal
  BY <1>10 DEF Post, Goto
<1>11. ASSUME NEW a \in Attempts, AskFails(a) PROVE Goal
  BY <1>11 DEF AskFails, Goto, Release, Fault
<1>12. ASSUME NEW a \in Attempts, Put(a) PROVE Goal
  BY <1>12 DEF Put, Goto
<1>13. ASSUME NEW a \in Attempts, PutFails(a) PROVE Goal
  BY <1>13 DEF PutFails, Goto, Release, Fault
<1>14. ASSUME NEW a \in Attempts, Die(a) PROVE Goal
  BY <1>14 DEF Die, Goto, Fault
<1>15. ASSUME NEW a \in Attempts, Answer(a) PROVE Goal
  BY <1>15 DEF Answer
<1>16. ASSUME NEW a \in Attempts, Deadline(a) PROVE Goal
  BY <1>16 DEF Deadline
<1>17. ASSUME NEW p \in Polls, NEW a \in Attempts, ReadTicket(p, a) PROVE Goal
  BY <1>17 DEF ReadTicket
<1>18. ASSUME NEW p \in Polls, Outcome(p) PROVE Goal
  BY <1>18 DEF Outcome, Step, Found, Fault
<1>19. ASSUME NEW p \in Polls, Consume(p) PROVE Goal
  BY <1>19 DEF Consume, Found
<1>20. ASSUME NEW p \in Polls, Deny(p) PROVE Goal
  BY <1>20 DEF Deny, Found
<1>21. ASSUME NEW p \in Polls, ConsumeFails(p) PROVE Goal
  BY <1>21 DEF ConsumeFails, Found, Fault
<1>22. ASSUME NEW p \in Polls, ReleaseLock(p) PROVE Goal
  BY <1>22 DEF ReleaseLock, Step, Release, Fault
<1>23. ASSUME NEW p \in Polls, Take(p) PROVE Goal
  BY <1>23 DEF Take, Step, Fault
<1>24. ASSUME NEW p \in Polls, Link(p) PROVE Goal
  BY <1>24 DEF Link, Step
<1>25. ASSUME NEW p \in Polls, LinkFails(p) PROVE Goal
  BY <1>25 DEF LinkFails, Step, Found, Fault
<1>26. ASSUME NEW p \in Polls, PutBack(p) PROVE Goal
  BY <1>26 DEF PutBack, Step, Fault
<1>27. ASSUME NEW p \in Polls, PollDies(p) PROVE Goal
  BY <1>27 DEF PollDies, Step, Fault
<1> QED BY <1>1, <1>2, <1>3, <1>4, <1>5, <1>6, <1>7, <1>8, <1>9, <1>10, <1>11, <1>12, <1>13, <1>14, <1>15, <1>16, <1>17, <1>18, <1>19, <1>20, <1>21, <1>22, <1>23, <1>24, <1>25, <1>26, <1>27 DEF Next, Attempt, Polling

\* Every step keeps AnsweredFirst.
LEMMA AnsweredFirstStep == IInv /\ Next => AnsweredFirst'
<1> SUFFICES ASSUME IInv, Next PROVE AnsweredFirst'
  OBVIOUS
<1> DEFINE Goal == AnsweredFirst'
<1> USE LinkPairingAssumption
<1> USE DEF IInv, TypeOK, Free, Asking, PollSteps, Statuses, Questions, AnsweredFirst
<1>1. CASE CodeEnds
  BY <1>1 DEF CodeEnds
<1>2. CASE LockEnds
  BY <1>2 DEF LockEnds
<1>3. ASSUME NEW a \in Attempts, Find(a) PROVE Goal
  BY <1>3 DEF Find, Goto
<1>4. ASSUME NEW a \in Attempts, Claim(a) PROVE Goal
  BY <1>4 DEF Claim, Goto
<1>5. ASSUME NEW a \in Attempts, CheckAsks(a) PROVE Goal
  BY <1>5 DEF CheckAsks, Goto, Release
<1>6. ASSUME NEW a \in Attempts, CheckDay(a) PROVE Goal
  BY <1>6 DEF CheckDay, Goto, Release
<1>7. ASSUME NEW a \in Attempts, Reach(a) PROVE Goal
  BY <1>7 DEF Reach, Goto, Release
<1>8. ASSUME NEW a \in Attempts, CountDay(a) PROVE Goal
  BY <1>8 DEF CountDay, Goto
<1>9. ASSUME NEW a \in Attempts, CountCode(a) PROVE Goal
  BY <1>9 DEF CountCode, Goto
<1>10. ASSUME NEW a \in Attempts, Post(a) PROVE Goal
  BY <1>10 DEF Post, Goto
<1>11. ASSUME NEW a \in Attempts, AskFails(a) PROVE Goal
  BY <1>11 DEF AskFails, Goto, Release, Fault
<1>12. ASSUME NEW a \in Attempts, Put(a) PROVE Goal
  BY <1>12 DEF Put, Goto
<1>13. ASSUME NEW a \in Attempts, PutFails(a) PROVE Goal
  BY <1>13 DEF PutFails, Goto, Release, Fault
<1>14. ASSUME NEW a \in Attempts, Die(a) PROVE Goal
  BY <1>14 DEF Die, Goto, Fault
<1>15. ASSUME NEW a \in Attempts, Answer(a) PROVE Goal
  BY <1>15 DEF Answer
<1>16. ASSUME NEW a \in Attempts, Deadline(a) PROVE Goal
  BY <1>16 DEF Deadline
<1>17. ASSUME NEW p \in Polls, NEW a \in Attempts, ReadTicket(p, a) PROVE Goal
  BY <1>17 DEF ReadTicket
<1>18. ASSUME NEW p \in Polls, Outcome(p) PROVE Goal
  BY <1>18 DEF Outcome, Step, Found, Fault
<1>19. ASSUME NEW p \in Polls, Consume(p) PROVE Goal
  BY <1>19 DEF Consume, Found
<1>20. ASSUME NEW p \in Polls, Deny(p) PROVE Goal
  BY <1>20 DEF Deny, Found
<1>21. ASSUME NEW p \in Polls, ConsumeFails(p) PROVE Goal
  BY <1>21 DEF ConsumeFails, Found, Fault
<1>22. ASSUME NEW p \in Polls, ReleaseLock(p) PROVE Goal
  BY <1>22 DEF ReleaseLock, Step, Release, Fault
<1>23. ASSUME NEW p \in Polls, Take(p) PROVE Goal
  BY <1>23 DEF Take, Step, Fault
<1>24. ASSUME NEW p \in Polls, Link(p) PROVE Goal
  BY <1>24 DEF Link, Step
<1>25. ASSUME NEW p \in Polls, LinkFails(p) PROVE Goal
  BY <1>25 DEF LinkFails, Step, Found, Fault
<1>26. ASSUME NEW p \in Polls, PutBack(p) PROVE Goal
  BY <1>26 DEF PutBack, Step, Fault
<1>27. ASSUME NEW p \in Polls, PollDies(p) PROVE Goal
  BY <1>27 DEF PollDies, Step, Fault
<1> QED BY <1>1, <1>2, <1>3, <1>4, <1>5, <1>6, <1>7, <1>8, <1>9, <1>10, <1>11, <1>12, <1>13, <1>14, <1>15, <1>16, <1>17, <1>18, <1>19, <1>20, <1>21, <1>22, <1>23, <1>24, <1>25, <1>26, <1>27 DEF Next, Attempt, Polling

\* Every step keeps OpenHolds.
LEMMA OpenHoldsStep == IInv /\ Next => OpenHolds'
<1> SUFFICES ASSUME IInv, Next PROVE OpenHolds'
  OBVIOUS
<1> DEFINE Goal == OpenHolds'
<1> USE LinkPairingAssumption
<1> USE DEF IInv, TypeOK, Free, Asking, PollSteps, Statuses, Questions, AskingHolds, AskedFirst, AnsweredFirst, OpenHolds, Open
<1>1. CASE CodeEnds
  BY <1>1 DEF CodeEnds
<1>2. CASE LockEnds
  BY <1>2 DEF LockEnds
<1>3. ASSUME NEW a \in Attempts, Find(a) PROVE Goal
  BY <1>3 DEF Find, Goto
<1>4. ASSUME NEW a \in Attempts, Claim(a) PROVE Goal
  BY <1>4 DEF Claim, Goto
<1>5. ASSUME NEW a \in Attempts, CheckAsks(a) PROVE Goal
  BY <1>5 DEF CheckAsks, Goto, Release
<1>6. ASSUME NEW a \in Attempts, CheckDay(a) PROVE Goal
  BY <1>6 DEF CheckDay, Goto, Release
<1>7. ASSUME NEW a \in Attempts, Reach(a) PROVE Goal
  BY <1>7 DEF Reach, Goto, Release
<1>8. ASSUME NEW a \in Attempts, CountDay(a) PROVE Goal
  BY <1>8 DEF CountDay, Goto
<1>9. ASSUME NEW a \in Attempts, CountCode(a) PROVE Goal
  BY <1>9 DEF CountCode, Goto
<1>10. ASSUME NEW a \in Attempts, Post(a) PROVE Goal
  BY <1>10 DEF Post, Goto
<1>11. ASSUME NEW a \in Attempts, AskFails(a) PROVE Goal
  BY <1>11 DEF AskFails, Goto, Release, Fault
<1>12. ASSUME NEW a \in Attempts, Put(a) PROVE Goal
  BY <1>12 DEF Put, Goto
<1>13. ASSUME NEW a \in Attempts, PutFails(a) PROVE Goal
  BY <1>13 DEF PutFails, Goto, Release, Fault
<1>14. ASSUME NEW a \in Attempts, Die(a) PROVE Goal
  BY <1>14 DEF Die, Goto, Fault
<1>15. ASSUME NEW a \in Attempts, Answer(a) PROVE Goal
  BY <1>15 DEF Answer
<1>16. ASSUME NEW a \in Attempts, Deadline(a) PROVE Goal
  BY <1>16 DEF Deadline
<1>17. ASSUME NEW p \in Polls, NEW a \in Attempts, ReadTicket(p, a) PROVE Goal
  BY <1>17 DEF ReadTicket
<1>18. ASSUME NEW p \in Polls, Outcome(p) PROVE Goal
  BY <1>18 DEF Outcome, Step, Found, Fault
<1>19. ASSUME NEW p \in Polls, Consume(p) PROVE Goal
  BY <1>19 DEF Consume, Found
<1>20. ASSUME NEW p \in Polls, Deny(p) PROVE Goal
  BY <1>20 DEF Deny, Found
<1>21. ASSUME NEW p \in Polls, ConsumeFails(p) PROVE Goal
  BY <1>21 DEF ConsumeFails, Found, Fault
<1>22. ASSUME NEW p \in Polls, ReleaseLock(p) PROVE Goal
  BY <1>22 DEF ReleaseLock, Step, Release, Fault
<1>23. ASSUME NEW p \in Polls, Take(p) PROVE Goal
  BY <1>23 DEF Take, Step, Fault
<1>24. ASSUME NEW p \in Polls, Link(p) PROVE Goal
  BY <1>24 DEF Link, Step
<1>25. ASSUME NEW p \in Polls, LinkFails(p) PROVE Goal
  BY <1>25 DEF LinkFails, Step, Found, Fault
<1>26. ASSUME NEW p \in Polls, PutBack(p) PROVE Goal
  BY <1>26 DEF PutBack, Step, Fault
<1>27. ASSUME NEW p \in Polls, PollDies(p) PROVE Goal
  BY <1>27 DEF PollDies, Step, Fault
<1> QED BY <1>1, <1>2, <1>3, <1>4, <1>5, <1>6, <1>7, <1>8, <1>9, <1>10, <1>11, <1>12, <1>13, <1>14, <1>15, <1>16, <1>17, <1>18, <1>19, <1>20, <1>21, <1>22, <1>23, <1>24, <1>25, <1>26, <1>27 DEF Next, Attempt, Polling

\* Every step keeps Counted.
LEMMA CountedStep == IInv /\ Next => Counted'
<1> SUFFICES ASSUME IInv, Next PROVE Counted'
  OBVIOUS
<1> DEFINE Goal == Counted'
<1> USE LinkPairingAssumption
<1> USE DEF IInv, TypeOK, Free, Asking, PollSteps, Statuses, Questions, AskingHolds, Counted
<1>a. \A a \in Attempts : /\ IsFiniteSet(posted \cup {a})
                           /\ Cardinality(posted \cup {a}) \in Nat
                           /\ Cardinality(posted \cup {a}) <= Cardinality(posted) + 1
  <2> TAKE a \in Attempts
  <2>1. IsFiniteSet(posted)
    OBVIOUS
  <2>2. /\ IsFiniteSet(posted \cup {a})
        /\ Cardinality(posted \cup {a}) =
               IF a \in posted THEN Cardinality(posted) ELSE Cardinality(posted) + 1
    BY <2>1, FS_AddElement
  <2>3. Cardinality(posted) \in Nat
    BY <2>1, FS_CardinalityType
  <2> QED BY <2>2, <2>3
<1>b. Cardinality(posted) \in Nat
  BY FS_CardinalityType
<1> USE <1>a, <1>b
<1>1. CASE CodeEnds
  BY <1>1 DEF CodeEnds
<1>2. CASE LockEnds
  BY <1>2 DEF LockEnds
<1>3. ASSUME NEW a \in Attempts, Find(a) PROVE Goal
  BY <1>3 DEF Find, Goto
<1>4. ASSUME NEW a \in Attempts, Claim(a) PROVE Goal
  BY <1>4 DEF Claim, Goto
<1>5. ASSUME NEW a \in Attempts, CheckAsks(a) PROVE Goal
  BY <1>5 DEF CheckAsks, Goto, Release
<1>6. ASSUME NEW a \in Attempts, CheckDay(a) PROVE Goal
  BY <1>6 DEF CheckDay, Goto, Release
<1>7. ASSUME NEW a \in Attempts, Reach(a) PROVE Goal
  BY <1>7 DEF Reach, Goto, Release
<1>8. ASSUME NEW a \in Attempts, CountDay(a) PROVE Goal
  BY <1>8 DEF CountDay, Goto
<1>9. ASSUME NEW a \in Attempts, CountCode(a) PROVE Goal
  BY <1>9 DEF CountCode, Goto
<1>10. ASSUME NEW a \in Attempts, Post(a) PROVE Goal
  <2>1. posted' = posted \cup {a} /\ asks' = asks /\ pc[a] = "post"
    BY <1>10 DEF Post
  <2>2. pc' = [pc EXCEPT ![a] = "put"]
    BY <1>10 DEF Post, Goto
  <2>3. \A b \in Attempts : b # a => pc[b] \notin Asking
    BY <2>1
  <2>4. /\ IsFiniteSet(posted') /\ Cardinality(posted') \in Nat
        /\ Cardinality(posted') <= Cardinality(posted) + 1
    BY <2>1
  <2>5. Cardinality(posted') <= asks'
    BY <2>1, <2>4
  <2> QED BY <2>1, <2>2, <2>3, <2>4, <2>5
<1>11. ASSUME NEW a \in Attempts, AskFails(a) PROVE Goal
  <2>1. \A b \in Attempts : b # a => pc[b] \notin Asking
    BY <1>11 DEF AskFails
  <2>2. /\ pc' \in [Attempts -> Asking \cup {"idle", "claim", "unasked", "asked", "ended"}]
        /\ \A b \in Attempts : pc'[b] \notin Asking
    BY <1>11, <2>1 DEF AskFails, Goto
  <2>3. CASE pc[a] = "post"
    <3>1. asks' = asks /\ posted' \in {posted, posted \cup {a}}
      BY <1>11, <2>3 DEF AskFails
    <3>2. /\ IsFiniteSet(posted') /\ Cardinality(posted') \in Nat
          /\ Cardinality(posted') <= Cardinality(posted) + 1
      <4>1. IsFiniteSet(posted) /\ Cardinality(posted) <= Cardinality(posted) + 1
        OBVIOUS
      <4>2. CASE posted' = posted
        BY <1>b, <4>1, <4>2
      <4>3. CASE posted' = posted \cup {a}
        BY <1>a, <4>3
      <4> QED BY <3>1, <4>2, <4>3
    <3> QED BY <2>2, <2>3, <3>1, <3>2
  <2>4. CASE pc[a] # "post"
    <3>1. posted' = posted /\ asks' \in {asks} \cup IF pc[a] = "count_code" THEN {asks + 1} ELSE {}
      BY <1>11, <2>4 DEF AskFails
    <3> QED BY <2>2, <3>1
  <2> QED BY <2>3, <2>4
<1>12. ASSUME NEW a \in Attempts, Put(a) PROVE Goal
  BY <1>12 DEF Put, Goto
<1>13. ASSUME NEW a \in Attempts, PutFails(a) PROVE Goal
  BY <1>13 DEF PutFails, Goto, Release, Fault
<1>14. ASSUME NEW a \in Attempts, Die(a) PROVE Goal
  BY <1>14 DEF Die, Goto, Fault
<1>15. ASSUME NEW a \in Attempts, Answer(a) PROVE Goal
  BY <1>15 DEF Answer
<1>16. ASSUME NEW a \in Attempts, Deadline(a) PROVE Goal
  BY <1>16 DEF Deadline
<1>17. ASSUME NEW p \in Polls, NEW a \in Attempts, ReadTicket(p, a) PROVE Goal
  BY <1>17 DEF ReadTicket
<1>18. ASSUME NEW p \in Polls, Outcome(p) PROVE Goal
  BY <1>18 DEF Outcome, Step, Found, Fault
<1>19. ASSUME NEW p \in Polls, Consume(p) PROVE Goal
  BY <1>19 DEF Consume, Found
<1>20. ASSUME NEW p \in Polls, Deny(p) PROVE Goal
  BY <1>20 DEF Deny, Found
<1>21. ASSUME NEW p \in Polls, ConsumeFails(p) PROVE Goal
  BY <1>21 DEF ConsumeFails, Found, Fault
<1>22. ASSUME NEW p \in Polls, ReleaseLock(p) PROVE Goal
  BY <1>22 DEF ReleaseLock, Step, Release, Fault
<1>23. ASSUME NEW p \in Polls, Take(p) PROVE Goal
  BY <1>23 DEF Take, Step, Fault
<1>24. ASSUME NEW p \in Polls, Link(p) PROVE Goal
  BY <1>24 DEF Link, Step
<1>25. ASSUME NEW p \in Polls, LinkFails(p) PROVE Goal
  BY <1>25 DEF LinkFails, Step, Found, Fault
<1>26. ASSUME NEW p \in Polls, PutBack(p) PROVE Goal
  BY <1>26 DEF PutBack, Step, Fault
<1>27. ASSUME NEW p \in Polls, PollDies(p) PROVE Goal
  BY <1>27 DEF PollDies, Step, Fault
<1> QED BY <1>1, <1>2, <1>3, <1>4, <1>5, <1>6, <1>7, <1>8, <1>9, <1>10, <1>11, <1>12, <1>13, <1>14, <1>15, <1>16, <1>17, <1>18, <1>19, <1>20, <1>21, <1>22, <1>23, <1>24, <1>25, <1>26, <1>27 DEF Next, Attempt, Polling

\* Every step keeps OneWinner.
LEMMA OneWinnerStep == IInv /\ Next => OneWinner'
<1> SUFFICES ASSUME IInv, Next PROVE OneWinner'
  OBVIOUS
<1> DEFINE Goal == OneWinner'
<1> USE LinkPairingAssumption
<1> USE DEF IInv, TypeOK, Free, Asking, PollSteps, Statuses, Links, OneWinner, Winner, Questions, AnsweredFirst
<1>1. CASE CodeEnds
  BY <1>1 DEF CodeEnds
<1>2. CASE LockEnds
  BY <1>2 DEF LockEnds
<1>3. ASSUME NEW a \in Attempts, Find(a) PROVE Goal
  BY <1>3 DEF Find, Goto
<1>4. ASSUME NEW a \in Attempts, Claim(a) PROVE Goal
  BY <1>4 DEF Claim, Goto
<1>5. ASSUME NEW a \in Attempts, CheckAsks(a) PROVE Goal
  BY <1>5 DEF CheckAsks, Goto, Release
<1>6. ASSUME NEW a \in Attempts, CheckDay(a) PROVE Goal
  BY <1>6 DEF CheckDay, Goto, Release
<1>7. ASSUME NEW a \in Attempts, Reach(a) PROVE Goal
  BY <1>7 DEF Reach, Goto, Release
<1>8. ASSUME NEW a \in Attempts, CountDay(a) PROVE Goal
  BY <1>8 DEF CountDay, Goto
<1>9. ASSUME NEW a \in Attempts, CountCode(a) PROVE Goal
  BY <1>9 DEF CountCode, Goto
<1>10. ASSUME NEW a \in Attempts, Post(a) PROVE Goal
  BY <1>10 DEF Post, Goto
<1>11. ASSUME NEW a \in Attempts, AskFails(a) PROVE Goal
  BY <1>11 DEF AskFails, Goto, Release, Fault
<1>12. ASSUME NEW a \in Attempts, Put(a) PROVE Goal
  BY <1>12 DEF Put, Goto
<1>13. ASSUME NEW a \in Attempts, PutFails(a) PROVE Goal
  BY <1>13 DEF PutFails, Goto, Release, Fault
<1>14. ASSUME NEW a \in Attempts, Die(a) PROVE Goal
  BY <1>14 DEF Die, Goto, Fault
<1>15. ASSUME NEW a \in Attempts, Answer(a) PROVE Goal
  BY <1>15 DEF Answer
<1>16. ASSUME NEW a \in Attempts, Deadline(a) PROVE Goal
  BY <1>16 DEF Deadline
<1>17. ASSUME NEW p \in Polls, NEW a \in Attempts, ReadTicket(p, a) PROVE Goal
  BY <1>17 DEF ReadTicket
<1>18. ASSUME NEW p \in Polls, Outcome(p) PROVE Goal
  <2>1. \A q \in Polls : poll'[q].of = poll[q].of
    BY <1>18 DEF Outcome, Step, Found
  <2>2. \A q \in Polls : poll'[q].status = "approved" => poll[q].status = "approved"
    BY <1>18 DEF Outcome, Step, Found
  <2>3. \A q \in Polls : poll'[q].pc \in {"link", "put", "idle"} => poll'[q] = poll[q]
    BY <1>18 DEF Outcome, Step, Found
  <2>4. linked' = linked /\ ticket' = ticket /\ code' = code /\ reply' = reply
    BY <1>18 DEF Outcome
  <2>5. \A b \in Attempts : Winner(b)' => Winner(b)
    BY <2>1, <2>2, <2>4
  <2>6. \A q \in Polls : poll'[q].pc \in {"link", "put"} => poll'[q].status = "approved"
    BY <2>3
  <2>7. \A q \in Polls : poll'[q].pc = "idle" => poll'[q].status = "pending"
    BY <2>3
  <2> HIDE DEF Winner
  <2> QED BY <2>4, <2>5, <2>6, <2>7
<1>19. ASSUME NEW p \in Polls, Consume(p) PROVE Goal
  BY <1>19 DEF Consume, Found
<1>20. ASSUME NEW p \in Polls, Deny(p) PROVE Goal
  BY <1>20 DEF Deny, Found
<1>21. ASSUME NEW p \in Polls, ConsumeFails(p) PROVE Goal
  BY <1>21 DEF ConsumeFails, Found, Fault
<1>22. ASSUME NEW p \in Polls, ReleaseLock(p) PROVE Goal
  BY <1>22 DEF ReleaseLock, Step, Release, Fault
<1>23. ASSUME NEW p \in Polls, Take(p) PROVE Goal
  BY <1>23 DEF Take, Step, Fault
<1>24. ASSUME NEW p \in Polls, Link(p) PROVE Goal
  BY <1>24 DEF Link, Step
<1>25. ASSUME NEW p \in Polls, LinkFails(p) PROVE Goal
  <2> DEFINE a == poll[p].of
  <2>1. a \in Attempts /\ Winner(a)
    BY <1>25 DEF LinkFails
  <2>2. \A q \in Polls : poll'[q].of = poll[q].of
    BY <1>25 DEF LinkFails, Step, Found
  <2>3. \A q \in Polls : poll'[q].status = "approved" => poll[q].status = "approved"
    BY <1>25 DEF LinkFails, Step, Found
  <2>4. \A q \in Polls : poll'[q].pc \in {"link", "put"} => poll'[q].status = "approved"
    BY <1>25 DEF LinkFails, Step, Found
  <2>5. \A q \in Polls : poll'[q].pc = "idle" => poll'[q].status = "pending"
    BY <1>25 DEF LinkFails, Step, Found
  <2>6. /\ ticket' = ticket /\ code' = code /\ reply' = reply
        /\ linked' \subseteq linked \cup {a}
    BY <1>25 DEF LinkFails
  <2> HIDE DEF a
  <2>7. \A b \in Attempts : Winner(b)' => Winner(b)
    BY <2>1, <2>2, <2>3, <2>6
  <2> HIDE DEF Winner
  <2> QED BY <2>4, <2>5, <2>6, <2>7
<1>26. ASSUME NEW p \in Polls, PutBack(p) PROVE Goal
  BY <1>26 DEF PutBack, Step, Fault
<1>27. ASSUME NEW p \in Polls, PollDies(p) PROVE Goal
  BY <1>27 DEF PollDies, Step, Fault
<1> QED BY <1>1, <1>2, <1>3, <1>4, <1>5, <1>6, <1>7, <1>8, <1>9, <1>10, <1>11, <1>12, <1>13, <1>14, <1>15, <1>16, <1>17, <1>18, <1>19, <1>20, <1>21, <1>22, <1>23, <1>24, <1>25, <1>26, <1>27 DEF Next, Attempt, Polling

\* Every step keeps OnItsWay.
LEMMA OnItsWayStep == IInv /\ Next => OnItsWay'
<1> SUFFICES ASSUME IInv, Next PROVE OnItsWay'
  OBVIOUS
<1> DEFINE Goal == OnItsWay'
<1> USE LinkPairingAssumption
<1> USE DEF IInv, TypeOK, Free, Asking, PollSteps, Statuses, Links, OneWinner, OnItsWay
<1>1. CASE CodeEnds
  BY <1>1 DEF CodeEnds
<1>2. CASE LockEnds
  BY <1>2 DEF LockEnds
<1>3. ASSUME NEW a \in Attempts, Find(a) PROVE Goal
  BY <1>3 DEF Find, Goto
<1>4. ASSUME NEW a \in Attempts, Claim(a) PROVE Goal
  BY <1>4 DEF Claim, Goto
<1>5. ASSUME NEW a \in Attempts, CheckAsks(a) PROVE Goal
  BY <1>5 DEF CheckAsks, Goto, Release
<1>6. ASSUME NEW a \in Attempts, CheckDay(a) PROVE Goal
  BY <1>6 DEF CheckDay, Goto, Release
<1>7. ASSUME NEW a \in Attempts, Reach(a) PROVE Goal
  BY <1>7 DEF Reach, Goto, Release
<1>8. ASSUME NEW a \in Attempts, CountDay(a) PROVE Goal
  BY <1>8 DEF CountDay, Goto
<1>9. ASSUME NEW a \in Attempts, CountCode(a) PROVE Goal
  BY <1>9 DEF CountCode, Goto
<1>10. ASSUME NEW a \in Attempts, Post(a) PROVE Goal
  BY <1>10 DEF Post, Goto
<1>11. ASSUME NEW a \in Attempts, AskFails(a) PROVE Goal
  BY <1>11 DEF AskFails, Goto, Release, Fault
<1>12. ASSUME NEW a \in Attempts, Put(a) PROVE Goal
  BY <1>12 DEF Put, Goto
<1>13. ASSUME NEW a \in Attempts, PutFails(a) PROVE Goal
  BY <1>13 DEF PutFails, Goto, Release, Fault
<1>14. ASSUME NEW a \in Attempts, Die(a) PROVE Goal
  BY <1>14 DEF Die, Goto, Fault
<1>15. ASSUME NEW a \in Attempts, Answer(a) PROVE Goal
  BY <1>15 DEF Answer
<1>16. ASSUME NEW a \in Attempts, Deadline(a) PROVE Goal
  BY <1>16 DEF Deadline
<1>17. ASSUME NEW p \in Polls, NEW a \in Attempts, ReadTicket(p, a) PROVE Goal
  BY <1>17 DEF ReadTicket
<1>18. ASSUME NEW p \in Polls, Outcome(p) PROVE Goal
  BY <1>18 DEF Outcome, Step, Found, Fault
<1>19. ASSUME NEW p \in Polls, Consume(p) PROVE Goal
  BY <1>19 DEF Consume, Found
<1>20. ASSUME NEW p \in Polls, Deny(p) PROVE Goal
  BY <1>20 DEF Deny, Found
<1>21. ASSUME NEW p \in Polls, ConsumeFails(p) PROVE Goal
  BY <1>21 DEF ConsumeFails, Found, Fault
<1>22. ASSUME NEW p \in Polls, ReleaseLock(p) PROVE Goal
  BY <1>22 DEF ReleaseLock, Step, Release, Fault
<1>23. ASSUME NEW p \in Polls, Take(p) PROVE Goal
  BY <1>23 DEF Take, Step, Fault
<1>24. ASSUME NEW p \in Polls, Link(p) PROVE Goal
  BY <1>24 DEF Link, Step
<1>25. ASSUME NEW p \in Polls, LinkFails(p) PROVE Goal
  BY <1>25 DEF LinkFails, Step, Found, Fault
<1>26. ASSUME NEW p \in Polls, PutBack(p) PROVE Goal
  BY <1>26 DEF PutBack, Step, Fault
<1>27. ASSUME NEW p \in Polls, PollDies(p) PROVE Goal
  BY <1>27 DEF PollDies, Step, Fault
<1> QED BY <1>1, <1>2, <1>3, <1>4, <1>5, <1>6, <1>7, <1>8, <1>9, <1>10, <1>11, <1>12, <1>13, <1>14, <1>15, <1>16, <1>17, <1>18, <1>19, <1>20, <1>21, <1>22, <1>23, <1>24, <1>25, <1>26, <1>27 DEF Next, Attempt, Polling

\* Every step, stuttering ones included, keeps the invariant.
LEMMA StepInv == IInv /\ [Next]_vars => IInv'
<1> SUFFICES ASSUME IInv, [Next]_vars PROVE IInv'
  OBVIOUS
<1>1. CASE Next
  BY <1>1, TypeStep, AskingHoldsStep, AskedFirstStep, AnsweredFirstStep, OpenHoldsStep,
     CountedStep, OneWinnerStep, OnItsWayStep DEF IInv, Questions, Links
<1>2. CASE UNCHANGED vars
  BY <1>2 DEF vars, IInv, TypeOK, Questions, Links, AskingHolds, AskedFirst, AnsweredFirst,
              OpenHolds, Open, Counted, OneWinner, Winner, OnItsWay
<1> QED BY <1>1, <1>2

\* The invariant of the pairing holds in every reachable state.
THEOREM PairInvariant == Spec => []IInv
BY InitInv, StepInv, PTL DEF Spec

\* One question at a time, and no more than MAX_CODE_ASKS of a code: the lock
\* of claim is with the attempt whose question is open, and every question was
\* counted under it before it was posted.
THEOREM PairQuestions == Spec => []QuestionsBounded
<1>1. IInv => OneQuestion
  BY DEF IInv, Questions, OpenHolds, OneQuestion
<1>2. IInv => AsksBounded
  <2> SUFFICES ASSUME IInv PROVE AsksBounded
    OBVIOUS
  <2>1. Cardinality(posted) \in Nat
    BY FS_CardinalityType DEF IInv, Questions, Counted
  <2> QED BY <2>1, LinkPairingAssumption DEF IInv, TypeOK, Questions, Counted, AsksBounded
<1>3. IInv => QuestionsBounded
  BY <1>1, <1>2 DEF QuestionsBounded
<1> QED BY PairInvariant, <1>3, PTL

\* A code links one attempt, which the desktop approved, and without faults it
\* is not consumed for nothing: consume_code has one winner, and only what a
\* poll of the winner found or put back is linked.
THEOREM PairOnce == Spec => []PairsOnce
<1>1. IInv => LinksOnce
  BY DEF IInv, TypeOK, Links, OneWinner, Winner, LinksOnce
<1>2. IInv => ApprovalNotLost
  BY DEF IInv, Links, OnItsWay, ApprovalNotLost
<1>3. IInv => PairsOnce
  BY <1>1, <1>2 DEF PairsOnce
<1> QED BY PairInvariant, <1>3, PTL

(***************************************************************************)
(* The hub.                                                                *)
(***************************************************************************)

\* Waking or replacing a poll changes nothing else about it.
AlikePolls(x, y) ==
    /\ y.dev = x.dev /\ y.pc = x.pc /\ y.since = x.since /\ y.from = x.from
    /\ y.shake = x.shake /\ y.ready = x.ready /\ y.ok = x.ok
    /\ y.winner = x.winner /\ y.cmd = x.cmd

SamePoll(v) == AlikePolls(wait[v], wait'[v])

SamePolls == \A v \in Hub!Waits : SamePoll(v)

\* Poll w, and only it, goes to pc with the given cursor, commands, winner
\* and command at hand.
PollStep(w, pc_, from, ready, winner, cmd) ==
    /\ \A v \in Hub!Waits \ {w} : SamePoll(v)
    /\ wait'[w].dev = wait[w].dev /\ wait'[w].since = wait[w].since
    /\ wait'[w].shake = wait[w].shake
    /\ wait'[w].pc = pc_ /\ wait'[w].from = from /\ wait'[w].ready = ready
    /\ wait'[w].winner = winner /\ wait'[w].cmd = cmd

Typed == wait \in [Hub!Waits -> Hub!PollRecords]

LEMMA HubConstants ==
    /\ Devices \subseteq Nat \ {0} /\ Answers \subseteq Nat \ {0}
    /\ Devices # {} /\ IsFiniteSet(Devices)
    /\ MaxWaits \in Nat /\ MaxActive \in Nat \ {0} /\ MaxFaults \in Nat
BY HubOK DEF Hub!RemoteHubAssumption, Hub!IsFiniteSet, IsFiniteSet

LEMMA MarkedPoll ==
    ASSUME NEW x \in Hub!PollRecords, NEW y,
           y \in {x, [x EXCEPT !.woken = TRUE], [x EXCEPT !.replaced = TRUE]}
    PROVE  y \in Hub!PollRecords /\ AlikePolls(x, y)
<1>1. CASE y = x
  BY <1>1 DEF AlikePolls
<1>2. CASE y = [x EXCEPT !.woken = TRUE]
  BY <1>2 DEF AlikePolls, Hub!PollRecords
<1>3. CASE y = [x EXCEPT !.replaced = TRUE]
  BY <1>3 DEF AlikePolls, Hub!PollRecords
<1> QED BY <1>1, <1>2, <1>3

\* A command that is stored leaves the polls where they are.
LEMMA StoreEffect ==
    ASSUME Typed, NEW c \in Commands, Hub!Store(c)
    PROVE  Typed' /\ SamePolls
<1>2. \A v \in Hub!Waits :
        wait[v] \in Hub!PollRecords /\ wait'[v] \in {wait[v], [wait[v] EXCEPT !.woken = TRUE]}
  BY DEF Typed, Hub!Store
<1>3. ASSUME NEW v \in Hub!Waits PROVE wait'[v] \in Hub!PollRecords /\ SamePoll(v)
  <2> DEFINE x == wait[v]
             y == wait'[v]
  <2>1. x \in Hub!PollRecords /\ y \in {x, [x EXCEPT !.woken = TRUE], [x EXCEPT !.replaced = TRUE]}
    BY <1>2
  <2> HIDE DEF x, y
  <2>2. y \in Hub!PollRecords /\ AlikePolls(x, y)
    BY <2>1, MarkedPoll
  <2> QED BY <2>2 DEF x, y, SamePoll
<1>4. wait' = [v \in Hub!Waits |-> wait'[v]]
  BY DEF Hub!Store
<1> QED BY <1>3, <1>4 DEF Typed, SamePolls

LEMMA PollUpdate ==
    ASSUME Typed, NEW w \in Hub!Waits, NEW r \in Hub!PollRecords,
           r.dev = wait[w].dev, r.since = wait[w].since, r.shake = wait[w].shake,
           wait' = [wait EXCEPT ![w] = r]
    PROVE  /\ Typed' /\ wait'[w].ok = r.ok
           /\ PollStep(w, r.pc, r.from, r.ready, r.winner, r.cmd)
<1>1. wait' \in [Hub!Waits -> Hub!PollRecords] /\ wait'[w] = r
  BY DEF Typed
<1>2. \A v \in Hub!Waits \ {w} : wait'[v] = wait[v]
  BY DEF Typed
<1> QED BY <1>1, <1>2 DEF Typed, PollStep, SamePoll, AlikePolls

\* The steps of a poll, by what they do to it.
LEMMA AnnounceEffect ==
    ASSUME Typed, NEW w \in Hub!Waits, Hub!Announce(w)
    PROVE  /\ Typed' /\ wait'[w].ok = TRUE
           /\ PollStep(w, IF wait[w].shake THEN "shake" ELSE "scan", wait[w].from, wait[w].ready,
                       wait[w].winner, wait[w].cmd)
<1> DEFINE x == wait[w]
           to == IF x.shake THEN "shake" ELSE "scan"
           r == [x EXCEPT !.pc = to, !.ok = TRUE]
<1>1. x \in Hub!PollRecords
  BY DEF Typed
<1>2. to \in {"shake", "scan"}
  OBVIOUS
<1>3. wait' = [wait EXCEPT ![w] = r]
  BY <1>1, <1>2 DEF Typed, Hub!Announce
<1>4. r \in Hub!PollRecords /\ r.dev = x.dev /\ r.since = x.since /\ r.shake = x.shake
      /\ r.pc = to /\ r.from = x.from /\ r.ready = x.ready /\ r.ok = TRUE
      /\ r.winner = x.winner /\ r.cmd = x.cmd
  <2> HIDE DEF x, to
  <2> QED BY <1>1, <1>2 DEF Hub!PollRecords
<1> HIDE DEF r
<1> QED BY <1>3, <1>4, PollUpdate

LEMMA UnannouncedEffect ==
    ASSUME Typed, NEW w \in Hub!Waits, Hub!AnnounceFails(w)
    PROVE  /\ Typed' /\ wait'[w].ok = wait[w].ok
           /\ PollStep(w, IF wait[w].shake THEN "shake" ELSE "scan", wait[w].from, wait[w].ready,
                       wait[w].winner, wait[w].cmd)
<1> DEFINE x == wait[w]
           to == IF x.shake THEN "shake" ELSE "scan"
           r == [x EXCEPT !.pc = to]
<1>1. x \in Hub!PollRecords
  BY DEF Typed
<1>2. to \in {"shake", "scan"}
  OBVIOUS
<1>3. wait' = [wait EXCEPT ![w] = r]
  BY <1>1, <1>2 DEF Typed, Hub!AnnounceFails, Hub!Go
<1>4. r \in Hub!PollRecords /\ r.dev = x.dev /\ r.since = x.since /\ r.shake = x.shake
      /\ r.pc = to /\ r.from = x.from /\ r.ready = x.ready /\ r.ok = x.ok
      /\ r.winner = x.winner /\ r.cmd = x.cmd
  <2> HIDE DEF x, to
  <2> QED BY <1>1, <1>2 DEF Hub!PollRecords
<1> HIDE DEF r
<1> QED BY <1>3, <1>4, PollUpdate

LEMMA HandshakeEffect ==
    ASSUME Typed, stream \in Seq(Commands), NEW w \in Hub!Waits, Hub!Handshake(w)
    PROVE  /\ Typed' /\ wait'[w].ok = wait[w].ok
           /\ PollStep(w, "respond", Len(stream), wait[w].ready, wait[w].winner, wait[w].cmd)
<1> DEFINE x == wait[w]
           end == Len(stream)
           r == [x EXCEPT !.pc = "respond", !.from = end]
<1>1. x \in Hub!PollRecords
  BY DEF Typed
<1>2. end \in Nat
  OBVIOUS
<1>3. wait' = [wait EXCEPT ![w] = r]
  BY <1>1, <1>2 DEF Typed, Hub!Handshake
<1>4. r \in Hub!PollRecords /\ r.dev = x.dev /\ r.since = x.since /\ r.shake = x.shake
      /\ r.pc = "respond" /\ r.from = end /\ r.ready = x.ready /\ r.ok = x.ok
      /\ r.winner = x.winner /\ r.cmd = x.cmd
  <2> HIDE DEF x, end
  <2> QED BY <1>1, <1>2 DEF Hub!PollRecords
<1> HIDE DEF r
<1> QED BY <1>3, <1>4, PollUpdate

LEMMA ReadDevicesEffect ==
    ASSUME Typed, NEW w \in Hub!Waits, Hub!ReadDevices(w),
           Hub!Winner \in Devices \cup {Hub!Nothing}
    PROVE  /\ Typed' /\ wait'[w].ok = wait[w].ok
           /\ PollStep(w, "next", wait[w].from, wait[w].ready, Hub!Winner, wait[w].cmd)
<1> DEFINE x == wait[w]
           first == Hub!Winner
           r == [x EXCEPT !.pc = "next", !.winner = first]
<1>1. x \in Hub!PollRecords
  BY DEF Typed
<1>2. first \in Devices \cup {Hub!Nothing}
  OBVIOUS
<1>3. wait' = [wait EXCEPT ![w] = r]
  BY <1>1, <1>2 DEF Typed, Hub!ReadDevices
<1>4. r \in Hub!PollRecords /\ r.dev = x.dev /\ r.since = x.since /\ r.shake = x.shake
      /\ r.pc = "next" /\ r.from = x.from /\ r.ready = x.ready /\ r.ok = x.ok
      /\ r.winner = first /\ r.cmd = x.cmd
  <2> HIDE DEF x, first
  <2> QED BY <1>1, <1>2 DEF Hub!PollRecords
<1> HIDE DEF r
<1> QED BY <1>3, <1>4, PollUpdate

AfterScanStep(w) ==
    /\ wait'[w].ok = wait[w].ok
    /\ PollStep(w, IF wait[w].ready = {} THEN "hold" ELSE "respond", wait[w].from,
                wait[w].ready, Hub!Nothing, Hub!Nothing)

LEMMA AfterScanEffect ==
    ASSUME Typed, NEW w \in Hub!Waits, wait' = [wait EXCEPT ![w] = Hub!AfterScan(w)]
    PROVE  Typed' /\ AfterScanStep(w)
<1> DEFINE x == wait[w]
           to == IF x.ready = {} THEN "hold" ELSE "respond"
           r == [x EXCEPT !.pc = to, !.winner = Hub!Nothing, !.cmd = Hub!Nothing]
<1>1. x \in Hub!PollRecords
  BY DEF Typed
<1>2. to \in {"hold", "respond"}
  OBVIOUS
<1>3. wait' = [wait EXCEPT ![w] = r]
  BY <1>1, <1>2 DEF Hub!AfterScan
<1>4. r \in Hub!PollRecords /\ r.dev = x.dev /\ r.since = x.since /\ r.shake = x.shake
      /\ r.pc = to /\ r.from = x.from /\ r.ready = x.ready /\ r.ok = x.ok
      /\ r.winner = Hub!Nothing /\ r.cmd = Hub!Nothing
  <2> HIDE DEF x, to
  <2> QED BY <1>1, <1>2 DEF Hub!PollRecords
<1> HIDE DEF r
<1> QED BY <1>3, <1>4, PollUpdate DEF AfterScanStep

LEMMA NextEffect ==
    ASSUME Typed, stream \in Seq(Commands), NEW w \in Hub!Waits, Hub!NextCommand(w)
    PROVE  LET c == stream[wait[w].from + 1]
               target == wait[w].winner \in {Hub!Nothing, wait[w].dev}
           IN  /\ Typed' /\ wait'[w].ok = wait[w].ok
               /\ \/ AfterScanStep(w)
                  \/ /\ wait[w].from < Len(stream)
                     /\ c \in expired \/ (~target /\ wait[w].ok)
                     /\ PollStep(w, "next", wait[w].from + 1, wait[w].ready,
                                 wait[w].winner, wait[w].cmd)
                  \/ /\ wait[w].from < Len(stream)
                     /\ PollStep(w, "check", wait[w].from, wait[w].ready, wait[w].winner, c)
<1> DEFINE x == wait[w]
           c == stream[x.from + 1]
           target == x.winner \in {Hub!Nothing, x.dev}
           on == x.from + 1
           p == [x EXCEPT !.from = on]
           q == [x EXCEPT !.pc = "check", !.cmd = c]
<1>1. x \in Hub!PollRecords /\ x.from \in Nat /\ x.pc = "next"
  BY DEF Typed, Hub!NextCommand, Hub!PollRecords
<1>2. CASE wait' = [wait EXCEPT ![w] = Hub!AfterScan(w)]
  BY <1>2, AfterScanEffect DEF AfterScanStep
<1>3. CASE /\ wait' = [wait EXCEPT ![w].from = @ + 1] /\ wait[w].from < Len(stream)
           /\ c \in expired \/ (~target /\ wait[w].ok)
  <2>1. wait' = [wait EXCEPT ![w] = p]
    BY <1>3
  <2>2. on \in Nat
    BY <1>1
  <2>3. p \in Hub!PollRecords /\ p.dev = x.dev /\ p.since = x.since /\ p.shake = x.shake
        /\ p.pc = x.pc /\ p.from = on /\ p.ready = x.ready /\ p.ok = x.ok
        /\ p.winner = x.winner /\ p.cmd = x.cmd
    <3> HIDE DEF x, on
    <3> QED BY <1>1, <2>2 DEF Hub!PollRecords
  <2>4. /\ Typed' /\ wait'[w].ok = wait[w].ok
        /\ PollStep(w, "next", wait[w].from + 1, wait[w].ready, wait[w].winner, wait[w].cmd)
    <3> HIDE DEF p
    <3> QED BY <1>1, <2>1, <2>3, PollUpdate
  <2> QED BY <1>3, <2>4
<1>4. CASE wait' = [wait EXCEPT ![w].pc = "check", ![w].cmd = c] /\ wait[w].from < Len(stream)
  <2>1. wait' = [wait EXCEPT ![w] = q]
    BY <1>4 DEF Typed
  <2>2. c \in Commands
    BY <1>1, <1>4
  <2>3. q \in Hub!PollRecords /\ q.dev = x.dev /\ q.since = x.since /\ q.shake = x.shake
        /\ q.pc = "check" /\ q.from = x.from /\ q.ready = x.ready /\ q.ok = x.ok
        /\ q.winner = x.winner /\ q.cmd = c
    <3> HIDE DEF x, c
    <3> QED BY <1>1, <2>2 DEF Hub!PollRecords
  <2>4. /\ Typed' /\ wait'[w].ok = wait[w].ok
        /\ PollStep(w, "check", wait[w].from, wait[w].ready, wait[w].winner, c)
    <3> HIDE DEF q, c
    <3> QED BY <2>1, <2>3, PollUpdate
  <2> QED BY <1>4, <2>4
<1>5. Len(stream) \in Nat
  OBVIOUS
<1>6. wait[w].from >= Len(stream) \/ wait[w].from < Len(stream)
  BY <1>1, <1>5
<1> QED BY <1>2, <1>3, <1>4, <1>6 DEF Hub!NextCommand

PassStep(w, ready) ==
    /\ wait'[w].ok = wait[w].ok
    /\ PollStep(w, "next", wait[w].from + 1, ready, wait[w].winner, Hub!Nothing)

LEMMA PassEffect ==
    ASSUME Typed, NEW w \in Hub!Waits, NEW ready \in SUBSET Commands,
           wait' = [wait EXCEPT ![w] = [Hub!Pass(w) EXCEPT !.ready = ready]]
    PROVE  Typed' /\ PassStep(w, ready)
<1> DEFINE x == wait[w]
           on == x.from + 1
           p == [x EXCEPT !.pc = "next", !.from = on, !.cmd = Hub!Nothing]
           r == [p EXCEPT !.ready = ready]
<1>1. x \in Hub!PollRecords /\ on \in Nat
  BY DEF Typed, Hub!PollRecords
<1>2. wait' = [wait EXCEPT ![w] = r]
  BY DEF Hub!Pass
<1>3. p \in Hub!PollRecords /\ p.dev = x.dev /\ p.since = x.since /\ p.shake = x.shake
      /\ p.pc = "next" /\ p.from = on /\ p.ok = x.ok /\ p.winner = x.winner
      /\ p.cmd = Hub!Nothing
  <2> HIDE DEF x, on
  <2> QED BY <1>1 DEF Hub!PollRecords
<1>4. r \in Hub!PollRecords /\ r.dev = p.dev /\ r.since = p.since /\ r.shake = p.shake
      /\ r.pc = p.pc /\ r.from = p.from /\ r.ready = ready /\ r.ok = p.ok
      /\ r.winner = p.winner /\ r.cmd = p.cmd
  <2> HIDE DEF p
  <2> QED BY <1>3 DEF Hub!PollRecords
<1>5. r \in Hub!PollRecords /\ r.dev = wait[w].dev /\ r.since = wait[w].since /\ r.shake = wait[w].shake
      /\ r.pc = "next" /\ r.from = wait[w].from + 1 /\ r.ready = ready /\ r.ok = wait[w].ok
      /\ r.winner = wait[w].winner /\ r.cmd = Hub!Nothing
  <2> HIDE DEF r, p
  <2> QED BY <1>3, <1>4
<1> HIDE DEF r
<1> QED BY <1>2, <1>5, PollUpdate DEF PassStep

LEMMA CheckEffect ==
    ASSUME Typed, NEW w \in Hub!Waits, Hub!CheckAnswer(w)
    PROVE  /\ Typed'
           /\ \/ replies[wait[w].cmd] # Hub!Nothing /\ PassStep(w, wait[w].ready)
              \/ /\ wait'[w].ok = wait[w].ok
                 /\ PollStep(w, "claim", wait[w].from, wait[w].ready, wait[w].winner,
                             wait[w].cmd)
<1> DEFINE x == wait[w]
           r == [x EXCEPT !.pc = "claim"]
<1>1. x \in Hub!PollRecords /\ x.ready \in SUBSET Commands
  BY DEF Typed, Hub!PollRecords
<1>2. CASE replies[wait[w].cmd] # Hub!Nothing
  <2>1. Hub!Pass(w) = [Hub!Pass(w) EXCEPT !.ready = wait[w].ready]
    BY <1>1 DEF Hub!Pass, Hub!PollRecords
  <2>2. wait' = [wait EXCEPT ![w] = [Hub!Pass(w) EXCEPT !.ready = wait[w].ready]]
    BY <1>2, <2>1 DEF Hub!CheckAnswer
  <2> QED BY <1>1, <1>2, <2>2, PassEffect
<1>3. CASE replies[wait[w].cmd] = Hub!Nothing
  <2>1. wait' = [wait EXCEPT ![w] = r]
    BY <1>3 DEF Hub!CheckAnswer
  <2>2. r \in Hub!PollRecords /\ r.dev = x.dev /\ r.since = x.since /\ r.shake = x.shake
        /\ r.pc = "claim" /\ r.from = x.from /\ r.ready = x.ready /\ r.ok = x.ok
        /\ r.winner = x.winner /\ r.cmd = x.cmd
    <3> HIDE DEF x
    <3> QED BY <1>1 DEF Hub!PollRecords
  <2> HIDE DEF r
  <2> QED BY <2>1, <2>2, PollUpdate
<1> QED BY <1>2, <1>3

LEMMA ClaimEffect ==
    ASSUME Typed, NEW w \in Hub!Waits, Hub!Claim(w), wait[w].cmd \in Commands
    PROVE  /\ Typed'
           /\ LET c == wait[w].cmd
              IN  PassStep(w, IF claims[c] \in {Hub!Nothing, wait[w].dev}
                              THEN wait[w].ready \cup {c} ELSE wait[w].ready)
<1> DEFINE c == wait[w].cmd
           ready == IF claims[c] \in {Hub!Nothing, wait[w].dev}
                    THEN wait[w].ready \cup {c} ELSE wait[w].ready
<1>1. wait[w] \in Hub!PollRecords /\ wait[w].ready \in SUBSET Commands
  BY DEF Typed, Hub!PollRecords
<1>2. ready \in SUBSET Commands
  BY <1>1
<1>3. Hub!Pass(w).ready = wait[w].ready
  BY <1>1 DEF Hub!Pass, Hub!PollRecords
<1>4. wait' = [wait EXCEPT ![w] = [Hub!Pass(w) EXCEPT !.ready = ready]]
  BY <1>3 DEF Hub!Claim
<1> HIDE DEF ready
<1>5. Typed' /\ PassStep(w, ready)
  BY <1>2, <1>4, PassEffect
<1> QED BY <1>5 DEF ready

LEMMA GoEffect ==
    ASSUME Typed, NEW w \in Hub!Waits, NEW to \in {"scan", "respond"}, Hub!Go(w, to)
    PROVE  /\ Typed' /\ wait'[w].ok = wait[w].ok
           /\ PollStep(w, to, wait[w].from, wait[w].ready, wait[w].winner, wait[w].cmd)
<1> DEFINE x == wait[w]
           r == [x EXCEPT !.pc = to]
<1>1. x \in Hub!PollRecords
  BY DEF Typed
<1>2. wait' = [wait EXCEPT ![w] = r]
  BY <1>1 DEF Hub!Go
<1>3. r \in Hub!PollRecords /\ r.dev = x.dev /\ r.since = x.since /\ r.shake = x.shake
      /\ r.pc = to /\ r.from = x.from /\ r.ready = x.ready /\ r.ok = x.ok
      /\ r.winner = x.winner /\ r.cmd = x.cmd
  <2> HIDE DEF x
  <2> QED BY <1>1 DEF Hub!PollRecords
<1> HIDE DEF r
<1> QED BY <1>2, <1>3, PollUpdate

\* A poll that has answered is blank but for its device.
DoneStep(w) ==
    /\ \A v \in Hub!Waits \ {w} : SamePoll(v)
    /\ wait'[w].dev = wait[w].dev /\ wait'[w].pc = "done" /\ wait'[w].ready = {}
    /\ wait'[w].since = 0 /\ wait'[w].from = 0 /\ wait'[w].shake = FALSE
    /\ wait'[w].winner = Hub!Nothing

LEMMA RespondEffect ==
    ASSUME Typed, NEW w \in Hub!Waits, Hub!Respond(w)
    PROVE  Typed' /\ DoneStep(w)
BY DEF Typed, DoneStep, SamePoll, AlikePolls, Hub!Respond, Hub!NoWait, Hub!PollRecords, Hub!Nothing

\* A new poll begins where its client's cursor is.
EnterStep(d, w) ==
    /\ \A v \in Hub!Waits \ {w} : SamePoll(v)
    /\ wait'[w].dev = d /\ wait'[w].pc = "enter" /\ wait'[w].ready = {}
    /\ wait'[w].shake = (client[d].cursor = Hub!NoCursor)
    /\ wait'[w].since = (IF client[d].cursor = Hub!NoCursor THEN 0 ELSE client[d].cursor)
    /\ wait'[w].from = wait'[w].since
    /\ wait'[w].winner = Hub!Nothing

LEMMA EnterEffect ==
    ASSUME Typed, NEW d \in Devices, NEW w \in Hub!Waits, Hub!Enter(d, w),
           client[d].cursor \in Nat \cup {Hub!NoCursor}
    PROVE  Typed' /\ EnterStep(d, w)
<1> DEFINE shake == client[d].cursor = Hub!NoCursor
           since == IF shake THEN 0 ELSE client[d].cursor
           fresh == [Hub!NoWait EXCEPT !.dev = d, !.pc = "enter", !.shake = shake,
                                       !.since = since, !.from = since]
<1>1. wait' = [v \in Hub!Waits |->
                IF v = w THEN fresh
                ELSE IF v = held[d] /\ ~shake THEN [wait[v] EXCEPT !.replaced = TRUE]
                ELSE wait[v]]
  BY DEF Hub!Enter
<1>2. since \in Nat /\ shake \in BOOLEAN
  OBVIOUS
<1>3. /\ fresh \in Hub!PollRecords
      /\ fresh.dev = d /\ fresh.pc = "enter" /\ fresh.ready = {} /\ fresh.shake = shake
      /\ fresh.since = since /\ fresh.from = since /\ fresh.winner = Hub!Nothing
  <2> HIDE DEF shake, since
  <2> QED BY <1>2 DEF Hub!NoWait, Hub!PollRecords, Hub!Nothing
<1> HIDE DEF fresh
<1>4. ASSUME NEW v \in Hub!Waits \ {w} PROVE wait'[v] \in Hub!PollRecords /\ SamePoll(v)
  <2> DEFINE x == wait[v]
             y == wait'[v]
  <2>1. x \in Hub!PollRecords /\ y \in {x, [x EXCEPT !.woken = TRUE], [x EXCEPT !.replaced = TRUE]}
    BY <1>1 DEF Typed
  <2> HIDE DEF x, y
  <2>2. y \in Hub!PollRecords /\ AlikePolls(x, y)
    BY <2>1, MarkedPoll
  <2> QED BY <2>2 DEF x, y, SamePoll
<1>5. Typed'
  BY <1>1, <1>3, <1>4 DEF Typed
<1>6. wait'[w] = fresh
  BY <1>1
<1> QED BY <1>3, <1>4, <1>5, <1>6 DEF EnterStep

(***************************************************************************)
(* The winner: finitely many devices have one that was active last.        *)
(***************************************************************************)

LEMMA LeastNumber ==
    ASSUME NEW S, S \subseteq Nat, S # {}
    PROVE  \E m \in S : \A k \in S : m <= k
<1> DEFINE R == {ss \in Nat \X Nat : ss[1] < ss[2]}
<1>1. IsWellFoundedOn(R, Nat)
  BY NatLessThanWellFounded DEF OpToRel
<1>2. PICK x \in S : \A y \in S : ~ (<<y, x>> \in R)
  <2> HIDE DEF R
  <2> QED BY <1>1, WFMin
<1>3. \A y \in S : ~ (y < x)
  BY <1>2
<1> QED BY <1>3

LEMMA BoundedNumbers ==
    ASSUME NEW S, S \subseteq Nat, IsFiniteSet(S)
    PROVE  \E b \in Nat : \A k \in S : k <= b
<1>1. PICK q \in Seq(S) : \A s \in S : \E n \in 1 .. Len(q) : q[n] = s
  BY DEF IsFiniteSet
<1> DEFINE N == Len(q)
<1>2. N \in Nat /\ \A i \in 1 .. N : q[i] \in Nat
  <2>1. Len(q) \in Nat /\ \A i \in 1 .. Len(q) : q[i] \in S
    BY <1>1
  <2> QED BY <2>1
<1> HIDE DEF N
<1> DEFINE bounds(n, b) == \A i \in 1 .. n : q[i] <= b
<1>3. ASSUME NEW n \in 1 .. N, NEW b \in Nat, bounds(n - 1, b)
      PROVE  b + q[n] \in Nat /\ bounds(n, b + q[n])
  <2>1. q[n] \in Nat
    BY <1>2
  <2>2. ASSUME NEW i \in 1 .. n PROVE q[i] <= b + q[n]
    <3>1. i \in 1 .. N /\ q[i] \in Nat
      BY <1>2
    <3>2. CASE i = n
      BY <2>1, <3>2
    <3>3. CASE i # n
      <4>1. i \in 1 .. n - 1
        BY <1>2, <3>3
      <4>2. q[i] <= b
        BY <1>3, <4>1
      <4> QED BY <2>1, <3>1, <4>2
    <3> QED BY <3>2, <3>3
  <2> QED BY <2>1, <2>2
<1>4. bounds(0, 0)
  OBVIOUS
<1> HIDE DEF bounds
<1>5. \E b \in Nat : bounds(N, b)
  <2> DEFINE T == {n \in 0 .. N : \A b \in Nat : ~bounds(n, b)}
  <2>1. SUFFICES ASSUME T # {} PROVE FALSE
    <3>1. N \in 0 .. N
      BY <1>2
    <3> QED BY <3>1
  <2>2. T \subseteq Nat
    OBVIOUS
  <2>3. PICK m \in T : \A k \in T : m <= k
    <3> HIDE DEF T
    <3> QED BY <2>1, <2>2, LeastNumber
  <2>4. m \in 0 .. N /\ \A b \in Nat : ~bounds(m, b)
    BY <2>3
  <2>5. m \in 1 .. N /\ m - 1 \in 0 .. N /\ ~(m <= m - 1)
    <3>1. m # 0
      BY <1>4, <2>4
    <3> QED BY <1>2, <2>4, <3>1
  <2>6. m - 1 \notin T
    <3> HIDE DEF T
    <3> QED BY <2>3, <2>5
  <2>7. PICK b \in Nat : bounds(m - 1, b)
    BY <2>5, <2>6
  <2> QED BY <1>3, <2>4, <2>5, <2>7
<1>6. PICK b \in Nat : bounds(N, b)
  BY <1>5
<1>7. ASSUME NEW k \in S PROVE k <= b
  <2>1. PICK n \in 1 .. N : q[n] = k
    BY <1>1 DEF N
  <2> QED BY <1>6, <2>1 DEF bounds
<1> QED BY <1>7

LEMMA GreatestNumber ==
    ASSUME NEW S, S \subseteq Nat, S # {}, NEW b \in Nat, \A k \in S : k <= b
    PROVE  \E m \in S : \A k \in S : k <= m
<1> DEFINE T == {b - k : k \in S}
<1>1. T \subseteq Nat /\ T # {}
  <2>1. ASSUME NEW k \in S PROVE b - k \in Nat
    <3>1. k \in Nat /\ k <= b
      OBVIOUS
    <3> QED BY <3>1
  <2> QED BY <2>1
<1>2. PICK t \in T : \A u \in T : t <= u
  <2> HIDE DEF T
  <2> QED BY <1>1, LeastNumber
<1>3. PICK m \in S : t = b - m
  OBVIOUS
<1>4. ASSUME NEW k \in S PROVE k <= m
  BY <1>2, <1>3
<1> QED BY <1>4

LEMMA HubWinner ==
    ASSUME Hub!TypeOK
    PROVE  /\ Hub!Winner \in Devices \cup {Hub!Nothing}
           /\ Hub!Winner # Hub!Nothing => present[Hub!Winner] > 0
<1> DEFINE P == Hub!Present
           V == {present[d] : d \in P}
           best(d) == \A e \in P : present[e] < present[d] \/ (present[e] = present[d] /\ e <= d)
<1>0. P \subseteq Devices /\ \A d \in P : present[d] > 0
  BY DEF Hub!Present
<1>1. CASE P = {}
  BY <1>1 DEF Hub!Winner
<1>2. CASE P # {}
  <2>1. /\ V \subseteq Nat /\ V # {} /\ \A k \in V : k <= MaxActive
        /\ \A d \in P : present[d] \in V
    <3>1. ASSUME NEW d \in P PROVE present[d] \in Nat /\ present[d] <= MaxActive
      BY <1>0, HubConstants DEF Hub!TypeOK
    <3> HIDE DEF P
    <3> QED BY <1>2, <3>1
  <2>2. PICK m \in V : \A k \in V : k <= m
    <3> HIDE DEF V
    <3> QED BY <2>1, HubConstants, GreatestNumber
  <2> DEFINE Q == {d \in P : present[d] = m}
  <2>3. Q \subseteq Nat /\ Q # {} /\ Q \subseteq Devices /\ Devices \subseteq Nat
    BY <1>0, <2>2, HubConstants
  <2>4. PICK b \in Nat : \A k \in Devices : k <= b
    BY <2>3, HubConstants, BoundedNumbers
  <2>5. PICK d \in Q : \A e \in Q : e <= d
    <3>1. \A k \in Q : k <= b
      BY <2>3, <2>4
    <3> HIDE DEF Q
    <3> QED BY <2>3, <3>1, GreatestNumber
  <2>6. d \in P /\ best(d)
    <3>1. ASSUME NEW e \in P PROVE present[e] < present[d] \/ (present[e] = present[d] /\ e <= d)
      <4>1. present[e] \in V /\ present[e] <= m /\ present[d] = m /\ present[e] \in Nat /\ m \in Nat
        BY <2>1, <2>2
      <4>2. CASE e \in Q
        BY <2>5, <4>2
      <4>3. CASE e \notin Q
        BY <4>1, <4>3
      <4> QED BY <4>2, <4>3
    <3> QED BY <3>1
  <2>7. Hub!Winner = CHOOSE x \in P : best(x)
    BY <1>2 DEF Hub!Winner
  <2>8. Hub!Winner \in P
    <3> HIDE DEF P, best
    <3> QED BY <2>6, <2>7
  <2> QED BY <1>0, <2>8
<1> QED BY <1>1, <1>2

(***************************************************************************)
(* Types.                                                                  *)
(***************************************************************************)

\* A poll that checks or claims has a command, one that runs a device.
LEMMA AtCommand ==
    ASSUME Hub!IndInv, NEW w \in Hub!Waits
    PROVE  /\ wait[w].pc # "unused" => wait[w].dev \in Devices
           /\ wait[w].pc \in {"check", "claim"} =>
                /\ wait[w].cmd \in Commands /\ wait[w].cmd = stream[wait[w].from + 1]
                /\ wait[w].from \in Nat /\ wait[w].from + 1 \in 1 .. Len(stream)
                /\ ~wait[w].shake
<1>1. wait[w] \in Hub!PollRecords /\ stream \in Seq(Commands) /\ Hub!PollFine(w)
  BY DEF Hub!IndInv, Hub!TypeOK, Hub!Started
<1>2. wait[w].from \in Nat /\ wait[w].dev \in Devices \cup {Hub!Nothing}
  BY <1>1 DEF Hub!PollRecords
<1>3. wait[w].pc # "unused" => wait[w].dev # Hub!Nothing
  BY DEF Hub!IndInv, Hub!Started
<1> QED BY <1>1, <1>2, <1>3 DEF Hub!PollFine

LEMMA FaultEffect ==
    ASSUME Hub!TypeOK, Hub!Fault
    PROVE  failures' \in 0 .. MaxFaults
BY HubConstants DEF Hub!TypeOK, Hub!Fault

LEMMA AskEffect ==
    ASSUME Hub!TypeOK, NEW c \in Commands,
           NEW to \in {"offline", "publish", "listen", "late", "reply", "unread", "busy"}, Hub!Step(c, to)
    PROVE  /\ ask' \in [Commands -> Hub!Asks]
           /\ ask'[c].pc = to /\ ask'[c].heard = ask[c].heard
           /\ \A e \in Commands \ {c} : ask'[e] = ask[e]
<1> DEFINE x == ask[c]
           r == [x EXCEPT !.pc = to]
<1>1. x \in Hub!Asks /\ ask \in [Commands -> Hub!Asks]
  BY DEF Hub!TypeOK
<1>2. ask' = [ask EXCEPT ![c] = r]
  BY DEF Hub!Step
<1>3. r \in Hub!Asks /\ r.pc = to /\ r.heard = x.heard
  <2> HIDE DEF x
  <2> QED BY <1>1 DEF Hub!Asks
<1> HIDE DEF r
<1> QED BY <1>1, <1>2, <1>3

LEMMA ClientFields ==
    ASSUME Hub!TypeOK, NEW d \in Devices
    PROVE  /\ client[d] \in Hub!Clients
           /\ client[d].cursor \in Nat \cup {Hub!NoCursor}
           /\ client[d].poll \in Hub!Waits \cup {Hub!Nothing}
           /\ client[d].active \in 1 .. MaxActive /\ client[d].got \in SUBSET Commands
<1>1. client[d] \in Hub!Clients
  BY DEF Hub!TypeOK
<1> QED BY <1>1 DEF Hub!Clients

LEMMA PollFields ==
    ASSUME Typed, NEW w \in Hub!Waits
    PROVE  /\ wait[w].dev \in Devices \cup {Hub!Nothing}
           /\ wait[w].pc \in {"unused", "enter", "shake", "scan", "next", "check", "claim",
                              "hold", "respond", "done"}
           /\ wait[w].since \in Nat /\ wait[w].from \in Nat
           /\ wait[w].shake \in BOOLEAN /\ wait[w].ok \in BOOLEAN
           /\ wait[w].ready \in SUBSET Commands
           /\ wait[w].winner \in Devices \cup {Hub!Nothing}
           /\ wait[w].cmd \in Commands \cup {Hub!Nothing}
<1>1. wait[w] \in Hub!PollRecords
  BY DEF Typed
<1> QED BY <1>1 DEF Hub!PollRecords

\* Every step keeps the shape of the hub's state.
LEMMA HubTypeStep == Hub!IndInv /\ Hub!Next => Hub!TypeOK'
<1> SUFFICES ASSUME Hub!IndInv, Hub!Next PROVE Hub!TypeOK'
  OBVIOUS
<1>0. Hub!IndInv /\ Hub!TypeOK /\ Typed /\ stream \in Seq(Commands)
  BY DEF Hub!IndInv, Typed, Hub!TypeOK
<1>1. ASSUME NEW c \in Commands, Hub!Reachable(c) PROVE Hub!TypeOK'
  <2>1. ask' \in [Commands -> Hub!Asks]
    BY <1>1, <1>0, AskEffect DEF Hub!Reachable
  <2> QED BY <1>1, <1>0, <2>1 DEF Typed, Hub!TypeOK, Hub!Reachable
<1>2. ASSUME NEW c \in Commands, Hub!Publish(c) PROVE Hub!TypeOK'
  <2>1. Typed'
    BY <1>2, <1>0, StoreEffect DEF Hub!Publish
  <2>2. stream' \in Seq(Commands)
    BY <1>2, <1>0 DEF Hub!Publish, Hub!Store
  <2>3. ask' \in [Commands -> Hub!Asks]
    BY <1>2, <1>0, AskEffect DEF Hub!Publish, Hub!TypeOK
  <2> QED BY <1>2, <1>0, <2>1, <2>2, <2>3 DEF Typed, Hub!TypeOK, Hub!Publish
<1>3. ASSUME NEW c \in Commands, Hub!PublishFails(c) PROVE Hub!TypeOK'
  <2>1. Typed'
    BY <1>3, <1>0, StoreEffect DEF Hub!PublishFails, Typed
  <2>2. stream' \in Seq(Commands)
    BY <1>3, <1>0 DEF Hub!PublishFails, Hub!Store
  <2>3. ask' \in [Commands -> Hub!Asks]
    BY <1>3, <1>0, AskEffect DEF Hub!PublishFails
  <2>4. failures' \in 0 .. MaxFaults
    BY <1>3, <1>0, FaultEffect DEF Hub!PublishFails
  <2> QED BY <1>3, <1>0, <2>1, <2>2, <2>3, <2>4 DEF Typed, Hub!TypeOK, Hub!PublishFails
<1>4. ASSUME NEW c \in Commands, Hub!PublishUnsure(c) PROVE Hub!TypeOK'
  <2>1. ask' \in [Commands -> Hub!Asks]
    BY <1>4, <1>0, AskEffect DEF Hub!PublishUnsure
  <2>2. failures' \in 0 .. MaxFaults
    BY <1>4, <1>0, FaultEffect DEF Hub!PublishUnsure
  <2> QED BY <1>4, <1>0, <2>1, <2>2 DEF Typed, Hub!TypeOK, Hub!PublishUnsure
<1>5. ASSUME NEW c \in Commands, Hub!LandLate(c) PROVE Hub!TypeOK'
  <2>1. Typed'
    BY <1>5, <1>0, StoreEffect DEF Hub!LandLate
  <2>2. stream' \in Seq(Commands)
    BY <1>5, <1>0 DEF Hub!LandLate, Hub!Store
  <2>3. ask' \in [Commands -> Hub!Asks]
    BY <1>5, <1>0, AskEffect DEF Hub!LandLate, Hub!TypeOK
  <2> QED BY <1>5, <1>0, <2>1, <2>2, <2>3 DEF Typed, Hub!TypeOK, Hub!LandLate
<1>6. ASSUME NEW c \in Commands, Hub!Hear(c) PROVE Hub!TypeOK'
  <2>1. ask' \in [Commands -> Hub!Asks]
    BY <1>6, <1>0, AskEffect DEF Hub!Hear
  <2> QED BY <1>6, <1>0, <2>1 DEF Typed, Hub!TypeOK, Hub!Hear
<1>7. ASSUME NEW c \in Commands, Hub!StopListening(c) PROVE Hub!TypeOK'
  <2>1. ask' \in [Commands -> Hub!Asks]
    BY <1>7, <1>0, AskEffect DEF Hub!StopListening
  <2> QED BY <1>7, <1>0, <2>1 DEF Typed, Hub!TypeOK, Hub!StopListening
<1>8. ASSUME NEW c \in Commands, Hub!LateAnswer(c) PROVE Hub!TypeOK'
  <2>1. replies[c] \in Answers \cup {Hub!Nothing} /\ ask[c] \in Hub!Asks
    BY <1>0 DEF Hub!TypeOK
  <2> DEFINE x == ask[c]
             y == replies[c]
             r == IF y # Hub!Nothing THEN [pc |-> "reply", heard |-> y] ELSE [x EXCEPT !.pc = "silent"]
  <2>2. ask' = [ask EXCEPT ![c] = r]
    BY <1>8 DEF Hub!LateAnswer
  <2>3. r \in Hub!Asks
    <3> HIDE DEF x, y
    <3> QED BY <2>1 DEF Hub!Asks, x, y
  <2>4. ask' \in [Commands -> Hub!Asks]
    <3> HIDE DEF r
    <3> QED BY <1>0, <2>2, <2>3 DEF Hub!TypeOK
  <2> QED BY <1>8, <1>0, <2>4 DEF Typed, Hub!TypeOK, Hub!LateAnswer
<1>9. ASSUME NEW c \in Commands, Hub!LateAnswerFails(c) PROVE Hub!TypeOK'
  <2>1. ask' \in [Commands -> Hub!Asks]
    BY <1>9, <1>0, AskEffect DEF Hub!LateAnswerFails
  <2>2. failures' \in 0 .. MaxFaults
    BY <1>9, <1>0, FaultEffect DEF Hub!LateAnswerFails
  <2> QED BY <1>9, <1>0, <2>1, <2>2 DEF Typed, Hub!TypeOK, Hub!LateAnswerFails
<1>10. ASSUME NEW c \in Commands, Hub!Expire(c) PROVE Hub!TypeOK'
  BY <1>10, <1>0 DEF Hub!TypeOK, Hub!Expire
<1>11. ASSUME NEW w \in Hub!Waits, Hub!Announce(w) PROVE Hub!TypeOK'
  <2>1. Typed'
    BY <1>11, <1>0, AnnounceEffect
  <2>2. wait[w].dev \in Devices
    BY <1>11, <1>0, AtCommand DEF Hub!Announce
  <2>3. client[wait[w].dev].active \in 0 .. MaxActive
    BY <1>0, <2>2, ClientFields, HubConstants
  <2>4. present' \in [Devices -> 0 .. MaxActive]
    BY <1>11, <1>0, <2>2, <2>3 DEF Hub!Announce, Hub!TypeOK
  <2> QED BY <1>11, <1>0, <2>1, <2>4 DEF Typed, Hub!TypeOK, Hub!Announce
<1>12. ASSUME NEW w \in Hub!Waits, Hub!AnnounceFails(w) PROVE Hub!TypeOK'
  <2>1. Typed'
    BY <1>12, <1>0, UnannouncedEffect
  <2>2. failures' \in 0 .. MaxFaults
    BY <1>12, <1>0, FaultEffect DEF Hub!AnnounceFails
  <2> QED BY <1>12, <1>0, <2>1, <2>2 DEF Typed, Hub!TypeOK, Hub!AnnounceFails
<1>13. ASSUME NEW w \in Hub!Waits, Hub!Handshake(w) PROVE Hub!TypeOK'
  <2>1. Typed'
    BY <1>13, <1>0, HandshakeEffect
  <2> QED BY <1>13, <1>0, <2>1 DEF Typed, Hub!TypeOK, Hub!Handshake
<1>14. ASSUME NEW w \in Hub!Waits, Hub!ReadDevices(w) PROVE Hub!TypeOK'
  <2>1. Typed'
    BY <1>14, <1>0, ReadDevicesEffect, HubWinner
  <2> QED BY <1>14, <1>0, <2>1 DEF Typed, Hub!TypeOK, Hub!ReadDevices
<1>15. ASSUME NEW w \in Hub!Waits, Hub!NextCommand(w) PROVE Hub!TypeOK'
  <2>1. Typed'
    BY <1>15, <1>0, NextEffect
  <2> QED BY <1>15, <1>0, <2>1 DEF Typed, Hub!TypeOK, Hub!NextCommand
<1>16. ASSUME NEW w \in Hub!Waits, Hub!CheckAnswer(w) PROVE Hub!TypeOK'
  <2>1. Typed'
    BY <1>16, <1>0, CheckEffect
  <2> QED BY <1>16, <1>0, <2>1 DEF Typed, Hub!TypeOK, Hub!CheckAnswer
<1>17. ASSUME NEW w \in Hub!Waits, Hub!Claim(w) PROVE Hub!TypeOK'
  <2>0. wait[w].cmd \in Commands /\ wait[w].dev \in Devices
    BY <1>17, <1>0, AtCommand DEF Hub!Claim
  <2>1. Typed'
    BY <1>17, <1>0, <2>0, ClaimEffect
  <2>2. claims' \in [Commands -> Devices \cup {Hub!Nothing}]
    BY <1>17, <1>0, <2>0 DEF Hub!Claim, Hub!TypeOK
  <2> QED BY <1>17, <1>0, <2>1, <2>2 DEF Typed, Hub!TypeOK, Hub!Claim
<1>18. ASSUME NEW w \in Hub!Waits, Hub!ScanFails(w) PROVE Hub!TypeOK'
  <2>1. Typed'
    BY <1>18, <1>0, AfterScanEffect DEF Hub!ScanFails
  <2>2. wait[w].pc = "claim" => wait[w].cmd \in Commands /\ wait[w].dev \in Devices
    BY <1>0, AtCommand
  <2>3. claims' \in [Commands -> Devices \cup {Hub!Nothing}]
    BY <1>18, <1>0, <2>2 DEF Hub!ScanFails, Hub!TypeOK
  <2>4. failures' \in 0 .. MaxFaults
    BY <1>18, <1>0, FaultEffect DEF Hub!ScanFails
  <2> QED BY <1>18, <1>0, <2>1, <2>3, <2>4 DEF Typed, Hub!TypeOK, Hub!ScanFails
<1>19. ASSUME NEW w \in Hub!Waits, Hub!Wake(w) PROVE Hub!TypeOK'
  <2>1. Typed'
    BY <1>19, <1>0, GoEffect DEF Hub!Wake
  <2> QED BY <1>19, <1>0, <2>1 DEF Typed, Hub!TypeOK, Hub!Wake
<1>20. ASSUME NEW w \in Hub!Waits, Hub!HoldEnds(w) PROVE Hub!TypeOK'
  <2>1. Typed'
    BY <1>20, <1>0, GoEffect DEF Hub!HoldEnds
  <2> QED BY <1>20, <1>0, <2>1 DEF Typed, Hub!TypeOK, Hub!HoldEnds
<1>21. ASSUME NEW w \in Hub!Waits, Hub!Respond(w) PROVE Hub!TypeOK'
  <2>1. Typed'
    BY <1>21, <1>0, RespondEffect
  <2> DEFINE d == wait[w].dev
             x == client[d]
             r == [x EXCEPT !.poll = Hub!Nothing, !.cursor = wait[w].from,
                            !.got = x.got \cup wait[w].ready]
  <2>2. d \in Devices /\ x \in Hub!Clients /\ x.got \in SUBSET Commands
    BY <1>21, <1>0, AtCommand, ClientFields DEF Hub!Respond
  <2>3. wait[w].from \in Nat /\ wait[w].ready \in SUBSET Commands
    BY <1>0, PollFields
  <2>4. r \in Hub!Clients
    <3> HIDE DEF x
    <3> QED BY <2>2, <2>3 DEF Hub!Clients
  <2>5. client' = [client EXCEPT ![d] = IF x.poll # w THEN x ELSE r]
    BY <1>21 DEF Hub!Respond
  <2>6. client' \in [Devices -> Hub!Clients]
    <3> HIDE DEF r, d
    <3> QED BY <1>0, <2>2, <2>4, <2>5 DEF Hub!TypeOK
  <2>7. held' \in [Devices -> Hub!Waits \cup {Hub!Nothing}]
    BY <1>21, <1>0 DEF Hub!Respond, Hub!SlotAfter, Hub!TypeOK
  <2> QED BY <1>21, <1>0, <2>1, <2>6, <2>7 DEF Typed, Hub!TypeOK, Hub!Respond
<1>22. ASSUME NEW d \in Devices, Hub!Touch(d) PROVE Hub!TypeOK'
  <2>1. PICK b \in 1 .. MaxActive : client' = [client EXCEPT ![d].active = b]
    BY <1>22 DEF Hub!Touch
  <2> DEFINE x == client[d]
             r == [x EXCEPT !.active = b]
  <2>2. x \in Hub!Clients /\ client' = [client EXCEPT ![d] = r]
    BY <1>0, <2>1, ClientFields
  <2>3. r \in Hub!Clients
    <3> HIDE DEF x
    <3> QED BY <2>1, <2>2 DEF Hub!Clients
  <2>4. client' \in [Devices -> Hub!Clients]
    <3> HIDE DEF r
    <3> QED BY <1>0, <2>2, <2>3 DEF Hub!TypeOK
  <2> QED BY <1>22, <1>0, <2>4 DEF Typed, Hub!TypeOK, Hub!Touch
<1>23. ASSUME NEW d \in Devices, Hub!GoStale(d) PROVE Hub!TypeOK'
  <2>1. present' \in [Devices -> 0 .. MaxActive]
    BY <1>23, <1>0, HubConstants DEF Hub!GoStale, Hub!TypeOK
  <2> QED BY <1>23, <1>0, <2>1 DEF Typed, Hub!TypeOK, Hub!GoStale
<1>24. ASSUME NEW d \in Devices, Hub!GiveUp(d) PROVE Hub!TypeOK'
  <2> DEFINE b == Hub!Nothing
  <2>1. client' = [client EXCEPT ![d].poll = b]
    BY <1>24 DEF Hub!GiveUp
  <2> DEFINE x == client[d]
             r == [x EXCEPT !.poll = b]
  <2>2. x \in Hub!Clients /\ client' = [client EXCEPT ![d] = r]
    BY <1>0, <2>1, ClientFields
  <2>3. r \in Hub!Clients
    <3> HIDE DEF x
    <3> QED BY <2>1, <2>2 DEF Hub!Clients
  <2>4. client' \in [Devices -> Hub!Clients]
    <3> HIDE DEF r
    <3> QED BY <1>0, <2>2, <2>3 DEF Hub!TypeOK
  <2>5. failures' \in 0 .. MaxFaults
    BY <1>24, <1>0, FaultEffect DEF Hub!GiveUp
  <2> QED BY <1>24, <1>0, <2>4, <2>5 DEF Typed, Hub!TypeOK, Hub!GiveUp
<1>25. ASSUME NEW d \in Devices, NEW w \in Hub!Waits, Hub!Enter(d, w) PROVE Hub!TypeOK'
  <2>0. client[d].cursor \in Nat \cup {Hub!NoCursor}
    BY <1>0, ClientFields
  <2>1. Typed'
    BY <1>25, <1>0, <2>0, EnterEffect
  <2> DEFINE x == client[d]
             r == [x EXCEPT !.poll = w]
  <2>2. x \in Hub!Clients /\ client' = [client EXCEPT ![d] = r]
    BY <1>25, <1>0, ClientFields DEF Hub!Enter
  <2>3. r \in Hub!Clients
    <3> HIDE DEF x
    <3> QED BY <2>2 DEF Hub!Clients
  <2>4. client' \in [Devices -> Hub!Clients]
    <3> HIDE DEF r
    <3> QED BY <1>0, <2>2, <2>3 DEF Hub!TypeOK
  <2>5. held' \in [Devices -> Hub!Waits \cup {Hub!Nothing}]
    BY <1>25, <1>0 DEF Hub!Enter, Hub!TypeOK
  <2> QED BY <1>25, <1>0, <2>1, <2>4, <2>5 DEF Typed, Hub!TypeOK, Hub!Enter
<1>26. ASSUME NEW d \in Devices, NEW c \in Commands, NEW a \in Answers, Hub!Reply(d, c, a) PROVE Hub!TypeOK'
  BY <1>26, <1>0 DEF Hub!TypeOK, Hub!Reply, Hub!RecordFirst
<1>27. ASSUME NEW c \in Commands, NEW a \in Answers, Hub!PublishReply(c, a) PROVE Hub!TypeOK'
  <2> DEFINE x == ask[c]
             h == IF x.pc = "listen" /\ x.heard = Hub!Nothing THEN a ELSE x.heard
             r == [x EXCEPT !.heard = h]
  <2>1. x \in Hub!Asks /\ ask' = [ask EXCEPT ![c] = r]
    BY <1>27, <1>0 DEF Hub!PublishReply, Hub!TypeOK
  <2>2. r \in Hub!Asks
    <3>1. h \in Answers \cup {Hub!Nothing}
      BY <2>1 DEF Hub!Asks
    <3> HIDE DEF x, h
    <3> QED BY <2>1, <3>1 DEF Hub!Asks
  <2>3. ask' \in [Commands -> Hub!Asks]
    <3> HIDE DEF r
    <3> QED BY <1>0, <2>1, <2>2 DEF Hub!TypeOK
  <2> QED BY <1>27, <1>0, <2>3 DEF Typed, Hub!TypeOK, Hub!PublishReply
<1>28. ASSUME NEW c \in Commands, NEW a \in Answers, Hub!LoseReply(c, a) PROVE Hub!TypeOK'
  <2>1. failures' \in 0 .. MaxFaults
    BY <1>28, <1>0, FaultEffect DEF Hub!LoseReply
  <2> QED BY <1>28, <1>0, <2>1 DEF Typed, Hub!TypeOK, Hub!LoseReply
<1> QED
  BY <1>1, <1>2, <1>3, <1>4, <1>5, <1>6, <1>7, <1>8, <1>9, <1>10, <1>11, <1>12, <1>13, <1>14,
     <1>15, <1>16, <1>17, <1>18, <1>19, <1>20, <1>21, <1>22, <1>23, <1>24, <1>25, <1>26, <1>27, <1>28
  DEF Hub!Next, Hub!Dispatching, Hub!Polling

(***************************************************************************)
(* The kinds of steps: those of askers, answers and clients leave the      *)
(* polls alone, a poll moves, starts or answers.                           *)
(***************************************************************************)

\* Nothing stored, recorded, claimed or expired is ever taken back.
Grows ==
    /\ Len(stream) <= Len(stream') /\ \A i \in 1 .. Len(stream) : stream'[i] = stream[i]
    /\ expired \subseteq expired'
    /\ \A c \in Commands : replies[c] # Hub!Nothing => replies'[c] = replies[c]
    /\ \A c \in Commands : claims[c] # Hub!Nothing => claims'[c] = claims[c]

QuietStep ==
    /\ SamePolls /\ UNCHANGED <<held, claims>>
    /\ \A d \in Devices : /\ client'[d].cursor = client[d].cursor
                          /\ client'[d].got = client[d].got
                          /\ client'[d].poll \in {client[d].poll, Hub!Nothing}
    /\ \A d \in Devices : present'[d] > 0 => present[d] > 0
    /\ Grows

\* What a poll that goes on passes over: a command that is no loss to its device,
\* or, once its presence is written, another device's.
Advances(w) ==
    \E i \in 1 .. Len(stream) :
        /\ i = wait[w].from + 1 /\ wait'[w].from = i
        /\ \/ Hub!Passed(w, i)'
           \/ wait[w].ok /\ wait[w].winner \notin {Hub!Nothing, wait[w].dev}

LEMMA AdvanceBy ==
    ASSUME NEW w \in Hub!Waits, Len(stream) \in Nat, wait[w].from \in Nat,
           wait[w].from < Len(stream), wait'[w].from = wait[w].from + 1, stream' = stream,
           NEW c, c = stream[wait[w].from + 1],
           \/ c \in wait'[w].ready \cup expired'
           \/ replies'[c] # Hub!Nothing
           \/ claims'[c] \notin {Hub!Nothing, wait'[w].dev}
           \/ wait[w].ok /\ wait[w].winner \notin {Hub!Nothing, wait[w].dev}
    PROVE  Advances(w)
<1>1. PICK i \in 1 .. Len(stream) : i = wait[w].from + 1
  OBVIOUS
<1>2. stream'[i] = c
  BY <1>1
<1>3. Hub!Passed(w, i)' \/ (wait[w].ok /\ wait[w].winner \notin {Hub!Nothing, wait[w].dev})
  BY <1>2 DEF Hub!Passed, Hub!Nothing
<1> QED BY <1>1, <1>3 DEF Advances

\* The claim a poll may write.
Claims(w) ==
    /\ wait[w].cmd \in Commands /\ ~wait[w].shake
    /\ wait[w].from < Len(stream) /\ wait[w].cmd = stream[wait[w].from + 1]
    /\ claims[wait[w].cmd] = Hub!Nothing
    /\ claims' = [claims EXCEPT ![wait[w].cmd] = wait[w].dev]

MoveStep(w) ==
    /\ \A v \in Hub!Waits \ {w} : SamePoll(v)
    /\ wait'[w].dev = wait[w].dev /\ wait'[w].since = wait[w].since
    /\ wait'[w].shake = wait[w].shake
    /\ Hub!Running(w) /\ Hub!Running(w)'
    /\ UNCHANGED <<stream, replies, expired, held, client>>
    /\ wait[w].ok => wait'[w].ok
    /\ Hub!PollFine(w)'
    /\ wait[w].ready \subseteq wait'[w].ready
    /\ \A c \in wait'[w].ready : c \in wait[w].ready \/ claims'[c] = wait[w].dev
    /\ wait'[w].from = wait[w].from \/ wait[w].shake \/ Advances(w)
    /\ claims' = claims \/ Claims(w)
    /\ \A d \in Devices : present'[d] > 0 => present[d] > 0 \/ d = wait[w].dev
    /\ \/ wait'[w].winner \in {Hub!Nothing, wait[w].winner}
       \/ wait'[w].winner \in Devices /\ present[wait'[w].winner] > 0

LEMMA AnnounceMoves ==
    ASSUME Hub!IndInv, NEW w \in Hub!Waits, Hub!Announce(w)
    PROVE  MoveStep(w)
<1>1. Hub!TypeOK /\ Typed /\ stream \in Seq(Commands) /\ Hub!PollFine(w)
  BY DEF Hub!IndInv, Hub!TypeOK, Typed, Hub!Started
<1>2. Len(stream) \in Nat /\ wait[w].since \in Nat /\ wait[w].from \in Nat /\ wait[w].dev \in Devices
  BY <1>1, PollFields, AtCommand DEF Hub!Announce
<1>6. wait[w].pc = "enter" /\ stream' = stream
  BY DEF Hub!Announce
<1>3. PollStep(w, IF wait[w].shake THEN "shake" ELSE "scan", wait[w].from,
               wait[w].ready, wait[w].winner, wait[w].cmd) /\ wait'[w].ok = TRUE
  BY <1>1, AnnounceEffect
<1>4. Hub!PollFine(w)' /\ Hub!Running(w) /\ Hub!Running(w)'
  BY <1>1, <1>2, <1>3, <1>6 DEF PollStep, Hub!Running, Hub!PollFine
<1>5. \A d \in Devices : present'[d] > 0 => present[d] > 0 \/ d = wait[w].dev
  BY <1>1, <1>2 DEF Hub!Announce, Hub!TypeOK
<1> QED BY <1>1, <1>3, <1>4, <1>5 DEF MoveStep, PollStep, Hub!Announce

LEMMA UnannouncedMoves ==
    ASSUME Hub!IndInv, NEW w \in Hub!Waits, Hub!AnnounceFails(w)
    PROVE  MoveStep(w)
<1>1. Hub!TypeOK /\ Typed /\ stream \in Seq(Commands) /\ Hub!PollFine(w)
  BY DEF Hub!IndInv, Hub!TypeOK, Typed, Hub!Started
<1>2. Len(stream) \in Nat /\ wait[w].since \in Nat /\ wait[w].from \in Nat
  BY <1>1, PollFields
<1>3. PollStep(w, IF wait[w].shake THEN "shake" ELSE "scan", wait[w].from,
               wait[w].ready, wait[w].winner, wait[w].cmd) /\ wait'[w].ok = wait[w].ok
  BY <1>1, UnannouncedEffect DEF Hub!AnnounceFails
<1>5. wait[w].pc = "enter" /\ UNCHANGED <<stream, claims, replies, present, expired, held, client>>
  BY DEF Hub!AnnounceFails
<1>4. Hub!PollFine(w)' /\ Hub!Running(w) /\ Hub!Running(w)'
  BY <1>1, <1>2, <1>3, <1>5 DEF PollStep, Hub!Running, Hub!PollFine
<1> QED BY <1>1, <1>3, <1>4, <1>5 DEF MoveStep, PollStep

LEMMA HandshakeMoves ==
    ASSUME Hub!IndInv, NEW w \in Hub!Waits, Hub!Handshake(w)
    PROVE  MoveStep(w)
<1>1. Hub!TypeOK /\ Typed /\ stream \in Seq(Commands) /\ Hub!PollFine(w)
  BY DEF Hub!IndInv, Hub!TypeOK, Typed, Hub!Started
<1>2. Len(stream) \in Nat /\ wait[w].since \in Nat /\ wait[w].from \in Nat
  BY <1>1, PollFields
<1>3. PollStep(w, "respond", Len(stream), wait[w].ready, wait[w].winner, wait[w].cmd) /\ wait'[w].ok = wait[w].ok
  BY <1>1, HandshakeEffect DEF Hub!Handshake
<1>5. wait[w].pc = "shake" /\ UNCHANGED <<stream, claims, replies, present, expired, held, client>>
  BY DEF Hub!Handshake
<1>4. Hub!PollFine(w)' /\ Hub!Running(w) /\ Hub!Running(w)'
  BY <1>1, <1>2, <1>3, <1>5 DEF PollStep, Hub!Running, Hub!PollFine
<1>6. wait[w].shake
  BY <1>1, <1>5 DEF Hub!PollFine
<1> QED BY <1>1, <1>3, <1>4, <1>5, <1>6 DEF MoveStep, PollStep

LEMMA WakeMoves ==
    ASSUME Hub!IndInv, NEW w \in Hub!Waits, Hub!Wake(w)
    PROVE  MoveStep(w)
<1>1. Hub!TypeOK /\ Typed /\ stream \in Seq(Commands) /\ Hub!PollFine(w)
  BY DEF Hub!IndInv, Hub!TypeOK, Typed, Hub!Started
<1>2. Len(stream) \in Nat /\ wait[w].since \in Nat /\ wait[w].from \in Nat
  BY <1>1, PollFields
<1>3. PollStep(w, "scan", wait[w].from, wait[w].ready, wait[w].winner, wait[w].cmd) /\ wait'[w].ok = wait[w].ok
  BY <1>1, GoEffect DEF Hub!Wake
<1>5. wait[w].pc = "hold" /\ UNCHANGED <<stream, claims, replies, present, expired, held, client>>
  BY DEF Hub!Wake
<1>4. Hub!PollFine(w)' /\ Hub!Running(w) /\ Hub!Running(w)'
  BY <1>1, <1>2, <1>3, <1>5 DEF PollStep, Hub!Running, Hub!PollFine
<1> QED BY <1>1, <1>3, <1>4, <1>5 DEF MoveStep, PollStep

LEMMA HoldMoves ==
    ASSUME Hub!IndInv, NEW w \in Hub!Waits, Hub!HoldEnds(w)
    PROVE  MoveStep(w)
<1>1. Hub!TypeOK /\ Typed /\ stream \in Seq(Commands) /\ Hub!PollFine(w)
  BY DEF Hub!IndInv, Hub!TypeOK, Typed, Hub!Started
<1>2. Len(stream) \in Nat /\ wait[w].since \in Nat /\ wait[w].from \in Nat
  BY <1>1, PollFields
<1>3. PollStep(w, "respond", wait[w].from, wait[w].ready, wait[w].winner, wait[w].cmd) /\ wait'[w].ok = wait[w].ok
  BY <1>1, GoEffect DEF Hub!HoldEnds
<1>5. wait[w].pc = "hold" /\ UNCHANGED <<stream, claims, replies, present, expired, held, client>>
  BY DEF Hub!HoldEnds
<1>4. Hub!PollFine(w)' /\ Hub!Running(w) /\ Hub!Running(w)'
  BY <1>1, <1>2, <1>3, <1>5 DEF PollStep, Hub!Running, Hub!PollFine
<1> QED BY <1>1, <1>3, <1>4, <1>5 DEF MoveStep, PollStep

LEMMA ReadDevicesMoves ==
    ASSUME Hub!IndInv, NEW w \in Hub!Waits, Hub!ReadDevices(w)
    PROVE  MoveStep(w)
<1>1. Hub!TypeOK /\ Typed /\ stream \in Seq(Commands) /\ Hub!PollFine(w)
  BY DEF Hub!IndInv, Hub!TypeOK, Typed, Hub!Started
<1>2. Len(stream) \in Nat /\ wait[w].since \in Nat /\ wait[w].from \in Nat
  BY <1>1, PollFields
<1>3. PollStep(w, "next", wait[w].from, wait[w].ready, Hub!Winner, wait[w].cmd) /\ wait'[w].ok = wait[w].ok
  BY <1>1, ReadDevicesEffect, HubWinner DEF Hub!ReadDevices
<1>5. wait[w].pc = "scan" /\ UNCHANGED <<stream, claims, replies, present, expired, held, client>>
  BY DEF Hub!ReadDevices
<1>4. Hub!PollFine(w)' /\ Hub!Running(w) /\ Hub!Running(w)'
  BY <1>1, <1>2, <1>3, <1>5 DEF PollStep, Hub!Running, Hub!PollFine
<1> QED BY <1>1, <1>3, <1>4, <1>5, HubWinner DEF MoveStep, PollStep

LEMMA NextMoves ==
    ASSUME Hub!IndInv, NEW w \in Hub!Waits, Hub!NextCommand(w)
    PROVE  MoveStep(w)
<1>1. Hub!TypeOK /\ Typed /\ stream \in Seq(Commands) /\ Hub!PollFine(w)
  BY DEF Hub!IndInv, Hub!TypeOK, Typed, Hub!Started
<1>2. Len(stream) \in Nat /\ wait[w].since \in Nat /\ wait[w].from \in Nat /\ wait[w].pc = "next"
  BY <1>1, PollFields DEF Hub!NextCommand
<1>3. UNCHANGED <<stream, claims, replies, present, ask, expired, held, client>>
  BY DEF Hub!NextCommand
<1> DEFINE c == stream[wait[w].from + 1]
           target == wait[w].winner \in {Hub!Nothing, wait[w].dev}
<1>4. CASE AfterScanStep(w)
  <2>1. Hub!PollFine(w)' /\ Hub!Running(w) /\ Hub!Running(w)'
    BY <1>1, <1>2, <1>3, <1>4 DEF AfterScanStep, PollStep, Hub!Running, Hub!PollFine
  <2> QED BY <1>3, <1>4, <2>1 DEF MoveStep, AfterScanStep, PollStep
<1>5. CASE /\ wait[w].from < Len(stream) /\ wait'[w].ok = wait[w].ok
           /\ c \in expired \/ (~target /\ wait[w].ok)
           /\ PollStep(w, "next", wait[w].from + 1, wait[w].ready, wait[w].winner, wait[w].cmd)
  <2>1. Hub!PollFine(w)' /\ Hub!Running(w) /\ Hub!Running(w)'
    BY <1>1, <1>2, <1>3, <1>5 DEF PollStep, Hub!Running, Hub!PollFine
  <2>2. Advances(w)
    BY <1>2, <1>3, <1>5, AdvanceBy DEF PollStep
  <2> QED BY <1>3, <1>5, <2>1, <2>2 DEF MoveStep, PollStep
<1>6. CASE /\ wait[w].from < Len(stream) /\ wait'[w].ok = wait[w].ok
           /\ PollStep(w, "check", wait[w].from, wait[w].ready, wait[w].winner, c)
  <2>1. Hub!PollFine(w)' /\ Hub!Running(w) /\ Hub!Running(w)'
    BY <1>1, <1>2, <1>3, <1>6 DEF PollStep, Hub!Running, Hub!PollFine
  <2> QED BY <1>3, <1>6, <2>1 DEF MoveStep, PollStep
<1> QED BY <1>1, <1>4, <1>5, <1>6, NextEffect

LEMMA CheckMoves ==
    ASSUME Hub!IndInv, NEW w \in Hub!Waits, Hub!CheckAnswer(w)
    PROVE  MoveStep(w)
<1>1. Hub!TypeOK /\ Typed /\ stream \in Seq(Commands) /\ Hub!PollFine(w)
  BY DEF Hub!IndInv, Hub!TypeOK, Typed, Hub!Started
<1>2. /\ Len(stream) \in Nat /\ wait[w].since \in Nat /\ wait[w].from \in Nat
      /\ wait[w].pc = "check" /\ wait[w].from < Len(stream)
      /\ wait[w].cmd = stream[wait[w].from + 1] /\ ~wait[w].shake
  BY <1>1, PollFields, AtCommand DEF Hub!CheckAnswer, Hub!PollFine
<1>3. UNCHANGED <<stream, claims, replies, present, ask, expired, held, client>>
  BY DEF Hub!CheckAnswer
<1>4. CASE replies[wait[w].cmd] # Hub!Nothing /\ PassStep(w, wait[w].ready)
  <2>1. Hub!PollFine(w)' /\ Hub!Running(w) /\ Hub!Running(w)'
    BY <1>1, <1>2, <1>3, <1>4 DEF PassStep, PollStep, Hub!Running, Hub!PollFine
  <2>2. Advances(w)
    BY <1>2, <1>3, <1>4, AdvanceBy DEF PassStep, PollStep
  <2> QED BY <1>3, <1>4, <2>1, <2>2 DEF MoveStep, PassStep, PollStep
<1>5. CASE /\ wait'[w].ok = wait[w].ok
           /\ PollStep(w, "claim", wait[w].from, wait[w].ready, wait[w].winner, wait[w].cmd)
  <2>1. Hub!PollFine(w)' /\ Hub!Running(w) /\ Hub!Running(w)'
    BY <1>1, <1>2, <1>3, <1>5 DEF PollStep, Hub!Running, Hub!PollFine
  <2> QED BY <1>3, <1>5, <2>1 DEF MoveStep, PollStep
<1> QED BY <1>1, <1>4, <1>5, CheckEffect

LEMMA ClaimMoves ==
    ASSUME Hub!IndInv, NEW w \in Hub!Waits, Hub!Claim(w)
    PROVE  MoveStep(w)
<1>1. Hub!TypeOK /\ Typed /\ stream \in Seq(Commands) /\ Hub!PollFine(w)
  BY DEF Hub!IndInv, Hub!TypeOK, Typed, Hub!Started
<1> DEFINE c == wait[w].cmd
           d == wait[w].dev
           ready == IF claims[c] \in {Hub!Nothing, d} THEN wait[w].ready \cup {c} ELSE wait[w].ready
<1>2. /\ Len(stream) \in Nat /\ wait[w].since \in Nat /\ wait[w].from \in Nat
      /\ wait[w].pc = "claim" /\ wait[w].from < Len(stream) /\ c \in Commands
      /\ c = stream[wait[w].from + 1] /\ ~wait[w].shake /\ d \in Devices
  BY <1>1, PollFields, AtCommand DEF Hub!Claim, Hub!PollFine
<1>3. /\ UNCHANGED <<stream, replies, present, ask, expired, held, client>>
      /\ claims' = [claims EXCEPT ![c] = IF @ = Hub!Nothing THEN d ELSE @]
  BY DEF Hub!Claim
<1>4. PassStep(w, ready)
  BY <1>1, <1>2, ClaimEffect
<1>5. claims \in [Commands -> Devices \cup {Hub!Nothing}]
  BY <1>1 DEF Hub!TypeOK
<1>6. Hub!PollFine(w)' /\ Hub!Running(w) /\ Hub!Running(w)'
  <2> HIDE DEF ready
  <2> QED BY <1>1, <1>2, <1>3, <1>4 DEF PassStep, PollStep, Hub!Running, Hub!PollFine
<1>7. claims' = claims \/ Claims(w)
  BY <1>2, <1>3, <1>5 DEF Claims
<1>8. CASE claims[c] \in {Hub!Nothing, d}
  <2>1. ready = wait[w].ready \cup {c} /\ claims'[c] = d
    BY <1>2, <1>3, <1>5, <1>8
  <2> HIDE DEF ready
  <2>2. Advances(w)
    BY <1>2, <1>3, <1>4, <2>1, AdvanceBy DEF PassStep, PollStep
  <2> QED BY <1>3, <1>4, <1>6, <1>7, <2>1, <2>2 DEF MoveStep, PassStep, PollStep
<1>9. CASE claims[c] \notin {Hub!Nothing, d}
  <2>1. ready = wait[w].ready /\ claims'[c] = claims[c]
    BY <1>2, <1>3, <1>5, <1>9
  <2> HIDE DEF ready
  <2>2. Advances(w)
    BY <1>2, <1>3, <1>4, <1>9, <2>1, AdvanceBy DEF PassStep, PollStep
  <2> QED BY <1>3, <1>4, <1>6, <1>7, <2>1, <2>2 DEF MoveStep, PassStep, PollStep
<1> QED BY <1>8, <1>9

LEMMA ScanFailsMoves ==
    ASSUME Hub!IndInv, NEW w \in Hub!Waits, Hub!ScanFails(w)
    PROVE  MoveStep(w)
<1>1. Hub!TypeOK /\ Typed /\ stream \in Seq(Commands) /\ Hub!PollFine(w)
  BY DEF Hub!IndInv, Hub!TypeOK, Typed, Hub!Started
<1>2. Len(stream) \in Nat /\ wait[w].since \in Nat /\ wait[w].from \in Nat
  BY <1>1, PollFields
<1>3. UNCHANGED <<stream, replies, present, ask, expired, held, client>>
  BY DEF Hub!ScanFails
<1>4. AfterScanStep(w)
  BY <1>1, AfterScanEffect DEF Hub!ScanFails
<1>5. Hub!PollFine(w)' /\ Hub!Running(w) /\ Hub!Running(w)'
  BY <1>1, <1>2, <1>3, <1>4 DEF AfterScanStep, PollStep, Hub!Running, Hub!PollFine, Hub!ScanFails
<1>6. claims' = claims \/ Claims(w)
  <2>1. wait[w].pc = "claim" =>
          /\ wait[w].cmd \in Commands /\ ~wait[w].shake
          /\ wait[w].from < Len(stream) /\ wait[w].cmd = stream[wait[w].from + 1]
    BY <1>1, AtCommand DEF Hub!PollFine
  <2> QED BY <2>1 DEF Hub!ScanFails, Claims
<1> QED BY <1>3, <1>4, <1>5, <1>6 DEF MoveStep, AfterScanStep, PollStep

\* A command that is stored comes after the others.
LEMMA StoreGrows ==
    ASSUME Hub!TypeOK, NEW c \in Commands, Hub!Store(c), UNCHANGED <<claims, replies, expired>>
    PROVE  Grows
<1>1. stream \in Seq(Commands) /\ stream' = Append(stream, c)
  BY DEF Hub!TypeOK, Hub!Store
<1>2. Len(stream) <= Len(stream') /\ \A i \in 1 .. Len(stream) : stream'[i] = stream[i]
  BY <1>1
<1> QED BY <1>2 DEF Grows

LEMMA KeptGrows ==
    ASSUME Hub!TypeOK, UNCHANGED <<stream, claims, replies>>, expired \subseteq expired'
    PROVE  Grows
<1>1. Len(stream) \in Nat
  BY DEF Hub!TypeOK
<1> QED BY <1>1 DEF Grows

LEMMA SameEffect ==
    ASSUME wait' = wait
    PROVE  SamePolls
BY DEF SamePolls, SamePoll, AlikePolls

\* Askers, answers and clients leave the polls alone.
LEMMA AskerQuiet ==
    ASSUME Hub!IndInv, NEW c \in Commands, Hub!Dispatching(c)
    PROVE  QuietStep
<1>1. Hub!TypeOK /\ Typed
  BY DEF Hub!IndInv, Typed, Hub!TypeOK
<1>2. UNCHANGED <<present, held, client, claims, replies>>
  BY DEF Hub!Dispatching, Hub!Reachable, Hub!Publish, Hub!PublishFails, Hub!PublishUnsure,
         Hub!LandLate, Hub!Hear, Hub!StopListening, Hub!LateAnswer, Hub!LateAnswerFails, Hub!Expire
<1>3. CASE Hub!Store(c) /\ expired' = expired
  BY <1>1, <1>2, <1>3, StoreEffect, StoreGrows DEF QuietStep
<1>4. CASE UNCHANGED <<stream, wait>> /\ expired \subseteq expired'
  BY <1>1, <1>2, <1>4, SameEffect, KeptGrows DEF QuietStep
<1> QED
  BY <1>3, <1>4
  DEF Hub!Dispatching, Hub!Reachable, Hub!Publish, Hub!PublishFails, Hub!PublishUnsure,
      Hub!LandLate, Hub!Hear, Hub!StopListening, Hub!LateAnswer, Hub!LateAnswerFails, Hub!Expire

LEMMA ReplyQuiet ==
    ASSUME Hub!IndInv, NEW c \in Commands, NEW a \in Answers,
           \/ \E d \in Devices : Hub!Reply(d, c, a)
           \/ Hub!PublishReply(c, a) \/ Hub!LoseReply(c, a)
    PROVE  QuietStep
<1>1. Hub!TypeOK /\ Len(stream) \in Nat
  BY DEF Hub!IndInv, Hub!TypeOK
<1>2. UNCHANGED <<present, held, client, claims, stream, wait, expired>>
  BY DEF Hub!Reply, Hub!PublishReply, Hub!LoseReply
<1>3. \A e \in Commands : replies[e] # Hub!Nothing => replies'[e] = replies[e]
  BY <1>1 DEF Hub!TypeOK, Hub!Reply, Hub!PublishReply, Hub!LoseReply, Hub!RecordFirst
<1>4. Grows
  BY <1>1, <1>2, <1>3 DEF Grows
<1> QED BY <1>2, <1>4, SameEffect DEF QuietStep

LEMMA ClientQuiet ==
    ASSUME Hub!IndInv, NEW d \in Devices, Hub!Touch(d) \/ Hub!GoStale(d) \/ Hub!GiveUp(d)
    PROVE  QuietStep
<1>1. Hub!TypeOK
  BY DEF Hub!IndInv
<1>2. UNCHANGED <<held, claims, stream, wait, expired, replies>>
  BY DEF Hub!Touch, Hub!GoStale, Hub!GiveUp
<1>3. SamePolls /\ Grows
  BY <1>1, <1>2, SameEffect, KeptGrows
<1>4. ASSUME NEW e \in Devices
      PROVE  /\ client'[e].cursor = client[e].cursor /\ client'[e].got = client[e].got
             /\ client'[e].poll \in {client[e].poll, Hub!Nothing}
  <2> DEFINE x == client[e]
             r == client'[e]
  <2>1. x \in Hub!Clients
    BY <1>1, ClientFields
  <2>2. CASE Hub!GoStale(d)
    BY <2>2 DEF Hub!GoStale
  <2>3. CASE Hub!Touch(d)
    <3>1. PICK b : client' = [client EXCEPT ![d].active = b]
      BY <2>3 DEF Hub!Touch
    <3>2. r = x \/ r = [x EXCEPT !.active = b]
      BY <1>1, <3>1 DEF Hub!TypeOK
    <3> HIDE DEF x, r
    <3>3. r.cursor = x.cursor /\ r.got = x.got /\ r.poll = x.poll
      BY <2>1, <3>2 DEF Hub!Clients
    <3> QED BY <3>3 DEF x, r
  <2>4. CASE Hub!GiveUp(d)
    <3>1. r = x \/ r = [x EXCEPT !.poll = Hub!Nothing]
      BY <1>1, <2>4 DEF Hub!TypeOK, Hub!GiveUp
    <3> HIDE DEF x, r
    <3>2. r.cursor = x.cursor /\ r.got = x.got /\ r.poll \in {x.poll, Hub!Nothing}
      BY <2>1, <3>1 DEF Hub!Clients
    <3> QED BY <3>2 DEF x, r
  <2> QED BY <2>2, <2>3, <2>4
<1>5. \A e \in Devices : present'[e] > 0 => present[e] > 0
  BY <1>1 DEF Hub!TypeOK, Hub!Touch, Hub!GoStale, Hub!GiveUp
<1> QED BY <1>2, <1>3, <1>4, <1>5 DEF QuietStep

\* A new poll of device d.
StartStep(d, w) ==
    /\ EnterStep(d, w)
    /\ wait[w].pc = "unused" /\ \A v \in Hub!Waits : v < w => wait[v].pc # "unused"
    /\ client[d].poll = Hub!Nothing
    /\ client'[d].poll = w /\ client'[d].cursor = client[d].cursor
    /\ client'[d].got = client[d].got
    /\ \A e \in Devices \ {d} : client'[e] = client[e]
    /\ IF client[d].cursor = Hub!NoCursor THEN held' = held
       ELSE held'[d] = w /\ \A e \in Devices \ {d} : held'[e] = held[e]
    /\ UNCHANGED <<stream, claims, replies, present, expired>>

LEMMA EnterStarts ==
    ASSUME Hub!IndInv, NEW d \in Devices, NEW w \in Hub!Waits, Hub!Enter(d, w)
    PROVE  StartStep(d, w)
<1>1. Hub!TypeOK /\ Typed
  BY DEF Hub!IndInv, Typed, Hub!TypeOK
<1>2. EnterStep(d, w)
  BY <1>1, EnterEffect, ClientFields
<1> DEFINE x == client[d]
           r == [x EXCEPT !.poll = w]
<1>3. x \in Hub!Clients /\ client' = [client EXCEPT ![d] = r] /\ client \in [Devices -> Hub!Clients]
  BY <1>1, ClientFields DEF Hub!Enter, Hub!TypeOK
<1>4. r.poll = w /\ r.cursor = x.cursor /\ r.got = x.got
  <2> HIDE DEF x
  <2> QED BY <1>3 DEF Hub!Clients
<1>5. client'[d] = r /\ \A e \in Devices \ {d} : client'[e] = client[e]
  <2> HIDE DEF r
  <2> QED BY <1>3
<1>6. IF client[d].cursor = Hub!NoCursor THEN held' = held
      ELSE held'[d] = w /\ \A e \in Devices \ {d} : held'[e] = held[e]
  BY <1>1 DEF Hub!Enter, Hub!TypeOK
<1>7. /\ wait[w].pc = "unused" /\ \A v \in Hub!Waits : v < w => wait[v].pc # "unused"
      /\ client[d].poll = Hub!Nothing /\ UNCHANGED <<stream, claims, replies, present, expired>>
  BY DEF Hub!Enter
<1> HIDE DEF r
<1> QED BY <1>2, <1>4, <1>5, <1>6, <1>7 DEF StartStep

\* A poll of device d answers; its client takes the answer if it still waits.
AnswerStep(d, w) ==
    /\ DoneStep(w)
    /\ wait[w].pc = "respond" /\ wait[w].dev = d
    /\ held'[d] = (IF held[d] = w THEN Hub!Nothing ELSE held[d])
    /\ \A e \in Devices \ {d} : held'[e] = held[e] /\ client'[e] = client[e]
    /\ IF client[d].poll # w THEN client'[d] = client[d]
       ELSE /\ client'[d].poll = Hub!Nothing /\ client'[d].cursor = wait[w].from
            /\ client'[d].got = client[d].got \cup wait[w].ready
    /\ UNCHANGED <<stream, claims, replies, present, expired>>

LEMMA RespondAnswers ==
    ASSUME Hub!IndInv, NEW w \in Hub!Waits, Hub!Respond(w)
    PROVE  \E d \in Devices : AnswerStep(d, w)
<1> DEFINE d == wait[w].dev
           x == client[d]
           r == [x EXCEPT !.poll = Hub!Nothing, !.cursor = wait[w].from,
                          !.got = x.got \cup wait[w].ready]
<1>1. Hub!TypeOK /\ Typed /\ d \in Devices
  BY AtCommand DEF Hub!IndInv, Typed, Hub!TypeOK, Hub!Respond
<1>2. DoneStep(w)
  BY <1>1, RespondEffect
<1>3. /\ x \in Hub!Clients /\ client \in [Devices -> Hub!Clients]
      /\ client' = [client EXCEPT ![d] = IF x.poll # w THEN x ELSE r]
  BY <1>1, ClientFields DEF Hub!Respond, Hub!TypeOK
<1>4. r.poll = Hub!Nothing /\ r.cursor = wait[w].from /\ r.got = x.got \cup wait[w].ready
  <2> HIDE DEF x, d
  <2> QED BY <1>3 DEF Hub!Clients
<1>5. /\ client'[d] = IF x.poll # w THEN x ELSE r
      /\ \A e \in Devices \ {d} : client'[e] = client[e]
  <2> HIDE DEF r, d
  <2> QED BY <1>1, <1>3
<1>6. /\ held'[d] = (IF held[d] = w THEN Hub!Nothing ELSE held[d])
      /\ \A e \in Devices \ {d} : held'[e] = held[e]
  BY <1>1 DEF Hub!Respond, Hub!SlotAfter, Hub!TypeOK
<1>7. wait[w].pc = "respond" /\ UNCHANGED <<stream, claims, replies, present, expired>>
  BY DEF Hub!Respond
<1>8. AnswerStep(d, w)
  <2> HIDE DEF r
  <2> QED BY <1>2, <1>4, <1>5, <1>6, <1>7 DEF AnswerStep
<1> QED BY <1>1, <1>8

\* Every step is of one of these kinds.
HubKinds ==
    \/ QuietStep
    \/ \E w \in Hub!Waits : MoveStep(w)
    \/ \E d \in Devices, w \in Hub!Waits : StartStep(d, w)
    \/ \E d \in Devices, w \in Hub!Waits : AnswerStep(d, w)

LEMMA HubStepKinds == Hub!IndInv /\ Hub!Next => HubKinds
<1> SUFFICES ASSUME Hub!IndInv, Hub!Next PROVE HubKinds
  OBVIOUS
<1>1. ASSUME NEW c \in Commands, Hub!Dispatching(c) PROVE HubKinds
  BY <1>1, AskerQuiet DEF HubKinds
<1>2. ASSUME NEW w \in Hub!Waits, Hub!Polling(w) PROVE HubKinds
  <2>1. CASE Hub!Respond(w)
    BY <2>1, RespondAnswers DEF HubKinds
  <2>2. CASE ~Hub!Respond(w)
    <3>1. MoveStep(w)
      BY <1>2, <2>2, AnnounceMoves, UnannouncedMoves, HandshakeMoves, ReadDevicesMoves,
         NextMoves, CheckMoves, ClaimMoves, ScanFailsMoves, WakeMoves, HoldMoves
      DEF Hub!Polling
    <3> QED BY <3>1 DEF HubKinds
  <2> QED BY <2>1, <2>2
<1>3. ASSUME NEW d \in Devices,
             Hub!Touch(d) \/ Hub!GoStale(d) \/ Hub!GiveUp(d) \/ \E w \in Hub!Waits : Hub!Enter(d, w)
      PROVE  HubKinds
  BY <1>3, ClientQuiet, EnterStarts DEF HubKinds
<1>4. ASSUME NEW d \in Devices, NEW c \in Commands, NEW a \in Answers, Hub!Reply(d, c, a)
      PROVE  HubKinds
  BY <1>4, ReplyQuiet DEF HubKinds
<1>5. ASSUME NEW c \in Commands, NEW a \in Answers, Hub!PublishReply(c, a) \/ Hub!LoseReply(c, a)
      PROVE  HubKinds
  BY <1>5, ReplyQuiet DEF HubKinds
<1> QED BY <1>1, <1>2, <1>3, <1>4, <1>5 DEF Hub!Next

(***************************************************************************)
(* What every step keeps.                                                  *)
(***************************************************************************)

LEMMA HubTypes ==
    ASSUME Hub!IndInv
    PROVE  /\ Hub!TypeOK /\ Typed
           /\ stream \in Seq(Commands) /\ Len(stream) \in Nat
           /\ claims \in [Commands -> Devices \cup {Hub!Nothing}]
           /\ \A i \in 1 .. Len(stream) : stream[i] \in Commands
           /\ Hub!Nothing \notin Devices
           /\ \A w \in Hub!Waits : w # Hub!Nothing /\ w \in Nat
<1>1. Hub!TypeOK /\ Typed /\ stream \in Seq(Commands)
  BY DEF Hub!IndInv, Hub!TypeOK, Typed
<1>2. claims \in [Commands -> Devices \cup {Hub!Nothing}]
  BY <1>1 DEF Hub!TypeOK
<1>3. Len(stream) \in Nat /\ \A i \in 1 .. Len(stream) : stream[i] \in Commands
  BY <1>1
<1>4. Hub!Nothing \notin Devices /\ \A w \in Hub!Waits : w # Hub!Nothing /\ w \in Nat
  BY HubConstants DEF Hub!Nothing, Hub!Waits
<1> QED BY <1>1, <1>2, <1>3, <1>4

LEMMA MoveGrows ==
    ASSUME Hub!IndInv, NEW w \in Hub!Waits, MoveStep(w)
    PROVE  Grows
<1>1. \A c \in Commands : claims[c] # Hub!Nothing => claims'[c] = claims[c]
  BY HubTypes DEF MoveStep, Claims
<1> QED BY <1>1, HubTypes DEF MoveStep, Grows

LEMMA KindsGrow ==
    ASSUME Hub!IndInv, HubKinds
    PROVE  Grows
<1>1. CASE QuietStep
  BY <1>1 DEF QuietStep
<1>2. CASE \E w \in Hub!Waits : MoveStep(w)
  BY <1>2, MoveGrows
<1>3. CASE \E d \in Devices, w \in Hub!Waits : StartStep(d, w) \/ AnswerStep(d, w)
  BY <1>3, HubTypes, KeptGrows DEF StartStep, AnswerStep
<1> QED BY <1>1, <1>2, <1>3 DEF HubKinds

\* A poll keeps its device.
LEMMA DevsKept ==
    ASSUME Hub!IndInv, HubKinds, NEW v \in Hub!Waits, wait[v].dev # Hub!Nothing
    PROVE  wait'[v].dev = wait[v].dev
<1>1. CASE QuietStep
  BY <1>1 DEF QuietStep, SamePolls, SamePoll, AlikePolls
<1>2. CASE \E w \in Hub!Waits : MoveStep(w)
  BY <1>2 DEF MoveStep, SamePoll, AlikePolls
<1>3. CASE \E d \in Devices, w \in Hub!Waits : StartStep(d, w)
  <2>1. PICK d \in Devices, w \in Hub!Waits : StartStep(d, w)
    BY <1>3
  <2>2. v # w
    BY <2>1 DEF StartStep, Hub!IndInv, Hub!Started
  <2> QED BY <2>1, <2>2 DEF StartStep, EnterStep, SamePoll, AlikePolls
<1>4. CASE \E d \in Devices, w \in Hub!Waits : AnswerStep(d, w)
  BY <1>4 DEF AnswerStep, DoneStep, SamePoll, AlikePolls
<1> QED BY <1>1, <1>2, <1>3, <1>4 DEF HubKinds

LEMMA SoloBefore ==
    ASSUME Hub!IndInv, HubKinds, NEW d, Hub!Solo(d)'
    PROVE  Hub!Solo(d)
BY DevsKept DEF Hub!Solo

LEMMA FineKept ==
    ASSUME Hub!IndInv, Grows, NEW v \in Hub!Waits, SamePoll(v)
    PROVE  Hub!PollFine(v)'
<1>1. Hub!PollFine(v) /\ wait[v].from \in Nat
  BY HubTypes, PollFields DEF Hub!IndInv, Hub!Started
<1>2. Len(stream) <= Len(stream') /\ Len(stream) \in Nat
      /\ \A i \in 1 .. Len(stream) : stream'[i] = stream[i]
  BY HubTypes DEF Grows
<1>3. Len(stream') \in Nat \/ wait[v].from <= Len(stream')
  BY <1>1, <1>2 DEF Hub!PollFine
<1>4. wait[v].pc \in {"check", "claim"} => stream'[wait[v].from + 1] = stream[wait[v].from + 1]
  BY <1>1, <1>2 DEF Hub!PollFine
<1> QED BY <1>1, <1>2, <1>4 DEF Hub!PollFine, SamePoll, AlikePolls, Hub!Running

LEMMA StartedStep ==
    ASSUME Hub!IndInv, HubKinds, Hub!TypeOK'
    PROVE  Hub!Started'
<1>0. Grows /\ Hub!Started
  BY KindsGrow DEF Hub!IndInv
<1>1. CASE QuietStep
  <2>1. \A w \in Hub!Waits : SamePoll(w)
    BY <1>1 DEF QuietStep, SamePolls
  <2>2. \A w \in Hub!Waits : Hub!PollFine(w)'
    BY <1>0, <2>1, FineKept
  <2> QED BY <1>0, <2>1, <2>2 DEF Hub!Started, SamePoll, AlikePolls
<1>2. ASSUME NEW u \in Hub!Waits, MoveStep(u) PROVE Hub!Started'
  <2>1. \A w \in Hub!Waits \ {u} : SamePoll(w)
    BY <1>2 DEF MoveStep
  <2>2. \A w \in Hub!Waits : Hub!PollFine(w)'
    BY <1>0, <1>2, <2>1, FineKept DEF MoveStep
  <2>3. \A w \in Hub!Waits : wait'[w].dev = wait[w].dev /\ (wait'[w].pc = "unused" <=> wait[w].pc = "unused")
    BY <1>2, <2>1 DEF MoveStep, Hub!Running, SamePoll, AlikePolls
  <2> QED BY <1>0, <2>2, <2>3 DEF Hub!Started
<1>3. ASSUME NEW d \in Devices, NEW u \in Hub!Waits, StartStep(d, u) PROVE Hub!Started'
  <2>1. \A w \in Hub!Waits \ {u} : SamePoll(w)
    BY <1>3 DEF StartStep, EnterStep
  <2>2. client[d].cursor <= Len(stream) /\ client[d].cursor \in Nat \cup {Hub!NoCursor}
    BY HubTypes, ClientFields DEF Hub!IndInv, Hub!Cursors, Hub!CursorFine
  <2>3. wait'[u].from \in Nat /\ wait'[u].from <= Len(stream) /\ stream' = stream
    BY <1>3, <2>2, HubTypes DEF StartStep, EnterStep
  <2>4. Hub!PollFine(u)'
    BY <1>3, <2>3 DEF StartStep, EnterStep, Hub!PollFine, Hub!Running
  <2>5. \A w \in Hub!Waits : Hub!PollFine(w)'
    BY <1>0, <2>1, <2>4, FineKept
  <2>6. wait'[u].dev = d /\ d # Hub!Nothing /\ wait'[u].pc = "enter"
    BY <1>3, HubTypes DEF StartStep, EnterStep
  <2>7. \A w \in Hub!Waits \ {u} : wait'[w].dev = wait[w].dev /\ wait'[w].pc = wait[w].pc
    BY <2>1 DEF SamePoll, AlikePolls
  <2>8. ASSUME NEW v \in Hub!Waits, NEW w \in Hub!Waits, v < w, wait'[v].pc = "unused"
        PROVE  wait'[w].pc = "unused"
    <3>1. v # u /\ wait[v].pc = "unused"
      BY <2>6, <2>7, <2>8
    <3>2. w # u
      BY <1>3, <2>8, <3>1 DEF StartStep
    <3> QED BY <1>0, <2>7, <2>8, <3>1, <3>2 DEF Hub!Started
  <2> QED BY <1>0, <2>5, <2>6, <2>7, <2>8 DEF Hub!Started
<1>4. ASSUME NEW d \in Devices, NEW u \in Hub!Waits, AnswerStep(d, u) PROVE Hub!Started'
  <2>1. \A w \in Hub!Waits \ {u} : SamePoll(w)
    BY <1>4 DEF AnswerStep, DoneStep
  <2>2. Hub!PollFine(u)'
    BY <1>4, HubTypes DEF AnswerStep, DoneStep, Hub!PollFine, Hub!Running
  <2>3. \A w \in Hub!Waits : Hub!PollFine(w)'
    BY <1>0, <2>1, <2>2, FineKept
  <2>4. \A w \in Hub!Waits : wait'[w].dev = wait[w].dev /\ (wait'[w].pc = "unused" <=> wait[w].pc = "unused")
    BY <1>4, <2>1 DEF AnswerStep, DoneStep, SamePoll, AlikePolls
  <2> QED BY <1>0, <2>3, <2>4 DEF Hub!Started
<1> QED BY <1>1, <1>2, <1>3, <1>4 DEF HubKinds

\* What was claimed for a poll or a client stays claimed for it.
LEMMA ClaimedStep ==
    ASSUME Hub!IndInv, HubKinds
    PROVE  Hub!Claimed'
<1>0. /\ Hub!Claimed /\ Hub!Started /\ Hub!Nothing \notin Devices
      /\ \A c \in Commands : claims[c] # Hub!Nothing => claims'[c] = claims[c]
  BY KindsGrow, HubTypes DEF Hub!IndInv, Grows
<1>1. ASSUME NEW w \in Hub!Waits, NEW c \in wait[w].ready
      PROVE  c \in Commands /\ claims'[c] = wait[w].dev
  <2>1. c \in Commands /\ claims[c] = wait[w].dev /\ wait[w].dev # Hub!Nothing
    BY <1>0, HubTypes, PollFields DEF Hub!Claimed, Hub!Started, Hub!PollFine, Hub!Running
  <2> QED BY <1>0, <2>1
<1>2. ASSUME NEW d \in Devices, NEW c \in client[d].got PROVE claims'[c] = d
  <2>1. c \in Commands /\ claims[c] = d
    BY <1>0, HubTypes, ClientFields DEF Hub!Claimed
  <2> QED BY <1>0, <2>1
<1>3. CASE QuietStep
  BY <1>1, <1>2, <1>3 DEF QuietStep, SamePolls, SamePoll, AlikePolls, Hub!Claimed
<1>4. ASSUME NEW u \in Hub!Waits, MoveStep(u) PROVE Hub!Claimed'
  <2>1. \A w \in Hub!Waits : \A c \in wait'[w].ready : claims'[c] = wait'[w].dev
    BY <1>1, <1>4 DEF MoveStep, SamePoll, AlikePolls
  <2>2. \A d \in Devices : client'[d].got = client[d].got
    BY <1>4 DEF MoveStep
  <2> QED BY <1>2, <2>1, <2>2 DEF Hub!Claimed
<1>5. ASSUME NEW d \in Devices, NEW u \in Hub!Waits, StartStep(d, u) PROVE Hub!Claimed'
  <2>1. \A w \in Hub!Waits : \A c \in wait'[w].ready : claims'[c] = wait'[w].dev
    BY <1>1, <1>5 DEF StartStep, EnterStep, SamePoll, AlikePolls
  <2>2. \A e \in Devices : client'[e].got = client[e].got
    BY <1>5 DEF StartStep
  <2> QED BY <1>2, <2>1, <2>2 DEF Hub!Claimed
<1>6. ASSUME NEW d \in Devices, NEW u \in Hub!Waits, AnswerStep(d, u) PROVE Hub!Claimed'
  <2>1. \A w \in Hub!Waits : \A c \in wait'[w].ready : claims'[c] = wait'[w].dev
    BY <1>1, <1>6 DEF AnswerStep, DoneStep, SamePoll, AlikePolls
  <2>2. ASSUME NEW e \in Devices, NEW c \in client'[e].got PROVE claims'[c] = e
    <3>1. c \in client[e].got \/ (e = d /\ c \in wait[u].ready)
      BY <1>6 DEF AnswerStep
    <3> QED BY <1>1, <1>2, <1>6, <3>1 DEF AnswerStep
  <2> QED BY <2>1, <2>2 DEF Hub!Claimed
<1> QED BY <1>3, <1>4, <1>5, <1>6 DEF HubKinds

LEMMA PolledStep ==
    ASSUME Hub!IndInv, HubKinds, Hub!TypeOK'
    PROVE  Hub!Polled'
<1>0. Hub!Polled /\ Hub!Nothing \notin Devices /\ Typed
  BY HubTypes DEF Hub!IndInv
<1>1. ASSUME NEW d \in Devices, Hub!HasPolled(d) PROVE Hub!HasPolled(d)'
  BY <1>0, <1>1, DevsKept DEF Hub!HasPolled
<1>2. CASE QuietStep
  BY <1>0, <1>1, <1>2, PollFields DEF QuietStep, SamePolls, SamePoll, AlikePolls, Hub!Polled
<1>3. ASSUME NEW u \in Hub!Waits, MoveStep(u) PROVE Hub!Polled'
  <2>1. wait[u].dev \in Devices /\ Hub!HasPolled(wait[u].dev)
    BY <1>3, AtCommand DEF MoveStep, Hub!Running, Hub!HasPolled
  <2>2. ASSUME NEW d \in Devices, present'[d] > 0 PROVE Hub!HasPolled(d)'
    BY <1>0, <1>1, <1>3, <2>1, <2>2 DEF MoveStep, Hub!Polled
  <2>3. ASSUME NEW w \in Hub!Waits, wait'[w].winner # Hub!Nothing
        PROVE  \E e \in Devices : e = wait'[w].winner /\ Hub!HasPolled(e)
    <3>1. CASE wait'[w].winner = wait[w].winner
      BY <1>0, <2>3, <3>1, PollFields DEF Hub!Polled
    <3>2. CASE wait'[w].winner \in Devices /\ present[wait'[w].winner] > 0
      BY <1>0, <3>2 DEF Hub!Polled
    <3> QED BY <1>3, <2>3, <3>1, <3>2 DEF MoveStep, SamePoll, AlikePolls
  <2>4. \A w \in Hub!Waits : wait'[w].winner # Hub!Nothing => Hub!HasPolled(wait[w].winner)'
    <3> SUFFICES ASSUME NEW w \in Hub!Waits, wait'[w].winner # Hub!Nothing
                 PROVE  Hub!HasPolled(wait[w].winner)'
      OBVIOUS
    <3>1. PICK e \in Devices : e = wait'[w].winner /\ Hub!HasPolled(e)
      BY <2>3
    <3>2. Hub!HasPolled(e)'
      BY <1>1, <3>1
    <3> QED BY <3>1, <3>2 DEF Hub!HasPolled
  <2> QED BY <2>2, <2>4 DEF Hub!Polled
<1>4. ASSUME NEW d \in Devices, NEW u \in Hub!Waits, StartStep(d, u) \/ AnswerStep(d, u)
      PROVE  Hub!Polled'
  <2>1. present' = present /\ \A w \in Hub!Waits : wait'[w].winner \in {Hub!Nothing, wait[w].winner}
    BY <1>4 DEF StartStep, AnswerStep, EnterStep, DoneStep, SamePoll, AlikePolls
  <2>2. ASSUME NEW w \in Hub!Waits, wait'[w].winner # Hub!Nothing PROVE Hub!HasPolled(wait[w].winner)'
    <3>1. PICK e \in Devices : e = wait[w].winner /\ e = wait'[w].winner /\ Hub!HasPolled(e)
      BY <1>0, <2>1, <2>2, PollFields DEF Hub!Polled
    <3>2. Hub!HasPolled(e)'
      BY <1>1, <3>1
    <3> QED BY <3>1, <3>2 DEF Hub!HasPolled
  <2> QED BY <1>0, <1>1, <2>1, <2>2 DEF Hub!Polled
<1> QED BY <1>2, <1>3, <1>4 DEF HubKinds

\* The slot of a device stays with its newest running poll.
LEMMA NewestStep ==
    ASSUME Hub!IndInv, HubKinds, Hub!TypeOK'
    PROVE  Hub!NewestHolds'
<1>0. /\ Hub!NewestHolds /\ Hub!Started /\ Hub!Nothing \notin Devices
      /\ \A w \in Hub!Waits : w # Hub!Nothing /\ w \in Nat
      /\ \A d \in Devices : held[d] \in Hub!Waits \cup {Hub!Nothing}
  BY HubTypes DEF Hub!IndInv, Hub!TypeOK
<1>1. CASE QuietStep
  BY <1>0, <1>1 DEF QuietStep, SamePolls, SamePoll, AlikePolls, Hub!NewestHolds, Hub!Running
<1>2. ASSUME NEW u \in Hub!Waits, MoveStep(u) PROVE Hub!NewestHolds'
  <2>1. \A w \in Hub!Waits : /\ wait'[w].dev = wait[w].dev /\ wait'[w].shake = wait[w].shake
                             /\ Hub!Running(w)' <=> Hub!Running(w)
    BY <1>2 DEF MoveStep, SamePoll, AlikePolls, Hub!Running
  <2>2. held' = held
    BY <1>2 DEF MoveStep
  <2> HIDE DEF Hub!Running
  <2>3. \A d \in Devices : held'[d] # Hub!Nothing => Hub!Running(held[d])' /\ wait'[held'[d]].dev = d
    <3> SUFFICES ASSUME NEW d \in Devices, held'[d] # Hub!Nothing
                 PROVE  Hub!Running(held[d])' /\ wait'[held'[d]].dev = d
      OBVIOUS
    <3>1. PICK v \in Hub!Waits : v = held[d] /\ v = held'[d] /\ Hub!Running(v) /\ wait[v].dev = d
      BY <1>0, <2>2 DEF Hub!NewestHolds
    <3>2. Hub!Running(v)' /\ wait'[v].dev = d
      BY <2>1, <3>1
    <3> QED BY <3>1, <3>2 DEF Hub!Running
  <2> QED BY <1>0, <2>1, <2>2, <2>3 DEF Hub!NewestHolds
<1>3. ASSUME NEW d \in Devices, NEW u \in Hub!Waits, StartStep(d, u) PROVE Hub!NewestHolds'
  <2>1. /\ \A w \in Hub!Waits \ {u} : /\ wait'[w].dev = wait[w].dev /\ wait'[w].shake = wait[w].shake
                                      /\ wait'[w].pc = wait[w].pc
        /\ wait'[u].dev = d /\ wait'[u].pc = "enter"
        /\ wait'[u].shake <=> client[d].cursor = Hub!NoCursor
        /\ wait[u].pc = "unused" /\ \A v \in Hub!Waits : v < u => wait[v].pc # "unused"
    BY <1>3 DEF StartStep, EnterStep, SamePoll, AlikePolls
  <2>2. \A w \in Hub!Waits : w > u => wait[w].dev = Hub!Nothing /\ wait[w].pc = "unused"
    BY <1>0, <2>1 DEF Hub!Started
  <2>3. IF wait'[u].shake THEN held' = held
        ELSE held'[d] = u /\ \A e \in Devices \ {d} : held'[e] = held[e]
    BY <1>3, <2>1 DEF StartStep
  <2>4. ASSUME NEW e \in Devices, NEW v \in Hub!Waits, v = held'[e]
        PROVE  wait'[v].pc \notin {"unused", "done"} /\ wait'[v].dev = e
    <3>1. CASE e = d /\ ~wait'[u].shake
      BY <2>1, <2>3, <2>4, <3>1
    <3>2. CASE ~(e = d /\ ~wait'[u].shake)
      <4>1. v = held[e] /\ wait[v].pc \notin {"unused", "done"} /\ wait[v].dev = e
        BY <1>0, <2>3, <2>4, <3>2 DEF Hub!NewestHolds, Hub!Running
      <4> QED BY <2>1, <4>1
    <3> QED BY <3>1, <3>2
  <2>5. ASSUME NEW w \in Hub!Waits, wait'[w].pc \notin {"unused", "done"}, ~wait'[w].shake,
               \A v \in Hub!Waits : v > w => wait'[v].dev # wait'[w].dev
        PROVE  held'[wait'[w].dev] = w
    <3>1. CASE w = u
      BY <2>1, <2>3, <2>5, <3>1
    <3>2. CASE w # u
      <4>1. w < u /\ wait[w].dev \in Devices
        <5>1. wait[w].pc # "unused"
          BY <2>1, <2>5, <3>2
        <5> QED BY <1>0, <2>2, <3>2, <5>1, AtCommand
      <4>2. wait[w].dev # d
        BY <2>1, <2>5, <3>2, <4>1
      <4>3. \A v \in Hub!Waits : v > w => wait[v].dev # wait[w].dev
        <5> TAKE v \in Hub!Waits
        <5>1. CASE v = u
          BY <1>0, <2>1, <4>1, <5>1 DEF Hub!Started
        <5>2. CASE v # u
          BY <2>1, <2>5, <3>2, <5>2
        <5> QED BY <5>1, <5>2
      <4>4. held[wait[w].dev] = w
        BY <1>0, <2>1, <2>5, <3>2, <4>3 DEF Hub!NewestHolds, Hub!Running
      <4> QED BY <2>1, <2>3, <3>2, <4>1, <4>2, <4>4
    <3> QED BY <3>1, <3>2
  <2>6. \A e \in Devices : held'[e] \in Hub!Waits \cup {Hub!Nothing}
    BY DEF Hub!TypeOK
  <2> QED BY <2>4, <2>5, <2>6 DEF Hub!NewestHolds, Hub!Running
<1>4. ASSUME NEW d \in Devices, NEW u \in Hub!Waits, AnswerStep(d, u) PROVE Hub!NewestHolds'
  <2>1. /\ \A w \in Hub!Waits \ {u} : /\ wait'[w].shake = wait[w].shake /\ wait'[w].pc = wait[w].pc
        /\ \A w \in Hub!Waits : wait'[w].dev = wait[w].dev
        /\ wait[u].dev = d /\ wait'[u].pc = "done"
        /\ held'[d] = (IF held[d] = u THEN Hub!Nothing ELSE held[d])
        /\ \A e \in Devices \ {d} : held'[e] = held[e]
    BY <1>4 DEF AnswerStep, DoneStep, SamePoll, AlikePolls
  <2>2. ASSUME NEW e \in Devices, NEW v \in Hub!Waits, v = held'[e]
        PROVE  wait'[v].pc \notin {"unused", "done"} /\ wait'[v].dev = e
    <3>1. v = held[e] /\ wait[v].pc \notin {"unused", "done"} /\ wait[v].dev = e
      BY <1>0, <2>1, <2>2 DEF Hub!NewestHolds, Hub!Running
    <3>2. v # u
      <4> SUFFICES ASSUME v = u PROVE FALSE
        OBVIOUS
      <4>1. e = d
        BY <2>1, <3>1
      <4>2. held'[d] = Hub!Nothing
        BY <2>1, <3>1, <4>1
      <4> QED BY <1>0, <2>2, <4>1, <4>2
    <3> QED BY <2>1, <3>1, <3>2
  <2>3. ASSUME NEW w \in Hub!Waits, wait'[w].pc \notin {"unused", "done"}, ~wait'[w].shake,
               \A v \in Hub!Waits : v > w => wait'[v].dev # wait'[w].dev
        PROVE  held'[wait'[w].dev] = w
    <3>1. w # u
      BY <2>1, <2>3
    <3>2. held[wait[w].dev] = w
      BY <1>0, <2>1, <2>3, <3>1 DEF Hub!NewestHolds, Hub!Running
    <3>3. wait[w].dev \in Devices
      BY <2>1, <2>3, <3>1, AtCommand
    <3> QED BY <2>1, <3>1, <3>2, <3>3
  <2>4. \A e \in Devices : held'[e] \in Hub!Waits \cup {Hub!Nothing}
    BY DEF Hub!TypeOK
  <2> QED BY <2>2, <2>3, <2>4 DEF Hub!NewestHolds, Hub!Running
<1> QED BY <1>1, <1>2, <1>3, <1>4 DEF HubKinds

\* A command that is no loss to a poll's device stays so.
LEMMA PassedKept ==
    ASSUME Hub!IndInv, Grows, NEW w \in Hub!Waits, NEW i \in 1 .. Len(stream), Hub!Passed(w, i),
           wait'[w].dev = wait[w].dev, wait[w].ready \subseteq wait'[w].ready
    PROVE  Hub!Passed(w, i)'
<1>1. stream'[i] = stream[i] /\ stream[i] \in Commands
  BY HubTypes DEF Grows
<1> QED BY <1>1 DEF Grows, Hub!Passed

\* What a poll whose presence was not written, or of the only device, has passed.
Careful(w) == ~wait[w].ok \/ Hub!Solo(wait[w].dev)

Skipless == \A w \in Hub!Waits : Hub!Running(w) /\ ~wait[w].shake /\ Careful(w) =>
                \A i \in wait[w].since + 1 .. wait[w].from : Hub!Passed(w, i)

LEMMA SkiplessParts == Skipless <=> Hub!BlindSkipsNothing /\ Hub!SoloSkipsNothing
BY DEF Skipless, Careful, Hub!BlindSkipsNothing, Hub!SoloSkipsNothing

LEMMA SkiplessStep ==
    ASSUME Hub!IndInv, HubKinds, Hub!TypeOK'
    PROVE  Skipless'
<1>0. /\ Skipless /\ Grows /\ Hub!Started /\ Hub!Polled /\ Len(stream) \in Nat
      /\ Typed /\ Hub!Nothing \notin Devices
  BY KindsGrow, HubTypes, SkiplessParts DEF Hub!IndInv
<1>1. ASSUME NEW w \in Hub!Waits PROVE wait[w].since \in Nat /\ wait[w].from \in Nat /\ wait[w].from <= Len(stream)
  BY <1>0, PollFields DEF Hub!Started, Hub!PollFine
<1> SUFFICES ASSUME NEW w \in Hub!Waits, Hub!Running(w)', ~wait'[w].shake, Careful(w)',
                    NEW i \in wait'[w].since + 1 .. wait'[w].from
             PROVE  Hub!Passed(w, i)'
  BY DEF Skipless
<1>2. CASE SamePoll(w)
  <2>1. wait'[w].dev = wait[w].dev /\ wait'[w].ok = wait[w].ok /\ wait'[w].ready = wait[w].ready
        /\ wait'[w].since = wait[w].since /\ wait'[w].from = wait[w].from
        /\ wait'[w].pc = wait[w].pc /\ wait'[w].shake = wait[w].shake
    BY <1>2 DEF SamePoll, AlikePolls
  <2>2. Careful(w) /\ Hub!Running(w)
    <3>1. Hub!Solo(wait[w].dev)' => Hub!Solo(wait[w].dev)
      BY <2>1, DevsKept DEF Hub!Solo
    <3> QED BY <2>1, <3>1 DEF Careful, Hub!Running
  <2>3. Hub!Passed(w, i)
    BY <1>0, <2>1, <2>2 DEF Skipless
  <2>4. i \in 1 .. Len(stream)
    BY <1>0, <1>1, <2>1
  <2> QED BY <1>0, <2>1, <2>3, <2>4, PassedKept
<1>3. ASSUME MoveStep(w) PROVE Hub!Passed(w, i)'
  <2>1. wait'[w].dev = wait[w].dev /\ wait'[w].since = wait[w].since /\ wait'[w].shake = wait[w].shake
        /\ wait[w].ready \subseteq wait'[w].ready /\ Hub!Running(w) /\ (wait[w].ok => wait'[w].ok)
    BY <1>3 DEF MoveStep
  <2>2. Careful(w)
    <3>1. Hub!Solo(wait[w].dev)' => Hub!Solo(wait[w].dev)
      BY <2>1, DevsKept DEF Hub!Solo
    <3> QED BY <2>1, <3>1 DEF Careful
  <2>3. CASE i \in wait[w].since + 1 .. wait[w].from
    <3>1. Hub!Passed(w, i) /\ i \in 1 .. Len(stream)
      BY <1>0, <1>1, <2>1, <2>2, <2>3 DEF Skipless
    <3> QED BY <1>0, <2>1, <3>1, PassedKept
  <2>4. CASE i \notin wait[w].since + 1 .. wait[w].from
    <3>1. Advances(w)
      BY <1>3, <2>1, <2>4 DEF MoveStep
    <3>2. PICK j \in 1 .. Len(stream) :
            /\ j = wait[w].from + 1 /\ wait'[w].from = j
            /\ \/ Hub!Passed(w, j)'
               \/ wait[w].ok /\ wait[w].winner \notin {Hub!Nothing, wait[w].dev}
      BY <3>1 DEF Advances
    <3>3. i = j
      BY <1>1, <2>1, <2>4, <3>2
    <3>4. wait[w].ok => wait[w].winner \in {Hub!Nothing, wait[w].dev}
      <4> SUFFICES ASSUME wait[w].ok, wait[w].winner # Hub!Nothing PROVE wait[w].winner = wait[w].dev
        OBVIOUS
      <4>1. Hub!Solo(wait[w].dev)
        BY <2>2 DEF Careful
      <4>2. PICK v \in Hub!Waits : wait[v].dev = wait[w].winner
        BY <1>0 DEF Hub!Polled, Hub!HasPolled
      <4> QED BY <4>1, <4>2 DEF Hub!Solo
    <3> QED BY <3>2, <3>3, <3>4
  <2> QED BY <2>3, <2>4
<1>4. ASSUME NEW d \in Devices, StartStep(d, w) PROVE Hub!Passed(w, i)'
  <2>1. wait'[w].from = wait'[w].since /\ wait'[w].since \in Nat
    BY <1>4, HubTypes, ClientFields DEF StartStep, EnterStep
  <2> QED BY <2>1
<1>5. ASSUME NEW d \in Devices, AnswerStep(d, w) PROVE FALSE
  BY <1>5 DEF AnswerStep, DoneStep, Hub!Running
<1> QED
  BY <1>2, <1>3, <1>4, <1>5
  DEF HubKinds, QuietStep, SamePolls, MoveStep, StartStep, EnterStep, AnswerStep, DoneStep

\* A running poll with a cursor stays within what its client has.
LEMMA CursorsStep ==
    ASSUME Hub!IndInv, HubKinds, Hub!TypeOK'
    PROVE  Hub!Cursors'
<1>0. /\ \A d \in Devices : Hub!CursorFine(d)
      /\ Hub!Started /\ Typed /\ Hub!Nothing \notin Devices /\ Len(stream) \in Nat
      /\ Len(stream) <= Len(stream') /\ Len(stream') \in Nat
      /\ \A w \in Hub!Waits : w # Hub!Nothing
      /\ claims \in [Commands -> Devices \cup {Hub!Nothing}]
  BY HubTypes, KindsGrow DEF Hub!IndInv, Hub!Cursors, Grows, Hub!TypeOK
<1>1. ASSUME NEW d \in Devices
      PROVE  /\ client[d].cursor \in Nat \cup {Hub!NoCursor} /\ client[d].cursor <= Len(stream)
             /\ client[d].poll \in Hub!Waits \cup {Hub!Nothing}
             /\ client'[d].poll \in Hub!Waits \cup {Hub!Nothing}
             /\ \A w \in Hub!Waits : Hub!Scanning(w, d) =>
                    wait[w].since <= client[d].cursor /\ client[d].cursor \in Nat
  <2>1. client[d].cursor \in Nat \cup {Hub!NoCursor} /\ client[d].poll \in Hub!Waits \cup {Hub!Nothing}
    BY HubTypes, ClientFields
  <2>2. client'[d].poll \in Hub!Waits \cup {Hub!Nothing}
    BY DEF Hub!TypeOK, Hub!Clients
  <2>3. \A w \in Hub!Waits : wait[w].since \in Nat
    BY <1>0, PollFields
  <2> QED BY <1>0, <2>1, <2>2, <2>3 DEF Hub!CursorFine, Hub!NoCursor
\* A device whose cursor and polls stay as they are.
<1>2. ASSUME NEW d \in Devices, client'[d].cursor = client[d].cursor,
             client'[d].poll \in {client[d].poll, Hub!Nothing},
             \A w \in Hub!Waits : wait[w].dev = d \/ wait'[w].dev = d =>
                /\ wait'[w].dev = wait[w].dev /\ wait'[w].shake = wait[w].shake
                /\ wait'[w].since = wait[w].since
                /\ wait'[w].pc \in {"unused", "done"} <=> wait[w].pc \in {"unused", "done"},
             client[d].cursor = Hub!NoCursor => \A c \in Commands : claims'[c] # d
      PROVE  Hub!CursorFine(d)'
  <2>1. client'[d].cursor <= Len(stream')
    BY <1>0, <1>1, <1>2 DEF Hub!NoCursor
  <2>2. ASSUME NEW p \in Hub!Waits, p = client'[d].poll
        PROVE  /\ wait'[p].dev = d /\ wait'[p].pc \notin {"unused", "done"}
               /\ wait'[p].shake <=> client'[d].cursor = Hub!NoCursor
               /\ ~wait'[p].shake => wait'[p].since = client'[d].cursor
    <3>1. /\ wait[p].dev = d /\ wait[p].pc \notin {"unused", "done"}
          /\ wait[p].shake <=> client[d].cursor = Hub!NoCursor
          /\ ~wait[p].shake => wait[p].since = client[d].cursor
      BY <1>0, <1>2, <2>2 DEF Hub!CursorFine, Hub!Running
    <3> QED BY <1>2, <3>1
  <2>3. \A w \in Hub!Waits : Hub!Scanning(w, d)' => wait'[w].since <= client'[d].cursor
    BY <1>0, <1>2 DEF Hub!CursorFine, Hub!Scanning, Hub!Running
  <2> QED BY <1>1, <1>2, <2>1, <2>2, <2>3 DEF Hub!CursorFine, Hub!Running
<1>3. CASE QuietStep
  <2>1. ASSUME NEW d \in Devices PROVE Hub!CursorFine(d)'
    BY <1>0, <1>2, <1>3 DEF QuietStep, SamePolls, SamePoll, AlikePolls, Hub!CursorFine
  <2> QED BY <2>1 DEF Hub!Cursors
<1>4. ASSUME NEW u \in Hub!Waits, MoveStep(u) PROVE Hub!Cursors'
  <2>1. ASSUME NEW d \in Devices PROVE Hub!CursorFine(d)'
    <3>1. \A w \in Hub!Waits :
            /\ wait'[w].dev = wait[w].dev /\ wait'[w].shake = wait[w].shake
            /\ wait'[w].since = wait[w].since
            /\ wait'[w].pc \in {"unused", "done"} <=> wait[w].pc \in {"unused", "done"}
      BY <1>4 DEF MoveStep, SamePoll, AlikePolls, Hub!Running
    <3>2. ASSUME client[d].cursor = Hub!NoCursor, NEW c \in Commands PROVE claims'[c] # d
      <4>1. claims[c] # d
        BY <1>0, <3>2 DEF Hub!CursorFine
      <4>2. CASE claims' = claims
        BY <4>1, <4>2
      <4>3. CASE Claims(u)
        <5>1. wait[u].dev # d
          BY <1>1, <1>4, <3>2, <4>3 DEF Claims, MoveStep, Hub!Scanning, Hub!NoCursor
        <5> QED BY <1>0, <4>1, <4>3, <5>1 DEF Claims
      <4> QED BY <1>4, <4>2, <4>3 DEF MoveStep
    <3>3. client' = client
      BY <1>4 DEF MoveStep
    <3> QED BY <1>2, <3>1, <3>2, <3>3
  <2> QED BY <2>1 DEF Hub!Cursors
<1>5. ASSUME NEW d \in Devices, NEW u \in Hub!Waits, StartStep(d, u) PROVE Hub!Cursors'
  <2>1. \A w \in Hub!Waits \ {u} :
          /\ wait'[w].dev = wait[w].dev /\ wait'[w].shake = wait[w].shake
          /\ wait'[w].since = wait[w].since /\ wait'[w].pc = wait[w].pc
    BY <1>5 DEF StartStep, EnterStep, SamePoll, AlikePolls
  <2>2. /\ wait[u].dev = Hub!Nothing /\ wait'[u].dev = d /\ wait'[u].pc = "enter"
        /\ wait'[u].shake <=> client[d].cursor = Hub!NoCursor
        /\ ~wait'[u].shake => wait'[u].since = client[d].cursor
        /\ claims' = claims /\ stream' = stream
        /\ client'[d].poll = u /\ client'[d].cursor = client[d].cursor
        /\ \A e \in Devices \ {d} : client'[e] = client[e]
    BY <1>0, <1>5 DEF StartStep, EnterStep, Hub!Started
  <2>3. ASSUME NEW e \in Devices \ {d} PROVE Hub!CursorFine(e)'
    <3>1. \A w \in Hub!Waits : wait[w].dev = e \/ wait'[w].dev = e => w # u
      BY <1>0, <2>2
    <3> QED BY <1>0, <1>2, <2>1, <2>2, <3>1 DEF Hub!CursorFine
  <2>4. Hub!CursorFine(d)'
    <3>1. ASSUME NEW w \in Hub!Waits, Hub!Scanning(w, d)' PROVE wait'[w].since <= client'[d].cursor
      <4>1. CASE w = u
        BY <1>1, <2>2, <3>1, <4>1 DEF Hub!Scanning
      <4>2. CASE w # u
        BY <1>1, <2>1, <2>2, <3>1, <4>2 DEF Hub!Scanning, Hub!Running
      <4> QED BY <4>1, <4>2
    <3>2. client[d].cursor = Hub!NoCursor => \A c \in Commands : claims'[c] # d
      BY <1>0, <2>2 DEF Hub!CursorFine
    <3> QED BY <1>1, <2>2, <3>1, <3>2 DEF Hub!CursorFine, Hub!Running
  <2> QED BY <2>3, <2>4 DEF Hub!Cursors
<1>6. ASSUME NEW d \in Devices, NEW u \in Hub!Waits, AnswerStep(d, u) PROVE Hub!Cursors'
  <2>1. /\ \A w \in Hub!Waits \ {u} :
              /\ wait'[w].dev = wait[w].dev /\ wait'[w].shake = wait[w].shake
              /\ wait'[w].since = wait[w].since /\ wait'[w].pc = wait[w].pc
        /\ wait[u].dev = d /\ wait'[u].dev = d /\ wait'[u].pc = "done" /\ wait[u].pc = "respond"
        /\ claims' = claims /\ stream' = stream
        /\ \A e \in Devices \ {d} : client'[e] = client[e]
    BY <1>6 DEF AnswerStep, DoneStep, SamePoll, AlikePolls
  <2>2. ASSUME NEW e \in Devices \ {d} PROVE Hub!CursorFine(e)'
    <3>1. \A w \in Hub!Waits : wait[w].dev = e \/ wait'[w].dev = e => w # u
      BY <2>1
    <3> QED BY <1>0, <1>2, <2>1, <3>1 DEF Hub!CursorFine
  <2>3. ASSUME NEW w \in Hub!Waits, Hub!Scanning(w, d)' PROVE w # u /\ Hub!Scanning(w, d)
    BY <2>1, <2>3 DEF Hub!Scanning, Hub!Running
  <2>4. CASE client[d].poll # u
    <3>1. client'[d] = client[d]
      BY <1>6, <2>4 DEF AnswerStep
    <3>2. \A w \in Hub!Waits : Hub!Scanning(w, d)' => wait'[w].since <= client'[d].cursor
      BY <1>1, <2>1, <2>3, <3>1
    <3>3. ASSUME NEW p \in Hub!Waits, p = client[d].poll
          PROVE  /\ wait'[p].dev = d /\ wait'[p].pc \notin {"unused", "done"}
                 /\ wait'[p].shake <=> client[d].cursor = Hub!NoCursor
                 /\ ~wait'[p].shake => wait'[p].since = client[d].cursor
      <4>1. /\ wait[p].dev = d /\ wait[p].pc \notin {"unused", "done"}
            /\ wait[p].shake <=> client[d].cursor = Hub!NoCursor
            /\ ~wait[p].shake => wait[p].since = client[d].cursor
        BY <1>0, <3>3 DEF Hub!CursorFine, Hub!Running
      <4> QED BY <2>1, <2>4, <3>3, <4>1
    <3>4. client[d].cursor = Hub!NoCursor => \A c \in Commands : claims'[c] # d
      BY <1>0, <2>1 DEF Hub!CursorFine
    <3>5. Hub!CursorFine(d)'
      BY <1>1, <2>1, <3>1, <3>2, <3>3, <3>4 DEF Hub!CursorFine, Hub!Running
    <3> QED BY <2>2, <3>5 DEF Hub!Cursors
  <2>5. CASE client[d].poll = u
    <3>1. client'[d].poll = Hub!Nothing /\ client'[d].cursor = wait[u].from
      BY <1>6, <2>5 DEF AnswerStep
    <3>2. /\ wait[u].since <= wait[u].from /\ wait[u].from <= Len(stream)
          /\ wait[u].since \in Nat /\ wait[u].from \in Nat
      BY <1>0, PollFields DEF Hub!Started, Hub!PollFine
    <3>3. /\ wait[u].shake <=> client[d].cursor = Hub!NoCursor
          /\ ~wait[u].shake => wait[u].since = client[d].cursor
      BY <1>0, <2>5 DEF Hub!CursorFine
    <3>4. ASSUME NEW w \in Hub!Waits, Hub!Scanning(w, d)' PROVE wait'[w].since <= client'[d].cursor
      <4>1. wait[w].since <= client[d].cursor /\ client[d].cursor \in Nat /\ wait'[w].since = wait[w].since
        BY <1>1, <2>1, <2>3, <3>4
      <4>2. client[d].cursor = wait[u].since
        BY <3>3, <4>1 DEF Hub!NoCursor
      <4>3. wait[w].since \in Nat
        BY <1>0, PollFields
      <4> QED BY <3>1, <3>2, <4>1, <4>2, <4>3
    <3>5. Hub!CursorFine(d)'
      BY <2>1, <3>1, <3>2, <3>4 DEF Hub!CursorFine, Hub!NoCursor
    <3> QED BY <2>2, <3>5 DEF Hub!Cursors
  <2> QED BY <2>4, <2>5
<1> QED BY <1>3, <1>4, <1>5, <1>6 DEF HubKinds

\* What is settled for the only device stays so.
LEMMA SettledKept ==
    ASSUME Hub!IndInv, HubKinds, NEW d \in Devices, Hub!Solo(d)', Hub!TypeOK',
           NEW i \in 1 .. client[d].cursor, Hub!Settled(d, i)
    PROVE  Hub!Settled(d, i)'
<1> DEFINE c == stream[i]
<1>0. /\ Grows /\ Hub!Started /\ Hub!StoredOnce /\ Typed /\ Hub!Nothing \notin Devices
      /\ Len(stream) \in Nat /\ claims \in [Commands -> Devices \cup {Hub!Nothing}]
      /\ client[d].cursor \in Nat \cup {Hub!NoCursor} /\ Hub!CursorFine(d)
  BY HubTypes, KindsGrow, ClientFields DEF Hub!IndInv, Hub!Cursors
<1>1. i \in 1 .. Len(stream) /\ i \in Nat /\ client[d].cursor \in Nat
  BY <1>0 DEF Hub!CursorFine, Hub!NoCursor
<1>2. stream'[i] = c /\ c \in Commands
  BY <1>0, <1>1, HubTypes DEF Grows
<1>3. client[d].got \subseteq client'[d].got
  BY DEF HubKinds, QuietStep, MoveStep, StartStep, AnswerStep
<1>4. CASE c \in client[d].got \cup expired \/ replies[c] # Hub!Nothing \/ claims[c] \notin {Hub!Nothing, d}
  BY <1>0, <1>2, <1>3, <1>4 DEF Grows, Hub!Settled
<1>5. CASE claims[c] = Hub!Nothing /\ \A w \in Hub!Waits : Hub!Scanning(w, d) => wait[w].since >= i
  <2>1. ASSUME NEW w \in Hub!Waits, Hub!Scanning(w, d)' PROVE wait'[w].since >= i
    <3>1. CASE Hub!Scanning(w, d) /\ wait'[w].since = wait[w].since
      BY <1>5, <3>1
    <3>2. CASE StartStep(d, w)
      BY <1>1, <3>2 DEF StartStep, EnterStep, Hub!NoCursor
    <3>3. \/ Hub!Scanning(w, d) /\ wait'[w].since = wait[w].since
          \/ StartStep(d, w)
      BY <2>1 DEF HubKinds, QuietStep, MoveStep, StartStep, EnterStep, AnswerStep, DoneStep,
                  SamePolls, SamePoll, AlikePolls, Hub!Scanning, Hub!Running
    <3> QED BY <3>1, <3>2, <3>3
  <2>2. claims'[c] \in {Hub!Nothing} \/ claims'[c] \notin {Hub!Nothing, d}
    <3> SUFFICES ASSUME claims'[c] # Hub!Nothing PROVE claims'[c] # d
      OBVIOUS
    <3>1. PICK u \in Hub!Waits : MoveStep(u) /\ Claims(u)
      BY <1>5 DEF HubKinds, QuietStep, MoveStep, StartStep, AnswerStep
    <3>2. wait[u].cmd = c
      BY <1>0, <1>2, <1>5, <3>1 DEF Claims
    <3>3. wait[u].from \in Nat /\ wait[u].since \in Nat /\ wait[u].since <= wait[u].from
      BY <1>0, PollFields DEF Hub!Started, Hub!PollFine
    <3>4. i = wait[u].from + 1
      <4>1. wait[u].from + 1 \in 1 .. Len(stream) /\ stream[wait[u].from + 1] = stream[i]
        BY <1>0, <3>1, <3>2, <3>3 DEF Claims
      <4>2. DOMAIN stream = 1 .. Len(stream)
        BY HubTypes
      <4> QED BY <1>0, <1>1, <4>1, <4>2 DEF Hub!StoredOnce
    <3>5. ~Hub!Scanning(u, d)
      BY <1>1, <1>5, <3>3, <3>4
    <3>6. wait[u].dev # d
      BY <3>1, <3>5 DEF MoveStep, Claims, Hub!Scanning
    <3> QED BY <1>0, <1>2, <3>1, <3>2, <3>6 DEF Claims
  <2> QED BY <1>2, <2>1, <2>2 DEF Hub!Settled
<1> QED BY <1>4, <1>5 DEF Hub!Settled

LEMMA DeliveredStep ==
    ASSUME Hub!IndInv, HubKinds, Hub!TypeOK'
    PROVE  Hub!Delivered'
<1> SUFFICES ASSUME NEW d \in Devices, Hub!Solo(d)', NEW i \in 1 .. client'[d].cursor
             PROVE  Hub!Settled(d, i)'
  BY DEF Hub!Delivered
<1>0. /\ Hub!Solo(d) /\ Hub!CursorFine(d) /\ Hub!Started /\ Typed /\ Hub!Nothing \notin Devices
      /\ Skipless /\ Len(stream) \in Nat
      /\ client[d].cursor \in Nat \cup {Hub!NoCursor}
  BY SoloBefore, HubTypes, ClientFields, SkiplessParts DEF Hub!IndInv, Hub!Cursors
<1>1. CASE i \in 1 .. client[d].cursor
  <2>1. Hub!Settled(d, i)
    BY <1>0, <1>1 DEF Hub!IndInv, Hub!Delivered
  <2> QED BY <1>1, <2>1, SettledKept
<1>2. CASE i \notin 1 .. client[d].cursor
  <2>1. PICK u \in Hub!Waits : AnswerStep(d, u) /\ client[d].poll = u
    BY <1>2 DEF HubKinds, QuietStep, MoveStep, StartStep, AnswerStep
  <2>2. /\ client'[d].cursor = wait[u].from /\ client'[d].got = client[d].got \cup wait[u].ready
        /\ UNCHANGED <<stream, claims, replies, expired>>
        /\ wait[u].pc = "respond" /\ wait[u].dev = d
    BY <2>1 DEF AnswerStep
  <2>3. /\ wait[u].from \in Nat /\ wait[u].since \in Nat /\ wait[u].from <= Len(stream)
        /\ wait[u].shake \in BOOLEAN
    BY <1>0, PollFields DEF Hub!Started, Hub!PollFine
  <2>4. u # Hub!Nothing
    BY HubTypes
  <2>5. /\ wait[u].shake <=> client[d].cursor = Hub!NoCursor
        /\ ~wait[u].shake => wait[u].since = client[d].cursor
    BY <1>0, <2>1, <2>4 DEF Hub!CursorFine
  <2>6. i \in 1 .. Len(stream)
    BY <1>0, <2>2, <2>3
  <2>7. CASE ~wait[u].shake
    <3>1. i \in wait[u].since + 1 .. wait[u].from
      BY <1>2, <2>2, <2>3, <2>5, <2>7
    <3>2. Hub!Passed(u, i)
      BY <1>0, <2>2, <2>7, <3>1 DEF Skipless, Careful, Hub!Running
    <3> QED BY <2>2, <3>2 DEF Hub!Passed, Hub!Settled
  <2>8. CASE wait[u].shake
    <3>1. client[d].cursor = Hub!NoCursor
      BY <2>5, <2>8
    <3>2. claims[stream[i]] # d
      BY <1>0, <2>6, <3>1, HubTypes DEF Hub!CursorFine
    <3>3. \A w \in Hub!Waits : ~Hub!Scanning(w, d)
      <4>1. \A w \in Hub!Waits : wait[w].since \in Nat
        BY <1>0, PollFields
      <4> QED BY <1>0, <3>1, <4>1 DEF Hub!CursorFine, Hub!NoCursor
    <3>4. \A w \in Hub!Waits : ~Hub!Scanning(w, d)'
      BY <2>1, <3>3 DEF AnswerStep, DoneStep, SamePoll, AlikePolls, Hub!Scanning, Hub!Running
    <3> QED BY <2>2, <3>2, <3>4 DEF Hub!Settled
  <2> QED BY <2>3, <2>7, <2>8
<1> QED BY <1>1, <1>2

(***************************************************************************)
(* Asking and answering.                                                   *)
(***************************************************************************)

Unpublished == {"idle", "offline", "publish"}

\* A dispatch goes on: it takes over the recorded answer or keeps the one it has,
\* and a command is stored that is not stored yet.
AskStep(c) ==
    /\ \A e \in Commands \ {c} : ask'[e] = ask[e]
    /\ ask'[c].heard \in {ask[c].heard, replies[c]}
    /\ ask'[c].pc \in Unpublished => ask[c].pc \in Unpublished
    /\ ask'[c].pc = "silent" => ask[c].pc = "silent" \/ replies[c] = Hub!Nothing
    /\ replies' = replies /\ answering' \subseteq answering
    /\ \/ stream' = stream
       \/ stream' = Append(stream, c) /\ ~Hub!Stored(c) /\ ask'[c].pc \notin Unpublished

\* An answer is recorded, unless there is one.
ReplyStep(c) ==
    /\ UNCHANGED <<ask, stream>>
    /\ \A e \in Commands \ {c} : replies'[e] = replies[e]
    /\ replies[c] # Hub!Nothing => replies'[c] = replies[c]
    /\ \A x \in answering' : x \in answering \/ (x[1] = c /\ x[2] = replies'[c])

AskKinds ==
    \/ UNCHANGED <<ask, stream, replies, answering>>
    \/ \E c \in Commands : AskStep(c) \/ ReplyStep(c)

LEMMA AskerSteps ==
    ASSUME Hub!IndInv, NEW c \in Commands, Hub!Dispatching(c)
    PROVE  AskStep(c)
<1>0. /\ Hub!TypeOK /\ Hub!StoredOnce /\ ask \in [Commands -> Hub!Asks]
      /\ stream \in Seq(Commands)
  BY DEF Hub!IndInv, Hub!TypeOK
<1>1. replies' = replies /\ answering' = answering
  BY DEF Hub!Dispatching, Hub!Reachable, Hub!Publish, Hub!PublishFails, Hub!PublishUnsure,
         Hub!LandLate, Hub!Hear, Hub!StopListening, Hub!LateAnswer, Hub!LateAnswerFails, Hub!Expire
<1>2. CASE Hub!Reachable(c)
  <2>1. PICK to \in {"offline", "publish"} : Hub!Step(c, to) /\ ask[c].pc = "idle" /\ stream' = stream
    BY <1>2 DEF Hub!Reachable
  <2> QED BY <1>0, <1>1, <2>1, AskEffect DEF AskStep, Unpublished
<1>3. CASE Hub!Publish(c)
  <2>1. ~Hub!Stored(c)
    BY <1>0, <1>3 DEF Hub!Publish, Hub!StoredOnce
  <2> QED BY <1>0, <1>1, <1>3, <2>1, AskEffect DEF Hub!Publish, Hub!Store, AskStep, Unpublished
<1>4. CASE Hub!PublishFails(c)
  <2>1. ~Hub!Stored(c)
    BY <1>0, <1>4 DEF Hub!PublishFails, Hub!StoredOnce
  <2> QED BY <1>0, <1>1, <1>4, <2>1, AskEffect DEF Hub!PublishFails, Hub!Store, AskStep, Unpublished
<1>5. CASE Hub!PublishUnsure(c)
  BY <1>0, <1>1, <1>5, AskEffect DEF Hub!PublishUnsure, AskStep, Unpublished
<1>6. CASE Hub!LandLate(c)
  BY <1>0, <1>1, <1>6 DEF Hub!LandLate, Hub!Store, Hub!Stored, AskStep, Unpublished
<1>7. CASE Hub!Hear(c)
  BY <1>0, <1>1, <1>7, AskEffect DEF Hub!Hear, AskStep, Unpublished
<1>8. CASE Hub!StopListening(c)
  BY <1>0, <1>1, <1>8, AskEffect DEF Hub!StopListening, AskStep, Unpublished
<1>9. CASE Hub!LateAnswer(c)
  <2> DEFINE x == ask[c]
             y == replies[c]
             r == IF y # Hub!Nothing THEN [pc |-> "reply", heard |-> y] ELSE [x EXCEPT !.pc = "silent"]
  <2>1. x \in Hub!Asks /\ ask' = [ask EXCEPT ![c] = r] /\ stream' = stream
    BY <1>0, <1>9 DEF Hub!LateAnswer
  <2>2. /\ r.pc \in {"reply", "silent"} /\ r.heard \in {x.heard, y}
        /\ r.pc = "silent" => y = Hub!Nothing
    <3> HIDE DEF x, y
    <3> QED BY <2>1 DEF Hub!Asks, x, y
  <2>3. ask'[c] = r /\ \A e \in Commands \ {c} : ask'[e] = ask[e]
    <3> HIDE DEF r
    <3> QED BY <1>0, <2>1
  <2> HIDE DEF r
  <2> QED BY <1>1, <2>1, <2>2, <2>3 DEF AskStep, Unpublished
<1>10. CASE Hub!LateAnswerFails(c)
  BY <1>0, <1>1, <1>10, AskEffect DEF Hub!LateAnswerFails, AskStep, Unpublished
<1>11. CASE Hub!Expire(c)
  BY <1>0, <1>1, <1>11 DEF Hub!Expire, AskStep, Unpublished
<1> QED BY <1>2, <1>3, <1>4, <1>5, <1>6, <1>7, <1>8, <1>9, <1>10, <1>11 DEF Hub!Dispatching

LEMMA AnswerSteps ==
    ASSUME Hub!IndInv, NEW c \in Commands, NEW a \in Answers,
           \/ \E d \in Devices : Hub!Reply(d, c, a)
           \/ Hub!PublishReply(c, a) \/ Hub!LoseReply(c, a)
    PROVE  AskStep(c) \/ ReplyStep(c)
<1>0. /\ Hub!Recorded /\ ask \in [Commands -> Hub!Asks]
      /\ replies \in [Commands -> Answers \cup {Hub!Nothing}]
  BY DEF Hub!IndInv, Hub!TypeOK
<1>1. CASE \E d \in Devices : Hub!Reply(d, c, a)
  <2> DEFINE first == IF replies[c] = Hub!Nothing THEN a ELSE replies[c]
  <2>1. /\ replies' = [replies EXCEPT ![c] = first] /\ answering' = answering \cup {<<c, first>>}
        /\ UNCHANGED <<ask, stream>>
    BY <1>1 DEF Hub!Reply, Hub!RecordFirst
  <2> QED BY <1>0, <2>1 DEF ReplyStep
<1>2. CASE Hub!PublishReply(c, a)
  <2> DEFINE x == ask[c]
             h == IF x.pc = "listen" /\ x.heard = Hub!Nothing THEN a ELSE x.heard
             r == [x EXCEPT !.heard = h]
  <2>1. /\ x \in Hub!Asks /\ ask' = [ask EXCEPT ![c] = r]
        /\ UNCHANGED <<stream, replies>> /\ answering' \subseteq answering
    BY <1>0, <1>2 DEF Hub!PublishReply
  <2>2. a = replies[c]
    BY <1>0, <1>2 DEF Hub!PublishReply, Hub!Recorded
  <2>3. r.pc = x.pc /\ r.heard \in {x.heard, replies[c]}
    <3>1. h \in {x.heard, replies[c]}
      BY <2>2
    <3> HIDE DEF x, h
    <3> QED BY <2>1, <3>1 DEF Hub!Asks
  <2>4. ask'[c] = r /\ \A e \in Commands \ {c} : ask'[e] = ask[e]
    <3> HIDE DEF r
    <3> QED BY <1>0, <2>1
  <2> HIDE DEF r
  <2> QED BY <2>1, <2>3, <2>4 DEF AskStep
<1>3. CASE Hub!LoseReply(c, a)
  BY <1>3 DEF Hub!LoseReply, AskStep
<1> QED BY <1>1, <1>2, <1>3

LEMMA HubAskKinds == Hub!IndInv /\ Hub!Next => AskKinds
<1> SUFFICES ASSUME Hub!IndInv, Hub!Next PROVE AskKinds
  OBVIOUS
<1>1. ASSUME NEW c \in Commands, Hub!Dispatching(c) PROVE AskKinds
  BY <1>1, AskerSteps DEF AskKinds
<1>2. ASSUME NEW w \in Hub!Waits, Hub!Polling(w) PROVE AskKinds
  BY <1>2 DEF AskKinds, Hub!Polling, Hub!Announce, Hub!AnnounceFails, Hub!Handshake,
     Hub!ReadDevices, Hub!NextCommand, Hub!CheckAnswer, Hub!Claim, Hub!ScanFails, Hub!Wake,
     Hub!HoldEnds, Hub!Respond
<1>3. ASSUME NEW d \in Devices,
             Hub!Touch(d) \/ Hub!GoStale(d) \/ Hub!GiveUp(d) \/ \E w \in Hub!Waits : Hub!Enter(d, w)
      PROVE  AskKinds
  BY <1>3 DEF AskKinds, Hub!Touch, Hub!GoStale, Hub!GiveUp, Hub!Enter
<1>4. ASSUME NEW c \in Commands, NEW a \in Answers,
             \/ \E d \in Devices : Hub!Reply(d, c, a)
             \/ Hub!PublishReply(c, a) \/ Hub!LoseReply(c, a)
      PROVE  AskKinds
  BY <1>4, AnswerSteps DEF AskKinds
<1> QED BY <1>1, <1>2, <1>3, <1>4 DEF Hub!Next

LEMMA StoredOnceStep ==
    ASSUME Hub!IndInv, AskKinds
    PROVE  Hub!StoredOnce'
<1>0. Hub!StoredOnce /\ stream \in Seq(Commands) /\ Len(stream) \in Nat /\ DOMAIN stream = 1 .. Len(stream)
  BY HubTypes DEF Hub!IndInv
<1>1. CASE UNCHANGED <<ask, stream, replies, answering>>
  BY <1>0, <1>1 DEF Hub!StoredOnce, Hub!Stored
<1>2. ASSUME NEW c \in Commands, AskStep(c) PROVE Hub!StoredOnce'
  <2>1. \A e \in Commands : ask'[e].pc \in Unpublished => ask[e].pc \in Unpublished
    BY <1>2 DEF AskStep
  <2>2. CASE stream' = stream
    BY <1>0, <2>1, <2>2 DEF Hub!StoredOnce, Hub!Stored, Unpublished
  <2>3. CASE stream' = Append(stream, c) /\ ~Hub!Stored(c) /\ ask'[c].pc \notin Unpublished
    <3>1. /\ DOMAIN stream' = 1 .. Len(stream) + 1 /\ stream'[Len(stream) + 1] = c
          /\ \A i \in 1 .. Len(stream) : stream'[i] = stream[i] /\ stream[i] # c
      BY <1>0, <2>3 DEF Hub!Stored
    <3>2. \A i, j \in DOMAIN stream' : stream'[i] = stream'[j] => i = j
      <4> TAKE i, j \in DOMAIN stream'
      <4>1. i \in 1 .. Len(stream) \/ i = Len(stream) + 1
        BY <1>0, <3>1
      <4>2. j \in 1 .. Len(stream) \/ j = Len(stream) + 1
        BY <1>0, <3>1
      <4> QED BY <1>0, <3>1, <4>1, <4>2 DEF Hub!StoredOnce
    <3>3. ASSUME NEW e \in Commands, ask'[e].pc \in Unpublished PROVE ~Hub!Stored(e)'
      <4>1. e # c /\ ~Hub!Stored(e)
        BY <1>0, <2>1, <2>3, <3>3 DEF Hub!StoredOnce, Unpublished
      <4>2. \A i \in DOMAIN stream' : i \in 1 .. Len(stream) \/ i = Len(stream) + 1
        BY <1>0, <3>1
      <4> QED BY <1>0, <3>1, <4>1, <4>2 DEF Hub!Stored
    <3> QED BY <3>2, <3>3 DEF Hub!StoredOnce, Unpublished
  <2> QED BY <1>2, <2>2, <2>3 DEF AskStep
<1>3. ASSUME NEW c \in Commands, ReplyStep(c) PROVE Hub!StoredOnce'
  BY <1>0, <1>3 DEF ReplyStep, Hub!StoredOnce, Hub!Stored
<1> QED BY <1>1, <1>2, <1>3 DEF AskKinds

LEMMA RecordedStep ==
    ASSUME Hub!IndInv, AskKinds
    PROVE  Hub!Recorded' /\ Hub!FirstAnswerWins'
<1>0. /\ Hub!Recorded /\ Hub!FirstAnswerWins
      /\ \A x \in answering : x[1] \in Commands /\ x[2] # Hub!Nothing
  BY HubConstants DEF Hub!IndInv, Hub!TypeOK, Hub!Nothing
<1>1. CASE UNCHANGED <<ask, stream, replies, answering>>
  BY <1>0, <1>1 DEF Hub!Recorded, Hub!FirstAnswerWins
<1>2. ASSUME NEW c \in Commands, AskStep(c) PROVE Hub!Recorded' /\ Hub!FirstAnswerWins'
  BY <1>0, <1>2 DEF AskStep, Hub!Recorded, Hub!FirstAnswerWins
<1>3. ASSUME NEW c \in Commands, ReplyStep(c) PROVE Hub!Recorded' /\ Hub!FirstAnswerWins'
  <2>1. \A e \in Commands : replies[e] # Hub!Nothing => replies'[e] = replies[e]
    BY <1>3 DEF ReplyStep
  <2>2. Hub!Recorded'
    BY <1>0, <1>3, <2>1 DEF ReplyStep, Hub!Recorded
  <2>3. Hub!FirstAnswerWins'
    BY <1>0, <1>3, <2>1 DEF ReplyStep, Hub!FirstAnswerWins
  <2> QED BY <2>2, <2>3
<1> QED BY <1>1, <1>2, <1>3 DEF AskKinds

\* Nobody is told that there was no answer while one is recorded.
LEMMA HeardStep ==
    ASSUME Hub!IndInv, Hub!Next
    PROVE  Hub!RecordedIsHeard
BY HubAskKinds DEF AskKinds, AskStep, ReplyStep, Hub!RecordedIsHeard

(***************************************************************************)
(* The inductive invariant.                                                *)
(***************************************************************************)
LEMMA HubStarts == Hub!Init => Hub!IndInv
<1> SUFFICES ASSUME Hub!Init PROVE Hub!IndInv
  OBVIOUS
<1>1. PICK cursor \in [Devices -> {0, Hub!NoCursor}] :
        client = [d \in Devices |->
            [cursor |-> cursor[d], poll |-> Hub!Nothing, active |-> 1, got |-> {}]]
  BY DEF Hub!Init
<1>2. ASSUME NEW d \in Devices
      PROVE  /\ client[d] \in Hub!Clients /\ client[d].cursor \in {0, Hub!NoCursor}
             /\ client[d].poll = Hub!Nothing /\ client[d].got = {}
  <2> DEFINE n == cursor[d]
  <2>1. n \in {0, Hub!NoCursor}
    OBVIOUS
  <2>2. client[d] = [cursor |-> n, poll |-> Hub!Nothing, active |-> 1, got |-> {}]
    BY <1>1
  <2> HIDE DEF n
  <2> QED BY <2>1, <2>2, HubConstants DEF Hub!Clients
<1>3. Hub!NoWait \in Hub!PollRecords
  BY DEF Hub!NoWait, Hub!PollRecords, Hub!Nothing
<1>4. \A w \in Hub!Waits : /\ wait[w] = Hub!NoWait
                           /\ wait[w].dev = Hub!Nothing /\ wait[w].pc = "unused"
                           /\ wait[w].since = 0 /\ wait[w].from = 0 /\ wait[w].shake = FALSE
                           /\ wait[w].ready = {} /\ wait[w].winner = Hub!Nothing
  BY DEF Hub!Init, Hub!NoWait, Hub!Nothing
<1>5. /\ stream = <<>> /\ Len(stream) = 0 /\ DOMAIN stream = {}
      /\ stream \in Seq(Commands)
  BY DEF Hub!Init
<1>6. \A c \in Commands : /\ ask[c] = [pc |-> "idle", heard |-> Hub!Nothing]
                          /\ ask[c].heard = Hub!Nothing /\ ask[c] \in Hub!Asks
                          /\ claims[c] = Hub!Nothing /\ replies[c] = Hub!Nothing
  BY DEF Hub!Init, Hub!Asks
<1>7. Hub!TypeOK
  <2>1. client \in [Devices -> Hub!Clients]
    BY <1>1, <1>2
  <2>2. wait \in [Hub!Waits -> Hub!PollRecords] /\ ask \in [Commands -> Hub!Asks]
    BY <1>3, <1>6 DEF Hub!Init
  <2> QED BY <1>5, <2>1, <2>2, HubConstants DEF Hub!Init, Hub!TypeOK
<1>8. Hub!Started /\ Hub!StoredOnce
  BY <1>4, <1>5 DEF Hub!Started, Hub!PollFine, Hub!Running, Hub!StoredOnce, Hub!Stored
<1>9. Hub!Claimed /\ Hub!Recorded /\ Hub!FirstAnswerWins
  BY <1>2, <1>4, <1>6 DEF Hub!Claimed, Hub!Recorded, Hub!FirstAnswerWins, Hub!Init
<1>10. Hub!NewestHolds /\ Hub!Polled /\ Hub!BlindSkipsNothing /\ Hub!SoloSkipsNothing
  BY <1>4 DEF Hub!Init, Hub!NewestHolds, Hub!Polled, Hub!BlindSkipsNothing,
              Hub!SoloSkipsNothing, Hub!Running
<1>11. Hub!Cursors
  BY <1>2, <1>4, <1>5, <1>6, HubConstants
  DEF Hub!Cursors, Hub!CursorFine, Hub!Scanning, Hub!Running, Hub!NoCursor, Hub!Nothing
<1>12. Hub!Delivered
  BY <1>2 DEF Hub!Delivered, Hub!NoCursor
<1> QED BY <1>7, <1>8, <1>9, <1>10, <1>11, <1>12 DEF Hub!IndInv

LEMMA HubStep ==
    ASSUME Hub!IndInv, Hub!Next
    PROVE  Hub!IndInv'
<1>1. HubKinds /\ AskKinds /\ Hub!TypeOK'
  BY HubStepKinds, HubAskKinds, HubTypeStep
<1>2. Hub!BlindSkipsNothing' /\ Hub!SoloSkipsNothing'
  <2>1. Skipless'
    BY <1>1, SkiplessStep
  <2> QED BY <2>1 DEF Skipless, Careful, Hub!BlindSkipsNothing, Hub!SoloSkipsNothing
<1>3. Hub!Started' /\ Hub!Claimed' /\ Hub!NewestHolds' /\ Hub!Polled' /\ Hub!Cursors' /\ Hub!Delivered'
  BY <1>1, StartedStep, ClaimedStep, NewestStep, PolledStep, CursorsStep, DeliveredStep
<1>4. Hub!StoredOnce' /\ Hub!Recorded' /\ Hub!FirstAnswerWins'
  BY <1>1, StoredOnceStep, RecordedStep
<1> QED BY <1>1, <1>2, <1>3, <1>4 DEF Hub!IndInv

LEMMA HubKept ==
    ASSUME Hub!IndInv, UNCHANGED hubVars
    PROVE  Hub!IndInv'
BY DEF hubVars, Hub!IndInv, Hub!TypeOK, Hub!Started, Hub!PollFine, Hub!StoredOnce, Hub!Stored, Hub!Claimed,
       Hub!Recorded, Hub!FirstAnswerWins, Hub!NewestHolds, Hub!Running, Hub!Polled, Hub!HasPolled,
       Hub!BlindSkipsNothing, Hub!SoloSkipsNothing, Hub!Passed, Hub!Solo, Hub!Cursors,
       Hub!CursorFine, Hub!Scanning, Hub!Delivered, Hub!Settled

LEMMA HubOutcome ==
    ASSUME Hub!IndInv
    PROVE  /\ Hub!TypeOK /\ Hub!OneDevice /\ Hub!NewestHolds /\ Hub!BlindSkipsNothing
           /\ Hub!FirstAnswerWins /\ Hub!ResentToClaimer
<1>1. Hub!OneDevice
  <2>1. Hub!Claimed
    BY DEF Hub!IndInv
  <2> QED BY <2>1 DEF Hub!Claimed, Hub!OneDevice
<1>2. Hub!ResentToClaimer
  <2> SUFFICES ASSUME NEW c \in Commands, NEW d \in Devices, Hub!Solo(d), Hub!Stored(c),
                      claims[c] = d, c \notin expired, replies[c] = Hub!Nothing,
                      client[d].cursor >= Hub!At(c)
               PROVE  c \in client[d].got
    BY DEF Hub!ResentToClaimer
  <2>1. Hub!At(c) \in DOMAIN stream /\ stream[Hub!At(c)] = c
    BY DEF Hub!At, Hub!Stored
  <2>2. client[d].cursor \in Nat \cup {Hub!NoCursor} /\ Hub!At(c) \in 1 .. Len(stream)
        /\ Len(stream) \in Nat /\ Hub!Nothing \notin Devices
    BY <2>1, HubTypes, ClientFields
  <2>3. PICK i \in 1 .. client[d].cursor : i = Hub!At(c)
    BY <2>2 DEF Hub!NoCursor
  <2>4. Hub!Settled(d, i)
    BY DEF Hub!IndInv, Hub!Delivered
  <2> QED BY <2>1, <2>2, <2>3, <2>4 DEF Hub!Settled
<1> QED BY <1>1, <1>2 DEF Hub!IndInv

\* Whatever the devices announce, whichever calls of the store fail and however
\* polls overlap, a command goes to one device, a device's newest poll has its
\* slot, a poll that could not announce itself passes over nothing, the asker
\* hears the answer recorded first and is never told there was none while one is
\* recorded, and a claimed command of the only device whose answer was lost comes
\* again: hub.rs rests on the first writers of its buckets and on cursors that
\* move only with an answer the client took.
THEOREM HubIsSafe == PartSpec => HubSafe
<1>1. PartInit => Hub!IndInv
  BY HubStarts DEF PartInit
<1>2. Hub!IndInv /\ [PartNext]_partVars => Hub!IndInv'
  <2> SUFFICES ASSUME Hub!IndInv, [PartNext]_partVars PROVE Hub!IndInv'
    OBVIOUS
  <2>1. CASE Hub!Next
    BY <2>1, HubStep
  <2>2. CASE UNCHANGED hubVars
    BY <2>2, HubKept
  <2> QED BY <2>1, <2>2 DEF PartNext, partVars
<1>3. Hub!IndInv /\ [PartNext]_partVars => [HubPart => Hub!RecordedIsHeard]_hubVars
  <2> SUFFICES ASSUME Hub!IndInv, [PartNext]_partVars PROVE [HubPart => Hub!RecordedIsHeard]_hubVars
    OBVIOUS
  <2>1. CASE Hub!Next
    BY <2>1, HeardStep
  <2>2. CASE UNCHANGED hubVars
    BY <2>2
  <2> QED BY <2>1, <2>2 DEF PartNext, partVars
<1>4. Hub!IndInv =>
        (HubPart => /\ Hub!TypeOK /\ Hub!OneDevice /\ Hub!NewestHolds /\ Hub!BlindSkipsNothing
                    /\ Hub!FirstAnswerWins /\ Hub!ResentToClaimer)
  BY HubOutcome
<1> QED BY <1>1, <1>2, <1>3, <1>4, PTL DEF PartSpec, HubSafe
=============================================================================
