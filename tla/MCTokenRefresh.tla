-------------------------- MODULE MCTokenRefresh --------------------------
(***************************************************************************)
(* Tokens that rotate, for TLC: the SoundCloud connection of a user and    *)
(* the grant of a voice assistant (Grants).  A behaviour works on one      *)
(* part; they share no state.                                              *)
(***************************************************************************)
EXTENDS TokenRefresh

CONSTANTS c1, c2, Calls, MaxTokens, GrantFaults

VARIABLES part, row, live, fresh, drawn, call, mine, wants, answers, replayed, faults

Grants == INSTANCE GrantTokens WITH MaxFaults <- GrantFaults

ASSUME GrantsOK == Grants!GrantTokensAssumption

grantVars == <<row, live, fresh, drawn, call, mine, wants, answers, replayed, faults>>
partVars == <<part, vars, grantVars>>

PartInit == part \in {"connection", "grant"} /\ Init /\ Grants!Init

PartNext ==
    /\ \/ part = "connection" /\ Next /\ UNCHANGED grantVars
       \/ part = "grant" /\ Grants!Next /\ UNCHANGED vars
    /\ UNCHANGED part

\* The fairness of TokenRefresh's FairSpec, while the connection is at work.
FairParts ==
    /\ PartInit /\ [][PartNext]_partVars
    /\ WF_vars(part = "connection" /\ \E e \in Refreshers : Start(e))
    /\ \A e \in Refreshers :
        /\ WF_vars(part = "connection" /\ ClaimRefresh(e))
        /\ WF_vars(part = "connection" /\ Answer(e))
        /\ WF_vars(part = "connection" /\ Record(e))
    /\ WF_vars(part = "connection" /\ Ageing)
    /\ WF_vars(part = "connection" /\ LeaseRunsOut)
    /\ WF_vars(part = "connection" /\ RetryDue)
    /\ WF_vars(part = "connection" /\ EvidenceAges)

-----------------------------------------------------------------------------
\* Of the assistant's grant (GrantTokens): one successor per token, however
\* calls overlap; the client's token is the current one or the one before
\* it; what could still be answered is refused only when the grant is gone;
\* and without a replay only its user ends it.
GrantSafe ==
    /\ [](part = "grant" =>
            Grants!TypeOK /\ Grants!SameAnswer /\ Grants!KeepsUp /\ Grants!RefusedIsOver)
    /\ Grants!HealthyKept
=============================================================================
