---------------------------- MODULE GrantTokens ----------------------------
(***************************************************************************)
(* The tokens of a voice assistant's grant: redeem_auth_code,             *)
(* rotate_refresh and repeat_rotation of api/src/modules/remote/links.rs,  *)
(* called by the token endpoint of oauth/handlers.rs.                      *)
(*                                                                         *)
(* One row of remote_grants and one client.  Every statement is a step.   *)
(* Answers get lost; the client sends the same token again until it gets  *)
(* one, calls it gave up on may still run, and the code or a token that    *)
(* was answered before may be presented again at any time.  A token stands *)
(* for the pair of access and refresh token issued with it; tokens are     *)
(* numbered in the order the seeds for them are drawn.                     *)
(***************************************************************************)
EXTENDS Integers, FiniteSets

CONSTANTS
    Calls,       \* calls of the token endpoint
    MaxTokens,   \* bound: tokens drawn
    MaxFaults    \* bound: failed statements and lost answers

GrantTokensAssumption == MaxTokens \in Nat \ {0} /\ MaxFaults \in Nat

NoToken == 0
AuthCode == -1       \* the one-time code, presented in place of a token
Tokens == 1 .. MaxTokens

VARIABLES
    row,      \* the grant: its code, current and previous refresh token, seed
    live,     \* the row exists
    fresh,    \* rotated_at is less than REFRESH_GRACE_SECS ago
    drawn,    \* tokens drawn so far
    call,     \* a call: what it presents, where it is, the token it answers
    mine,     \* what the client holds: AuthCode or the last token it got
    wants,    \* the client is refreshing
    answers,  \* answers given so far: what was presented and what was given
    replayed, \* history: a code came again, or a previous token after its grace
    faults

vars == <<row, live, fresh, drawn, call, mine, wants, answers, replayed, faults>>

NoCall == [with |-> NoToken, pc |-> "idle", next |-> NoToken]

Init ==
    /\ row = [redeemed |-> FALSE, refresh |-> NoToken, prev |-> NoToken, seed |-> NoToken]
    /\ live = TRUE
    /\ fresh = FALSE
    /\ drawn = 0
    /\ call = [c \in Calls |-> NoCall]
    /\ mine = AuthCode
    /\ wants = TRUE
    /\ answers = {}
    /\ replayed = FALSE
    /\ faults = 0

Fault == faults < MaxFaults /\ faults' = faults + 1
End(c, token) == call' = [call EXCEPT ![c].pc = "answer", ![c].next = token]

(***************************************************************************)
(* The client.                                                             *)
(***************************************************************************)

\* The access token ran out: the client refreshes.
Refresh ==
    /\ ~wants /\ live
    /\ wants' = TRUE
    /\ UNCHANGED <<row, live, fresh, drawn, call, mine, answers, replayed, faults>>

\* What the client holds, and what was presented and answered before.
Presentable == {mine} \cup {x[1] : x \in answers}

\* Whether presenting t now is what the endpoint takes for a replay: a code
\* that was redeemed or is being redeemed, a previous token after its grace.
Replay(t) ==
    \/ t = AuthCode /\ (row.redeemed \/ \E d \in Calls : call[d].pc = "redeem")
    \/ t = row.prev /\ ~fresh

\* What the client holds is sent again when no answer came; anything sent and
\* answered before may come again, by its client or by somebody else.
Send(c) ==
    \E t \in Presentable :
        /\ t = mine => wants
        /\ call[c].pc = "idle"
        /\ drawn < MaxTokens
        /\ drawn' = drawn + 1
        /\ call' = [call EXCEPT ![c] = [with |-> t, next |-> drawn + 1,
                                        pc |-> IF t = AuthCode THEN "redeem" ELSE "rotate"]]
        /\ replayed' = (replayed \/ Replay(t))
        /\ UNCHANGED <<row, live, fresh, mine, wants, answers, faults>>

\* An answer arrives.  One to a call the client no longer waits for is
\* dropped, a refusal ends the refresh.
Receive(c) ==
    /\ call[c].pc = "answer"
    /\ call' = [call EXCEPT ![c] = NoCall]
    /\ IF call[c].with = mine /\ wants
       THEN /\ mine' = IF call[c].next = NoToken THEN mine ELSE call[c].next
            /\ wants' = FALSE
       ELSE UNCHANGED <<mine, wants>>
    /\ UNCHANGED <<row, live, fresh, drawn, answers, replayed, faults>>

\* The answer is lost, or the handler with it.
Lose(c) ==
    /\ call[c].pc # "idle"
    /\ Fault
    /\ call' = [call EXCEPT ![c] = NoCall]
    /\ UNCHANGED <<row, live, fresh, drawn, mine, wants, answers, replayed>>

(***************************************************************************)
(* The endpoint.                                                           *)
(***************************************************************************)
Answers(c, token) == answers' = answers \cup {<<call[c].with, token>>}

Redeemed(c) == [row EXCEPT !.redeemed = TRUE, !.refresh = call[c].next]

\* redeem_auth_code.sql, once per code.
Redeem(c) ==
    /\ call[c].pc = "redeem"
    /\ IF live /\ ~row.redeemed
       THEN /\ row' = Redeemed(c)
            /\ End(c, call[c].next)
            /\ Answers(c, call[c].next)
       ELSE /\ call' = [call EXCEPT ![c].pc = "again"]
            /\ UNCHANGED <<row, answers>>
    /\ UNCHANGED <<live, fresh, drawn, mine, wants, replayed, faults>>

\* revoke_redeemed_code.sql: a code that comes again ends the grant.
RedeemAgain(c) ==
    /\ call[c].pc = "again"
    /\ live' = (live /\ ~row.redeemed)
    /\ End(c, NoToken)
    /\ UNCHANGED <<row, fresh, drawn, mine, wants, answers, replayed, faults>>

Rotated(c) == [row EXCEPT !.prev = row.refresh, !.seed = call[c].next, !.refresh = call[c].next]

IsCurrent(c) == live /\ row.refresh = call[c].with

\* rotate_refresh.sql: the token drawn for the call becomes the current one,
\* if the call presents the current one.
Rotate(c) ==
    /\ call[c].pc = "rotate"
    /\ IF IsCurrent(c)
       THEN /\ row' = Rotated(c)
            /\ fresh' = TRUE
            /\ End(c, call[c].next)
            /\ Answers(c, call[c].next)
       ELSE /\ call' = [call EXCEPT ![c].pc = "repeat"]
            /\ UNCHANGED <<row, fresh, answers>>
    /\ UNCHANGED <<live, drawn, mine, wants, replayed, faults>>

\* Mutant: whoever presents a token that is not the current one is revoked
\* without a look at the time of the rotation.
RepeatRevokes(c) ==
    /\ call[c].pc = "repeat"
    /\ call' = [call EXCEPT ![c].pc = IF live THEN "revoke" ELSE "answer", ![c].next = NoToken]
    /\ UNCHANGED <<row, live, fresh, drawn, mine, wants, answers, replayed, faults>>

\* find_rotated.sql: the token before, within its grace, is answered with the
\* tokens its seed gave; after it the grant is to be deleted.
Repeat(c) ==
    /\ call[c].pc = "repeat"
    /\ IF ~live \/ row.prev # call[c].with THEN End(c, NoToken) /\ UNCHANGED answers
       ELSE IF ~fresh THEN call' = [call EXCEPT ![c].pc = "revoke"] /\ UNCHANGED answers
       ELSE LET next == row.seed
            IN  IF next # row.refresh THEN End(c, NoToken) /\ UNCHANGED answers
                ELSE End(c, next) /\ Answers(c, next)
    /\ UNCHANGED <<row, live, fresh, drawn, mine, wants, replayed, faults>>

\* delete_grant.sql.
Revoke(c) ==
    /\ call[c].pc = "revoke"
    /\ live' = FALSE
    /\ End(c, NoToken)
    /\ UNCHANGED <<row, fresh, drawn, mine, wants, answers, replayed, faults>>

\* A statement fails: the client is told to try again, whether it was done or
\* not.
StatementFails(c) ==
    /\ call[c].pc \in {"redeem", "again", "rotate", "repeat", "revoke"}
    /\ Fault
    /\ \/ UNCHANGED <<row, live, fresh>>
       \/ /\ call[c].pc = "redeem" /\ live /\ ~row.redeemed
          /\ row' = Redeemed(c) /\ UNCHANGED <<live, fresh>>
       \/ /\ call[c].pc = "rotate" /\ IsCurrent(c)
          /\ row' = Rotated(c) /\ fresh' = TRUE /\ UNCHANGED live
       \/ /\ call[c].pc \in {"again", "revoke"} /\ row.redeemed
          /\ live' = FALSE /\ UNCHANGED <<row, fresh>>
    /\ call' = [call EXCEPT ![c] = NoCall]
    /\ UNCHANGED <<drawn, mine, wants, answers, replayed>>

\* The grace of the last rotation is over, for a call still at work as well.
GraceEnds ==
    /\ fresh
    /\ fresh' = FALSE
    /\ replayed' = (replayed \/ \E c \in Calls : /\ call[c].pc \in {"rotate", "repeat"}
                                                 /\ call[c].with = row.prev)
    /\ UNCHANGED <<row, live, drawn, call, mine, wants, answers, faults>>

\* The user revokes the link.
RevokeByUser ==
    /\ live /\ row.redeemed
    /\ live' = FALSE
    /\ UNCHANGED <<row, fresh, drawn, call, mine, wants, answers, replayed, faults>>

----------------------------------------------------------------------------

Endpoint(c) == Redeem(c) \/ RedeemAgain(c) \/ Rotate(c) \/ Repeat(c) \/ Revoke(c)

Next ==
    \/ Refresh \/ GraceEnds \/ RevokeByUser
    \/ \E c \in Calls : Send(c) \/ Receive(c) \/ Lose(c) \/ Endpoint(c) \/ StatementFails(c)

Spec == Init /\ [][Next]_vars

----------------------------------------------------------------------------

TypeOK ==
    /\ row \in [redeemed : BOOLEAN, refresh : 0 .. MaxTokens, prev : 0 .. MaxTokens, seed : 0 .. MaxTokens]
    /\ live \in BOOLEAN /\ fresh \in BOOLEAN /\ wants \in BOOLEAN /\ replayed \in BOOLEAN
    /\ drawn \in 0 .. MaxTokens
    /\ mine \in Tokens \cup {AuthCode}
    /\ call \in [Calls -> [with : Tokens \cup {AuthCode, NoToken}, next : 0 .. MaxTokens,
            pc : {"idle", "redeem", "again", "rotate", "repeat", "revoke", "answer"}]]
    /\ faults \in 0 .. MaxFaults

\* A rotation is repeated, not done again: whoever presents one token, as often
\* as it likes and however the calls overlap, is given one successor.
SameAnswer == \A x, y \in answers : x[1] = y[1] => x[2] = y[2]

\* A lost answer strands nobody: the client's token is the grant's current one
\* or the one before it, for which the endpoint repeats its answer.
KeepsUp == mine # AuthCode => mine \in {row.refresh, row.prev}

\* Whoever is refused the code, the current token or the one before has no
\* grant left: nothing is refused that could still be answered, and a code
\* that comes again leaves nothing behind.
RefusedIsOver ==
    \A c \in Calls : live /\ call[c].pc = "answer" /\ call[c].next = NoToken =>
        call[c].with \notin {AuthCode, row.prev, row.refresh}

\* What makes these inductive: a token is drawn after the one it replaces, so
\* the row's tokens only grow.
Ordered ==
    /\ row.prev <= row.refresh /\ row.refresh <= drawn /\ mine <= drawn
    /\ row.prev # NoToken => row.prev < row.refresh /\ row.seed = row.refresh
    /\ ~row.redeemed => row.refresh = NoToken /\ answers = {}
    /\ \A c \in Calls : call[c].next <= drawn

\* A call presents what its client holds or held, and has drawn its own token.
CallsOrdered ==
    \A c \in Calls : call[c].pc # "idle" =>
        /\ call[c].with # NoToken /\ call[c].with <= mine
        /\ call[c].with <= row.prev \/ call[c].with = row.refresh
        /\ call[c].pc \in {"redeem", "again"} => call[c].with = AuthCode
        /\ call[c].pc \in {"rotate", "repeat", "revoke"} => call[c].with # AuthCode
        /\ call[c].pc \in {"redeem", "rotate"} => call[c].next > call[c].with /\ call[c].next # NoToken
        /\ call[c].pc = "answer" /\ call[c].next # NoToken => <<call[c].with, call[c].next>> \in answers

\* While the client holds the code nothing was rotated.
CodeFirst ==
    /\ mine = AuthCode => row.prev = NoToken /\ \A x \in answers : x[2] = row.refresh
    /\ live \/ row.redeemed

\* Nothing was answered to the current token yet, and only the current one to
\* the token before it.
Answered ==
    \A x \in answers :
        /\ x[1] \in Tokens \cup {AuthCode} /\ x[2] \in Tokens
        /\ x[1] < x[2] /\ x[1] < row.refresh /\ x[1] <= row.prev /\ x[1] <= mine
        /\ x[1] = row.prev => x[2] = row.refresh

\* A call that is past its first statement found the code redeemed or a newer
\* token, and one that was refused a token has an older one than the row's.
Overtaken ==
    \A c \in Calls :
        /\ call[c].pc \in {"again", "revoke"} => row.redeemed
        /\ call[c].pc = "repeat" /\ live => call[c].with < row.refresh
        /\ call[c].pc = "answer" /\ call[c].next = NoToken /\ live =>
              call[c].with # AuthCode /\ call[c].with < row.prev

\* Without a replay one call has the code until it is redeemed, and no call
\* comes to the statements that delete the grant.
NoReplay ==
    ~replayed => \A c \in Calls :
        /\ call[c].pc \notin {"again", "revoke"}
        /\ call[c].pc = "redeem" => ~row.redeemed /\ \A d \in Calls : call[d].pc = "redeem" => d = c
        /\ call[c].pc \in {"rotate", "repeat"} /\ call[c].with = row.prev => fresh

IndInv ==
    /\ TypeOK /\ SameAnswer /\ KeepsUp
    /\ Ordered /\ CallsOrdered /\ CodeFirst /\ Answered /\ Overtaken /\ NoReplay

\* Calls that overlap, lost answers and repeated ones within the grace do not
\* end a grant: as long as no code is presented again and no previous token
\* after its grace, only its user does.
HealthyKept == [][ live /\ ~live' /\ ~replayed => RevokeByUser ]_vars
=============================================================================
