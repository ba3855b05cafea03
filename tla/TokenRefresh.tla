--------------------------- MODULE TokenRefresh ---------------------------
(***************************************************************************)
(* Refreshing the OAuth tokens of one SoundCloud connection: the row of    *)
(* soundcloud_connections, ConnectionManager::refresh of the sync queue    *)
(* and of the auth RPC, rejected access tokens, and logins.                *)
(*                                                                         *)
(* A refresh token is good for one refresh: SoundCloud (external) answers  *)
(* with a new pair of tokens and the old refresh token is spent.  So what  *)
(* the lease and the generation protect is the only copy of a pair.        *)
(*                                                                         *)
(* Abstractions.  A pair of tokens is a number, in the order of issue.     *)
(* The lease id is the refresher that holds it.  Times are flags: the      *)
(* access token's age, whether the lease has run out, whether retry_at is  *)
(* ahead, and whether the evidence of fail_reauthorization is old enough.  *)
(* The kinds of retryable errors only choose a delay and are one kind; the *)
(* cooldown of the OAuth application only delays a start.                  *)
(***************************************************************************)
EXTENDS Naturals

CONSTANTS
    Refreshers,   \* executions of ConnectionManager::refresh
    MaxPairs,     \* bound on issued pairs
    Logins,       \* login versions that will arrive, in any order
    Uses,         \* bound on expiries and rejections of access tokens
    Errors,       \* bound on refreshes of a good token SoundCloud refuses or fails
    Mishaps,      \* bound on lost answers, crashes and overrun leases
    Patience,     \* bound on errors before the evidence is complete
    NoLease, Idle

ASSUME ConstantsOK ==
    /\ MaxPairs \in Nat \ {0} /\ Uses \in Nat /\ Errors \in Nat /\ Mishaps \in Nat
    /\ Patience \in Nat
    /\ Logins \subseteq Nat \ {0}
    /\ NoLease \notin Refreshers

Pairs == 1..MaxPairs
Ages == {"fresh", "due", "expired"}
Kinds == {"none", "token_rejected", "temporarily_unavailable", "reauthorization_required"}
Steps == {"claim", "ask", "complete", "retryable", "refused"}

Rows ==
    [pair : Pairs, age : Ages, gen : Nat, lease : Refreshers \cup {NoLease}, over : BOOLEAN,
     kind : Kinds, held : BOOLEAN, rejections : Nat, proven : BOOLEAN, login : Nat]

(* pair and gen: the loaded connection, then gen is the claimed generation.*)
Attempts == [step : Steps, pair : Pairs, gen : Nat, new : Pairs]

ASSUME IdleOK == Idle \notin Attempts

VARIABLES
    conn,     \* the connection's row
    at,       \* at[e]: the attempt of a refresher, or Idle
    good,     \* SoundCloud: pairs whose refresh token is not spent
    issued,   \* SoundCloud: the newest pair
    refused,  \* history: refused[p]: invalid_grant answers for pair p
    logins,   \* logins that have not arrived
    uses, errors,
    mishaps   \* mishaps that have happened

vars == <<conn, at, good, issued, refused, logins, uses, errors, mishaps>>

Init ==
    /\ conn = [pair |-> 1, age |-> "fresh", gen |-> 1, lease |-> NoLease, over |-> FALSE,
               kind |-> "none", held |-> FALSE, rejections |-> 0, proven |-> FALSE,
               login |-> 0]
    /\ at = [e \in Refreshers |-> Idle]
    /\ good = {1}
    /\ issued = 1
    /\ refused = [p \in Pairs |-> 0]
    /\ logins = Logins
    /\ uses = Uses
    /\ errors = Errors
    /\ mishaps = 0

Mishap == mishaps < Mishaps /\ mishaps' = mishaps + 1

On(e, step) == at[e] # Idle /\ at[e].step = step
Goto(e, step) == at' = [at EXCEPT ![e].step = step]
Leave(e) == at' = [at EXCEPT ![e] = Idle]

(* Mutant: a lease that ran out still counts.                              *)
UnleasedOnly == conn.lease = NoLease

(* refresh_lease_id IS NULL OR refresh_lease_expires_at <= now()           *)
Unleased == conn.lease = NoLease \/ conn.over

(* refresh_lease_id = $2 AND refresh_generation = $3                       *)
Current(e) == at[e] # Idle /\ conn.lease = e /\ conn.gen = at[e].gen

---------------------------------------------------------------------------
(* ConnectionManager::refresh.                                             *)

(* Connection::token_is_usable                                             *)
Usable ==
    /\ conn.age # "expired"
    /\ conn.kind \notin {"token_rejected", "reauthorization_required"}

(* A caller loads the connection and finds nothing that forbids a refresh. *)
(* access_token asks for one when the token is not usable, the RPC also    *)
(* when it is about to expire.                                             *)
Start(e) ==
    /\ at[e] = Idle
    /\ ~Usable \/ conn.age = "due"
    /\ conn.kind # "reauthorization_required"
    /\ Unleased
    /\ ~conn.held
    /\ at' = [at EXCEPT ![e] = [step |-> "claim", pair |-> conn.pair, gen |-> conn.gen,
                                new |-> conn.pair]]
    /\ UNCHANGED <<conn, good, issued, refused, logins, uses, errors, mishaps>>

(* The WHERE clause of claim_refresh.sql.                                  *)
ClaimFits(e) ==
    /\ conn.gen = at[e].gen
    /\ conn.pair = at[e].pair
    /\ Unleased
    /\ conn.kind # "reauthorization_required"
    /\ ~conn.held

ClaimRefresh(e) ==
    /\ On(e, "claim")
    /\ \/ /\ ClaimFits(e)
          /\ conn' = [conn EXCEPT !.lease = e, !.over = FALSE, !.gen = @ + 1]
          /\ at' = [at EXCEPT ![e].step = "ask", ![e].gen = @ + 1]
       \/ /\ ~ClaimFits(e)
          /\ Leave(e)
          /\ UNCHANGED conn
    /\ UNCHANGED <<good, issued, refused, logins, uses, errors, mishaps>>

(* SoundCloud takes the refresh token and issues a new pair.  The answer   *)
(* arrives, or is lost: a timeout, a transport error, an answer that does  *)
(* not parse or names another user.                                        *)
Rotated(e) ==
    /\ On(e, "ask")
    /\ at[e].pair \in good
    /\ issued < MaxPairs
    /\ issued' = issued + 1
    /\ good' = (good \ {at[e].pair}) \cup {issued + 1}
    /\ \/ /\ at' = [at EXCEPT ![e].step = "complete", ![e].new = issued + 1]
          /\ UNCHANGED mishaps
       \/ Goto(e, "retryable") /\ Mishap
    /\ UNCHANGED <<conn, refused, logins, uses, errors>>

(* invalid_grant: the refresh token is spent, or SoundCloud says so.       *)
Refused(e) ==
    /\ On(e, "ask")
    /\ \/ at[e].pair \notin good /\ UNCHANGED errors
       \/ errors > 0 /\ errors' = errors - 1
    /\ refused' = [refused EXCEPT ![at[e].pair] = @ + 1]
    /\ Goto(e, "refused")
    /\ UNCHANGED <<conn, good, issued, logins, uses, mishaps>>

(* Any other answer: the refresh did not happen.                           *)
Unavailable(e) ==
    /\ On(e, "ask")
    /\ errors > 0
    /\ errors' = errors - 1
    /\ Goto(e, "retryable")
    /\ UNCHANGED <<conn, good, issued, refused, logins, uses, mishaps>>

(* The row with a pair that replaces its own, by a refresh or a login.     *)
Installed(p, login) ==
    [pair |-> p, age |-> "fresh", gen |-> conn.gen + 1, lease |-> NoLease, over |-> FALSE,
     kind |-> "none", held |-> FALSE, rejections |-> 0, proven |-> FALSE, login |-> login]

(* Mutant: the pair is stored whoever has the lease.                       *)
CompleteUnfenced(e) ==
    /\ On(e, "complete")
    /\ conn' = Installed(at[e].new, conn.login)
    /\ Leave(e)
    /\ UNCHANGED <<good, issued, refused, logins, uses, errors, mishaps>>

(* Mutant: refusals of the old pair stay on the new one.                   *)
CompleteKeepsRejections(e) ==
    /\ On(e, "complete")
    /\ \/ /\ Current(e)
          /\ conn' = [Installed(at[e].new, conn.login) EXCEPT
                         !.rejections = conn.rejections, !.proven = conn.proven]
       \/ ~Current(e) /\ UNCHANGED conn
    /\ Leave(e)
    /\ UNCHANGED <<good, issued, refused, logins, uses, errors, mishaps>>

(* complete_refresh.sql, which does not ask whether the lease ran out; if  *)
(* it matches no row, reconcile_refresh_race only reads.                   *)
Complete(e) ==
    /\ On(e, "complete")
    /\ \/ /\ Current(e)
          /\ conn' = Installed(at[e].new, conn.login)
       \/ ~Current(e) /\ UNCHANGED conn
    /\ Leave(e)
    /\ UNCHANGED <<good, issued, refused, logins, uses, errors, mishaps>>

(* fail_retryable.sql                                                      *)
FailRetryable(e) ==
    /\ On(e, "retryable")
    /\ \/ /\ Current(e)
          /\ conn' = [conn EXCEPT !.lease = NoLease, !.over = FALSE, !.held = TRUE,
                                  !.kind = "temporarily_unavailable",
                                  !.rejections = 0, !.proven = FALSE]
       \/ ~Current(e) /\ UNCHANGED conn
    /\ Leave(e)
    /\ UNCHANGED <<good, issued, refused, logins, uses, errors, mishaps>>

(* evidence.confirmed of fail_reauthorization.sql                          *)
Confirmed == conn.rejections >= 2 /\ conn.proven /\ conn.age = "expired"

FailReauthorization(e) ==
    /\ On(e, "refused")
    /\ LET live == Current(e) /\ ~conn.over
       IN  \/ /\ live
              /\ conn' = [conn EXCEPT
                     !.lease = NoLease,
                     !.rejections = @ + 1,
                     !.kind = IF Confirmed THEN "reauthorization_required"
                              ELSE "temporarily_unavailable",
                     !.held = ~Confirmed]
           \/ ~live /\ UNCHANGED conn
    /\ Leave(e)
    /\ UNCHANGED <<good, issued, refused, logins, uses, errors, mishaps>>

(* The process dies, or a statement fails and `?` ends the refresh.        *)
Crash(e) ==
    /\ at[e] # Idle
    /\ Leave(e)
    /\ Mishap
    /\ UNCHANGED <<conn, good, issued, refused, logins, uses, errors>>

---------------------------------------------------------------------------
(* Callers, logins and time.                                               *)

(* mark_rejected.sql for the row's access token (for any other it changes  *)
(* nothing): refresh_rejected_token, reject_for_later, and the RPC with    *)
(* and without hold.                                                       *)
MarkRejected(later) ==
    /\ uses > 0
    /\ uses' = uses - 1
    /\ conn.kind \notin {"token_rejected", "reauthorization_required"}
    /\ Unleased
    /\ conn' = [conn EXCEPT !.kind = "token_rejected", !.held = @ \/ later]
    /\ UNCHANGED <<at, good, issued, refused, logins, errors, mishaps>>

(* scd_cmd_connection_login: a login with a pair of its own.               *)
Login(v) ==
    /\ v \in logins
    /\ logins' = logins \ {v}
    /\ issued < MaxPairs
    /\ issued' = issued + 1
    /\ good' = good \cup {issued + 1}
    /\ \/ /\ conn.login < v
          /\ conn' = Installed(issued + 1, v)
       \/ conn.login >= v /\ UNCHANGED conn
    /\ UNCHANGED <<at, refused, uses, errors, mishaps>>

Ageing ==
    /\ \/ /\ conn.age = "fresh"
          /\ uses > 0
          /\ uses' = uses - 1
          /\ conn' = [conn EXCEPT !.age = "due"]
       \/ /\ conn.age = "due"
          /\ conn' = [conn EXCEPT !.age = "expired"]
          /\ UNCHANGED uses
    /\ UNCHANGED <<at, good, issued, refused, logins, errors, mishaps>>

(* Mutant: the lease is shorter than the client's timeout.                 *)
LeaseRunsOutEarly ==
    /\ conn.lease # NoLease
    /\ ~conn.over
    /\ conn' = [conn EXCEPT !.over = TRUE]
    /\ UNCHANGED <<at, good, issued, refused, logins, uses, errors, mishaps>>

(* The request ends after 30 s and the lease after 60 s: a lease that runs *)
(* out under a refresher that is still at it takes a stall.                *)
LeaseRunsOut ==
    /\ conn.lease # NoLease
    /\ ~conn.over
    /\ conn' = [conn EXCEPT !.over = TRUE]
    /\ \/ ~Current(conn.lease) /\ UNCHANGED mishaps
       \/ Mishap
    /\ UNCHANGED <<at, good, issued, refused, logins, uses, errors>>

(* A refusal delays the next attempt by 10 minutes, so the evidence is old *)
(* and the access token has expired after a few of them: after Patience.   *)
RetryDue ==
    /\ conn.held
    /\ conn.rejections >= Patience => conn.proven /\ conn.age = "expired"
    /\ conn' = [conn EXCEPT !.held = FALSE]
    /\ UNCHANGED <<at, good, issued, refused, logins, uses, errors, mishaps>>

(* The first rejection is 15 minutes ago and the last success 30.          *)
EvidenceAges ==
    /\ conn.rejections > 0
    /\ ~conn.proven
    /\ conn' = [conn EXCEPT !.proven = TRUE]
    /\ UNCHANGED <<at, good, issued, refused, logins, uses, errors, mishaps>>

---------------------------------------------------------------------------
Answer(e) == Rotated(e) \/ Refused(e) \/ Unavailable(e)

Record(e) == Complete(e) \/ FailRetryable(e) \/ FailReauthorization(e)

Refresh(e) == Start(e) \/ ClaimRefresh(e) \/ Answer(e) \/ Record(e) \/ Crash(e)

Time == Ageing \/ LeaseRunsOut \/ RetryDue \/ EvidenceAges

Next ==
    \/ \E e \in Refreshers : Refresh(e)
    \/ \E later \in BOOLEAN : MarkRejected(later)
    \/ \E v \in Logins : Login(v)
    \/ Time

(* Callers keep asking (the sync queue retries, the API calls on every     *)
(* request), a refresher that does not crash goes on, time passes.         *)
Fairness ==
    /\ WF_vars(\E e \in Refreshers : Start(e))
    /\ \A e \in Refreshers :
         WF_vars(ClaimRefresh(e)) /\ WF_vars(Answer(e)) /\ WF_vars(Record(e))
    /\ WF_vars(Ageing) /\ WF_vars(LeaseRunsOut) /\ WF_vars(RetryDue) /\ WF_vars(EvidenceAges)

Spec == Init /\ [][Next]_vars
FairSpec == Spec /\ Fairness

---------------------------------------------------------------------------
(* Properties.                                                             *)

(* Every variable keeps its domain.                                        *)
TypeOK ==
    /\ conn \in Rows
    /\ at \in [Refreshers -> Attempts \cup {Idle}]
    /\ good \subseteq Pairs
    /\ issued \in Pairs
    /\ refused \in [Pairs -> Nat]
    /\ logins \subseteq Logins
    /\ uses \in 0..Uses
    /\ errors \in 0..Errors
    /\ mishaps \in 0..Mishaps

ReplaceStep ==
    conn'.pair # conn.pair
    => \/ conn'.login > conn.login
       \/ \E e \in Refreshers :
            /\ On(e, "complete")
            /\ at[e].pair = conn.pair
            /\ conn'.pair = at[e].new

(* A pair is replaced only by the pair it was exchanged for, or by a newer *)
(* login: a refresh that ends late never puts an older pair over the one   *)
(* another refresher or a login has installed meanwhile.                   *)
ReplacedByItsOwn == [][ReplaceStep]_vars

(* The user is asked to log in again only when SoundCloud refused the very *)
(* refresh token the row holds at least three times and its access token   *)
(* has expired: errors of an earlier pair, or answers a lease came too     *)
(* late for, never count.                                                  *)
AskedForLoginWithCause ==
    conn.kind = "reauthorization_required"
    => refused[conn.pair] >= 3 /\ conn.age = "expired"

(* Unless an answer is lost, a refresher dies or stalls past its lease,    *)
(* the row holds a refresh token that is not spent, or the refresher that  *)
(* spent it holds the new pair and the lease to store it.                  *)
TokenKept ==
    mishaps = 0
    => \/ conn.pair \in good
       \/ \E e \in Refreshers :
            On(e, "complete") /\ Current(e) /\ at[e].pair = conn.pair /\ at[e].new \in good

(* What the fences rest on: a refresher whose lease and generation still   *)
(* match exchanges the very pair the row holds, a new pair is nowhere but  *)
(* in the hands of the refresher that got it, and every refusal the row    *)
(* has counted was one of the pair it holds.                               *)
Fenced ==
    \A e \in Refreshers :
        at[e] # Idle
        => /\ at[e].gen <= conn.gen
           /\ at[e].pair <= issued
           /\ at[e].step # "claim" /\ Current(e) => at[e].pair = conn.pair

NewPairsApart ==
    \A e \in Refreshers :
        On(e, "complete")
        => /\ at[e].new <= issued
           /\ at[e].new \in good
           /\ at[e].new # conn.pair
           /\ \A f \in Refreshers :
                at[f] # Idle
                => /\ at[f].pair # at[e].new
                   /\ f # e /\ at[f].step = "complete" => at[f].new # at[e].new

RefusalsCounted ==
    /\ conn.rejections <= refused[conn.pair]
    /\ \A e \in Refreshers :
         On(e, "refused") /\ Current(e) => conn.rejections < refused[conn.pair]

(* Without a mishap whoever exchanges the row's pair has the live lease.   *)
OneExchange ==
    mishaps = 0
    => \A e \in Refreshers :
         at[e] # Idle /\ at[e].step # "claim" /\ at[e].pair = conn.pair
         => Current(e) /\ ~conn.over

(* The inductive invariant behind the three properties above.              *)
IndInv ==
    /\ TypeOK
    /\ conn.pair <= issued
    /\ Fenced
    /\ NewPairsApart
    /\ RefusalsCounted
    /\ OneExchange
    /\ AskedForLoginWithCause
    /\ TokenKept

(* A connection whose access token has expired is refreshed, or its user   *)
(* is asked to log in: no crashed refresher, rejected token or delay       *)
(* leaves it unusable for ever without a word.                             *)
ExpiredIsSettled ==
    conn.age = "expired" ~> conn.age # "expired" \/ conn.kind = "reauthorization_required"
=============================================================================
