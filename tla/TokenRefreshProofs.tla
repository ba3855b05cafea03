------------------------ MODULE TokenRefreshProofs ------------------------
(***************************************************************************)
(* TokenRefresh's fences, for any number of refreshers, logins, errors and *)
(* mishaps; and after them the rotation of a grant's tokens (GrantTokens), *)
(* for any number of calls, tokens and faults.                             *)
(*                                                                         *)
(* The argument.  A claim checks the access token it will exchange, and    *)
(* every statement that replaces the pair bumps the generation or clears   *)
(* the lease: a refresher whose lease and generation match exchanges the   *)
(* row's own pair (Fenced).  SoundCloud's pairs are new, so no two         *)
(* refreshers and no row share one that was not stored (NewPairsApart).    *)
(* Without a mishap the lease outlives its refresher, so a second claim    *)
(* of the same pair is impossible (OneExchange).                           *)
(***************************************************************************)
EXTENDS MCTokenRefresh, Integers, TLAPS

(* The initial state satisfies the invariant.                              *)
LEMMA RefreshInit == Init => IndInv
<1> SUFFICES ASSUME Init PROVE IndInv
  OBVIOUS
<1>1. TypeOK
  BY ConstantsOK DEF Init, TypeOK, Rows, Pairs, Ages, Kinds
<1>2. \A e \in Refreshers : at[e] = Idle
  BY DEF Init
<1>3. Fenced /\ NewPairsApart /\ OneExchange
  BY <1>2 DEF Fenced, NewPairsApart, OneExchange, On
<1>4. RefusalsCounted
  BY <1>2, ConstantsOK DEF Init, RefusalsCounted, On, Pairs
<1> QED BY <1>1, <1>3, <1>4 DEF Init, IndInv, AskedForLoginWithCause, TokenKept

(* The fields of a row and of an attempt.                                  *)
LEMMA Fields ==
    ASSUME TypeOK
    PROVE  /\ conn.pair \in Pairs /\ conn.gen \in Nat /\ conn.rejections \in Nat
           /\ conn.login \in Nat /\ conn.over \in BOOLEAN /\ conn.held \in BOOLEAN
           /\ conn.proven \in BOOLEAN /\ conn.lease \in Refreshers \cup {NoLease}
           /\ conn.age \in Ages /\ conn.kind \in Kinds
           /\ Pairs \subseteq Nat
           /\ refused[conn.pair] \in Nat
           /\ \A e \in Refreshers :
                at[e] # Idle => /\ at[e] \in Attempts
                                /\ at[e].pair \in Pairs /\ at[e].gen \in Nat
                                /\ at[e].new \in Pairs /\ at[e].step \in Steps
                                /\ refused[at[e].pair] \in Nat
BY DEF TypeOK, Rows, Attempts, Pairs

(* Steps that leave attempts, pairs, generation and lease alone: the row's *)
(* age, kind and hold move only.                                           *)
LEMMA Harmless ==
    ASSUME IndInv, TypeOK',
           UNCHANGED <<at, good, issued, refused, mishaps>>,
           conn'.pair = conn.pair, conn'.gen = conn.gen, conn'.lease = conn.lease,
           conn'.over = conn.over, conn'.rejections = conn.rejections,
           conn'.kind = "reauthorization_required"
           => conn.kind = "reauthorization_required" /\ (conn.age = "expired" => conn'.age = "expired")
    PROVE  IndInv'
<1> USE DEF IndInv
<1>1. \A e \in Refreshers : Current(e)' <=> Current(e)
  BY DEF Current
<1>2. \A e \in Refreshers, s \in Steps : On(e, s)' <=> On(e, s)
  BY DEF On
<1>3. Fenced' /\ OneExchange'
  BY <1>1 DEF Fenced, OneExchange
<1>4. NewPairsApart'
  BY DEF NewPairsApart, On
<1>5. RefusalsCounted'
  BY <1>1 DEF RefusalsCounted, On
<1>6. AskedForLoginWithCause'
  BY DEF AskedForLoginWithCause
<1>7. TokenKept'
  BY <1>1 DEF TokenKept, On
<1> QED BY <1>3, <1>4, <1>5, <1>6, <1>7

(* A refresher leaves without having touched the row.                      *)
LEMMA Leaving ==
    ASSUME IndInv, TypeOK', NEW e \in Refreshers,
           Leave(e), UNCHANGED <<conn, good, issued, refused>>,
           mishaps' # 0 \/ (mishaps' = mishaps /\ ~(On(e, "complete") /\ Current(e)))
    PROVE  IndInv'
<1> USE DEF IndInv
<1>1. /\ at'[e] = Idle
      /\ \A f \in Refreshers : f # e => at'[f] = at[f]
  BY DEF Leave, TypeOK
<1>2. \A f \in Refreshers : at'[f] # Idle => f # e /\ at'[f] = at[f] /\ (Current(f)' <=> Current(f))
  BY <1>1 DEF Current
<1>3. Fenced' /\ OneExchange'
  BY <1>2 DEF Fenced, OneExchange
<1>4. NewPairsApart'
  BY <1>2 DEF NewPairsApart, On
<1>5. RefusalsCounted'
  BY <1>2 DEF RefusalsCounted, On
<1>6. AskedForLoginWithCause'
  BY DEF AskedForLoginWithCause
<1>7. TokenKept'
  <2> SUFFICES ASSUME mishaps' = 0, conn.pair \notin good
               PROVE  \E f \in Refreshers : (On(f, "complete") /\ Current(f)
                          /\ at[f].pair = conn.pair /\ at[f].new \in good)'
    BY DEF TokenKept
  <2>1. PICK f \in Refreshers : On(f, "complete") /\ Current(f)
                                /\ at[f].pair = conn.pair /\ at[f].new \in good
    BY DEF TokenKept
  <2>2. f # e
    BY <2>1
  <2> QED BY <1>1, <2>1, <2>2 DEF On, Current
<1> QED BY <1>3, <1>4, <1>5, <1>6, <1>7

(* The holder of the lease gives it back and leaves, the pair stays.       *)
LEMMA Releasing ==
    ASSUME IndInv, TypeOK', NEW e \in Refreshers,
           Current(e), at[e].step \in {"retryable", "refused"},
           Leave(e), UNCHANGED <<good, issued, refused, mishaps>>,
           conn'.pair = conn.pair, conn'.gen = conn.gen, conn'.lease = NoLease,
           conn'.rejections <= refused[conn.pair],
           AskedForLoginWithCause'
    PROVE  IndInv'
<1> USE DEF IndInv
<1>1. /\ at'[e] = Idle
      /\ \A f \in Refreshers : f # e => at'[f] = at[f]
  BY DEF Leave, TypeOK
<1>2. \A f \in Refreshers : ~Current(f)'
  BY ConstantsOK DEF Current
<1>3. \A f \in Refreshers : f # e => ~Current(f)
  BY DEF Current
<1>4. Fenced'
  BY <1>1, <1>2 DEF Fenced
<1>5. NewPairsApart'
  BY <1>1 DEF NewPairsApart, On
<1>6. RefusalsCounted'
  BY <1>2 DEF RefusalsCounted
<1>7. OneExchange'
  BY <1>1, <1>3 DEF OneExchange
<1>8. TokenKept'
  BY <1>1, <1>3 DEF TokenKept, On
<1> QED BY <1>4, <1>5, <1>6, <1>7, <1>8

(* A pair nobody else has goes into the row, with a new generation and no  *)
(* lease.                                                                  *)
LEMMA Replacing ==
    ASSUME IndInv, TypeOK', NEW p \in Pairs,
           UNCHANGED <<refused, mishaps>>,
           \A f \in Refreshers : at'[f] = at[f] \/ at'[f] = Idle,
           \A f \in Refreshers :
               at'[f] # Idle => /\ at[f].pair # p
                                /\ at[f].step = "complete" => at[f].new # p,
           conn'.pair = p, conn'.gen = conn.gen + 1, conn'.lease = NoLease,
           conn'.rejections = 0, conn'.kind = "none",
           p <= issued', issued <= issued', good \subseteq good', p \in good'
    PROVE  IndInv'
<1> USE DEF IndInv
<1>0. issued \in Nat /\ issued' \in Nat /\ conn.gen \in Nat
  BY DEF TypeOK, Pairs, Rows
<1>1. \A f \in Refreshers : ~Current(f)'
  BY ConstantsOK DEF Current
<1>2. \A f \in Refreshers :
        at[f] # Idle => /\ at[f].pair \in Nat /\ at[f].gen \in Nat /\ at[f].new \in Nat
  BY Fields DEF Pairs
<1>3. Fenced'
  BY <1>0, <1>1, <1>2 DEF Fenced
<1>4. NewPairsApart'
  <2> SUFFICES ASSUME NEW f \in Refreshers, On(f, "complete")'
               PROVE  /\ at'[f].new <= issued' /\ at'[f].new \in good' /\ at'[f].new # p
                      /\ \A g \in Refreshers :
                           at'[g] # Idle
                           => /\ at'[g].pair # at'[f].new
                              /\ g # f /\ at'[g].step = "complete" => at'[g].new # at'[f].new
    BY DEF NewPairsApart
  <2>1. at'[f] = at[f] /\ at[f] # Idle /\ On(f, "complete")
    BY DEF On
  <2>2. at[f].new <= issued /\ at[f].new \in good /\ at[f].new \in Nat
    BY <1>2, <2>1 DEF NewPairsApart
  <2>3. at[f].new # p
    BY <2>1 DEF On
  <2>4. ASSUME NEW g \in Refreshers, at'[g] # Idle
        PROVE  /\ at[g].pair # at[f].new
               /\ g # f /\ at[g].step = "complete" => at[g].new # at[f].new
    BY <2>1, <2>4 DEF NewPairsApart
  <2> QED BY <1>0, <2>1, <2>2, <2>3, <2>4
<1>5. refused'[p] \in Nat
  BY DEF TypeOK
<1>6. RefusalsCounted' /\ AskedForLoginWithCause' /\ TokenKept'
  BY <1>1, <1>5 DEF RefusalsCounted, AskedForLoginWithCause, TokenKept
<1>7. OneExchange'
  BY DEF OneExchange
<1> QED BY <1>3, <1>4, <1>6, <1>7

(* What the updates of attempts produce is an attempt.                     *)
LEMMA AttemptTyping ==
    ASSUME TypeOK, NEW e \in Refreshers, at[e] # Idle
    PROVE  /\ \A s \in Steps : Goto(e, s) => at' \in [Refreshers -> Attempts \cup {Idle}]
           /\ Leave(e) => at' \in [Refreshers -> Attempts \cup {Idle}]
<1>1. at \in [Refreshers -> Attempts \cup {Idle}] /\ at[e] \in Attempts
  BY DEF TypeOK
<1>2. ASSUME NEW s \in Steps, Goto(e, s) PROVE at' \in [Refreshers -> Attempts \cup {Idle}]
  <2>1. [at[e] EXCEPT !.step = s] \in Attempts
    BY <1>1 DEF Attempts
  <2> QED BY <1>1, <1>2, <2>1 DEF Goto
<1> QED BY <1>1, <1>2 DEF Leave

(* An installed pair makes a row.                                          *)
LEMMA InstalledTyping ==
    ASSUME TypeOK, NEW p \in Pairs, NEW v \in Nat
    PROVE  Installed(p, v) \in Rows
<1>1. conn.gen + 1 \in Nat
  BY DEF TypeOK, Rows
<1> QED BY <1>1 DEF Installed, Rows, Ages, Kinds

(* Every action keeps the domains of the variables.                        *)
LEMMA RefreshTyping ==
    ASSUME TypeOK, [Next]_vars PROVE TypeOK'
<1> USE DEF Mishap
<1>r. conn \in Rows
  BY DEF TypeOK
<1>n. /\ Pairs \subseteq Nat /\ issued \in Pairs /\ MaxPairs \in Nat
      /\ uses \in Nat /\ errors \in Nat /\ mishaps \in Nat
      /\ Uses \in Nat /\ Errors \in Nat /\ Mishaps \in Nat
  BY ConstantsOK DEF TypeOK, Pairs
<1>1. ASSUME NEW e \in Refreshers, Start(e) PROVE TypeOK'
  <2>1. at' \in [Refreshers -> Attempts \cup {Idle}]
    BY <1>1, <1>r DEF Start, TypeOK, Rows, Attempts, Steps
  <2> QED BY <1>1, <1>n, <2>1 DEF Start, TypeOK
<1>2. ASSUME NEW e \in Refreshers, ClaimRefresh(e) PROVE TypeOK'
  <2>1. at' \in [Refreshers -> Attempts \cup {Idle}]
    <3>1. at[e] \in Attempts /\ [at[e] EXCEPT !.step = "ask", !.gen = @ + 1] \in Attempts
      <4>1. at[e] \in Attempts
        BY <1>2 DEF ClaimRefresh, On, TypeOK
      <4>2. at[e].gen \in Nat
        BY <4>1 DEF Attempts
      <4>3. at[e].gen + 1 \in Nat /\ "ask" \in Steps
        BY <4>2 DEF Steps
      <4>4. \A s \in Steps, g \in Nat : [at[e] EXCEPT !.step = s, !.gen = g] \in Attempts
        BY <4>1 DEF Attempts
      <4>5. [at[e] EXCEPT !.step = "ask", !.gen = @ + 1]
            = [at[e] EXCEPT !.step = "ask", !.gen = at[e].gen + 1]
        BY <4>1 DEF Attempts
      <4> QED BY <4>1, <4>3, <4>4, <4>5
    <3>2. CASE Leave(e)
      BY <1>2, <3>2, AttemptTyping DEF ClaimRefresh, On
    <3>3. CASE at' = [at EXCEPT ![e].step = "ask", ![e].gen = @ + 1]
      BY <3>1, <3>3 DEF TypeOK
    <3> QED BY <1>2, <3>2, <3>3 DEF ClaimRefresh
  <2>2. conn' \in Rows
    <3>1. conn.gen + 1 \in Nat /\ e \in Refreshers \cup {NoLease}
      BY <1>r DEF Rows
    <3>2. [conn EXCEPT !.lease = e, !.over = FALSE, !.gen = @ + 1] \in Rows
      BY <1>r, <3>1 DEF Rows
    <3> QED BY <1>2, <1>r, <3>2 DEF ClaimRefresh
  <2> QED BY <1>2, <1>n, <2>1, <2>2 DEF ClaimRefresh, TypeOK
<1>3. ASSUME NEW e \in Refreshers, Rotated(e) PROVE TypeOK'
  <2>1. at' \in [Refreshers -> Attempts \cup {Idle}]
    <3>1. at[e] \in Attempts /\ issued + 1 \in Pairs
      BY <1>3, <1>n DEF Rotated, On, TypeOK, Pairs
    <3>2. [at[e] EXCEPT !.step = "complete", !.new = issued + 1] \in Attempts
      BY <3>1 DEF Attempts, Steps
    <3>3. CASE Goto(e, "retryable")
      BY <1>3, <3>3, AttemptTyping DEF Rotated, On, Steps
    <3>4. CASE at' = [at EXCEPT ![e].step = "complete", ![e].new = issued + 1]
      BY <3>2, <3>4 DEF TypeOK
    <3> QED BY <1>3, <3>3, <3>4 DEF Rotated
  <2>3. issued' \in Pairs /\ good' \subseteq Pairs
    BY <1>3, <1>n DEF Rotated, TypeOK, Pairs
  <2> QED BY <1>3, <1>n, <2>1, <2>3 DEF Rotated, TypeOK
<1>4. ASSUME NEW e \in Refreshers, Refused(e) PROVE TypeOK'
  <2>1. at' \in [Refreshers -> Attempts \cup {Idle}]
    BY <1>4, AttemptTyping DEF Refused, On, Steps
  <2>2. refused' \in [Pairs -> Nat]
    <3>1. at[e].pair \in Pairs
      BY <1>4 DEF Refused, On, TypeOK, Attempts
    <3> QED BY <1>4, <3>1 DEF Refused, TypeOK
  <2> QED BY <1>4, <1>n, <2>1, <2>2 DEF Refused, TypeOK
<1>5. ASSUME NEW e \in Refreshers, Unavailable(e) PROVE TypeOK'
  <2>1. at' \in [Refreshers -> Attempts \cup {Idle}]
    BY <1>5, AttemptTyping DEF Unavailable, On, Steps
  <2> QED BY <1>5, <1>n, <2>1 DEF Unavailable, TypeOK
<1>6. ASSUME NEW e \in Refreshers, Complete(e) PROVE TypeOK'
  <2>1. at' \in [Refreshers -> Attempts \cup {Idle}]
    BY <1>6, AttemptTyping DEF Complete, On, Steps
  <2>2. conn' \in Rows
    <3>1. at[e].new \in Pairs
      BY <1>6 DEF Complete, On, TypeOK, Attempts
    <3>2. conn.login \in Nat
      BY <1>r DEF Rows
    <3> QED BY <1>6, <1>r, <3>1, <3>2, InstalledTyping DEF Complete
  <2> QED BY <1>6, <1>n, <2>1, <2>2 DEF Complete, TypeOK
<1>7. ASSUME NEW e \in Refreshers, FailRetryable(e) PROVE TypeOK'
  <2>1. at' \in [Refreshers -> Attempts \cup {Idle}]
    BY <1>7, AttemptTyping DEF FailRetryable, On, Steps
  <2>2. conn' \in Rows
    <3>1. [conn EXCEPT !.lease = NoLease, !.over = FALSE, !.held = TRUE,
                       !.kind = "temporarily_unavailable",
                       !.rejections = 0, !.proven = FALSE] \in Rows
      BY <1>r DEF Rows, Kinds
    <3> QED BY <1>7, <1>r, <3>1 DEF FailRetryable
  <2> QED BY <1>7, <1>n, <2>1, <2>2 DEF FailRetryable, TypeOK
<1>8. ASSUME NEW e \in Refreshers, FailReauthorization(e) PROVE TypeOK'
  <2>1. at' \in [Refreshers -> Attempts \cup {Idle}]
    BY <1>8, AttemptTyping DEF FailReauthorization, On, Steps
  <2>2. conn' \in Rows
    <3>1. conn.rejections + 1 \in Nat
      BY <1>r DEF Rows
    <3>2. [conn EXCEPT !.lease = NoLease, !.rejections = @ + 1,
                       !.kind = "reauthorization_required", !.held = FALSE] \in Rows
      BY <1>r, <3>1 DEF Rows, Kinds
    <3>3. [conn EXCEPT !.lease = NoLease, !.rejections = @ + 1,
                       !.kind = "temporarily_unavailable", !.held = TRUE] \in Rows
      BY <1>r, <3>1 DEF Rows, Kinds
    <3>4. CASE Confirmed
      BY <1>8, <1>r, <3>2, <3>4 DEF FailReauthorization
    <3>5. CASE ~Confirmed
      BY <1>8, <1>r, <3>3, <3>5 DEF FailReauthorization
    <3> QED BY <3>4, <3>5
  <2> QED BY <1>8, <1>n, <2>1, <2>2 DEF FailReauthorization, TypeOK
<1>9. ASSUME NEW e \in Refreshers, Crash(e) PROVE TypeOK'
  <2>1. at' \in [Refreshers -> Attempts \cup {Idle}]
    BY <1>9, AttemptTyping DEF Crash, On, Steps
  <2> QED BY <1>9, <1>n, <2>1 DEF Crash, TypeOK
<1>10. ASSUME NEW later \in BOOLEAN, MarkRejected(later) PROVE TypeOK'
  <2>2. conn' \in Rows
    BY <1>10, <1>r DEF MarkRejected, Rows, Ages, Kinds
  <2> QED BY <1>10, <1>n, <2>2 DEF MarkRejected, TypeOK
<1>11. ASSUME NEW v \in Logins, Login(v) PROVE TypeOK'
  <2>2. conn' \in Rows
    <3>1. issued + 1 \in Pairs /\ v \in Nat
      BY <1>11, <1>n, ConstantsOK DEF Login, Pairs
    <3> QED BY <1>11, <1>r, <3>1, InstalledTyping DEF Login
  <2>3. issued' \in Pairs /\ good' \subseteq Pairs
    BY <1>11, <1>n DEF Login, TypeOK, Pairs
  <2> QED BY <1>11, <1>n, <2>2, <2>3 DEF Login, TypeOK
<1>12. ASSUME Ageing PROVE TypeOK'
  <2>2. conn' \in Rows
    BY <1>12, <1>r DEF Ageing, Rows, Ages, Kinds
  <2> QED BY <1>12, <1>n, <2>2 DEF Ageing, TypeOK
<1>13. ASSUME LeaseRunsOut PROVE TypeOK'
  <2>2. conn' \in Rows
    BY <1>13, <1>r DEF LeaseRunsOut, Rows, Ages, Kinds
  <2> QED BY <1>13, <1>n, <2>2 DEF LeaseRunsOut, TypeOK
<1>14. ASSUME RetryDue PROVE TypeOK'
  <2>2. conn' \in Rows
    BY <1>14, <1>r DEF RetryDue, Rows, Ages, Kinds
  <2> QED BY <1>14, <1>n, <2>2 DEF RetryDue, TypeOK
<1>15. ASSUME EvidenceAges PROVE TypeOK'
  <2>2. conn' \in Rows
    BY <1>15, <1>r DEF EvidenceAges, Rows, Ages, Kinds
  <2> QED BY <1>15, <1>n, <2>2 DEF EvidenceAges, TypeOK
<1>16. ASSUME UNCHANGED vars PROVE TypeOK'
  BY <1>16 DEF vars, TypeOK
<1> QED BY <1>1, <1>2, <1>3, <1>4, <1>5, <1>6, <1>7, <1>8, <1>9, <1>10, <1>11, <1>12, <1>13,
           <1>14, <1>15, <1>16 DEF Next, Refresh, Answer, Record, Time

(* Every step of a refresher, a caller, a login or the clock keeps the     *)
(* invariant.                                                              *)
LEMMA RefreshStep == IndInv /\ [Next]_vars => IndInv'
<1> SUFFICES ASSUME IndInv, [Next]_vars PROVE IndInv'
  OBVIOUS
<1>t. TypeOK /\ TypeOK'
  BY RefreshTyping DEF IndInv
<1>i. /\ conn.pair <= issued /\ Fenced /\ NewPairsApart /\ RefusalsCounted
      /\ OneExchange /\ AskedForLoginWithCause /\ TokenKept
  BY DEF IndInv
<1>n. issued \in Nat /\ Pairs \subseteq Nat /\ NoLease \notin Refreshers
  BY <1>t, ConstantsOK DEF TypeOK, Pairs
<1>1. ASSUME NEW e \in Refreshers, Start(e) PROVE IndInv'
  <2>1. /\ at'[e] = [step |-> "claim", pair |-> conn.pair, gen |-> conn.gen, new |-> conn.pair]
        /\ \A f \in Refreshers : f # e => at'[f] = at[f]
        /\ UNCHANGED <<conn, good, issued, refused, mishaps>>
        /\ at[e] = Idle
    BY <1>1, <1>t DEF Start, TypeOK
  <2>2. \A f \in Refreshers : f # e => (Current(f)' <=> Current(f))
    BY <2>1 DEF Current
  <2>3. conn.pair \in Nat /\ conn.gen \in Nat
    BY <1>t, Fields, <1>n
  <2>4. Fenced'
    BY <1>i, <2>1, <2>2, <2>3 DEF Fenced
  <2>5. NewPairsApart'
    <3>1. \A f \in Refreshers :
            On(f, "complete")' => f # e /\ On(f, "complete") /\ at'[f] = at[f]
      BY <2>1 DEF On
    <3> QED BY <1>i, <2>1, <3>1 DEF NewPairsApart
  <2>6. RefusalsCounted'
    BY <1>i, <2>1, <2>2 DEF RefusalsCounted, On
  <2>7. OneExchange'
    BY <1>i, <2>1, <2>2 DEF OneExchange
  <2>8. AskedForLoginWithCause' /\ TokenKept'
    BY <1>i, <2>1, <2>2 DEF AskedForLoginWithCause, TokenKept, On
  <2> QED BY <1>i, <1>t, <2>1, <2>4, <2>5, <2>6, <2>7, <2>8 DEF IndInv
<1>2. ASSUME NEW e \in Refreshers, ClaimRefresh(e) PROVE IndInv'
  <2>1. CASE ~ClaimFits(e)
    <3>1. Leave(e) /\ UNCHANGED <<conn, good, issued, refused, mishaps>> /\ ~On(e, "complete")
      BY <1>2, <2>1 DEF ClaimRefresh, On
    <3> QED BY <1>t, <3>1, Leaving
  <2>2. CASE ClaimFits(e)
    <3>1. /\ conn' = [conn EXCEPT !.lease = e, !.over = FALSE, !.gen = @ + 1]
          /\ at' = [at EXCEPT ![e].step = "ask", ![e].gen = @ + 1]
          /\ UNCHANGED <<good, issued, refused, mishaps>>
          /\ at[e] # Idle
          /\ at[e].gen = conn.gen /\ at[e].pair = conn.pair /\ Unleased
      BY <1>2, <2>2 DEF ClaimRefresh, ClaimFits, On
    <3>2. /\ conn \in Rows /\ conn.gen \in Nat
          /\ at[e] \in Attempts /\ at'[e] \in Attempts \cup {Idle}
      BY <1>t, <3>1 DEF TypeOK, Rows
    <3>3. /\ conn'.lease = e /\ conn'.gen = conn.gen + 1 /\ conn'.over = FALSE
          /\ conn'.pair = conn.pair /\ conn'.rejections = conn.rejections
          /\ conn'.kind = conn.kind /\ conn'.age = conn.age
      BY <3>1, <3>2 DEF Rows
    <3>4. /\ at'[e] # Idle
          /\ at'[e].step = "ask" /\ at'[e].gen = conn.gen + 1 /\ at'[e].pair = conn.pair
          /\ \A f \in Refreshers : f # e => at'[f] = at[f]
      <4>1. at \in [Refreshers -> Attempts \cup {Idle}]
        BY <1>t DEF TypeOK
      <4>2. at'[e] = [at[e] EXCEPT !.step = "ask", !.gen = @ + 1]
        BY <3>1, <4>1
      <4>3. at'[e].step = "ask" /\ at'[e].gen = conn.gen + 1 /\ at'[e].pair = conn.pair
        BY <3>1, <3>2, <4>2 DEF Attempts
      <4>4. at'[e] \in Attempts
        <5>1. \A s \in Steps, g \in Nat : [at[e] EXCEPT !.step = s, !.gen = g] \in Attempts
          BY <3>2 DEF Attempts
        <5>2. [at[e] EXCEPT !.step = "ask", !.gen = @ + 1]
              = [at[e] EXCEPT !.step = "ask", !.gen = at[e].gen + 1]
          BY <3>2 DEF Attempts
        <5>3. at[e].gen + 1 \in Nat /\ "ask" \in Steps
          BY <3>1, <3>2 DEF Steps
        <5> QED BY <4>2, <5>1, <5>2, <5>3
      <4> QED BY <3>1, <4>1, <4>3, <4>4, IdleOK
    <3>5. \A f \in Refreshers : f # e => ~Current(f)'
      BY <3>3 DEF Current
    <3>6. Current(e)'
      BY <3>3, <3>4 DEF Current
    <3>7. \A f \in Refreshers : Current(f) => conn.over
      BY <3>1, <1>n DEF Current, Unleased
    <3>8. Fenced'
      <4>1. \A f \in Refreshers : at[f] # Idle => at[f].gen \in Nat
        BY <1>t, Fields
      <4>2. \A f \in Refreshers : at[f] # Idle => at[f].gen <= conn.gen /\ at[f].pair <= issued
        BY <1>i DEF Fenced
      <4>3. ASSUME NEW f \in Refreshers, at'[f] # Idle
            PROVE  /\ at'[f].gen <= conn.gen + 1 /\ at'[f].pair <= issued
                   /\ Current(f)' => at'[f].pair = conn.pair
        <5>1. CASE f = e
          BY <1>i, <3>2, <3>4, <5>1
        <5>2. CASE f # e
          BY <3>2, <3>4, <3>5, <4>1, <4>2, <4>3, <5>2
        <5> QED BY <5>1, <5>2
      <4> QED BY <3>1, <3>3, <4>3 DEF Fenced
    <3>9. NewPairsApart'
      <4>1. \A f \in Refreshers :
              On(f, "complete")' => f # e /\ On(f, "complete") /\ at'[f] = at[f]
        BY <3>4 DEF On
      <4>2. \A f \in Refreshers :
              at'[f] # Idle => at[f] # Idle /\ at'[f].pair = at[f].pair
        BY <3>1, <3>4
      <4>3. \A f \in Refreshers : at'[f].step = "complete" => at'[f] = at[f]
        BY <3>4
      <4>4. ASSUME NEW f \in Refreshers, On(f, "complete")'
            PROVE  /\ at'[f].new <= issued' /\ at'[f].new \in good' /\ at'[f].new # conn'.pair
                   /\ \A g \in Refreshers :
                        at'[g] # Idle
                        => /\ at'[g].pair # at'[f].new
                           /\ g # f /\ at'[g].step = "complete" => at'[g].new # at'[f].new
        <5>1. On(f, "complete") /\ at'[f] = at[f]
          BY <4>1, <4>4
        <5>2. at[f].new <= issued /\ at[f].new \in good /\ at[f].new # conn.pair
          BY <1>i, <5>1 DEF NewPairsApart
        <5>3. ASSUME NEW g \in Refreshers, at'[g] # Idle
              PROVE  /\ at[g].pair # at[f].new
                     /\ g # f /\ at[g].step = "complete" => at[g].new # at[f].new
          BY <1>i, <4>2, <5>1, <5>3 DEF NewPairsApart
        <5>4. ASSUME NEW g \in Refreshers, at'[g] # Idle
              PROVE  /\ at'[g].pair # at'[f].new
                     /\ g # f /\ at'[g].step = "complete" => at'[g].new # at'[f].new
          <6>1. at'[g].pair # at'[f].new
            BY <4>2, <5>1, <5>3, <5>4
          <6>2. ASSUME g # f, at'[g].step = "complete" PROVE at'[g].new # at'[f].new
            BY <4>3, <5>1, <5>3, <5>4, <6>2
          <6> QED BY <6>1, <6>2
        <5>5. at'[f].new <= issued' /\ at'[f].new \in good' /\ at'[f].new # conn'.pair
          BY <3>1, <3>3, <5>1, <5>2
        <5> QED BY <5>4, <5>5
      <4> QED BY <4>4 DEF NewPairsApart
    <3>10. RefusalsCounted'
      BY <1>i, <3>1, <3>3, <3>4, <3>5 DEF RefusalsCounted, On
    <3>11. OneExchange'
      BY <1>i, <3>1, <3>3, <3>4, <3>6, <3>7 DEF OneExchange
    <3>12. AskedForLoginWithCause'
      BY <1>i, <3>1, <3>3 DEF AskedForLoginWithCause
    <3>13. TokenKept'
      BY <1>i, <3>1, <3>3, <3>7 DEF TokenKept, OneExchange, On
    <3> QED BY <1>i, <1>t, <3>1, <3>3, <3>8, <3>9, <3>10, <3>11, <3>12, <3>13 DEF IndInv
  <2> QED BY <2>1, <2>2
<1>3. ASSUME NEW e \in Refreshers, Rotated(e) PROVE IndInv'
  <2>1. /\ at[e] # Idle /\ at[e].step = "ask" /\ at[e] \in Attempts
        /\ issued' = issued + 1
        /\ good' = (good \ {at[e].pair}) \cup {issued + 1}
        /\ UNCHANGED <<conn, refused>>
        /\ \A f \in Refreshers : at[f] # Idle => at[f] \in Attempts
    BY <1>3, <1>t DEF Rotated, On, TypeOK
  <2>2. /\ at'[e] # Idle /\ at'[e].gen = at[e].gen /\ at'[e].pair = at[e].pair
        /\ \A f \in Refreshers : f # e => at'[f] = at[f]
        /\ \/ at'[e].step = "complete" /\ at'[e].new = issued + 1 /\ mishaps' = mishaps
           \/ at'[e].step = "retryable" /\ mishaps' # 0
    <3>1. at \in [Refreshers -> Attempts \cup {Idle}]
      BY <1>t DEF TypeOK
    <3>2. CASE Goto(e, "retryable") /\ Mishap
      <4>1. at'[e] = [at[e] EXCEPT !.step = "retryable"]
        BY <3>1, <3>2 DEF Goto
      <4>2. [at[e] EXCEPT !.step = "retryable"] \in Attempts
        BY <2>1 DEF Attempts, Steps
      <4>3. mishaps' # 0
        BY <3>2, <1>t DEF Mishap, TypeOK
      <4> QED BY <2>1, <3>1, <3>2, <4>1, <4>2, <4>3, IdleOK DEF Goto, Attempts
    <3>3. CASE at' = [at EXCEPT ![e].step = "complete", ![e].new = issued + 1]
               /\ UNCHANGED mishaps
      <4>1. at'[e] = [at[e] EXCEPT !.step = "complete", !.new = issued + 1]
        BY <3>1, <3>3
      <4>2. issued + 1 \in Pairs
        BY <1>t, <2>1 DEF TypeOK
      <4>3. [at[e] EXCEPT !.step = "complete", !.new = issued + 1] \in Attempts
        BY <2>1, <4>2 DEF Attempts, Steps
      <4> QED BY <2>1, <3>1, <3>3, <4>1, <4>3, IdleOK DEF Attempts
    <3> QED BY <1>3, <3>2, <3>3 DEF Rotated
  <2>3. \A f \in Refreshers : at'[f] # Idle <=> at[f] # Idle
    BY <2>1, <2>2
  <2>4. \A f \in Refreshers : Current(f)' <=> Current(f)
    BY <2>1, <2>2 DEF Current
  <2>5. \A f \in Refreshers : at'[f].gen = at[f].gen /\ at'[f].pair = at[f].pair
    BY <2>2
  <2>6. Fenced'
    <3>1. \A f \in Refreshers : at[f] # Idle => at[f].pair \in Nat
      BY <1>t, <1>n, Fields
    <3>2. \A f \in Refreshers : at'[f].step # "claim" => at[f].step # "claim"
      BY <2>1, <2>2
    <3> QED BY <1>i, <1>n, <2>1, <2>3, <2>4, <2>5, <3>1, <3>2 DEF Fenced
  <2>7. NewPairsApart'
    <3>1. /\ conn.pair \in Nat
          /\ \A f \in Refreshers : at[f] # Idle => at[f].pair \in Nat /\ at[f].new \in Nat
      BY <1>t, <1>n, Fields
    <3>2. \A f \in Refreshers : at[f] # Idle => at[f].pair <= issued
      BY <1>i DEF Fenced
    <3>3. \A f \in Refreshers : On(f, "complete") => f # e
      BY <2>1 DEF On
    <3>4. ASSUME NEW f \in Refreshers, f # e, On(f, "complete")'
          PROVE  /\ at'[f].new <= issued' /\ at'[f].new \in good' /\ at'[f].new # conn'.pair
                 /\ \A g \in Refreshers :
                      at'[g] # Idle
                      => /\ at'[g].pair # at'[f].new
                         /\ g # f /\ at'[g].step = "complete" => at'[g].new # at'[f].new
      <4>1. On(f, "complete") /\ at[f] # Idle /\ at'[f] = at[f]
        BY <2>2, <3>4 DEF On
      <4>2. /\ at[f].new <= issued /\ at[f].new \in good /\ at[f].new # conn.pair
            /\ at[f].new \in Nat /\ at[e].pair # at[f].new
        BY <1>i, <2>1, <3>1, <4>1 DEF NewPairsApart
      <4>3. ASSUME NEW g \in Refreshers, at'[g] # Idle
            PROVE  /\ at'[g].pair # at'[f].new
                   /\ g # f /\ at'[g].step = "complete" => at'[g].new # at'[f].new
        <5>1. at[g] # Idle /\ at[g].pair # at[f].new
          BY <1>i, <2>3, <4>1, <4>3 DEF NewPairsApart
        <5>2. CASE g = e
          BY <1>n, <2>2, <2>5, <4>1, <4>2, <5>1, <5>2
        <5>3. CASE g # e
          BY <1>i, <2>2, <4>1, <5>1, <5>3 DEF NewPairsApart
        <5> QED BY <5>2, <5>3
      <4> QED BY <1>n, <2>1, <4>1, <4>2, <4>3
    <3>5. ASSUME On(e, "complete")'
          PROVE  /\ at'[e].new <= issued' /\ at'[e].new \in good' /\ at'[e].new # conn'.pair
                 /\ \A g \in Refreshers :
                      at'[g] # Idle
                      => /\ at'[g].pair # at'[e].new
                         /\ g # e /\ at'[g].step = "complete" => at'[g].new # at'[e].new
      <4>1. at'[e].new = issued + 1
        BY <2>2, <3>5 DEF On
      <4>2. ASSUME NEW g \in Refreshers, at'[g] # Idle
            PROVE  /\ at'[g].pair # issued + 1
                   /\ g # e /\ at'[g].step = "complete" => at'[g].new # issued + 1
        <5>1. at[g] # Idle /\ at[g].pair <= issued /\ at[g].pair \in Nat /\ at[g].new \in Nat
          BY <2>3, <3>1, <3>2, <4>2
        <5>2. g # e /\ at'[g].step = "complete" => at[g].new <= issued /\ at'[g] = at[g]
          BY <1>i, <2>2, <5>1 DEF NewPairsApart, On
        <5> QED BY <1>n, <2>5, <5>1, <5>2
      <4> QED BY <1>i, <1>n, <2>1, <3>1, <4>1, <4>2
    <3> QED BY <3>4, <3>5 DEF NewPairsApart
  <2>8. RefusalsCounted'
    BY <1>i, <2>1, <2>2, <2>4 DEF RefusalsCounted, On
  <2>9. OneExchange'
    <3>1. mishaps' = 0 => mishaps = 0 /\ at'[e].step = "complete"
      BY <2>2
    <3> QED BY <1>i, <2>1, <2>2, <2>3, <2>4, <2>5, <3>1 DEF OneExchange
  <2>10. AskedForLoginWithCause'
    BY <1>i, <2>1 DEF AskedForLoginWithCause
  <2>11. TokenKept'
    <3> SUFFICES ASSUME mishaps' = 0
                 PROVE  \/ conn.pair \in good'
                        \/ \E f \in Refreshers : (On(f, "complete") /\ Current(f)
                              /\ at[f].pair = conn.pair /\ at[f].new \in good)'
      BY <2>1 DEF TokenKept
    <3>1. mishaps = 0 /\ On(e, "complete")' /\ at'[e].new = issued + 1
      BY <2>2 DEF On
    <3>2. CASE at[e].pair = conn.pair
      <4>1. Current(e)'
        BY <1>i, <2>1, <2>4, <3>1, <3>2 DEF OneExchange
      <4> QED BY <2>1, <2>5, <3>1, <3>2, <4>1
    <3>3. CASE at[e].pair # conn.pair /\ conn.pair \in good
      BY <2>1, <3>3
    <3>4. CASE conn.pair \notin good
      <4>1. PICK f \in Refreshers : On(f, "complete") /\ Current(f)
                                    /\ at[f].pair = conn.pair /\ at[f].new \in good
        BY <1>i, <3>1, <3>4 DEF TokenKept
      <4>2. f # e /\ at[f].new # at[e].pair
        BY <1>i, <2>1, <4>1 DEF On, NewPairsApart
      <4>3. (On(f, "complete") /\ Current(f) /\ at[f].pair = conn.pair /\ at[f].new \in good)'
        BY <2>1, <2>2, <2>4, <4>1, <4>2 DEF On
      <4> QED BY <4>3
    <3> QED BY <3>2, <3>3, <3>4
  <2>12. conn'.pair <= issued'
    <3>1. conn.pair \in Nat
      BY <1>t, <1>n, Fields
    <3> QED BY <1>i, <1>n, <2>1, <3>1
  <2> QED BY <1>t, <2>6, <2>7, <2>8, <2>9, <2>10, <2>11, <2>12 DEF IndInv
<1>4. ASSUME NEW e \in Refreshers, Refused(e) PROVE IndInv'
  <2>1. /\ at[e] # Idle /\ at[e].step = "ask" /\ at[e] \in Attempts
        /\ refused' = [refused EXCEPT ![at[e].pair] = @ + 1]
        /\ UNCHANGED <<conn, good, issued, mishaps>>
    BY <1>4, <1>t DEF Refused, On, TypeOK
  <2>2. /\ at'[e] = [at[e] EXCEPT !.step = "refused"]
        /\ \A f \in Refreshers : f # e => at'[f] = at[f]
    BY <1>4, <1>t DEF Refused, Goto, TypeOK
  <2>3. /\ at'[e] # Idle /\ at'[e].gen = at[e].gen /\ at'[e].pair = at[e].pair
        /\ at'[e].step = "refused"
    <3>1. [at[e] EXCEPT !.step = "refused"] \in Attempts
      BY <2>1 DEF Attempts, Steps
    <3> QED BY <2>1, <2>2, <3>1, IdleOK DEF Attempts
  <2>4. \A f \in Refreshers :
          /\ at'[f] # Idle <=> at[f] # Idle
          /\ Current(f)' <=> Current(f)
          /\ at'[f].gen = at[f].gen /\ at'[f].pair = at[f].pair
          /\ at'[f].step # "claim" => at[f].step # "claim"
          /\ On(f, "complete")' <=> On(f, "complete")
          /\ On(f, "complete") => at'[f] = at[f]
          /\ at'[f].step = "complete" => f # e
    BY <2>1, <2>2, <2>3 DEF Current, On
  <2>5. Fenced'
    BY <1>i, <2>1, <2>4 DEF Fenced
  <2>6. NewPairsApart'
    <3>1. ASSUME NEW f \in Refreshers, On(f, "complete")'
          PROVE  /\ at'[f].new <= issued' /\ at'[f].new \in good' /\ at'[f].new # conn'.pair
                 /\ \A g \in Refreshers :
                      at'[g] # Idle
                      => /\ at'[g].pair # at'[f].new
                         /\ g # f /\ at'[g].step = "complete" => at'[g].new # at'[f].new
      BY <1>i, <2>1, <2>2, <2>4, <3>1 DEF NewPairsApart
    <3> QED BY <3>1 DEF NewPairsApart
  <2>7. /\ refused[conn.pair] \in Nat /\ conn.pair \in Pairs /\ conn.rejections \in Nat
        /\ refused'[conn.pair] \in Nat
        /\ refused[conn.pair] <= refused'[conn.pair]
        /\ at[e].pair = conn.pair => refused[conn.pair] < refused'[conn.pair]
    <3>1. refused \in [Pairs -> Nat] /\ conn.pair \in Pairs /\ conn.rejections \in Nat
      BY <1>t, Fields DEF TypeOK
    <3> QED BY <2>1, <3>1
  <2>8. RefusalsCounted'
    <3>1. ASSUME NEW f \in Refreshers, On(f, "refused")', Current(f)'
          PROVE  conn.rejections < refused'[conn.pair]
      <4>1. CASE f = e
        <5>1. at[e].pair = conn.pair
          BY <1>i, <2>1, <2>4, <3>1, <4>1 DEF Fenced
        <5> QED BY <1>i, <2>7, <5>1 DEF RefusalsCounted
      <4>2. CASE f # e
        BY <1>i, <2>2, <2>4, <2>7, <3>1, <4>2 DEF RefusalsCounted, On
      <4> QED BY <4>1, <4>2
    <3>2. conn.rejections <= refused'[conn.pair]
      BY <1>i, <2>7 DEF RefusalsCounted
    <3> QED BY <2>1, <3>1, <3>2 DEF RefusalsCounted
  <2>9. OneExchange'
    BY <1>i, <2>1, <2>4 DEF OneExchange
  <2>10. AskedForLoginWithCause'
    BY <1>i, <2>1, <2>7 DEF AskedForLoginWithCause
  <2>11. TokenKept'
    BY <1>i, <2>1, <2>4 DEF TokenKept
  <2> QED BY <1>i, <1>t, <2>1, <2>5, <2>6, <2>8, <2>9, <2>10, <2>11 DEF IndInv
<1>5. ASSUME NEW e \in Refreshers, Unavailable(e) PROVE IndInv'
  <2>1. /\ at[e] # Idle /\ at[e].step = "ask" /\ at[e] \in Attempts
        /\ UNCHANGED <<conn, good, issued, refused, mishaps>>
    BY <1>5, <1>t DEF Unavailable, On, TypeOK
  <2>2. /\ at'[e] = [at[e] EXCEPT !.step = "retryable"]
        /\ \A f \in Refreshers : f # e => at'[f] = at[f]
    BY <1>5, <1>t DEF Unavailable, Goto, TypeOK
  <2>3. /\ at'[e] # Idle /\ at'[e].gen = at[e].gen /\ at'[e].pair = at[e].pair
        /\ at'[e].step = "retryable"
    <3>1. [at[e] EXCEPT !.step = "retryable"] \in Attempts
      BY <2>1 DEF Attempts, Steps
    <3> QED BY <2>1, <2>2, <3>1, IdleOK DEF Attempts
  <2>4. \A f \in Refreshers :
          /\ at'[f] # Idle <=> at[f] # Idle
          /\ Current(f)' <=> Current(f)
          /\ at'[f].gen = at[f].gen /\ at'[f].pair = at[f].pair
          /\ at'[f].step # "claim" => at[f].step # "claim"
          /\ On(f, "complete")' <=> On(f, "complete")
          /\ On(f, "refused")' <=> On(f, "refused")
          /\ On(f, "complete") => at'[f] = at[f]
          /\ at'[f].step = "complete" => f # e
    BY <2>1, <2>2, <2>3 DEF Current, On
  <2>5. Fenced'
    BY <1>i, <2>1, <2>4 DEF Fenced
  <2>6. NewPairsApart'
    <3>1. ASSUME NEW f \in Refreshers, On(f, "complete")'
          PROVE  /\ at'[f].new <= issued' /\ at'[f].new \in good' /\ at'[f].new # conn'.pair
                 /\ \A g \in Refreshers :
                      at'[g] # Idle
                      => /\ at'[g].pair # at'[f].new
                         /\ g # f /\ at'[g].step = "complete" => at'[g].new # at'[f].new
      BY <1>i, <2>1, <2>2, <2>4, <3>1 DEF NewPairsApart
    <3> QED BY <3>1 DEF NewPairsApart
  <2>7. RefusalsCounted' /\ OneExchange'
    BY <1>i, <2>1, <2>4 DEF RefusalsCounted, OneExchange
  <2>8. AskedForLoginWithCause' /\ TokenKept'
    BY <1>i, <2>1, <2>4 DEF AskedForLoginWithCause, TokenKept
  <2> QED BY <1>i, <1>t, <2>1, <2>5, <2>6, <2>7, <2>8 DEF IndInv
<1>6. ASSUME NEW e \in Refreshers, Complete(e) PROVE IndInv'
  <2>1. On(e, "complete") /\ Leave(e) /\ UNCHANGED <<good, issued, refused, mishaps>>
    BY <1>6 DEF Complete
  <2>2. CASE ~Current(e)
    BY <1>6, <1>t, <2>1, <2>2, Leaving DEF Complete
  <2>3. CASE Current(e)
    <3>1. /\ at[e].new \in Pairs /\ at[e].new <= issued /\ at[e].new \in good
          /\ \A f \in Refreshers :
               f # e /\ at[f] # Idle => /\ at[f].pair # at[e].new
                                        /\ at[f].step = "complete" => at[f].new # at[e].new
      BY <1>i, <1>t, <2>1, Fields DEF NewPairsApart, On
    <3>2. at'[e] = Idle /\ \A f \in Refreshers : f # e => at'[f] = at[f]
      BY <1>t, <2>1 DEF Leave, TypeOK
    <3>3. conn' = Installed(at[e].new, conn.login)
      BY <1>6, <2>3 DEF Complete
    <3>4. /\ conn'.pair = at[e].new /\ conn'.gen = conn.gen + 1 /\ conn'.lease = NoLease
          /\ conn'.rejections = 0 /\ conn'.kind = "none"
      BY <3>3 DEF Installed
    <3>5. /\ \A f \in Refreshers : at'[f] = at[f] \/ at'[f] = Idle
          /\ \A f \in Refreshers :
               at'[f] # Idle => /\ at[f].pair # at[e].new
                                /\ at[f].step = "complete" => at[f].new # at[e].new
      <4>1. ASSUME NEW f \in Refreshers, at'[f] # Idle
            PROVE  f # e /\ at[f] # Idle
        BY <3>2, <4>1
      <4>2. \A f \in Refreshers : at'[f] = at[f] \/ at'[f] = Idle
        BY <3>2
      <4> QED BY <3>1, <4>1, <4>2
    <3>6. at[e].new <= issued' /\ issued <= issued' /\ good \subseteq good' /\ at[e].new \in good'
      BY <1>n, <2>1, <3>1
    <3> QED BY <1>t, <2>1, <3>1, <3>4, <3>5, <3>6, Replacing
  <2> QED BY <2>2, <2>3
<1>7. ASSUME NEW e \in Refreshers, FailRetryable(e) PROVE IndInv'
  <2>1. On(e, "retryable") /\ Leave(e) /\ UNCHANGED <<good, issued, refused, mishaps>>
    BY <1>7 DEF FailRetryable
  <2>2. CASE ~Current(e)
    BY <1>7, <1>t, <2>1, <2>2, Leaving DEF FailRetryable
  <2>3. CASE Current(e)
    <3>1. conn' = [conn EXCEPT !.lease = NoLease, !.over = FALSE, !.held = TRUE,
                               !.kind = "temporarily_unavailable",
                               !.rejections = 0, !.proven = FALSE]
      BY <1>7, <2>3 DEF FailRetryable
    <3>2. /\ conn'.pair = conn.pair /\ conn'.gen = conn.gen /\ conn'.lease = NoLease
          /\ conn'.rejections = 0 /\ conn'.kind = "temporarily_unavailable"
      BY <1>t, <3>1 DEF TypeOK, Rows
    <3>3. conn'.rejections <= refused[conn.pair]
      BY <1>t, <3>2, Fields
    <3>4. AskedForLoginWithCause'
      BY <3>2 DEF AskedForLoginWithCause
    <3> QED BY <1>t, <2>1, <2>3, <3>2, <3>3, <3>4, Releasing DEF On
  <2> QED BY <2>2, <2>3
<1>8. ASSUME NEW e \in Refreshers, FailReauthorization(e) PROVE IndInv'
  <2>1. On(e, "refused") /\ Leave(e) /\ UNCHANGED <<good, issued, refused, mishaps>>
    BY <1>8 DEF FailReauthorization
  <2>2. CASE ~(Current(e) /\ ~conn.over)
    <3>1. UNCHANGED conn /\ ~On(e, "complete")
      BY <1>8, <2>1, <2>2 DEF FailReauthorization, On
    <3> QED BY <1>t, <2>1, <3>1, Leaving
  <2>3. CASE Current(e) /\ ~conn.over
    <3>1. conn' = [conn EXCEPT !.lease = NoLease, !.rejections = @ + 1,
                     !.kind = IF Confirmed THEN "reauthorization_required"
                              ELSE "temporarily_unavailable",
                     !.held = ~Confirmed]
      BY <1>8, <2>3 DEF FailReauthorization
    <3>2. /\ conn'.pair = conn.pair /\ conn'.gen = conn.gen /\ conn'.lease = NoLease
          /\ conn'.rejections = conn.rejections + 1 /\ conn'.age = conn.age
          /\ ~Confirmed => conn'.kind = "temporarily_unavailable"
      BY <1>t, <3>1 DEF TypeOK, Rows
    <3>3. conn.rejections < refused[conn.pair]
      BY <1>i, <2>1, <2>3 DEF RefusalsCounted
    <3>4. conn.rejections \in Nat /\ refused[conn.pair] \in Nat
      BY <1>t, Fields
    <3>5. AskedForLoginWithCause'
      BY <2>1, <3>2, <3>3, <3>4 DEF AskedForLoginWithCause, Confirmed
    <3> QED BY <1>t, <2>1, <2>3, <3>2, <3>3, <3>4, <3>5, Releasing DEF On
  <2> QED BY <2>2, <2>3
<1>9. ASSUME NEW e \in Refreshers, Crash(e) PROVE IndInv'
  <2>1. mishaps' # 0
    BY <1>9, <1>t DEF Crash, Mishap, TypeOK
  <2> QED BY <1>9, <1>t, <2>1, Leaving DEF Crash
<1>10. ASSUME NEW later \in BOOLEAN, MarkRejected(later) PROVE IndInv'
  <2>1. /\ UNCHANGED <<at, good, issued, refused, mishaps>>
        /\ conn' = [conn EXCEPT !.kind = "token_rejected", !.held = @ \/ later]
    BY <1>10 DEF MarkRejected
  <2>2. /\ conn'.pair = conn.pair /\ conn'.gen = conn.gen /\ conn'.lease = conn.lease
        /\ conn'.over = conn.over /\ conn'.rejections = conn.rejections
        /\ conn'.kind # "reauthorization_required"
    BY <1>t, <2>1 DEF TypeOK, Rows
  <2> QED BY <1>t, <2>1, <2>2, Harmless
<1>11. ASSUME NEW v \in Logins, Login(v) PROVE IndInv'
  <2>1. /\ issued' = issued + 1 /\ issued + 1 \in Pairs
        /\ good' = good \cup {issued + 1}
        /\ UNCHANGED <<at, refused, mishaps>>
        /\ conn' = Installed(issued + 1, v) \/ UNCHANGED conn
    BY <1>11, <1>t DEF Login, TypeOK
  <2>2. \A f \in Refreshers :
          at[f] # Idle => /\ at[f].pair <= issued /\ at[f].pair \in Nat /\ at[f].new \in Nat
                          /\ at[f].step = "complete" => at[f].new <= issued
    BY <1>i, <1>n, <1>t, Fields DEF Fenced, NewPairsApart, On
  <2>3. CASE conn' = Installed(issued + 1, v)
    <3>1. /\ conn'.pair = issued + 1 /\ conn'.gen = conn.gen + 1 /\ conn'.lease = NoLease
          /\ conn'.rejections = 0 /\ conn'.kind = "none"
      BY <2>3 DEF Installed
    <3>2. \A f \in Refreshers :
            at'[f] # Idle => /\ at[f].pair # issued + 1
                             /\ at[f].step = "complete" => at[f].new # issued + 1
      BY <1>n, <2>1, <2>2
    <3> QED BY <1>n, <1>t, <2>1, <3>1, <3>2, Replacing
  <2>4. CASE UNCHANGED conn
    <3>1. \A f \in Refreshers : Current(f)' <=> Current(f)
      BY <2>1, <2>4 DEF Current
    <3>2. conn.pair \in Nat
      BY <1>n, <1>t, Fields
    <3>3. Fenced'
      BY <1>i, <1>n, <2>1, <2>2, <2>4, <3>1 DEF Fenced
    <3>4. NewPairsApart'
      BY <1>i, <1>n, <2>1, <2>2, <2>4 DEF NewPairsApart, On
    <3>5. RefusalsCounted' /\ OneExchange' /\ AskedForLoginWithCause'
      BY <1>i, <2>1, <2>4, <3>1 DEF RefusalsCounted, OneExchange, AskedForLoginWithCause, On
    <3>6. TokenKept'
      BY <1>i, <2>1, <2>4, <3>1 DEF TokenKept, On
    <3> QED BY <1>i, <1>n, <1>t, <2>1, <2>4, <3>2, <3>3, <3>4, <3>5, <3>6 DEF IndInv
  <2> QED BY <2>1, <2>3, <2>4
<1>12. ASSUME Ageing PROVE IndInv'
  <2>1. /\ UNCHANGED <<at, good, issued, refused, mishaps>>
        /\ \/ conn.age = "fresh" /\ conn' = [conn EXCEPT !.age = "due"]
           \/ conn.age = "due" /\ conn' = [conn EXCEPT !.age = "expired"]
    BY <1>12 DEF Ageing
  <2>2. /\ conn'.pair = conn.pair /\ conn'.gen = conn.gen /\ conn'.lease = conn.lease
        /\ conn'.over = conn.over /\ conn'.rejections = conn.rejections
        /\ conn'.kind = conn.kind /\ conn.age # "expired"
    BY <1>t, <2>1 DEF TypeOK, Rows
  <2> QED BY <1>t, <2>1, <2>2, Harmless
<1>13. ASSUME LeaseRunsOut PROVE IndInv'
  <2>1. /\ UNCHANGED <<at, good, issued, refused>>
        /\ conn' = [conn EXCEPT !.over = TRUE]
        /\ conn.lease # NoLease
    BY <1>13 DEF LeaseRunsOut
  <2>2. mishaps' = 0 => mishaps = 0 /\ ~Current(conn.lease)
    BY <1>13, <1>t DEF LeaseRunsOut, Mishap, TypeOK
  <2>3. /\ conn'.pair = conn.pair /\ conn'.gen = conn.gen /\ conn'.lease = conn.lease
        /\ conn'.rejections = conn.rejections
        /\ conn'.kind = conn.kind /\ conn'.age = conn.age
    BY <1>t, <2>1 DEF TypeOK, Rows
  <2>4. \A f \in Refreshers : Current(f)' <=> Current(f)
    BY <2>1, <2>3 DEF Current
  <2>5. Fenced' /\ NewPairsApart'
    BY <1>i, <2>1, <2>3, <2>4 DEF Fenced, NewPairsApart, On
  <2>6. RefusalsCounted' /\ AskedForLoginWithCause'
    BY <1>i, <2>1, <2>3, <2>4 DEF RefusalsCounted, AskedForLoginWithCause, On
  <2>7. OneExchange'
    <3>1. mishaps' = 0 => \A f \in Refreshers : ~Current(f)
      BY <2>2 DEF Current
    <3> QED BY <1>i, <2>1, <2>2, <2>3, <3>1 DEF OneExchange
  <2>8. TokenKept'
    BY <1>i, <2>1, <2>2, <2>3, <2>4 DEF TokenKept, On
  <2> QED BY <1>i, <1>t, <2>1, <2>3, <2>5, <2>6, <2>7, <2>8 DEF IndInv
<1>14. ASSUME RetryDue PROVE IndInv'
  <2>1. /\ UNCHANGED <<at, good, issued, refused, mishaps>>
        /\ conn' = [conn EXCEPT !.held = FALSE]
    BY <1>14 DEF RetryDue
  <2>2. /\ conn'.pair = conn.pair /\ conn'.gen = conn.gen /\ conn'.lease = conn.lease
        /\ conn'.over = conn.over /\ conn'.rejections = conn.rejections
        /\ conn'.kind = conn.kind /\ conn'.age = conn.age
    BY <1>t, <2>1 DEF TypeOK, Rows
  <2> QED BY <1>t, <2>1, <2>2, Harmless
<1>15. ASSUME EvidenceAges PROVE IndInv'
  <2>1. /\ UNCHANGED <<at, good, issued, refused, mishaps>>
        /\ conn' = [conn EXCEPT !.proven = TRUE]
    BY <1>15 DEF EvidenceAges
  <2>2. /\ conn'.pair = conn.pair /\ conn'.gen = conn.gen /\ conn'.lease = conn.lease
        /\ conn'.over = conn.over /\ conn'.rejections = conn.rejections
        /\ conn'.kind = conn.kind /\ conn'.age = conn.age
    BY <1>t, <2>1 DEF TypeOK, Rows
  <2> QED BY <1>t, <2>1, <2>2, Harmless
<1>16. ASSUME UNCHANGED vars PROVE IndInv'
  <2>1. UNCHANGED <<conn, at, good, issued, refused, mishaps>>
    BY <1>16 DEF vars
  <2> QED BY <1>t, <2>1, Harmless
<1> QED BY <1>1, <1>2, <1>3, <1>4, <1>5, <1>6, <1>7, <1>8, <1>9, <1>10, <1>11, <1>12, <1>13,
           <1>14, <1>15, <1>16 DEF Next, Refresh, Answer, Record, Time

(* IndInv is an invariant: what complete_refresh.sql and its siblings      *)
(* compare (lease and generation) is enough to know which pair of tokens a *)
(* refresher is exchanging.                                                *)
THEOREM RefreshInvariant == Spec => []IndInv
BY RefreshInit, RefreshStep, PTL DEF Spec

(* fail_reauthorization.sql asks a user to log in again only after three   *)
(* refusals of the stored refresh token, and with an expired access token. *)
THEOREM RefreshCause == Spec => []AskedForLoginWithCause
<1>1. IndInv => AskedForLoginWithCause
  BY DEF IndInv
<1> QED BY <1>1, RefreshInvariant, PTL

(* The row's refresh token is unspent or its successor is in the hands of  *)
(* the refresher that can store it, as long as leases outlive requests.    *)
THEOREM RefreshKeepsToken == Spec => []TokenKept
<1>1. IndInv => TokenKept
  BY DEF IndInv
<1> QED BY <1>1, RefreshInvariant, PTL

(* complete_refresh.sql replaces a pair only by the one it was exchanged   *)
(* for; only a newer login may replace it by another.                      *)
THEOREM RefreshReplaces == Spec => ReplacedByItsOwn
<1>1. IndInv /\ [Next]_vars => [ReplaceStep]_vars
  <2> SUFFICES ASSUME IndInv, [Next]_vars, conn'.pair # conn.pair
               PROVE  ReplaceStep
    BY DEF ReplaceStep
  <2>t. conn \in Rows /\ TypeOK /\ conn.login \in Nat
    BY DEF IndInv, TypeOK, Rows
  <2>1. ASSUME NEW e \in Refreshers, Complete(e) PROVE ReplaceStep
    <3>1. Current(e) /\ conn' = Installed(at[e].new, conn.login) /\ On(e, "complete")
      BY <2>1 DEF Complete
    <3>2. at[e].pair = conn.pair
      BY <3>1 DEF IndInv, Fenced, On
    <3> QED BY <3>1, <3>2 DEF Installed, ReplaceStep
  <2>2. ASSUME NEW v \in Logins, Login(v) PROVE ReplaceStep
    <3>1. conn' = Installed(issued + 1, v) /\ conn.login < v
      BY <2>2 DEF Login
    <3> QED BY <3>1 DEF Installed, ReplaceStep
  <2>3. ASSUME NEW e \in Refreshers, ClaimRefresh(e) \/ FailRetryable(e) PROVE FALSE
    BY <2>t, <2>3 DEF ClaimRefresh, FailRetryable, Rows
  <2>4. ASSUME NEW e \in Refreshers, FailReauthorization(e) PROVE FALSE
    BY <2>t, <2>4 DEF FailReauthorization, Rows
  <2>5. ASSUME Ageing \/ LeaseRunsOut \/ RetryDue \/ EvidenceAges
               \/ \E later \in BOOLEAN : MarkRejected(later)
        PROVE FALSE
    BY <2>t, <2>5 DEF Ageing, LeaseRunsOut, RetryDue, EvidenceAges, MarkRejected, Rows
  <2>6. ASSUME NEW e \in Refreshers,
               Start(e) \/ Rotated(e) \/ Refused(e) \/ Unavailable(e) \/ Crash(e)
        PROVE FALSE
    BY <2>6 DEF Start, Rotated, Refused, Unavailable, Crash
  <2>7. ~UNCHANGED vars
    BY DEF vars
  <2> QED BY <2>1, <2>2, <2>3, <2>4, <2>5, <2>6, <2>7
             DEF Next, Refresh, Answer, Record, Time
<1> QED BY <1>1, RefreshInvariant, PTL DEF Spec, ReplacedByItsOwn

(***************************************************************************)
(* The grant of a voice assistant (GrantTokens).  Tokens are drawn in       *)
(* order and a call draws its own when it is sent, so the row's tokens     *)
(* only grow: the current one was never answered for (Answered), no call   *)
(* presents more than its client holds (CallsOrdered), and while a client  *)
(* still holds the token before nobody can rotate past it.  The statements *)
(* that delete the grant are reached by a replay only (NoReplay).          *)
(***************************************************************************)

(* The states of a call, with the names of the tokens expanded.            *)
GrantCall ==
    [with : (1 .. MaxTokens) \cup {-1, 0}, next : 0 .. MaxTokens,
     pc : {"idle", "redeem", "again", "rotate", "repeat", "revoke", "answer"}]

(* The invariant's conjuncts and the types of what they speak about.       *)
LEMMA GrantFields ==
    ASSUME Grants!TypeOK
    PROVE  /\ row \in [redeemed : BOOLEAN, refresh : 0 .. MaxTokens, prev : 0 .. MaxTokens, seed : 0 .. MaxTokens]
           /\ row.refresh \in Int /\ row.prev \in Int /\ row.seed \in Int
           /\ row.refresh >= 0 /\ row.prev >= 0
           /\ drawn \in 0 .. MaxTokens /\ MaxTokens \in Nat
           /\ mine \in Int /\ mine # 0 /\ mine >= -1 /\ mine <= MaxTokens
           /\ call \in [Calls -> GrantCall]
           /\ \A d \in Calls : /\ call[d] \in GrantCall
                               /\ call[d].with \in Int /\ call[d].with >= -1 /\ call[d].with <= MaxTokens
                               /\ call[d].next \in 0 .. MaxTokens /\ call[d].next \in Int
BY GrantsOK DEF Grants!GrantTokensAssumption, Grants!TypeOK, Grants!Tokens, Grants!NoToken, Grants!AuthCode, GrantCall

(* The initial state of the grant.                                         *)
LEMMA GrantInit == Grants!Init => Grants!IndInv
<1> SUFFICES ASSUME Grants!Init PROVE Grants!IndInv
  OBVIOUS
<1> USE GrantsOK DEF Grants!Init, Grants!GrantTokensAssumption, Grants!NoToken, Grants!AuthCode
<1>1. Grants!TypeOK
  <2>1. call \in [Calls -> GrantCall]
    BY DEF Grants!NoCall, GrantCall
  <2>2. row \in [redeemed : BOOLEAN, refresh : 0 .. MaxTokens, prev : 0 .. MaxTokens, seed : 0 .. MaxTokens]
    OBVIOUS
  <2>3. live \in BOOLEAN /\ fresh \in BOOLEAN /\ wants \in BOOLEAN /\ replayed \in BOOLEAN
    OBVIOUS
  <2>4. drawn \in 0 .. MaxTokens /\ faults \in 0 .. GrantFaults
    OBVIOUS
  <2> QED BY <2>1, <2>2, <2>3, <2>4 DEF Grants!TypeOK, Grants!Tokens, GrantCall
<1>2. \A c \in Calls : call[c].pc = "idle" /\ call[c].next = 0
  BY DEF Grants!NoCall
<1>3. Grants!SameAnswer /\ Grants!KeepsUp /\ Grants!Ordered /\ Grants!Answered
  BY <1>2 DEF Grants!SameAnswer, Grants!KeepsUp, Grants!Ordered, Grants!Answered
<1>4. Grants!CallsOrdered /\ Grants!CodeFirst /\ Grants!Overtaken /\ Grants!NoReplay
  BY <1>2 DEF Grants!CallsOrdered, Grants!CodeFirst, Grants!Overtaken, Grants!NoReplay
<1> QED BY <1>1, <1>3, <1>4 DEF Grants!IndInv

(* What a call becomes when it moves on, is refused or ends.               *)
GrantCallMoves(c) ==
    /\ \A d \in Calls : d # c => call'[d] = call[d]
    /\ \/ call'[c] = Grants!NoCall
       \/ /\ call'[c].with = call[c].with
          /\ \/ call'[c].pc = "again" /\ call[c].pc = "redeem" /\ row.redeemed
             \/ call'[c].pc = "repeat" /\ call[c].pc = "rotate" /\ (live => call[c].with # row.refresh)
             \/ call'[c].pc = "revoke" /\ call[c].pc = "repeat" /\ ~fresh /\ call[c].with = row.prev
             \/ /\ call'[c].pc = "answer" /\ call[c].pc # "idle" /\ call'[c].next = 0
                /\ ~live' \/ (call[c].pc = "repeat" /\ call[c].with # row.prev)
          /\ call'[c].next \in {call[c].next, 0}

(* The grant stays as it is, or one whose code was redeemed ends.          *)
GrantMayEnd == live' = live \/ (row.redeemed /\ ~live')

(* A step of a call that leaves the row, the client and the answers alone. *)
LEMMA GrantMoves ==
    ASSUME Grants!IndInv, Grants!TypeOK', NEW c \in Calls, GrantCallMoves(c),
           GrantMayEnd, UNCHANGED <<row, fresh, drawn, mine, answers, replayed>>
    PROVE  Grants!IndInv'
<1> USE DEF Grants!IndInv, Grants!NoToken, Grants!AuthCode, Grants!NoCall, GrantCallMoves
<1>1. Grants!SameAnswer' /\ Grants!KeepsUp' /\ Grants!Answered'
  BY DEF Grants!SameAnswer, Grants!KeepsUp, Grants!Answered, Grants!Tokens
<1>2. Grants!Ordered'
  BY GrantFields DEF Grants!Ordered
<1>3. Grants!CallsOrdered'
  <2> SUFFICES ASSUME NEW d \in Calls, call'[d].pc # "idle"
               PROVE  /\ call'[d].with # 0 /\ call'[d].with <= mine
                      /\ call'[d].with <= row.prev \/ call'[d].with = row.refresh
                      /\ call'[d].pc \in {"redeem", "again"} => call'[d].with = -1
                      /\ call'[d].pc \in {"rotate", "repeat", "revoke"} => call'[d].with # -1
                      /\ call'[d].pc \in {"redeem", "rotate"} => call'[d].next > call'[d].with /\ call'[d].next # 0
                      /\ call'[d].pc = "answer" /\ call'[d].next # 0
                           => <<call'[d].with, call'[d].next>> \in answers
    BY DEF Grants!CallsOrdered
  <2>1. CASE d # c
    BY <2>1 DEF Grants!CallsOrdered
  <2>2. CASE d = c
    <3>1. call[c].pc # "idle" /\ call'[c].with = call[c].with
      BY <2>2
    <3>2. call[c].with # 0 /\ call[c].with <= mine /\ (call[c].with <= row.prev \/ call[c].with = row.refresh)
      BY <3>1 DEF Grants!CallsOrdered
    <3>a. /\ call'[c].pc = "again" => call[c].pc = "redeem"
          /\ call'[c].pc \in {"repeat", "revoke"} => call[c].pc \in {"rotate", "repeat"}
      BY <2>2
    <3>b. /\ call[c].pc = "redeem" => call[c].with = -1
          /\ call[c].pc \in {"rotate", "repeat"} => call[c].with # -1
      BY DEF Grants!CallsOrdered
    <3>3. call'[c].pc = "again" => call[c].with = -1
      BY <3>a, <3>b
    <3>4. call'[c].pc \in {"repeat", "revoke"} => call[c].with # -1
      BY <3>a, <3>b
    <3> QED BY <2>2, <3>1, <3>2, <3>3, <3>4
  <2> QED BY <2>1, <2>2
<1>l. live' => live
  BY Zenon DEF GrantMayEnd
<1>4. Grants!CodeFirst'
  BY DEF Grants!CodeFirst, GrantMayEnd
<1>5. Grants!Overtaken'
  <2> SUFFICES ASSUME NEW d \in Calls
               PROVE  /\ call'[d].pc \in {"again", "revoke"} => row.redeemed
                      /\ call'[d].pc = "repeat" /\ live' => call'[d].with < row.refresh
                      /\ call'[d].pc = "answer" /\ call'[d].next = 0 /\ live' =>
                            call'[d].with # -1 /\ call'[d].with < row.prev
    BY DEF Grants!Overtaken
  <2>1. CASE d # c
    BY <1>l, <2>1 DEF Grants!Overtaken
  <2>2. CASE d = c
    <3>1. call'[c].pc # "idle" => call[c].pc # "idle" /\ call'[c].with = call[c].with
      BY DEF Grants!NoCall
    <3>2. call[c].pc # "idle" => call[c].with # 0 /\ call[c].with <= row.refresh
      <4>1. row.prev <= row.refresh
        BY DEF Grants!Ordered
      <4>2. call[c].pc # "idle" => call[c].with # 0 /\ (call[c].with <= row.prev \/ call[c].with = row.refresh)
        BY DEF Grants!CallsOrdered
      <4> QED BY <4>1, <4>2, GrantFields
    <3>3. call'[c].pc = "again" => row.redeemed
      OBVIOUS
    <3>4. call'[c].pc = "revoke" => row.redeemed
      <4> SUFFICES ASSUME call'[c].pc = "revoke" PROVE row.redeemed
        OBVIOUS
      <4>1. call[c].pc = "repeat" /\ call[c].with = row.prev
        OBVIOUS
      <4>2. row.prev # 0
        BY <4>1 DEF Grants!CallsOrdered
      <4> QED BY <4>2, GrantFields DEF Grants!Ordered
    <3>5. call'[c].pc = "repeat" /\ live' => call[c].with < row.refresh
      BY <1>l, <3>1, <3>2, GrantFields
    <3>6. ASSUME call'[c].pc = "answer", call'[c].next = 0, live' PROVE call[c].with # -1 /\ call[c].with < row.prev
      <4>1. call[c].pc = "repeat" /\ call[c].with # row.prev /\ live
        BY <1>l, <3>6
      <4>2. call[c].with < row.refresh /\ call[c].with # -1
        BY <4>1 DEF Grants!Overtaken, Grants!CallsOrdered
      <4>3. call[c].with <= row.prev \/ call[c].with = row.refresh
        BY <4>1 DEF Grants!CallsOrdered
      <4> QED BY <4>1, <4>2, <4>3, GrantFields
    <3> QED BY <2>2, <3>1, <3>3, <3>4, <3>5, <3>6
  <2> QED BY <2>1, <2>2
<1>6. Grants!NoReplay'
  BY DEF Grants!NoReplay
<1> QED BY <1>1, <1>2, <1>3, <1>4, <1>5, <1>6

(* A call is over or answered with the token the row now holds.            *)
GrantCallAnswers(c) ==
    /\ \A d \in Calls : d # c => call'[d] = call[d]
    /\ \/ call'[c] = Grants!NoCall /\ answers' = answers
       \/ /\ call'[c].with = call[c].with /\ call'[c].pc = "answer" /\ call'[c].next = row'.refresh
          /\ answers' = answers \cup {<<call[c].with, row'.refresh>>}

(* The code is redeemed: all its client has is the code.                   *)
LEMMA GrantRedeems ==
    ASSUME Grants!IndInv, Grants!TypeOK', NEW c \in Calls, call[c].pc = "redeem", ~row.redeemed,
           row' = Grants!Redeemed(c), GrantCallAnswers(c), UNCHANGED <<live, fresh, drawn, mine, replayed>>
    PROVE  Grants!IndInv'
<1> USE DEF Grants!IndInv, Grants!NoToken, Grants!AuthCode, Grants!NoCall, GrantCallAnswers
<1>1. /\ call[c].with = -1 /\ mine = -1 /\ answers = {} /\ row.prev = 0 /\ live
      /\ call[c].next > 0 /\ call[c].next <= drawn /\ call[c].next \in 1 .. MaxTokens
      /\ \A d \in Calls : call[d].pc # "idle" => call[d].with = -1
  <2>1. call[c].with = -1 /\ call[c].next > -1 /\ call[c].next # 0
    BY DEF Grants!CallsOrdered
  <2>2. row.refresh = 0 /\ answers = {} /\ call[c].next <= drawn
    BY DEF Grants!Ordered
  <2>3. row.prev = 0
    BY <2>2, GrantFields DEF Grants!Ordered
  <2>4. mine = -1
    BY <2>2, <2>3, GrantFields DEF Grants!KeepsUp
  <2>5. \A d \in Calls : call[d].pc # "idle" => call[d].with = -1
    <3>1. \A d \in Calls : call[d].pc # "idle" => call[d].with # 0 /\ call[d].with <= -1
      BY <2>4 DEF Grants!CallsOrdered
    <3> QED BY <3>1, GrantFields
  <2>6. live
    BY DEF Grants!CodeFirst
  <2> QED BY <2>1, <2>2, <2>3, <2>4, <2>5, <2>6, GrantFields
<1>2. row'.redeemed /\ row'.refresh = call[c].next /\ row'.prev = row.prev
  BY GrantFields DEF Grants!Redeemed
<1>3. answers' \subseteq {<<-1, row'.refresh>>}
  BY <1>1
<1>4. Grants!SameAnswer' /\ Grants!KeepsUp' /\ Grants!Answered'
  BY <1>1, <1>2, <1>3, GrantFields DEF Grants!SameAnswer, Grants!KeepsUp, Grants!Answered, Grants!Tokens
<1>5. Grants!Ordered'
  BY <1>1, <1>2, GrantFields DEF Grants!Ordered
<1>6. Grants!CallsOrdered'
  BY <1>1, <1>2, GrantFields DEF Grants!CallsOrdered
<1>7. Grants!CodeFirst'
  BY <1>1, <1>2, <1>3 DEF Grants!CodeFirst
<1>8. Grants!Overtaken'
  <2>1. \A d \in Calls : call[d].pc # "repeat" /\ (call[d].pc = "answer" => call[d].next # 0)
    BY <1>1 DEF Grants!CallsOrdered, Grants!Overtaken
  <2> QED BY <1>1, <1>2, <2>1 DEF Grants!Overtaken
<1>9. Grants!NoReplay'
  BY <1>1, <1>2 DEF Grants!NoReplay, Grants!CallsOrdered
<1> QED BY <1>4, <1>5, <1>6, <1>7, <1>8, <1>9

(* A token is rotated: its client holds it, and nobody was answered for it. *)
LEMMA GrantRotates ==
    ASSUME Grants!IndInv, Grants!TypeOK', NEW c \in Calls, call[c].pc = "rotate", Grants!IsCurrent(c),
           row' = Grants!Rotated(c), fresh', GrantCallAnswers(c), UNCHANGED <<live, drawn, mine, replayed>>
    PROVE  Grants!IndInv'
<1> USE DEF Grants!IndInv, Grants!NoToken, Grants!AuthCode, Grants!NoCall, GrantCallAnswers
<1>1. call[c].with = row.refresh /\ call[c].with <= mine /\ row.refresh # 0 /\ row.refresh > 0
      /\ call[c].next > row.refresh /\ call[c].next <= drawn /\ call[c].next \in 1 .. MaxTokens
  <2>1. /\ call[c].with = row.refresh /\ call[c].with <= mine /\ row.refresh # 0
        /\ call[c].next > row.refresh
    BY DEF Grants!CallsOrdered, Grants!IsCurrent
  <2>2. call[c].next <= drawn
    BY DEF Grants!Ordered
  <2> QED BY <2>1, <2>2, GrantFields
<1>2. mine = row.refresh /\ row.redeemed
  BY <1>1, GrantFields DEF Grants!KeepsUp, Grants!Ordered
<1>3. row'.redeemed /\ row'.refresh = call[c].next /\ row'.prev = row.refresh /\ row'.seed = call[c].next
  BY <1>2, GrantFields DEF Grants!Rotated
<1>4. \A x \in answers : x[1] \in Int /\ x[2] \in Int /\ x[1] < row.refresh /\ x[1] # row.refresh
  BY GrantFields DEF Grants!Answered, Grants!Tokens
<1>5. /\ \A d \in Calls : call[d].pc # "idle" => call[d].with <= row.refresh
      /\ row.prev <= row.refresh /\ call[c].next > 0
  <2>1. row.prev <= row.refresh
    BY DEF Grants!Ordered
  <2>2. \A d \in Calls : call[d].pc # "idle" => call[d].with <= row.prev \/ call[d].with = row.refresh
    BY DEF Grants!CallsOrdered
  <2> QED BY <1>1, <2>1, <2>2, GrantFields
<1>6. Grants!KeepsUp' /\ Grants!Ordered'
  BY <1>1, <1>2, <1>3, GrantFields DEF Grants!KeepsUp, Grants!Ordered
<1>7. Grants!SameAnswer'
  BY <1>1, <1>3, <1>4 DEF Grants!SameAnswer
<1>8. Grants!Answered'
  BY <1>1, <1>3, <1>4, GrantFields DEF Grants!Answered, Grants!Tokens
<1>9. Grants!CallsOrdered'
  BY <1>1, <1>3, <1>5 DEF Grants!CallsOrdered
<1>10. Grants!CodeFirst'
  BY <1>1, <1>2, <1>3, GrantFields DEF Grants!CodeFirst
<1>11. Grants!Overtaken'
  BY <1>1, <1>3, <1>5, GrantFields DEF Grants!Overtaken
<1>12. Grants!NoReplay'
  BY <1>2, <1>3 DEF Grants!NoReplay
<1> QED BY <1>6, <1>7, <1>8, <1>9, <1>10, <1>11, <1>12

(* A rotation is repeated: the token before is answered with the current.  *)
LEMMA GrantRepeats ==
    ASSUME Grants!IndInv, Grants!TypeOK', NEW c \in Calls, call[c].pc = "repeat", call[c].with = row.prev, fresh,
           GrantCallAnswers(c), UNCHANGED <<row, live, fresh, drawn, mine, replayed>>
    PROVE  Grants!IndInv'
<1> USE DEF Grants!IndInv, Grants!NoToken, Grants!AuthCode, Grants!NoCall, GrantCallAnswers
<1>1. row.prev > 0 /\ row.prev < row.refresh /\ row.redeemed /\ row.refresh \in 1 .. MaxTokens
      /\ row.prev \in 1 .. MaxTokens /\ row.refresh <= drawn
  <2>1. row.prev # 0
    BY DEF Grants!CallsOrdered
  <2>2. /\ row.prev < row.refresh /\ row.refresh <= drawn
        /\ ~row.redeemed => row.refresh = 0
    BY <2>1 DEF Grants!Ordered
  <2> QED BY <2>1, <2>2, GrantFields
<1>2. mine # -1
  BY <1>1 DEF Grants!CodeFirst
<1>3. Grants!KeepsUp' /\ Grants!Ordered'
  BY <1>1, GrantFields DEF Grants!KeepsUp, Grants!Ordered
<1>4. Grants!SameAnswer'
  BY DEF Grants!SameAnswer, Grants!Answered
<1>5. Grants!Answered'
  <2>1. row.prev <= mine
    BY DEF Grants!CallsOrdered
  <2> QED BY <1>1, <2>1, GrantFields DEF Grants!Answered, Grants!Tokens
<1>6. Grants!CallsOrdered'
  <2>1. call[c].with # 0 /\ call[c].with <= mine
    BY DEF Grants!CallsOrdered
  <2>2. answers \subseteq answers'
    OBVIOUS
  <2>3. row.prev <= row.prev
    BY GrantFields
  <2> QED BY <2>1, <2>2, <2>3 DEF Grants!CallsOrdered
<1>7. Grants!CodeFirst'
  BY <1>2 DEF Grants!CodeFirst
<1>8. Grants!Overtaken'
  BY <1>1 DEF Grants!Overtaken
<1>9. Grants!NoReplay'
  BY DEF Grants!NoReplay
<1> QED BY <1>3, <1>4, <1>5, <1>6, <1>7, <1>8, <1>9

(* A call is sent with what the client holds or what was answered before.  *)
LEMMA GrantSends ==
    ASSUME Grants!IndInv, Grants!TypeOK', NEW c \in Calls, Grants!Send(c)
    PROVE  Grants!IndInv'
<1> USE DEF Grants!IndInv, Grants!NoToken, Grants!AuthCode
<1>0. PICK t \in Grants!Presentable :
         /\ drawn' = drawn + 1
         /\ call' = [call EXCEPT ![c] = [with |-> t, next |-> drawn + 1,
                                         pc |-> IF t = -1 THEN "redeem" ELSE "rotate"]]
         /\ replayed' = (replayed \/ Grants!Replay(t))
         /\ UNCHANGED <<row, live, fresh, mine, wants, answers, faults>>
  BY DEF Grants!Send
<1>1. /\ \A d \in Calls : d # c => call'[d] = call[d]
      /\ call'[c].with = t /\ call'[c].next = drawn + 1
      /\ call'[c].pc = IF t = -1 THEN "redeem" ELSE "rotate"
      /\ drawn' = drawn + 1 /\ UNCHANGED <<row, live, fresh, mine, answers>>
  BY <1>0, GrantFields
<1>p. t \in Int /\ t # 0 /\ t <= mine /\ t <= drawn /\ (t <= row.prev \/ t = row.refresh)
  <2>1. CASE t = mine
    <3>1. mine <= drawn /\ row.prev >= 0
      BY GrantFields DEF Grants!Ordered
    <3> QED BY <2>1, <3>1, GrantFields DEF Grants!KeepsUp
  <2>2. CASE t # mine
    <3>1. PICK x \in answers : t = x[1]
      BY <2>2 DEF Grants!Presentable
    <3>2. t \in (1 .. MaxTokens) \cup {-1} /\ t <= row.prev /\ t <= mine
      BY <3>1 DEF Grants!Answered, Grants!Tokens
    <3> QED BY <3>2, GrantFields DEF Grants!Ordered
  <2> QED BY <2>1, <2>2
<1>2. Grants!SameAnswer' /\ Grants!KeepsUp' /\ Grants!Answered'
  BY <1>1 DEF Grants!SameAnswer, Grants!KeepsUp, Grants!Answered, Grants!Tokens
<1>3. Grants!Ordered'
  BY <1>1, GrantFields DEF Grants!Ordered
<1>4. Grants!CallsOrdered'
  BY <1>1, <1>p, GrantFields DEF Grants!CallsOrdered
<1>5. Grants!CodeFirst'
  BY <1>1 DEF Grants!CodeFirst
<1>6. Grants!Overtaken'
  BY <1>1 DEF Grants!Overtaken
<1>7. Grants!NoReplay'
  <2> SUFFICES ASSUME ~replayed', NEW d \in Calls
               PROVE  /\ call'[d].pc \notin {"again", "revoke"}
                      /\ call'[d].pc = "redeem" =>
                            ~row'.redeemed /\ \A e \in Calls : call'[e].pc = "redeem" => e = d
                      /\ call'[d].pc \in {"rotate", "repeat"} /\ call'[d].with = row'.prev => fresh'
    BY DEF Grants!NoReplay
  <2>1. ~replayed /\ ~Grants!Replay(t)
    BY <1>0
  <2>2. t = -1 => ~row.redeemed /\ \A e \in Calls : call[e].pc # "redeem"
    BY <2>1 DEF Grants!Replay
  <2>3. t = row.prev => fresh
    BY <2>1 DEF Grants!Replay
  <2> QED BY <1>1, <2>1, <2>2, <2>3 DEF Grants!NoReplay
<1> QED BY <1>2, <1>3, <1>4, <1>5, <1>6, <1>7

(* The client takes the token it was answered with: the current one.       *)
LEMMA GrantTakes ==
    ASSUME Grants!IndInv, Grants!TypeOK', NEW c \in Calls, call[c].pc = "answer", call[c].with = mine,
           call[c].next # 0, mine' = call[c].next, call' = [call EXCEPT ![c] = Grants!NoCall],
           UNCHANGED <<row, live, fresh, drawn, answers, replayed>>
    PROVE  Grants!IndInv'
<1> USE DEF Grants!IndInv, Grants!NoToken, Grants!AuthCode, Grants!NoCall
<1>1. \A d \in Calls : d # c => call'[d] = call[d]
  BY GrantFields
<1>2. call'[c].pc = "idle" /\ call'[c].next = 0
  BY GrantFields
<1>3. <<mine, call[c].next>> \in answers
  BY DEF Grants!CallsOrdered
<1>4. mine < call[c].next /\ mine < row.refresh /\ (mine = row.prev => call[c].next = row.refresh)
  BY <1>3 DEF Grants!Answered
<1>5. call[c].next = row.refresh
  BY <1>3, <1>4, GrantFields DEF Grants!KeepsUp, Grants!CodeFirst
<1>6. Grants!SameAnswer' /\ Grants!KeepsUp' /\ Grants!Answered'
  BY <1>4, <1>5, GrantFields DEF Grants!SameAnswer, Grants!KeepsUp, Grants!Answered, Grants!Tokens
<1>7. Grants!Ordered'
  BY <1>1, <1>2, <1>5, GrantFields DEF Grants!Ordered
<1>8. Grants!CallsOrdered'
  BY <1>1, <1>2, <1>4, GrantFields DEF Grants!CallsOrdered
<1>9. Grants!CodeFirst'
  BY <1>5, GrantFields DEF Grants!CodeFirst
<1>10. Grants!Overtaken'
  BY <1>1, <1>2 DEF Grants!Overtaken
<1>11. Grants!NoReplay'
  BY <1>1, <1>2 DEF Grants!NoReplay
<1> QED BY <1>6, <1>7, <1>8, <1>9, <1>10, <1>11

(* The grace ends for no call that needs it, or that counts as a replay.   *)
GrantGrace ==
    \/ replayed'
    \/ fresh' = fresh /\ replayed' = replayed
    \/ /\ replayed' = replayed
       /\ \A d \in Calls : call[d].pc \in {"rotate", "repeat"} => call[d].with # row.prev

(* Steps that leave the calls alone: the user's, and the grace's end.      *)
LEMMA GrantQuiet ==
    ASSUME Grants!IndInv, Grants!TypeOK', UNCHANGED <<row, drawn, call, mine, answers>>,
           GrantMayEnd, GrantGrace
    PROVE  Grants!IndInv'
<1> USE DEF Grants!IndInv
<1>1. Grants!SameAnswer' /\ Grants!KeepsUp' /\ Grants!Ordered' /\ Grants!Answered'
  BY DEF Grants!SameAnswer, Grants!KeepsUp, Grants!Ordered, Grants!Answered
<1>2. Grants!CallsOrdered' /\ Grants!CodeFirst'
  BY DEF Grants!CallsOrdered, Grants!CodeFirst, GrantMayEnd
<1>l. live' => live
  BY Zenon DEF GrantMayEnd
<1>3. Grants!Overtaken'
  BY <1>l DEF Grants!Overtaken
<1>4. Grants!NoReplay'
  <2>1. ~replayed' => ~replayed
    BY Zenon DEF GrantGrace
  <2>2. ASSUME ~replayed', NEW d \in Calls, call[d].pc \in {"rotate", "repeat"}, call[d].with = row.prev
        PROVE  fresh'
    <3>1. fresh
      BY <2>1, <2>2 DEF Grants!NoReplay
    <3> QED BY <2>2, <3>1, Zenon DEF GrantGrace
  <2> QED BY <2>1, <2>2 DEF Grants!NoReplay
<1> QED BY <1>1, <1>2, <1>3, <1>4

(* Every step of the grant keeps the types.                                *)
LEMMA GrantTypes ==
    ASSUME Grants!IndInv, Grants!Next
    PROVE  Grants!TypeOK'
<1> USE GrantsOK, GrantFields DEF Grants!GrantTokensAssumption, Grants!IndInv
<1>1. /\ faults' \in 0 .. GrantFaults /\ drawn' \in 0 .. MaxTokens
  BY DEF Grants!TypeOK, Grants!Next, Grants!Refresh, Grants!GraceEnds, Grants!RevokeByUser, Grants!Send,
         Grants!Receive, Grants!Lose, Grants!Fault, Grants!Endpoint, Grants!Redeem, Grants!RedeemAgain,
         Grants!Rotate, Grants!Repeat, Grants!Revoke, Grants!StatementFails
<1>2. live' \in BOOLEAN /\ fresh' \in BOOLEAN /\ wants' \in BOOLEAN /\ replayed' \in BOOLEAN
  BY Zenon DEF Grants!TypeOK, Grants!Next, Grants!Refresh, Grants!GraceEnds, Grants!RevokeByUser, Grants!Send,
         Grants!Receive, Grants!Lose, Grants!Endpoint, Grants!Redeem, Grants!RedeemAgain,
         Grants!Rotate, Grants!Repeat, Grants!Revoke, Grants!StatementFails
<1>3. row' \in [redeemed : BOOLEAN, refresh : 0 .. MaxTokens, prev : 0 .. MaxTokens, seed : 0 .. MaxTokens]
  BY DEF Grants!Redeemed, Grants!Rotated, Grants!Next, Grants!Refresh, Grants!GraceEnds, Grants!RevokeByUser,
         Grants!Send, Grants!Receive, Grants!Lose, Grants!Endpoint, Grants!Redeem, Grants!RedeemAgain,
         Grants!Rotate, Grants!Repeat, Grants!Revoke, Grants!StatementFails
<1>4. mine' \in (1 .. MaxTokens) \cup {-1}
  BY DEF Grants!NoToken, Grants!Next, Grants!Refresh, Grants!GraceEnds, Grants!RevokeByUser,
         Grants!Send, Grants!Receive, Grants!Lose, Grants!Endpoint, Grants!Redeem, Grants!RedeemAgain,
         Grants!Rotate, Grants!Repeat, Grants!Revoke, Grants!StatementFails
<1>5. call' \in [Calls -> GrantCall]
  <2>1. Grants!NoCall \in GrantCall
    BY DEF Grants!NoCall, Grants!NoToken, GrantCall
  <2>2. CASE UNCHANGED call
    BY <2>2
  <2>3. ASSUME NEW c \in Calls, call' = [call EXCEPT ![c] = Grants!NoCall] PROVE call' \in [Calls -> GrantCall]
    BY <2>1, <2>3
  <2>4. ASSUME NEW c \in Calls, NEW t \in 0 .. MaxTokens, Grants!End(c, t) PROVE call' \in [Calls -> GrantCall]
    BY <2>4 DEF Grants!End, GrantCall
  <2>5. ASSUME NEW c \in Calls, Grants!Send(c) PROVE call' \in [Calls -> GrantCall]
    <3>1. PICK t \in Grants!Presentable :
             call' = [call EXCEPT ![c] = [with |-> t, next |-> drawn + 1,
                                          pc |-> IF t = -1 THEN "redeem" ELSE "rotate"]]
      BY <2>5 DEF Grants!Send, Grants!AuthCode
    <3>2. t \in (1 .. MaxTokens) \cup {-1, 0}
      BY DEF Grants!Presentable, Grants!Answered, Grants!Tokens, Grants!AuthCode, Grants!TypeOK
    <3>3. drawn + 1 \in 0 .. MaxTokens
      BY <2>5 DEF Grants!Send
    <3> QED BY <3>1, <3>2, <3>3 DEF GrantCall
  <2>6. ASSUME NEW c \in Calls, NEW s \in {"again", "repeat", "revoke"}, call' = [call EXCEPT ![c].pc = s]
        PROVE  call' \in [Calls -> GrantCall]
    BY <2>6 DEF GrantCall
  <2>7. CASE Grants!Refresh \/ Grants!GraceEnds \/ Grants!RevokeByUser
    BY <2>2, <2>7 DEF Grants!Refresh, Grants!GraceEnds, Grants!RevokeByUser
  <2>8. ASSUME NEW c \in Calls, Grants!Receive(c) \/ Grants!Lose(c) \/ Grants!StatementFails(c)
        PROVE  call' \in [Calls -> GrantCall]
    BY <2>3, <2>8 DEF Grants!Receive, Grants!Lose, Grants!StatementFails
  <2>9. ASSUME NEW c \in Calls, Grants!Endpoint(c) PROVE call' \in [Calls -> GrantCall]
    <3>1. call[c].next \in 0 .. MaxTokens /\ row.seed \in 0 .. MaxTokens /\ Grants!NoToken \in 0 .. MaxTokens
      BY DEF Grants!NoToken
    <3>2. CASE Grants!Redeem(c)
      BY <2>4, <2>6, <3>1, <3>2 DEF Grants!Redeem
    <3>3. CASE Grants!RedeemAgain(c)
      BY <2>4, <3>1, <3>3 DEF Grants!RedeemAgain
    <3>4. CASE Grants!Rotate(c)
      BY <2>4, <2>6, <3>1, <3>4 DEF Grants!Rotate
    <3>5. CASE Grants!Repeat(c)
      BY <2>4, <2>6, <3>1, <3>5 DEF Grants!Repeat
    <3>6. CASE Grants!Revoke(c)
      BY <2>4, <3>1, <3>6 DEF Grants!Revoke
    <3> QED BY <2>9, <3>2, <3>3, <3>4, <3>5, <3>6 DEF Grants!Endpoint
  <2> QED BY <2>5, <2>7, <2>8, <2>9 DEF Grants!Next
<1> QED BY <1>1, <1>2, <1>3, <1>4, <1>5 DEF Grants!TypeOK, Grants!Tokens, Grants!NoToken, Grants!AuthCode, GrantCall

(* What End makes of a call.                                               *)
LEMMA GrantEnds ==
    ASSUME Grants!TypeOK, NEW c \in Calls, NEW t, Grants!End(c, t)
    PROVE  /\ \A d \in Calls : d # c => call'[d] = call[d]
           /\ call'[c].pc = "answer" /\ call'[c].next = t /\ call'[c].with = call[c].with
BY GrantFields DEF Grants!End, GrantCall

(* What a call becomes when only its place changes.                        *)
LEMMA GrantMovesOn ==
    ASSUME Grants!TypeOK, NEW c \in Calls, NEW s, call' = [call EXCEPT ![c].pc = s]
    PROVE  /\ \A d \in Calls : d # c => call'[d] = call[d]
           /\ call'[c].pc = s /\ call'[c].next = call[c].next /\ call'[c].with = call[c].with
BY GrantFields DEF GrantCall

(* What is left of a call that is over.                                    *)
LEMMA GrantOver ==
    ASSUME Grants!TypeOK, NEW c \in Calls, call' = [call EXCEPT ![c] = Grants!NoCall]
    PROVE  (\A d \in Calls : d # c => call'[d] = call[d]) /\ call'[c] = Grants!NoCall
BY GrantFields

(* Every step of the grant keeps the invariant.                            *)
LEMMA GrantStep ==
    ASSUME Grants!IndInv, [Grants!Next]_grantVars
    PROVE  Grants!IndInv'
<1> USE DEF Grants!IndInv
<1>0. CASE UNCHANGED grantVars
  <2>1. UNCHANGED <<row, drawn, call, mine, answers>> /\ GrantMayEnd /\ GrantGrace
    BY <1>0, Zenon DEF grantVars, GrantMayEnd, GrantGrace
  <2>2. Grants!TypeOK'
    BY <1>0 DEF grantVars, Grants!TypeOK
  <2> QED BY <2>1, <2>2, GrantQuiet
<1> SUFFICES ASSUME Grants!Next PROVE Grants!IndInv'
  BY <1>0
<1>t. Grants!TypeOK'
  BY GrantTypes
<1>e. ASSUME UNCHANGED live PROVE GrantMayEnd
  BY <1>e DEF GrantMayEnd
<1>1. CASE Grants!Refresh \/ Grants!RevokeByUser
  <2>1. UNCHANGED <<row, drawn, call, mine, answers>> /\ GrantMayEnd /\ GrantGrace
    BY <1>1, Zenon DEF Grants!Refresh, Grants!RevokeByUser, GrantMayEnd, GrantGrace
  <2> QED BY <1>t, <2>1, GrantQuiet
<1>2. CASE Grants!GraceEnds
  <2>1. UNCHANGED <<row, drawn, call, mine, answers>> /\ GrantMayEnd
    BY <1>2, <1>e DEF Grants!GraceEnds
  <2>2. GrantGrace
    <3>1. CASE \A d \in Calls : call[d].pc \in {"rotate", "repeat"} => call[d].with # row.prev
      <4>1. ~\E d \in Calls : call[d].pc \in {"rotate", "repeat"} /\ call[d].with = row.prev
        BY <3>1
      <4>3. replayed' \in BOOLEAN /\ replayed \in BOOLEAN
        BY <1>t DEF Grants!TypeOK
      <4>4. replayed' = (replayed \/ FALSE)
        BY <1>2, <4>1, Zenon DEF Grants!GraceEnds
      <4> QED BY <3>1, <4>3, <4>4, Zenon DEF GrantGrace
    <3>2. CASE ~\A d \in Calls : call[d].pc \in {"rotate", "repeat"} => call[d].with # row.prev
      <4>1. \E d \in Calls : call[d].pc \in {"rotate", "repeat"} /\ call[d].with = row.prev
        BY <3>2
      <4>2. replayed'
        BY <1>2, <4>1, Zenon DEF Grants!GraceEnds
      <4> QED BY <4>2 DEF GrantGrace
    <3> QED BY <3>1, <3>2
  <2> QED BY <1>t, <2>1, <2>2, GrantQuiet
<1>3. ASSUME NEW c \in Calls, Grants!Send(c) PROVE Grants!IndInv'
  BY <1>3, <1>t, GrantSends
<1>4. ASSUME NEW c \in Calls, Grants!Receive(c) PROVE Grants!IndInv'
  <2>1. call' = [call EXCEPT ![c] = Grants!NoCall] /\ call[c].pc = "answer" /\ UNCHANGED <<row, live, fresh, drawn, answers, replayed>>
    BY <1>4 DEF Grants!Receive
  <2>2. CASE UNCHANGED mine
    <3>1. GrantCallMoves(c)
      BY <2>1, GrantOver DEF GrantCallMoves
    <3> QED BY <1>t, <1>e, <2>1, <2>2, <3>1, GrantMoves
  <2>3. CASE mine' # mine
    <3>1. call[c].with = mine /\ call[c].next # 0 /\ mine' = call[c].next
      BY <1>4, <2>3 DEF Grants!Receive, Grants!NoToken
    <3> QED BY <1>t, <2>1, <3>1, GrantTakes
  <2> QED BY <2>2, <2>3
<1>5. ASSUME NEW c \in Calls, Grants!Lose(c) PROVE Grants!IndInv'
  <2>1. call' = [call EXCEPT ![c] = Grants!NoCall] /\ UNCHANGED <<row, live, fresh, drawn, mine, answers, replayed>>
    BY <1>5 DEF Grants!Lose
  <2>2. GrantCallMoves(c)
    BY <2>1, GrantOver DEF GrantCallMoves
  <2> QED BY <1>t, <1>e, <2>1, <2>2, GrantMoves
<1>6. ASSUME NEW c \in Calls, Grants!Redeem(c) PROVE Grants!IndInv'
  <2>1. call[c].pc = "redeem" /\ UNCHANGED <<live, fresh, drawn, mine, replayed>>
    BY <1>6 DEF Grants!Redeem
  <2>2. CASE live /\ ~row.redeemed
    <3>1. row' = Grants!Redeemed(c) /\ Grants!End(c, call[c].next) /\ Grants!Answers(c, call[c].next)
      BY <1>6, <2>2 DEF Grants!Redeem
    <3>2. row'.refresh = call[c].next
      BY <3>1, GrantFields DEF Grants!Redeemed
    <3>3. GrantCallAnswers(c)
      BY <3>1, <3>2, GrantEnds DEF GrantCallAnswers, Grants!Answers
    <3> QED BY <1>t, <2>1, <2>2, <3>1, <3>3, GrantRedeems
  <2>3. CASE ~(live /\ ~row.redeemed)
    <3>1. call' = [call EXCEPT ![c].pc = "again"] /\ UNCHANGED <<row, answers>>
      BY <1>6, <2>3 DEF Grants!Redeem
    <3>2. GrantCallMoves(c)
      BY <2>1, <2>3, <3>1, GrantMovesOn DEF GrantCallMoves, Grants!CodeFirst
    <3> QED BY <1>t, <1>e, <2>1, <3>1, <3>2, GrantMoves
  <2> QED BY <2>2, <2>3
<1>7. ASSUME NEW c \in Calls, Grants!RedeemAgain(c) \/ Grants!Revoke(c) PROVE Grants!IndInv'
  <2>1. /\ Grants!End(c, 0) /\ call[c].pc \in {"again", "revoke"}
        /\ UNCHANGED <<row, fresh, drawn, mine, answers, replayed>>
    BY <1>7 DEF Grants!RedeemAgain, Grants!Revoke, Grants!NoToken
  <2>2. row.redeemed
    BY <2>1 DEF Grants!Overtaken
  <2>3. ~live'
    BY <1>7, <2>2 DEF Grants!RedeemAgain, Grants!Revoke
  <2>4. GrantCallMoves(c)
    <3>1. /\ \A d \in Calls : d # c => call'[d] = call[d]
          /\ call'[c].pc = "answer" /\ call'[c].next = 0 /\ call'[c].with = call[c].with
      BY <2>1, GrantEnds
    <3>2. call[c].pc # "idle" /\ call'[c].next \in {call[c].next, 0}
      BY <2>1, <3>1
    <3> QED BY <2>3, <3>1, <3>2, Zenon DEF GrantCallMoves
  <2>5. GrantMayEnd
    BY <2>2, <2>3 DEF GrantMayEnd
  <2> QED BY <1>t, <2>1, <2>4, <2>5, GrantMoves
<1>8. ASSUME NEW c \in Calls, Grants!Rotate(c) PROVE Grants!IndInv'
  <2>1. call[c].pc = "rotate" /\ UNCHANGED <<live, drawn, mine, replayed>>
    BY <1>8 DEF Grants!Rotate
  <2>2. CASE Grants!IsCurrent(c)
    <3>1. row' = Grants!Rotated(c) /\ fresh' /\ Grants!End(c, call[c].next) /\ Grants!Answers(c, call[c].next)
      BY <1>8, <2>2 DEF Grants!Rotate
    <3>2. row'.refresh = call[c].next
      BY <3>1, GrantFields DEF Grants!Rotated
    <3>3. GrantCallAnswers(c)
      BY <3>1, <3>2, GrantEnds DEF GrantCallAnswers, Grants!Answers
    <3> QED BY <1>t, <2>1, <2>2, <3>1, <3>3, GrantRotates
  <2>3. CASE ~Grants!IsCurrent(c)
    <3>1. call' = [call EXCEPT ![c].pc = "repeat"] /\ UNCHANGED <<row, fresh, answers>>
      BY <1>8, <2>3 DEF Grants!Rotate
    <3>2. GrantCallMoves(c)
      BY <2>1, <2>3, <3>1, GrantMovesOn DEF GrantCallMoves, Grants!IsCurrent
    <3> QED BY <1>t, <1>e, <2>1, <3>1, <3>2, GrantMoves
  <2> QED BY <2>2, <2>3
<1>9. ASSUME NEW c \in Calls, Grants!Repeat(c) PROVE Grants!IndInv'
  <2>1. call[c].pc = "repeat" /\ UNCHANGED <<row, live, fresh, drawn, mine, replayed>>
    BY <1>9 DEF Grants!Repeat
  <2>s. row.prev = call[c].with => row.seed = row.refresh
    BY <2>1 DEF Grants!Ordered, Grants!CallsOrdered, Grants!NoToken
  <2>2. CASE (~live \/ row.prev # call[c].with) /\ Grants!End(c, 0) /\ UNCHANGED answers
    <3>1. GrantCallMoves(c)
      <4>1. /\ \A d \in Calls : d # c => call'[d] = call[d]
            /\ call'[c].pc = "answer" /\ call'[c].next = 0 /\ call'[c].with = call[c].with
        BY <2>2, GrantEnds
      <4>2. ~live' \/ call[c].with # row.prev
        BY <2>1, <2>2, Zenon
      <4>3. call[c].pc # "idle" /\ call'[c].next \in {call[c].next, 0}
        BY <2>1, <4>1
      <4> QED BY <2>1, <4>1, <4>2, <4>3, Zenon DEF GrantCallMoves
    <3> QED BY <1>t, <1>e, <2>1, <2>2, <3>1, GrantMoves
  <2>3. CASE row.prev = call[c].with /\ ~fresh /\ call' = [call EXCEPT ![c].pc = "revoke"] /\ UNCHANGED answers
    <3>1. GrantCallMoves(c)
      BY <2>1, <2>3, GrantMovesOn DEF GrantCallMoves
    <3> QED BY <1>t, <1>e, <2>1, <2>3, <3>1, GrantMoves
  <2>4. CASE row.prev = call[c].with /\ fresh /\ Grants!End(c, row.refresh) /\ Grants!Answers(c, row.refresh)
    <3>1. GrantCallAnswers(c)
      BY <2>1, <2>4, GrantEnds DEF GrantCallAnswers, Grants!Answers
    <3> QED BY <1>t, <2>1, <2>4, <3>1, GrantRepeats
  <2> QED BY <1>9, <2>s, <2>2, <2>3, <2>4 DEF Grants!Repeat, Grants!NoToken
<1>10. ASSUME NEW c \in Calls, Grants!StatementFails(c) PROVE Grants!IndInv'
  <2>1. call' = [call EXCEPT ![c] = Grants!NoCall] /\ UNCHANGED <<drawn, mine, answers, replayed>>
    BY <1>10 DEF Grants!StatementFails
  <2>2. GrantCallMoves(c) /\ GrantCallAnswers(c)
    BY <2>1, GrantOver DEF GrantCallMoves, GrantCallAnswers
  <2>3. CASE UNCHANGED <<row, fresh>> /\ GrantMayEnd
    BY <1>t, <2>1, <2>2, <2>3, GrantMoves
  <2>4. CASE call[c].pc = "redeem" /\ ~row.redeemed /\ row' = Grants!Redeemed(c) /\ UNCHANGED <<live, fresh>>
    BY <1>t, <2>1, <2>2, <2>4, GrantRedeems
  <2>5. CASE call[c].pc = "rotate" /\ Grants!IsCurrent(c) /\ row' = Grants!Rotated(c) /\ fresh' /\ UNCHANGED live
    BY <1>t, <2>1, <2>2, <2>5, GrantRotates
  <2>6. \/ UNCHANGED <<row, fresh>> /\ GrantMayEnd
        \/ call[c].pc = "redeem" /\ ~row.redeemed /\ row' = Grants!Redeemed(c) /\ UNCHANGED <<live, fresh>>
        \/ call[c].pc = "rotate" /\ Grants!IsCurrent(c) /\ row' = Grants!Rotated(c) /\ fresh' /\ UNCHANGED live
    BY <1>10, Zenon DEF Grants!StatementFails, GrantMayEnd
  <2> QED BY <2>3, <2>4, <2>5, <2>6
<1> QED BY <1>1, <1>2, <1>3, <1>4, <1>5, <1>6, <1>7, <1>8, <1>9, <1>10 DEF Grants!Next, Grants!Endpoint

(* Without a replay no call is about to end the grant.                     *)
LEMMA GrantHealthy ==
    ASSUME Grants!IndInv, Grants!Next, live, ~live', ~replayed
    PROVE  Grants!RevokeByUser
<1>1. \A c \in Calls : call[c].pc \notin {"again", "revoke"}
  BY DEF Grants!IndInv, Grants!NoReplay
<1>2. Grants!RevokeByUser \/ \E c \in Calls : call[c].pc \in {"again", "revoke"}
  BY Zenon DEF Grants!Next, Grants!Refresh, Grants!GraceEnds, Grants!Send, Grants!Receive, Grants!Lose,
         Grants!Endpoint, Grants!Redeem, Grants!RedeemAgain, Grants!Rotate, Grants!Repeat, Grants!Revoke,
         Grants!StatementFails
<1> QED BY <1>1, <1>2

(* Whoever is refused has an older token than the row's two.               *)
LEMMA GrantRefuses ==
    ASSUME Grants!IndInv
    PROVE  Grants!RefusedIsOver
BY GrantFields DEF Grants!IndInv, Grants!Overtaken, Grants!Ordered, Grants!RefusedIsOver, Grants!NoToken, Grants!AuthCode

(* The grant, beside the connection: whoever presents a token is given one  *)
(* successor, a lost answer strands no client, what could still be answered *)
(* is refused only when the grant is gone, and as long as no code is        *)
(* presented again and no previous token after its grace only the user     *)
(* ends it (rotate_refresh, repeat_rotation and redeem_auth_code of         *)
(* remote/links.rs).                                                       *)
THEOREM GrantsSafe == PartInit /\ [][PartNext]_partVars => GrantSafe
<1>1. PartInit => Grants!IndInv
  BY GrantInit DEF PartInit
<1>2. [PartNext]_partVars => [Grants!Next]_grantVars
  BY DEF PartNext, partVars, grantVars
<1>3. Grants!IndInv /\ [PartNext]_partVars => Grants!IndInv'
  BY <1>2, GrantStep
<1>4. Grants!IndInv =>
        (part = "grant" => Grants!TypeOK /\ Grants!SameAnswer /\ Grants!KeepsUp /\ Grants!RefusedIsOver)
  BY GrantRefuses DEF Grants!IndInv
<1>5. Grants!IndInv /\ [PartNext]_partVars
      => [live /\ ~live' /\ ~replayed => Grants!RevokeByUser]_Grants!vars
  BY <1>2, GrantHealthy DEF grantVars, Grants!vars
<1> QED BY <1>1, <1>3, <1>4, <1>5, PTL DEF GrantSafe, Grants!HealthyKept
=============================================================================
