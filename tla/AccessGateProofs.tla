---------------------------- MODULE AccessGateProofs ----------------------------
(***************************************************************************)
(* Proofs about AccessGate, for any tokens, requests, lifetime, ticks to    *)
(* the second and length of a run.                                         *)
(***************************************************************************)
EXTENDS AccessGate, TLAPS

---------------------------------------------------------------------------
(* Whole seconds.                                                          *)

\* Rounding down to whole seconds loses less than a second.
LEMMA RoundedDown ==
  ASSUME NEW n \in Int
  PROVE  /\ n \div Sub \in Int
         /\ (n \div Sub) * Sub <= n
         /\ n < (n \div Sub) * Sub + Sub
  BY GateAssumption

\* More seconds are more ticks.
LEMMA MoreTicks ==
  ASSUME NEW a \in Int, NEW b \in Int
  PROVE  /\ a * Sub \in Int
         /\ a <= b => a * Sub <= b * Sub
         /\ a * Sub <= b * Sub => a <= b
  BY GateAssumption

\* The constants are numbers, and zero is in every range.
LEMMA ConstantFacts ==
  /\ Life \in Nat /\ Life >= 1 /\ Sub \in Nat /\ Sub >= 1 /\ MaxTime \in Nat
  /\ Life * Sub \in Nat
  /\ 0 \in 0 .. MaxTime /\ 0 \in 0 .. Life /\ 0 \in 0 .. Life * Sub
  /\ 0 \in 0 .. MaxTime + Life * Sub
  BY GateAssumption

\* The exp claim of a token that is issued at the tick m.
LEMMA ExpClaim ==
  ASSUME NEW m \in 0 .. MaxTime
  PROVE  LET e == (m \div Sub + Life) * Sub IN
         e \in 0 .. MaxTime + Life * Sub /\ e <= m + Life * Sub
<1> DEFINE q == m \div Sub
<1>1. q \in Int /\ q * Sub <= m /\ m < q * Sub + Sub
  BY RoundedDown
<1>2. q * Sub > 0 - Sub
  BY <1>1, ConstantFacts
<1>3. q >= 0
  <2>1. SUFFICES ASSUME q <= -1 PROVE FALSE
    BY <1>1
  <2>2. q * Sub <= (-1) * Sub
    BY <1>1, <2>1, MoreTicks
  <2>3. QED
    BY <1>1, <1>2, <2>2, ConstantFacts
<1> HIDE DEF q
<1>4. (q + Life) * Sub = q * Sub + Life * Sub /\ q * Sub \in Nat
  BY <1>1, <1>3, ConstantFacts
<1>5. QED
  BY <1>1, <1>4, ConstantFacts DEF q

\* The lifetime of a blocklist key that a logout computes at the tick m.
LEMMA LifetimeFacts ==
  ASSUME NEW t \in Tokens, TypeOK, exp[t] <= now + Life * Sub
  PROVE  LifetimeLeft(t) \in 0 .. Life /\ Covers(LifetimeLeft(t), t)
<1> DEFINE n == exp[t] - now
           q == n \div Sub
<1>1. n \in Int /\ n <= Life * Sub /\ exp[t] = now + n /\ exp[t] \in Int /\ now \in Int
  BY ConstantFacts DEF TypeOK
<1>2. q \in Int /\ q * Sub <= n /\ n < q * Sub + Sub
  BY <1>1, RoundedDown
<1>3. q <= Life
  BY <1>1, <1>2, MoreTicks, ConstantFacts
<1>4. LifetimeLeft(t) = IF q > 1 THEN q ELSE 1
  BY DEF LifetimeLeft, Larger
<1> HIDE DEF n, q
<1>5. LifetimeLeft(t) \in 0 .. Life /\ q <= LifetimeLeft(t)
  BY <1>2, <1>3, <1>4, ConstantFacts
<1>6. q * Sub <= LifetimeLeft(t) * Sub /\ LifetimeLeft(t) * Sub \in Int /\ q * Sub \in Int
  BY <1>2, <1>5, MoreTicks, ConstantFacts
<1>7. Covers(LifetimeLeft(t), t)
  BY <1>1, <1>2, <1>6, ConstantFacts DEF Covers
<1>8. QED
  BY <1>5, <1>7

---------------------------------------------------------------------------
(* The invariant.                                                          *)

\* No token is issued and no request runs.
LEMMA InitInvariant == Init => GateInv
<1> SUFFICES ASSUME Init PROVE GateInv
  OBVIOUS
<1>1. TypeOK
  BY ConstantFacts DEF Init, TypeOK, Requests, Idle
<1>2. TokensAgree
  BY ConstantFacts DEF Init, TokensAgree, Idle
<1>3. LogoutsCover /\ KeysCover /\ RequestsAgree
  BY DEF Init, LogoutsCover, KeysCover, RequestsAgree, Idle
<1>4. QED
  BY <1>1, <1>2, <1>3 DEF GateInv

\* A token that is issued is one that nobody carries yet.
LEMMA IssuePreserves ==
  ASSUME GateInv, NEW t \in Tokens, NEW short \in BOOLEAN, Issue(t, short)
  PROVE  GateInv'
<1> USE DEF GateInv, Issue
<1>1. exp'[t] \in 0 .. MaxTime + Life * Sub /\ exp'[t] <= now + Life * Sub
  BY ExpClaim DEF TypeOK
<1>2. \A u \in Tokens : u # t => exp'[u] = exp[u]
  BY DEF TypeOK
<1>3. TypeOK'
  BY <1>1, <1>2 DEF TypeOK
<1>4. t \notin loggedOut /\ \A p \in Procs : req[p].step # "idle" => req[p].token # t
  BY DEF TokensAgree
<1>5. loggedOut \subseteq Tokens
  BY DEF TypeOK
<1>6. TokensAgree'
  BY <1>1, <1>2, <1>4, <1>5 DEF TokensAgree, Issued
<1>7. LogoutsCover' /\ KeysCover'
  BY <1>2, <1>4, <1>5 DEF LogoutsCover, KeysCover, Covers, TokensAgree
<1>8. RequestsAgree'
  BY <1>4 DEF RequestsAgree
<1>9. QED
  BY <1>3, <1>6, <1>7, <1>8

\* A step of p that gives it the request r and leaves the tokens alone.
LEMMA LocalStep ==
  ASSUME GateInv, NEW p \in Procs, NEW r \in Requests,
         req' = [req EXCEPT ![p] = r], UNCHANGED <<now, exp, slt, blocked, account, loggedOut, missed>>,
         r.step # "idle" => r.token \in Tokens /\ Issued(r.token),
         r.step = "logout" => Covers(r.ttl, r.token),
         r.late => r.token \in loggedOut,
         r.step \in {"blocklist", "user"} =>
           /\ r.route \in {"standard", "recovery"}
           /\ account = "active" => r.active,
         r.step = "user" =>
           /\ r.late => r.left < Sub \/ r.token \in missed
           /\ r.route = "standard" => r.token \notin slt
  PROVE  GateInv'
<1> USE DEF GateInv
<1>1. req'[p] = r /\ \A q \in Procs : q # p => req'[q] = req[q]
  BY DEF TypeOK
<1>2. TypeOK'
  BY DEF TypeOK
<1>3. TokensAgree'
  BY <1>1 DEF TokensAgree, Issued
<1>4. LogoutsCover' /\ KeysCover'
  BY <1>1 DEF LogoutsCover, KeysCover, Covers
<1>5. RequestsAgree'
  BY <1>1 DEF RequestsAgree
<1>6. QED
  BY <1>2, <1>3, <1>4, <1>5

\* A refused request leaves nothing behind.
LEMMA RefusePreserves ==
  ASSUME GateInv, NEW p \in Procs, Refuse(p)
  PROVE  GateInv'
<1>1. Idle \in Requests /\ Idle.step = "idle" /\ Idle.late = FALSE
  BY ConstantFacts DEF Idle, Requests
<1>2. QED
  BY <1>1, LocalStep DEF Refuse

\* Decoding a token fixes what the request knows of its logout and its account.
LEMMA BeginPreserves ==
  ASSUME GateInv, NEW p \in Procs, NEW t \in Tokens, NEW kind \in {"standard", "recovery"},
         Begin(p, t, kind)
  PROVE  GateInv'
<1> DEFINE late == t \in loggedOut
           active == account = "active"
           r == [Idle EXCEPT !.step = "blocklist", !.route = kind, !.token = t,
                             !.late = late, !.active = active]
<1>1. late \in BOOLEAN /\ active \in BOOLEAN
  OBVIOUS
<1>2. Issued(t) /\ req' = [req EXCEPT ![p] = r]
  BY DEF Begin, Decodes
<1>3. late => t \in loggedOut
  OBVIOUS
<1>4. account = "active" => active
  OBVIOUS
<1> HIDE DEF late, active
<1>5. /\ r \in Requests
      /\ r.step = "blocklist" /\ r.route = kind /\ r.token = t
      /\ r.late = late /\ r.active = active
  BY <1>1, ConstantFacts DEF Idle, Requests
<1> HIDE DEF r
<1>6. QED
  BY <1>2, <1>3, <1>4, <1>5, LocalStep DEF Begin

\* A request past the blocklist: its token is good for a second only, or the
\* key was refused, if it was logged out before.
LEMMA ValidatePreserves ==
  ASSUME GateInv, NEW p \in Procs, Validate(p)
  PROVE  GateInv'
<1> DEFINE t == req[p].token
           r == [req[p] EXCEPT !.step = "user", !.left = exp[t] - now]
<1> USE DEF GateInv
<1>1. /\ req[p] \in Requests /\ t \in Tokens /\ Issued(t)
      /\ exp[t] \in Int /\ now \in Int /\ blocked[t] \in Int
      /\ exp[t] <= now + Life * Sub /\ now < exp[t] /\ ~(now < blocked[t])
  BY ConstantFacts DEF Validate, TypeOK, TokensAgree, IsBlocked
<1>2. exp[t] - now \in 0 .. Life * Sub
  BY <1>1, ConstantFacts
<1>3. /\ r \in Requests
      /\ r.step = "user" /\ r.left = exp[t] - now /\ r.token = t
      /\ r.route = req[p].route /\ r.late = req[p].late /\ r.active = req[p].active
  BY <1>1, <1>2 DEF Requests
<1>4. req' = [req EXCEPT ![p] = r]
  BY DEF Validate
<1>5. r.late => r.left < Sub \/ t \in missed
  BY <1>1, <1>3, ConstantFacts DEF RequestsAgree, KeysCover
<1>6. r.late => t \in loggedOut
  BY <1>3 DEF RequestsAgree
<1>7. /\ r.route \in {"standard", "recovery"}
      /\ account = "active" => r.active
      /\ r.route = "standard" => t \notin slt
  BY <1>3 DEF Validate, RequestsAgree
<1> HIDE DEF r
<1>8. QED
  BY <1>1, <1>3, <1>4, <1>5, <1>6, <1>7, LocalStep DEF Validate

\* The lifetime that logout computes covers the token but for its last second.
LEMMA LogoutBeginPreserves ==
  ASSUME GateInv, NEW p \in Procs, NEW t \in Tokens, LogoutBegin(p, t)
  PROVE  GateInv'
<1> DEFINE r == [Idle EXCEPT !.step = "logout", !.token = t, !.ttl = LifetimeLeft(t)]
<1>1. LifetimeLeft(t) \in 0 .. Life /\ Covers(LifetimeLeft(t), t)
  BY LifetimeFacts DEF GateInv, TokensAgree
<1>2. /\ r \in Requests /\ r.step = "logout" /\ r.token = t
      /\ r.ttl = LifetimeLeft(t) /\ r.late = FALSE
  BY <1>1, ConstantFacts DEF Idle, Requests
<1>3. Issued(t) /\ req' = [req EXCEPT ![p] = r]
  BY DEF LogoutBegin
<1> HIDE DEF r
<1>4. QED
  BY <1>1, <1>2, <1>3, LocalStep DEF LogoutBegin

\* A request that logs out is over; more tokens are logged out or missed.
LEMMA LogoutEnds ==
  ASSUME GateInv, NEW p \in Procs, req[p].step = "logout",
         req' = [req EXCEPT ![p] = Idle],
         loggedOut' = loggedOut \cup {req[p].token},
         missed \subseteq missed', missed' \subseteq Tokens,
         blocked' \in [Tokens -> 0 .. MaxTime + Life * Sub],
         UNCHANGED <<now, exp, slt, account>>,
         KeysCover'
  PROVE  GateInv'
<1> USE DEF GateInv
<1>1. Idle \in Requests /\ Idle.step = "idle" /\ Idle.late = FALSE
  BY ConstantFacts DEF Idle, Requests
<1>2. req'[p] = Idle /\ \A q \in Procs : q # p => req'[q] = req[q]
  BY DEF TypeOK
<1>3. req[p].token \in Tokens /\ Issued(req[p].token)
  BY DEF TokensAgree
<1>4. TypeOK'
  BY <1>1, <1>3 DEF TypeOK
<1>5. TokensAgree' /\ LogoutsCover'
  BY <1>1, <1>2, <1>3 DEF TokensAgree, Issued, LogoutsCover, Covers
<1>6. RequestsAgree'
  BY <1>1, <1>2 DEF RequestsAgree
<1>7. QED
  BY <1>4, <1>5, <1>6

\* The key is set for that lifetime, counted from the same tick or a later one.
LEMMA LogoutBlockPreserves ==
  ASSUME GateInv, NEW p \in Procs, LogoutBlock(p)
  PROVE  GateInv'
<1> DEFINE t == req[p].token
           ttl == req[p].ttl
<1> USE DEF GateInv
<1>1. t \in Tokens /\ ttl \in 0 .. Life /\ now \in 0 .. MaxTime /\ exp[t] < now + ttl * Sub + Sub
  BY DEF LogoutBlock, TypeOK, TokensAgree, LogoutsCover, Covers, Requests
<1>2. ttl * Sub \in Int /\ ttl * Sub >= 0 /\ ttl * Sub <= Life * Sub
  BY <1>1, ConstantFacts, MoreTicks
<1>3. blocked' = [blocked EXCEPT ![t] = now + ttl * Sub]
  BY DEF LogoutBlock
<1>4. now + ttl * Sub \in 0 .. MaxTime + Life * Sub
  BY <1>1, <1>2, ConstantFacts
<1>5. blocked' \in [Tokens -> 0 .. MaxTime + Life * Sub]
  BY <1>3, <1>4 DEF TypeOK
<1>6. blocked'[t] = now + ttl * Sub /\ \A u \in Tokens : u # t => blocked'[u] = blocked[u]
  BY <1>1, <1>3 DEF TypeOK
<1>7. loggedOut \subseteq Tokens
  BY DEF TypeOK
<1>8. KeysCover'
  BY <1>1, <1>6, <1>7 DEF LogoutBlock, KeysCover
<1>9. missed \subseteq missed' /\ missed' \subseteq Tokens
  BY DEF LogoutBlock, TypeOK
<1>10. QED
  BY <1>5, <1>8, <1>9, LogoutEnds DEF LogoutBlock

\* A key that Redis refused is remembered as missed.
LEMMA LogoutBlockFailsPreserves ==
  ASSUME GateInv, NEW p \in Procs, LogoutBlockFails(p)
  PROVE  GateInv'
<1> USE DEF GateInv, LogoutBlockFails
<1>1. req[p].token \in Tokens
  BY DEF TokensAgree
<1>2. KeysCover'
  BY DEF KeysCover
<1>3. QED
  BY <1>1, <1>2, LogoutEnds DEF TypeOK

\* Requests under way see the account as it becomes.
LEMMA SetAccountPreserves ==
  ASSUME GateInv, NEW status \in {"active", "disabled", "deleted"}, SetAccount(status)
  PROVE  GateInv'
<1> USE DEF GateInv, SetAccount
<1>1. ASSUME NEW q \in Procs
      PROVE  /\ req'[q] \in Requests
             /\ req'[q].step = req[q].step /\ req'[q].route = req[q].route
             /\ req'[q].token = req[q].token /\ req'[q].ttl = req[q].ttl
             /\ req'[q].late = req[q].late /\ req'[q].left = req[q].left
             /\ req[q].step \in {"blocklist", "user"} /\ status = "active" => req'[q].active
  <2>1. req[q] \in Requests
    BY DEF TypeOK
  <2>2. CASE req[q].step = "idle" \/ req[q].step = "logout"
    BY <2>1, <2>2
  <2>3. CASE ~(req[q].step = "idle" \/ req[q].step = "logout")
    <3> DEFINE b == req[q].active \/ status = "active"
    <3>1. b \in BOOLEAN /\ req'[q] = [req[q] EXCEPT !.active = b]
      BY <2>1, <2>3
    <3>2. status = "active" => b
      OBVIOUS
    <3> HIDE DEF b
    <3>3. QED
      BY <2>1, <3>1, <3>2 DEF Requests
  <2>4. QED
    BY <2>2, <2>3
<1>2. TypeOK'
  BY <1>1 DEF TypeOK
<1>3. TokensAgree' /\ LogoutsCover' /\ KeysCover'
  BY <1>1 DEF TokensAgree, Issued, LogoutsCover, KeysCover, Covers
<1>4. RequestsAgree'
  BY <1>1 DEF RequestsAgree
<1>5. QED
  BY <1>2, <1>3, <1>4

\* Time only makes a lifetime that was computed cover more.
LEMMA TickPreserves ==
  ASSUME GateInv, Tick
  PROVE  GateInv'
<1> USE DEF GateInv, Tick
<1>1. now \in 0 .. MaxTime /\ now' = now + 1 /\ now' \in 0 .. MaxTime
  BY ConstantFacts DEF TypeOK
<1>2. TypeOK'
  BY <1>1 DEF TypeOK
<1>3. \A t \in Tokens : exp[t] \in Int
  BY ConstantFacts DEF TypeOK
<1>4. TokensAgree'
  BY <1>1, <1>3, ConstantFacts DEF TokensAgree, Issued
<1>5. \A p \in Procs : req[p].ttl \in Int /\ req[p].ttl * Sub \in Int
  BY MoreTicks, ConstantFacts DEF TypeOK, Requests
<1>6. LogoutsCover' /\ KeysCover'
  BY <1>1, <1>3, <1>5, ConstantFacts DEF LogoutsCover, Covers, KeysCover, TokensAgree
<1>7. RequestsAgree'
  BY DEF RequestsAgree
<1>8. QED
  BY <1>2, <1>4, <1>6, <1>7

\* Every step keeps the invariant.
LEMMA StepPreserves == GateInv /\ [Next]_vars => GateInv'
<1> SUFFICES ASSUME GateInv, [Next]_vars PROVE GateInv'
  OBVIOUS
<1>1. CASE UNCHANGED vars
  BY <1>1 DEF vars, GateInv, TypeOK, TokensAgree, Issued, LogoutsCover, Covers, KeysCover,
              RequestsAgree
<1>2. ASSUME NEW p \in Procs, ValidateRefuses(p) \/ Serve(p) \/ UserRefuses(p) PROVE GateInv'
  BY <1>2, RefusePreserves DEF ValidateRefuses, Serve, UserRefuses
<1>3. QED
  BY <1>1, <1>2, IssuePreserves, BeginPreserves, ValidatePreserves, LogoutBeginPreserves,
     LogoutBlockPreserves, LogoutBlockFailsPreserves, SetAccountPreserves, TickPreserves
  DEF Next

---------------------------------------------------------------------------
(* The theorems.                                                           *)

\* A blocklist key that was set covers its token but for less than a second.
THEOREM Invariance == Spec => []GateInv
BY InitInvariant, StepPreserves, PTL DEF Spec

\* A token whose logout has answered opens the gate in its last second only, or
\* if Redis refused its key.
THEOREM LogoutCloses == Spec => LoggedOutRefused
<1>1. GateInv =>
        \A p \in Procs : Serve(p) /\ req[p].late => req[p].left < Sub \/ req[p].token \in missed
  BY DEF GateInv, RequestsAgree, Serve
<1>2. QED
  BY <1>1, Invariance, PTL DEF LoggedOutRefused

\* An inactive account is let in by a short-lived token on a recovery route only.
THEOREM InactiveRecoversOnly == Spec => InactiveOnlyByRecovery
<1>1. GateInv =>
        \A p \in Procs : Serve(p) /\ ~req[p].active =>
          req[p].token \in slt /\ req[p].route = "recovery"
  BY DEF GateInv, RequestsAgree, Serve, StatusAllows
<1>2. QED
  BY <1>1, Invariance, PTL DEF InactiveOnlyByRecovery
=============================================================================
