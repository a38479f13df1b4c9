------------------------------ MODULE ServiceProofs ------------------------------
(***************************************************************************)
(* Proofs about Service, for any requests, routes, recovery time, length of *)
(* a tick and manual mode.                                                  *)
(***************************************************************************)
EXTENDS Service, TLAPS

\* The cool-down is a number of ticks.
LEMMA CooldownNat == Cooldown \in Nat /\ Recovery \in Nat /\ Sub \in Nat /\ Sub > 0
  BY SwitchAssumption DEF Cooldown

\* No window, no request.
LEMMA InitInvariant == ServiceInit => ServiceInv
<1> SUFFICES ASSUME ServiceInit PROVE ServiceInv
  OBVIOUS
<1> USE DEF ServiceInit, Init
<1>1. 0 \in 0 .. Cooldown /\ Cooldown \in 0 .. Cooldown /\ Cooldown \in Nat
  BY CooldownNat
<1>2. TypeOK
  BY <1>1 DEF TypeOK
<1>3. ServiceTypeOK
  BY <1>2 DEF ServiceTypeOK
<1>4. WindowsFromFailures
  BY <1>1 DEF WindowsFromFailures
<1>5. BlocksOnlyAfterFailure
  BY DEF BlocksOnlyAfterFailure, Active, Remaining
<1>6. OnlyOutagesEngage /\ RequestsHaveRoutes
  BY DEF OnlyOutagesEngage, RequestsHaveRoutes
<1>7. QED
  BY <1>2, <1>3, <1>4, <1>5, <1>6 DEF ServiceInv, SwitchInv

---------------------------------------------------------------------------
(* The kill switch.                                                        *)

\* What is left of a time that is over rounds down to nothing.
LEMMA NothingLeft == 0 \div Sub = 0
  BY CooldownNat

\* If a window is left, the latest failure is younger than the cool-down.
LEMMA PositiveParts ==
  ASSUME NEW c \in Nat, NEW u \in 0 .. c, NEW a \in 0 .. c, u + a <= c, u # 0
  PROVE  a < c
  OBVIOUS

\* Requests are turned away only while time is left before the window ends, so
\* the bound on windows is all there is to prove.
LEMMA BoundSuffices ==
  ASSUME TypeOK', WindowsFromFailures'
  PROVE  SwitchInv'
<1>1. until' \in 0 .. Cooldown /\ age' \in 0 .. Cooldown /\ until' + age' <= Cooldown
  BY DEF TypeOK, WindowsFromFailures
<1>2. Active' => until' # 0
  BY NothingLeft DEF Active, Remaining
<1>3. until' # 0 => age' < Cooldown
  BY <1>1, CooldownNat, PositiveParts
<1>4. QED
  BY <1>2, <1>3 DEF BlocksOnlyAfterFailure, SwitchInv

\* Counting down stays in range.
LEMMA LessFacts ==
  ASSUME NEW n \in 0 .. Cooldown
  PROVE  /\ Less(n) \in 0 .. Cooldown /\ Less(n) <= n
         /\ n > 0 => Less(n) = n - 1
         /\ n = 0 => Less(n) = 0
  BY CooldownNat DEF Less

\* A tick shortens the window as it ages the failure.
LEMMA TickPreserves ==
  ASSUME SwitchInv, Tick
  PROVE  SwitchInv' /\ until' <= until
<1> USE DEF SwitchInv, Tick
<1>1. /\ until \in 0 .. Cooldown /\ key \in 0 .. Cooldown /\ age \in 0 .. Cooldown
      /\ until + age <= Cooldown
      /\ \A p \in Procs : mine[p] \in 0 .. Cooldown /\ mine[p] + age <= Cooldown
  BY DEF TypeOK, WindowsFromFailures
<1>2. /\ \A p \in Procs : mine'[p] = Less(mine[p])
      /\ age' = IF age < Cooldown THEN age + 1 ELSE age
      /\ until' = 0 \/ until' = Less(until)
      /\ key' = Less(key)
  OBVIOUS
<1>3. age' \in 0 .. Cooldown
  BY <1>1, <1>2, CooldownNat
<1>4. until' \in 0 .. Cooldown /\ until' <= until /\ until' + age' <= Cooldown
  BY <1>1, <1>2, CooldownNat DEF Less
<1>5. \A p \in Procs : mine'[p] \in 0 .. Cooldown /\ mine'[p] + age' <= Cooldown
  BY <1>1, <1>2, CooldownNat DEF Less
<1>6. TypeOK'
  BY <1>1, <1>2, <1>3, <1>4, <1>5, LessFacts DEF TypeOK
<1>7. WindowsFromFailures'
  BY <1>4, <1>5 DEF WindowsFromFailures
<1>8. QED
  BY <1>4, <1>6, <1>7, BoundSuffices

\* A request that begins, fails or ends, and the reset, set no later end.
LEMMA SwitchPreserves ==
  ASSUME SwitchInv, NEW p \in Procs,
         \/ \E r \in {"api", "reset", "whitelisted"} : Pass(p, r)
         \/ Answer(p) \/ Failure(p) \/ Engage(p) \/ EngageFails(p) \/ Reset(p)
  PROVE  SwitchInv' /\ (key > 0 => until' <= until)
<1> USE DEF SwitchInv
<1>1. /\ until \in 0 .. Cooldown /\ key \in 0 .. Cooldown /\ age \in 0 .. Cooldown
      /\ until + age <= Cooldown
      /\ \A q \in Procs : mine[q] \in 0 .. Cooldown /\ mine[q] + age <= Cooldown
      /\ 0 \in 0 .. Cooldown /\ Cooldown \in 0 .. Cooldown /\ Cooldown \in Nat
  BY CooldownNat DEF TypeOK, WindowsFromFailures
<1>2. ASSUME NEW r \in {"api", "reset", "whitelisted"}, Pass(p, r)
      PROVE  TypeOK' /\ WindowsFromFailures' /\ until' = until
  BY <1>1, <1>2 DEF Pass, TypeOK, WindowsFromFailures
<1>3. CASE Answer(p)
  BY <1>1, <1>3, BoundSuffices DEF Answer, Finish, TypeOK, WindowsFromFailures
<1>4. CASE Failure(p)
  BY <1>1, <1>4, BoundSuffices DEF Failure, TypeOK, WindowsFromFailures
<1>5. CASE Engage(p)
  <2>1. /\ until' = IF key = 0 THEN mine[p] ELSE until
        /\ key' = IF key = 0 THEN Cooldown ELSE key
        /\ redisUp' = redisUp /\ age' = age
    BY <1>5 DEF Engage
  <2>2. TypeOK' /\ WindowsFromFailures'
    BY <1>1, <1>5, <2>1 DEF Engage, Finish, TypeOK, WindowsFromFailures
  <2>3. QED
    BY <1>1, <2>1, <2>2, BoundSuffices
<1>6. CASE EngageFails(p)
  BY <1>1, <1>6, BoundSuffices DEF EngageFails, Finish, TypeOK, WindowsFromFailures
<1>7. CASE Reset(p)
  BY <1>1, <1>7, BoundSuffices DEF Reset, TypeOK, WindowsFromFailures
<1>8. QED
  BY <1>1, <1>2, <1>3, <1>4, <1>5, <1>6, <1>7, BoundSuffices

\* Steps elsewhere leave the switch alone.
LEMMA SwitchStutters == SwitchInv /\ UNCHANGED vars => SwitchInv'
  BY DEF vars, SwitchInv, TypeOK, WindowsFromFailures, BlocksOnlyAfterFailure, Active, Remaining

\* Redis coming and going leaves the window as it is.
LEMMA RedisChangesPreserves ==
  ASSUME SwitchInv, RedisChanges
  PROVE  SwitchInv'
<1>1. redisUp' \in BOOLEAN
  BY DEF RedisChanges
<1>2. QED
  BY <1>1, BoundSuffices DEF RedisChanges, SwitchInv, TypeOK, WindowsFromFailures

---------------------------------------------------------------------------
(* Requests, from the kill switch to their answers.                         *)

\* What may be raised outside the bodies of the routes are outages.
LEMMA OutsideBodies ==
  ASSUME NEW p \in Procs, part[p] # "body", NEW e \in Raisable(p)
  PROVE  e \in Outages
  BY DEF Raisable, FromDependencies, Outages

\* Outages are among the exceptions that the model has.
LEMMA OutagesAreExceptions == Outages \subseteq Exceptions
  BY DEF Outages, Exceptions, MRO

\* What is left of ServiceInv once the switch is taken care of.
RequestsInv ==
  /\ route \in [Procs -> Routes \cup {"none"}]
  /\ part \in [Procs -> {"none", "dependencies", "body", "commit", "handler"}]
  /\ fault \in [Procs -> Exceptions \cup {"none"}]
  /\ RequestsHaveRoutes
  /\ OnlyOutagesEngage

\* The invariant is about the switch and about the requests, one by one.
LEMMA Parts == ServiceInv <=> SwitchInv /\ RequestsInv
  BY DEF ServiceInv, ServiceTypeOK, SwitchInv, RequestsInv

\* A request that is answered has no fault left.
LEMMA LeavePreserves ==
  ASSUME RequestsInv, NEW p \in Procs, Leave(p)
  PROVE  RequestsInv'
  BY DEF RequestsInv, RequestsHaveRoutes, OnlyOutagesEngage, Leave

\* Every step of a request keeps both, and lengthens no running window.
LEMMA RequestPreserves ==
  ASSUME SwitchInv, RequestsInv, NEW p \in Procs,
         \/ \E r \in Routes : Begin(p, r)
         \/ Advance(p) \/ Reply(p) \/ ResetSwitch(p) \/ HandlerEnds(p)
         \/ \E e \in Exceptions : Raises(p, e)
  PROVE  SwitchInv' /\ RequestsInv' /\ (key > 0 => until' <= until)
<1> USE DEF RequestsInv, RequestsHaveRoutes, OnlyOutagesEngage
<1>1. ASSUME NEW r \in Routes, Begin(p, r)
      PROVE  SwitchInv' /\ RequestsInv' /\ (key > 0 => until' <= until)
  <2>1. PathOf(r) \in {"api", "reset", "whitelisted"}
    BY DEF PathOf
  <2>2. SwitchInv' /\ (key > 0 => until' <= until)
    BY <1>1, <2>1, SwitchPreserves DEF Begin
  <2>3. RequestsInv'
    BY <1>1 DEF Begin
  <2>4. QED
    BY <2>2, <2>3
<1>2. CASE Advance(p)
  <2>1. SwitchInv' /\ until' = until
    BY <1>2, SwitchStutters DEF Advance, vars
  <2>2. RequestsInv'
    BY <1>2 DEF Advance
  <2>3. QED
    BY <2>1, <2>2, CooldownNat DEF SwitchInv, TypeOK
<1>3. CASE Reply(p)
  BY <1>3, SwitchPreserves, LeavePreserves DEF Reply
<1>4. CASE ResetSwitch(p)
  <2>1. RequestsInv'
    BY <1>4 DEF ResetSwitch
  <2>2. QED
    BY <1>4, <2>1, SwitchPreserves DEF ResetSwitch
<1>5. CASE HandlerEnds(p)
  BY <1>5, SwitchPreserves, LeavePreserves DEF HandlerEnds
<1>6. ASSUME NEW e \in Exceptions, Raises(p, e)
      PROVE  SwitchInv' /\ RequestsInv' /\ (key > 0 => until' <= until)
  <2>1. CASE IsAnswered(p, e)
    BY <2>1, SwitchPreserves, LeavePreserves DEF IsAnswered
  <2>2. CASE Escapes(p, e)
    <3>1. e \in Outages /\ part[p] # "none"
      BY <1>6, <2>2, OutsideBodies DEF Raises, Raisable, Escapes
    <3>2. RequestsInv'
      BY <2>2, <3>1 DEF Escapes
    <3>3. QED
      BY <2>2, <3>2, SwitchPreserves DEF Escapes
  <2>3. QED
    BY <1>6, <2>1, <2>2 DEF Raises
<1>7. QED
  BY <1>1, <1>2, <1>3, <1>4, <1>5, <1>6

\* Every step keeps the invariant and lengthens no running window.
LEMMA StepPreserves ==
  ServiceInv /\ [ServiceNext]_allVars => ServiceInv' /\ (key > 0 => until' <= until)
<1> SUFFICES ASSUME SwitchInv, RequestsInv, [ServiceNext]_allVars
             PROVE  SwitchInv' /\ RequestsInv' /\ (key > 0 => until' <= until)
  BY Parts DEF ServiceInv, ServiceTypeOK, RequestsInv, SwitchInv
<1>1. until \in 0 .. Cooldown
  BY DEF SwitchInv, TypeOK
<1>2. UNCHANGED serviceVars => RequestsInv'
  BY DEF serviceVars, RequestsInv, RequestsHaveRoutes, OnlyOutagesEngage
<1>3. CASE UNCHANGED allVars
  BY <1>1, <1>2, <1>3, SwitchStutters, CooldownNat DEF allVars, vars
<1>4. CASE (Tick \/ RedisChanges) /\ UNCHANGED serviceVars
  BY <1>1, <1>2, <1>4, TickPreserves, RedisChangesPreserves, CooldownNat DEF RedisChanges
<1>5. QED
  BY <1>3, <1>4, RequestPreserves DEF ServiceNext

\* Windows end within the recovery time of a failure, and handlers run for
\* outages only.
THEOREM Invariance == ServiceSpec => []ServiceInv
BY InitInvariant, StepPreserves, PTL DEF ServiceSpec

\* Requests are turned away only within the recovery time of a failure.
THEOREM BlocksAfterFailure == ServiceSpec => []BlocksOnlyAfterFailure
<1>1. ServiceInv => BlocksOnlyAfterFailure
  BY DEF ServiceInv, SwitchInv
<1>2. QED
  BY <1>1, Invariance, PTL

\* Only outages engage the kill switch.
THEOREM OutagesEngage == ServiceSpec => []OnlyOutagesEngage
<1>1. ServiceInv => OnlyOutagesEngage
  BY DEF ServiceInv
<1>2. QED
  BY <1>1, Invariance, PTL

\* No failure lengthens a window that runs.
THEOREM WindowStands == ServiceSpec => WindowNotExtended
BY Invariance, StepPreserves, PTL DEF ServiceSpec, WindowNotExtended

---------------------------------------------------------------------------
(* The except clauses.                                                     *)

\* The CHOOSE of FirstIn is the first index.
LEMMA LeastChosen ==
  ASSUME NEW S \in SUBSET Nat, NEW k \in S, \A j \in S : k <= j
  PROVE  (CHOOSE i \in S : \A j \in S : i <= j) = k
<1>1. \A i \in S : (\A j \in S : i <= j) <=> i = k
  OBVIOUS
<1>2. QED
  BY <1>1

\* The classes of an outage.
LEMMA OutageClasses ==
  /\ \A c : IsA("Infrastructure", c) <=> c \in {"Infrastructure", "Domain", "Exception"}
  /\ \A c : IsA("Redis", c) <=> c \in {"Redis", "Exception"}
  /\ \A c : IsA("Operational", c) <=> c \in {"Operational", "SQLAlchemy", "Exception"}
<1>1. /\ MRO["Infrastructure"] = <<"Infrastructure", "Domain", "Exception">>
      /\ MRO["Redis"] = <<"Redis", "Exception">>
      /\ MRO["Operational"] = <<"Operational", "SQLAlchemy", "Exception">>
  BY DEF MRO
<1>2. QED
  BY <1>1 DEF IsA

\* The handler of main.py that an outage gets is its own: 503.
LEMMA OutageHandled ==
  ASSUME NEW e \in Outages
  PROVE  Handled(e).status = 503
<1> DEFINE hits == {i \in DOMAIN MRO[e] : MRO[e][i] \in DOMAIN Handlers}
<1>1. MRO[e][1] = e /\ 1 \in DOMAIN MRO[e] /\ DOMAIN MRO[e] \subseteq 1 .. 3
  BY DEF MRO, Outages
<1>2. e \in DOMAIN Handlers /\ Handlers[e].status = 503 /\ e # "Domain"
  BY DEF Handlers, Outages
<1>3. hits \in SUBSET Nat /\ 1 \in hits /\ \A j \in hits : 1 <= j
  BY <1>1, <1>2
<1>4. (CHOOSE i \in hits : \A j \in hits : i <= j) = 1
  BY <1>3, LeastChosen
<1>5. FirstIn(MRO[e], LAMBDA c : c \in DOMAIN Handlers) = e
  BY <1>1, <1>4 DEF FirstIn
<1>6. QED
  BY <1>2, <1>5 DEF Handled

\* The first clause of a route that catches e decides.
LEMMA FirstClause ==
  ASSUME NEW r, NEW e, NEW k \in Nat, DOMAIN Clauses[r] \subseteq Nat, k \in DOMAIN Clauses[r],
         IsA(e, Clauses[r][k][1]),
         \A j \in DOMAIN Clauses[r] : IsA(e, Clauses[r][j][1]) => k <= j
  PROVE  Translated(r, e) = Clauses[r][k][2]
<1> DEFINE hits == {i \in DOMAIN Clauses[r] : IsA(e, Clauses[r][i][1])}
<1>1. hits \in SUBSET Nat /\ k \in hits /\ \A j \in hits : k <= j
  OBVIOUS
<1>2. (CHOOSE i \in hits : \A j \in hits : i <= j) = k
  BY <1>1, LeastChosen
<1>3. QED
  BY <1>2 DEF Translated, FirstIn

\* The body of no route answers an outage of its own with 4xx, but for the
\* InfrastructureError of login and refresh.
LEMMA OutageTranslated ==
  ASSUME NEW r \in RouteNames, NEW e \in FromBody[r] \cap Outages,
         ~(r \in {"login", "refresh"} /\ e = "Infrastructure")
  PROVE  Translated(r, e) >= 500
<1>1. CASE r = "login"
  <2> e = "Operational"
    BY <1>1 DEF FromBody, Outages
  <2>1. /\ DOMAIN Clauses[r] = 1 .. 5
        /\ Clauses[r][1] = <<"RateLimit", 429>>
        /\ Clauses[r][2] = <<"Runtime", 503>>
        /\ Clauses[r][3] = <<"SQLAlchemy", 503>>
    BY <1>1 DEF Clauses
  <2>2. \A j \in DOMAIN Clauses[r] : IsA(e, Clauses[r][j][1]) => 3 <= j
    BY <2>1, OutageClasses
  <2>3. IsA(e, Clauses[r][3][1]) /\ 3 \in DOMAIN Clauses[r] /\ DOMAIN Clauses[r] \subseteq Nat
    BY <2>1, OutageClasses
  <2>4. Translated(r, e) = Clauses[r][3][2]
    BY <2>2, <2>3, FirstClause
  <2>5. QED
    BY <2>1, <2>4
<1>2. CASE r = "signup"
  <2> e = "Operational"
    BY <1>2 DEF FromBody, Outages
  <2>1. /\ DOMAIN Clauses[r] = 1 .. 4
        /\ Clauses[r][1] = <<"Duplicate", 409>>
        /\ Clauses[r][2] = <<"SQLAlchemy", 503>>
    BY <1>2 DEF Clauses
  <2>2. \A j \in DOMAIN Clauses[r] : IsA(e, Clauses[r][j][1]) => 2 <= j
    BY <2>1, OutageClasses
  <2>3. IsA(e, Clauses[r][2][1]) /\ 2 \in DOMAIN Clauses[r] /\ DOMAIN Clauses[r] \subseteq Nat
    BY <2>1, OutageClasses
  <2>4. Translated(r, e) = Clauses[r][2][2]
    BY <2>2, <2>3, FirstClause
  <2>5. QED
    BY <2>1, <2>4
<1>3. CASE r = "refresh" /\ e = "Operational"
  <2>1. /\ DOMAIN Clauses[r] = 1 .. 3
        /\ Clauses[r][1] = <<"SQLAlchemy", 503>>
    BY <1>3 DEF Clauses
  <2>2. \A j \in DOMAIN Clauses[r] : IsA(e, Clauses[r][j][1]) => 1 <= j
    BY <2>1
  <2>3. IsA(e, Clauses[r][1][1]) /\ 1 \in DOMAIN Clauses[r] /\ DOMAIN Clauses[r] \subseteq Nat
    BY <1>3, <2>1, OutageClasses
  <2>4. Translated(r, e) = Clauses[r][1][2]
    BY <2>2, <2>3, FirstClause
  <2>5. QED
    BY <2>1, <2>4
<1>4. CASE r = "refresh" /\ e = "Redis"
  <2>1. /\ DOMAIN Clauses[r] = 1 .. 3
        /\ Clauses[r][1] = <<"SQLAlchemy", 503>>
        /\ Clauses[r][2] = <<"Domain", 401>>
        /\ Clauses[r][3] = <<"Exception", 500>>
    BY <1>4 DEF Clauses
  <2>2. \A j \in DOMAIN Clauses[r] : IsA(e, Clauses[r][j][1]) => 3 <= j
    BY <1>4, <2>1, OutageClasses
  <2>3. IsA(e, Clauses[r][3][1]) /\ 3 \in DOMAIN Clauses[r] /\ DOMAIN Clauses[r] \subseteq Nat
    BY <1>4, <2>1, OutageClasses
  <2>4. Translated(r, e) = Clauses[r][3][2]
    BY <2>2, <2>3, FirstClause
  <2>5. QED
    BY <2>1, <2>4
<1>5. CASE r = "logout"
  <2> e \in {"Infrastructure", "Redis"}
    BY <1>5 DEF FromBody, Outages
  <2>1. /\ DOMAIN Clauses[r] = 1 .. 1
        /\ Clauses[r][1] = <<"Exception", 503>>
    BY <1>5 DEF Clauses
  <2>2. \A j \in DOMAIN Clauses[r] : IsA(e, Clauses[r][j][1]) => 1 <= j
    BY <2>1
  <2>3. IsA(e, Clauses[r][1][1]) /\ 1 \in DOMAIN Clauses[r] /\ DOMAIN Clauses[r] \subseteq Nat
    BY <2>1, OutageClasses
  <2>4. Translated(r, e) = Clauses[r][1][2]
    BY <2>2, <2>3, FirstClause
  <2>5. QED
    BY <2>1, <2>4
<1>6. CASE r = "reset"
  <2> e = "Infrastructure"
    BY <1>6 DEF FromBody, Outages
  <2>1. /\ DOMAIN Clauses[r] = 1 .. 1
        /\ Clauses[r][1] = <<"Exception", 503>>
    BY <1>6 DEF Clauses
  <2>2. \A j \in DOMAIN Clauses[r] : IsA(e, Clauses[r][j][1]) => 1 <= j
    BY <2>1
  <2>3. IsA(e, Clauses[r][1][1]) /\ 1 \in DOMAIN Clauses[r] /\ DOMAIN Clauses[r] \subseteq Nat
    BY <2>1, OutageClasses
  <2>4. Translated(r, e) = Clauses[r][1][2]
    BY <2>2, <2>3, FirstClause
  <2>5. QED
    BY <2>1, <2>4
<1>7. CASE r = "me"
  <2> e = "Operational"
    BY <1>7 DEF FromBody, Outages
  <2>1. /\ DOMAIN Clauses[r] = 1 .. 3
        /\ Clauses[r][1] = <<"NotFound", 404>>
        /\ Clauses[r][2] = <<"SQLAlchemy", 503>>
    BY <1>7 DEF Clauses
  <2>2. \A j \in DOMAIN Clauses[r] : IsA(e, Clauses[r][j][1]) => 2 <= j
    BY <2>1, OutageClasses
  <2>3. IsA(e, Clauses[r][2][1]) /\ 2 \in DOMAIN Clauses[r] /\ DOMAIN Clauses[r] \subseteq Nat
    BY <2>1, OutageClasses
  <2>4. Translated(r, e) = Clauses[r][2][2]
    BY <2>2, <2>3, FirstClause
  <2>5. QED
    BY <2>1, <2>4
<1>8. CASE r = "list"
  <2> e = "Operational"
    BY <1>8 DEF FromBody, Outages
  <2>1. /\ DOMAIN Clauses[r] = 1 .. 2
        /\ Clauses[r][1] = <<"SQLAlchemy", 503>>
    BY <1>8 DEF Clauses
  <2>2. \A j \in DOMAIN Clauses[r] : IsA(e, Clauses[r][j][1]) => 1 <= j
    BY <2>1
  <2>3. IsA(e, Clauses[r][1][1]) /\ 1 \in DOMAIN Clauses[r] /\ DOMAIN Clauses[r] \subseteq Nat
    BY <2>1, OutageClasses
  <2>4. Translated(r, e) = Clauses[r][1][2]
    BY <2>2, <2>3, FirstClause
  <2>5. QED
    BY <2>1, <2>4
<1>9. CASE r = "account"
  <2> e = "Operational"
    BY <1>9 DEF FromBody, Outages
  <2>1. /\ DOMAIN Clauses[r] = 1 .. 5
        /\ Clauses[r][1] = <<"NotFound", 404>>
        /\ Clauses[r][2] = <<"Duplicate", 409>>
        /\ Clauses[r][3] = <<"Domain", 400>>
        /\ Clauses[r][4] = <<"SQLAlchemy", 503>>
    BY <1>9 DEF Clauses
  <2>2. \A j \in DOMAIN Clauses[r] : IsA(e, Clauses[r][j][1]) => 4 <= j
    BY <2>1, OutageClasses
  <2>3. IsA(e, Clauses[r][4][1]) /\ 4 \in DOMAIN Clauses[r] /\ DOMAIN Clauses[r] \subseteq Nat
    BY <2>1, OutageClasses
  <2>4. Translated(r, e) = Clauses[r][4][2]
    BY <2>2, <2>3, FirstClause
  <2>5. QED
    BY <2>1, <2>4
<1>10. r = "refresh" => e \in {"Operational", "Redis"}
  BY DEF FromBody, Outages
<1>11. r \in {"login", "signup", "refresh", "logout", "me", "list", "account", "reset"}
  BY DEF RouteNames, Clauses, FromBody
<1>12. QED
  BY <1>1, <1>2, <1>3, <1>4, <1>5, <1>6, <1>7, <1>8, <1>9, <1>10, <1>11

\* An outage is blamed on the client nowhere but in the bodies of login and
\* refresh.
THEOREM OutagesNotBlamed == ServiceSpec => OutageNotBlamedOnClient
<1>1. ServiceInv =>
        \A p \in Procs, e \in Outages : Raises(p, e) =>
          \/ StatusOf(p, e) >= 500
          \/ route[p] \in {"login", "refresh"} /\ part[p] = "body" /\ e = "Infrastructure"
  <2> SUFFICES ASSUME ServiceInv, NEW p \in Procs, NEW e \in Outages, Raises(p, e)
               PROVE  \/ StatusOf(p, e) >= 500
                      \/ /\ route[p] \in {"login", "refresh"} /\ part[p] = "body"
                         /\ e = "Infrastructure"
    OBVIOUS
  <2>1. CASE part[p] # "body"
    BY <2>1, OutageHandled DEF StatusOf
  <2>2. CASE part[p] = "body"
    <3>1. e \in FromBody[route[p]]
      BY <2>2 DEF Raises, Raisable
    <3>2. route[p] \in RouteNames
      BY <2>2, RoutesAssumption DEF ServiceInv, RequestsHaveRoutes
    <3>3. QED
      BY <2>2, <3>1, <3>2, OutageTranslated DEF StatusOf
  <2>3. QED
    BY <2>1, <2>2
<1>2. QED
  BY <1>1, Invariance, PTL DEF OutageNotBlamedOnClient
=============================================================================
