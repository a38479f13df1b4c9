------------------------------ MODULE IntakeProofs ------------------------------
(***************************************************************************)
(* Proofs about Intake, for any keys, callers, limits, windows and sizes.   *)
(* The login throttle, the HTTP limit and the body each have an invariant   *)
(* of their own, and a step keeps the ones whose variables it leaves alone. *)
(***************************************************************************)
EXTENDS Intake, TLAPS

BodiesInv ==
  /\ stage \in [Procs -> {"idle", "counting", "body", "login"}]
  /\ body \in [Procs -> [wire : Sizes, plain : Sizes, seen : 0 .. MaxSize + 1]]
  /\ WholeBodyWithinLimit

\* The invariant is about the throttle, the HTTP limit and the bodies, one by one.
LEMMA Parts == IntakeInv <=> ThrottleInv /\ RateInv /\ BodiesInv
  BY DEF IntakeInv, IntakeTypeOK, ThrottleInv, RateInv, BodiesInv

\* The counters start in their ranges.
LEMMA CountersStart ==
  /\ 0 \in 0 .. CountCap /\ 1 \in 0 .. CountCap
  /\ 0 \in 0 .. Window /\ Window \in 0 .. Window
  /\ 0 \in 0 .. HitCap /\ 0 \in Ages /\ 0 \in 0 .. Width + 1 /\ Width + 1 \in 0 .. Width + 1
  /\ 0 \in 0 .. Width - 1 /\ 0 <= Limit /\ 0 <= MaxAttempts
  /\ 0 \in Sizes /\ 0 \in 0 .. MaxSize + 1
  BY RateAssumption, HttpRateAssumption, BodyAssumption DEF Ages, Sizes

\* Nothing is counted and nobody waits.
LEMMA InitInvariant == IntakeInit => IntakeInv
<1> SUFFICES ASSUME IntakeInit PROVE ThrottleInv /\ RateInv /\ BodiesInv
  BY Parts
<1>1. ThrottleInv
  <2>1. TypeOK
    BY CountersStart DEF IntakeInit, Init, TypeOK
  <2>2. OnePending /\ PendingKeyStays /\ GrantedWereCounted /\ AttemptsBounded
    BY RateAssumption, CountersStart
    DEF IntakeInit, Init, OnePending, Pending, PendingKeyStays, GrantedWereCounted, AttemptsBounded
  <2>3. QED
    BY <2>1, <2>2 DEF ThrottleInv
<1>2. RateInv
  <2>1. RateTypeOK
    BY CountersStart DEF IntakeInit, RateInit, RateTypeOK
  <2>2. KeyOutlivesBucket /\ PassedWereCounted /\ WithinBucketLimit
    BY CountersStart
    DEF IntakeInit, RateInit, KeyOutlivesBucket, PassedWereCounted, WithinBucketLimit
  <2>3. QED
    BY <2>1, <2>2 DEF RateInv
<1>3. BodiesInv
  <2>1. NoBody \in [wire : Sizes, plain : Sizes, seen : 0 .. MaxSize + 1]
    BY CountersStart DEF NoBody
  <2>2. QED
    BY <2>1 DEF IntakeInit, BodiesInv, WholeBodyWithinLimit
<1>4. QED
  BY <1>1, <1>2, <1>3

---------------------------------------------------------------------------
(* The login throttle.                                                     *)

\* The attempt that creates the key: nobody else has its expiry to set.
LEMMA FirstAttemptPreserves ==
  ASSUME ThrottleInv, NEW p \in Procs, NEW k \in Keys, FirstAttempt(p, k)
  PROVE  ThrottleInv'
<1> USE DEF ThrottleInv, FirstAttempt
<1>1. \A q \in Procs : key[q] # k
  BY DEF PendingKeyStays, Pending
<1>2. left[k] = 0 /\ granted[k] = 0
  BY DEF PendingKeyStays, GrantedWereCounted, TypeOK
<1>3. TypeOK'
  BY CountersStart DEF TypeOK
<1>4. OnePending'
  BY <1>1 DEF OnePending, TypeOK
<1>5. \A j \in Keys : j # k => (Pending(j)' <=> Pending(j))
  BY RateAssumption DEF Pending, TypeOK
<1>6. PendingKeyStays'
  BY <1>2, <1>5 DEF PendingKeyStays, TypeOK
<1>7. GrantedWereCounted'
  BY <1>2, <1>5, RateAssumption DEF GrantedWereCounted, TypeOK
<1>8. AttemptsBounded'
  BY DEF AttemptsBounded
<1>9. QED
  BY <1>3, <1>4, <1>6, <1>7, <1>8

\* A later attempt is let through on a count that no other one has.
LEMMA LaterAttemptPreserves ==
  ASSUME ThrottleInv, NEW p \in Procs, NEW k \in Keys, LaterAttempt(p, k)
  PROVE  ThrottleInv'
<1> USE DEF ThrottleInv, LaterAttempt, Grant, Allowed
<1> DEFINE n == Incremented(count[k])
<1>1. /\ granted[k] \in Nat /\ count[k] \in Nat /\ MaxAttempts \in Nat /\ CountCap \in Nat
      /\ granted[k] <= count[k]
      /\ n \in 0 .. CountCap /\ count[k] <= n
      /\ n <= MaxAttempts => n = count[k] + 1
  BY RateAssumption DEF TypeOK, GrantedWereCounted, Incremented
<1>2. /\ \A j \in Keys : j # k => granted'[j] = granted[j] /\ count'[j] = count[j]
      /\ count'[k] = n
      /\ granted'[k] = IF n <= MaxAttempts THEN granted[k] + 1 ELSE granted[k]
  BY DEF TypeOK
<1> HIDE DEF n
<1>3. TypeOK'
  <2>1. count' \in [Keys -> 0 .. CountCap]
    BY <1>1, <1>2 DEF TypeOK
  <2>2. granted' \in [Keys -> 0 .. CountCap]
    <3>1. granted'[k] \in 0 .. CountCap
      BY <1>1, <1>2 DEF TypeOK
    <3>2. QED
      BY <1>2, <3>1 DEF TypeOK
  <2>3. QED
    BY <2>1, <2>2 DEF TypeOK
<1>4. OnePending' /\ \A j \in Keys : Pending(j)' <=> Pending(j)
  BY DEF OnePending, Pending
<1>5. PendingKeyStays'
  BY <1>1, <1>2, <1>4 DEF PendingKeyStays
<1>6. GrantedWereCounted'
  BY <1>1, <1>2, <1>4 DEF GrantedWereCounted
<1>7. AttemptsBounded'
  BY <1>1, <1>2 DEF AttemptsBounded
<1>8. QED
  BY <1>3, <1>4, <1>5, <1>6, <1>7

\* The expiry is set on the key that its request created, which is still there.
LEMMA SetExpiryPreserves ==
  ASSUME ThrottleInv, NEW p \in Procs, SetExpiry(p)
  PROVE  ThrottleInv'
<1> DEFINE k == key[p]
<1> USE DEF ThrottleInv, SetExpiry, Grant, Allowed
<1>1. /\ k \in Keys /\ Pending(k) /\ count[k] > 0
      /\ granted[k] < count[k] /\ granted[k] < MaxAttempts
  BY DEF TypeOK, Pending, PendingKeyStays, GrantedWereCounted
<1>2. /\ left' = [left EXCEPT ![k] = Window]
      /\ granted' = [granted EXCEPT ![k] = @ + 1]
      /\ key' = [key EXCEPT ![p] = NoKey] /\ count' = count
  BY <1>1, RateAssumption
<1>3. /\ granted[k] \in Nat /\ count[k] \in Nat /\ count[k] <= CountCap
      /\ MaxAttempts \in Nat /\ CountCap \in Nat
  BY <1>1, RateAssumption DEF TypeOK
<1>4. TypeOK'
  <2>1. granted' \in [Keys -> 0 .. CountCap]
    BY <1>1, <1>2, <1>3 DEF TypeOK
  <2>2. QED
    BY <1>2, <2>1, CountersStart DEF TypeOK
<1>5. \A q \in Procs : q # p => key[q] # k /\ key'[q] = key[q]
  BY <1>1, <1>2, RateAssumption DEF OnePending, TypeOK
<1>6. OnePending'
  BY <1>2, <1>5 DEF OnePending, TypeOK
<1>7. \A j \in Keys : Pending(j)' => j # key[p] /\ Pending(j)
  BY <1>2, <1>5, RateAssumption DEF Pending, TypeOK
<1>8. PendingKeyStays'
  BY <1>1, <1>2, <1>7 DEF PendingKeyStays, TypeOK
<1>9. GrantedWereCounted' /\ AttemptsBounded'
  BY <1>1, <1>2, <1>3, <1>7 DEF GrantedWereCounted, AttemptsBounded, TypeOK
<1>10. QED
  BY <1>4, <1>6, <1>8, <1>9

\* A request that fails after its INCR leaves a key without an expiry.
LEMMA FailBeforeExpiryPreserves ==
  ASSUME ThrottleInv, NEW p \in Procs, FailBeforeExpiry(p)
  PROVE  ThrottleInv'
<1> USE DEF ThrottleInv, FailBeforeExpiry
<1>1. TypeOK' /\ OnePending'
  BY DEF TypeOK, OnePending
<1>2. \A j \in Keys : Pending(j)' => Pending(j)
  BY RateAssumption DEF Pending, TypeOK
<1>3. PendingKeyStays' /\ GrantedWereCounted' /\ AttemptsBounded'
  BY <1>2 DEF PendingKeyStays, GrantedWereCounted, AttemptsBounded
<1>4. QED
  BY <1>1, <1>3

\* A key that goes takes its count and its history with it.
LEMMA TickPreserves ==
  ASSUME ThrottleInv, Tick
  PROVE  ThrottleInv'
<1> USE DEF ThrottleInv, Tick
<1>1. \A k \in Keys :
        /\ left'[k] = IF left[k] > 0 THEN left[k] - 1 ELSE 0
        /\ count'[k] = IF left[k] = 1 THEN 0 ELSE count[k]
        /\ granted'[k] = IF left[k] = 1 THEN 0 ELSE granted[k]
  OBVIOUS
<1>2. TypeOK'
  <2>1. \A k \in Keys : left'[k] \in 0 .. Window
    BY <1>1, RateAssumption DEF TypeOK
  <2>2. \A k \in Keys : count'[k] \in 0 .. CountCap /\ granted'[k] \in 0 .. CountCap
    BY <1>1, CountersStart DEF TypeOK
  <2>3. QED
    BY <2>1, <2>2 DEF TypeOK
<1>3. OnePending' /\ \A k \in Keys : Pending(k)' <=> Pending(k)
  BY DEF OnePending, Pending
<1>4. PendingKeyStays' /\ GrantedWereCounted'
  BY <1>1, <1>3 DEF PendingKeyStays, GrantedWereCounted, TypeOK
<1>5. AttemptsBounded'
  BY <1>1, CountersStart DEF AttemptsBounded
<1>6. QED
  BY <1>2, <1>3, <1>4, <1>5

\* Steps elsewhere leave the throttle alone.
LEMMA ThrottleStutters == ThrottleInv /\ UNCHANGED vars => ThrottleInv'
  BY DEF vars, ThrottleInv, TypeOK, OnePending, Pending, PendingKeyStays, GrantedWereCounted,
         AttemptsBounded

\* Every step of an attempt keeps the throttle's invariant.
LEMMA AttemptPreserves ==
  ASSUME ThrottleInv, NEW p \in Procs, Attempt(p)
  PROVE  ThrottleInv'
  BY FirstAttemptPreserves, LaterAttemptPreserves, SetExpiryPreserves, FailBeforeExpiryPreserves
  DEF Attempt

---------------------------------------------------------------------------
(* The HTTP rate limit.                                                    *)

\* One more, up to the cap that lies above the limit.
LEMMA MoreFacts ==
  ASSUME NEW n \in 0 .. HitCap
  PROVE  /\ More(n) \in 0 .. HitCap /\ n <= More(n) /\ More(n) > 0
         /\ Within(More(n)) => More(n) = n + 1
  BY HttpRateAssumption DEF More, Within

\* Time takes a tick of the life of each key, and a key with more than one stays.
LEMMA LaterFacts ==
  ASSUME RateInv, NEW a \in Ages
  PROVE  /\ HitsLater[a] \in 0 .. HitCap /\ LifeLater[a] \in 0 .. Width + 1
         /\ HitsLater[a] > 0 => life[a] > 1 /\ LifeLater[a] = life[a] - 1
         /\ life[a] > 1 => HitsLater[a] = hits[a]
<1>1. hits[a] \in 0 .. HitCap /\ life[a] \in 0 .. Width + 1
  BY DEF RateInv, RateTypeOK
<1>2. /\ HitsLater[a] = IF life[a] > 1 THEN hits[a] ELSE 0
      /\ LifeLater[a] = IF life[a] > 0 THEN life[a] - 1 ELSE 0
  BY DEF HitsLater, LifeLater, Shorter
<1>3. QED
  BY <1>1, <1>2, HttpRateAssumption

\* A request is counted in the bucket it arrived in, and passes or not.
LEMMA CountPreserves ==
  ASSUME RateInv, NEW p \in Callers, waits[p] \in Ages,
         hits' = [hits EXCEPT ![waits[p]] = More(@)],
         life' = [life EXCEPT ![waits[p]] = Width + 1],
         \/ passed' = passed
         \/ waits[p] = 0 /\ Within(CountOf(p)) /\ passed' = passed + 1,
         waits' = [waits EXCEPT ![p] = NotWaiting], elapsed' = elapsed
  PROVE  RateInv'
<1> USE DEF RateInv
<1>1. hits[waits[p]] \in 0 .. HitCap
  BY DEF RateTypeOK
<1>2. hits' \in [Ages -> 0 .. HitCap] /\ life' \in [Ages -> 0 .. Width + 1]
  BY <1>1, MoreFacts, CountersStart DEF RateTypeOK
<1>3. hits'[0] = (IF waits[p] = 0 THEN More(hits[0]) ELSE hits[0]) /\ hits[0] \in 0 .. HitCap
  BY CountersStart DEF RateTypeOK
<1>4. hits'[0] \in 0 .. HitCap /\ hits[0] <= hits'[0]
  BY <1>1, <1>3, MoreFacts
<1>5. passed' <= hits'[0] /\ passed' <= Limit /\ passed' \in 0 .. HitCap
  <2>1. CASE passed' = passed
    BY <1>3, <1>4, <2>1 DEF RateTypeOK, PassedWereCounted, WithinBucketLimit
  <2>2. CASE waits[p] = 0 /\ Within(CountOf(p)) /\ passed' = passed + 1
    <3>1. More(hits[0]) = hits[0] + 1 /\ hits[0] + 1 <= Limit
      BY <1>1, <2>2, MoreFacts DEF CountOf, Within
    <3>2. QED
      BY <1>3, <1>4, <2>2, <3>1, HttpRateAssumption DEF RateTypeOK, PassedWereCounted
  <2>3. QED
    BY <2>1, <2>2
<1>6. RateTypeOK'
  <2>1. waits' \in [Callers -> Ages \cup {NotWaiting}]
    BY DEF RateTypeOK
  <2>2. QED
    BY <1>2, <1>5, <2>1 DEF RateTypeOK
<1>7. KeyOutlivesBucket'
  <2>1. CASE waits[p] = 0
    <3>1. life'[0] = Width + 1
      BY <2>1, CountersStart DEF RateTypeOK
    <3>2. QED
      BY <3>1, HttpRateAssumption DEF KeyOutlivesBucket, RateTypeOK
  <2>2. CASE waits[p] # 0
    <3>1. life'[0] = life[0] /\ hits'[0] = hits[0]
      BY <2>2, CountersStart DEF RateTypeOK
    <3>2. QED
      BY <3>1 DEF KeyOutlivesBucket
  <2>3. QED
    BY <2>1, <2>2
<1>8. QED
  BY <1>5, <1>6, <1>7 DEF PassedWereCounted, WithinBucketLimit

\* Ages of buckets and the mark of a request that waits for none.
LEMMA AgeFacts ==
  /\ NotWaiting \notin Ages /\ 0 \in Ages
  /\ \A a \in Ages : a # 0 => a - 1 \in Ages
  /\ \A a \in Ages : a # MaxAge => a + 1 \in Ages
  BY HttpRateAssumption DEF Ages, NotWaiting

\* A request that computes its bucket or counts itself passes only if counted.
LEMMA CallPreserves ==
  ASSUME RateInv, NEW p \in Callers, ComputeBucket(p) \/ Count(p) \/ FailOpen(p)
  PROVE  RateInv'
<1>1. CASE ComputeBucket(p)
  BY <1>1, AgeFacts
  DEF ComputeBucket, RateInv, RateTypeOK, KeyOutlivesBucket, PassedWereCounted, WithinBucketLimit
<1>2. CASE Count(p)
  <2>1. waits[p] \in Ages
    BY <1>2 DEF Count, RateInv, RateTypeOK
  <2>2. QED
    BY <1>2, <2>1, CountPreserves DEF Count
<1>3. CASE FailOpen(p)
  <2>1. waits[p] \in Ages
    BY <1>3 DEF FailOpen, RateInv, RateTypeOK
  <2>2. CASE UNCHANGED <<hits, life>>
    BY <1>3, <2>2
    DEF FailOpen, RateInv, RateTypeOK, KeyOutlivesBucket, PassedWereCounted, WithinBucketLimit
  <2>3. CASE /\ hits' = [hits EXCEPT ![waits[p]] = More(@)]
             /\ life' = [life EXCEPT ![waits[p]] = Width + 1]
    BY <1>3, <2>1, <2>3, CountPreserves DEF FailOpen
  <2>4. QED
    BY <1>3, <2>2, <2>3 DEF FailOpen
<1>4. QED
  BY <1>1, <1>2, <1>3

\* The next bucket starts from nothing.
LEMMA RollPreserves ==
  ASSUME RateInv, Roll
  PROVE  RateInv'
<1> USE DEF Roll
<1>1. \A a \in Ages : hits'[a] \in 0 .. HitCap /\ life'[a] \in 0 .. Width + 1
  BY AgeFacts, LaterFacts, CountersStart
<1>2. \A p \in Callers : waits'[p] \in Ages \cup {NotWaiting}
  BY AgeFacts DEF RateInv, RateTypeOK
<1>3. RateTypeOK'
  BY <1>1, <1>2, CountersStart DEF RateTypeOK
<1>4. hits'[0] = 0 /\ passed' = 0
  BY AgeFacts
<1>5. KeyOutlivesBucket' /\ PassedWereCounted' /\ WithinBucketLimit'
  BY <1>4, CountersStart DEF KeyOutlivesBucket, PassedWereCounted, WithinBucketLimit
<1>6. QED
  BY <1>3, <1>5 DEF RateInv

\* Within a bucket its key cannot expire: it was given more than the width.
LEMMA ElapsePreserves ==
  ASSUME RateInv, Elapse
  PROVE  RateInv'
<1> USE DEF Elapse
<1>1. hits' \in [Ages -> 0 .. HitCap] /\ life' \in [Ages -> 0 .. Width + 1]
  BY LaterFacts DEF HitsLater, LifeLater
<1>2. elapsed \in 0 .. Width - 1 /\ elapsed + 1 \in 0 .. Width - 1 /\ Width \in Nat
  BY HttpRateAssumption DEF RateInv, RateTypeOK
<1>3. RateTypeOK'
  BY <1>1, <1>2 DEF RateTypeOK, RateInv
<1>4. /\ hits[0] \in 0 .. HitCap /\ life[0] \in 0 .. Width + 1
      /\ hits'[0] \in 0 .. HitCap /\ life'[0] \in 0 .. Width + 1
  BY <1>1, AgeFacts DEF RateInv, RateTypeOK
<1>5. hits[0] > 0 => life[0] > 1
  BY <1>2, <1>4 DEF RateInv, KeyOutlivesBucket
<1>6. hits'[0] = hits[0]
  BY <1>4, <1>5, AgeFacts, LaterFacts
<1>7. KeyOutlivesBucket'
  <2>1. hits'[0] > 0 => life'[0] = life[0] - 1
    BY AgeFacts, LaterFacts
  <2>2. QED
    BY <1>2, <1>4, <1>6, <2>1 DEF RateInv, KeyOutlivesBucket
<1>8. PassedWereCounted' /\ WithinBucketLimit'
  BY <1>6 DEF RateInv, PassedWereCounted, WithinBucketLimit
<1>9. QED
  BY <1>3, <1>7, <1>8 DEF RateInv

\* Steps elsewhere leave the HTTP limit alone.
LEMMA RateStutters == RateInv /\ UNCHANGED rateVars => RateInv'
  BY DEF rateVars, RateInv, RateTypeOK, KeyOutlivesBucket, PassedWereCounted, WithinBucketLimit

---------------------------------------------------------------------------
(* Bodies.                                                                 *)

\* A body that passes both middlewares is within the limits, and whole.
LEMMA ReachingBodies ==
  ASSUME NEW b \in Bodies, Reaches(b)
  PROVE  /\ [wire |-> b.wire, plain |-> b.plain, seen |-> Seen(b)]
              \in [wire : Sizes, plain : Sizes, seen : 0 .. MaxSize + 1]
         /\ b.wire <= BodyLimit
         /\ Seen(b) <= IF Seen(b) = b.wire THEN BodyLimit ELSE MaxDecompressed
         /\ EnableGzip => Seen(b) = b.plain
<1>1. /\ b.framing \in {"length", "chunked", "none", "invalid"}
      /\ b.wire \in Sizes /\ b.plain \in Sizes
      /\ b.framing = "none" => b.wire = 0
      /\ b.wire = 0 => b.plain = 0
      /\ ~b.gzip => b.plain = b.wire
  BY DEF Bodies
<1>2. b.wire <= BodyLimit
  BY <1>1, BodyAssumption DEF Reaches, SizeCheck, Sizes
<1>3. Inflates(b) => Decompressed(b) <= MaxDecompressed /\ Decompressed(b) = b.plain
  <2>1. Inflates(b) => ~(Decompressed(b) > MaxDecompressed)
    BY DEF Reaches, GzipCheck
  <2>2. QED
    BY <1>1, <2>1, BodyAssumption DEF Decompressed, Sizes
<1>4. Seen(b) = IF Inflates(b) THEN b.plain ELSE b.wire
  BY <1>3 DEF Seen
<1>5. Seen(b) \in 0 .. MaxSize + 1
  BY <1>1, <1>4, BodyAssumption DEF Sizes
<1>6. Seen(b) <= IF Seen(b) = b.wire THEN BodyLimit ELSE MaxDecompressed
  BY <1>2, <1>3, <1>4
<1>7. EnableGzip => Seen(b) = b.plain
  BY <1>1, <1>4, BodyAssumption DEF Inflates, Sizes
<1>8. QED
  BY <1>1, <1>2, <1>5, <1>6, <1>7

LEMMA CheckBodyPreserves ==
  ASSUME BodiesInv, NEW p \in Procs, NEW b \in Bodies, CheckBody(p, b)
  PROVE  BodiesInv'
<1>1. CASE Reaches(b)
  <2> DEFINE new == [wire |-> b.wire, plain |-> b.plain, seen |-> Seen(b)]
  <2>1. /\ stage' = [stage EXCEPT ![p] = "login"]
        /\ body' = [body EXCEPT ![p] = new]
    BY <1>1 DEF CheckBody, To
  <2>2. /\ new \in [wire : Sizes, plain : Sizes, seen : 0 .. MaxSize + 1]
        /\ new.wire <= BodyLimit
        /\ new.seen <= IF new.seen = new.wire THEN BodyLimit ELSE MaxDecompressed
        /\ EnableGzip => new.seen = new.plain
    BY <1>1, ReachingBodies
  <2> HIDE DEF new
  <2>3. QED
    BY <2>1, <2>2 DEF BodiesInv, WholeBodyWithinLimit
<1>2. CASE ~Reaches(b)
  BY <1>2 DEF CheckBody, To, BodiesInv, WholeBodyWithinLimit
<1>3. QED
  BY <1>1, <1>2

\* A request that leaves takes its body with it.
LEMMA LeavePreserves ==
  ASSUME BodiesInv, NEW p \in Procs, Leave(p)
  PROVE  BodiesInv'
<1>1. NoBody \in [wire : Sizes, plain : Sizes, seen : 0 .. MaxSize + 1]
  BY CountersStart DEF NoBody
<1>2. QED
  BY <1>1 DEF Leave, To, BodiesInv, WholeBodyWithinLimit

\* A request before the login route has read no body.
LEMMA MovePreserves ==
  ASSUME BodiesInv, NEW p \in Procs, NEW s \in {"idle", "counting", "body"}, To(p, s), body' = body
  PROVE  BodiesInv'
  BY DEF To, BodiesInv, WholeBodyWithinLimit

\* Steps elsewhere leave the bodies alone.
LEMMA BodiesStutter == BodiesInv /\ UNCHANGED intakeVars => BodiesInv'
  BY DEF intakeVars, BodiesInv, WholeBodyWithinLimit

---------------------------------------------------------------------------
(* The three together.                                                     *)

\* Every step of a request keeps the three invariants.
LEMMA RequestPreserves ==
  ASSUME ThrottleInv, RateInv, BodiesInv, NEW p \in Procs,
         \/ Arrive(p) \/ Counted(p) \/ NotCounted(p) \/ Throttle(p)
         \/ \E b \in Bodies : CheckBody(p, b)
  PROVE  ThrottleInv' /\ RateInv' /\ BodiesInv'
<1> USE SameRequests
<1>1. CASE Arrive(p)
  BY <1>1, ThrottleStutters, CallPreserves, MovePreserves DEF Arrive
<1>2. CASE Counted(p)
  BY <1>2, ThrottleStutters, CallPreserves, MovePreserves DEF Counted
<1>3. CASE NotCounted(p)
  BY <1>3, ThrottleStutters, CallPreserves, MovePreserves DEF NotCounted
<1>4. CASE Throttle(p)
  BY <1>4, AttemptPreserves, RateStutters, LeavePreserves, BodiesStutter DEF Throttle
<1>5. ASSUME NEW b \in Bodies, CheckBody(p, b) PROVE ThrottleInv' /\ RateInv' /\ BodiesInv'
  BY <1>5, ThrottleStutters, RateStutters, CheckBodyPreserves DEF CheckBody
<1>6. QED
  BY <1>1, <1>2, <1>3, <1>4, <1>5

\* Every step keeps the invariant.
LEMMA StepPreserves == IntakeInv /\ [IntakeNext]_allVars => IntakeInv'
<1> SUFFICES ASSUME ThrottleInv, RateInv, BodiesInv, [IntakeNext]_allVars
             PROVE  ThrottleInv' /\ RateInv' /\ BodiesInv'
  BY Parts DEF IntakeInv, IntakeTypeOK, BodiesInv, ThrottleInv, RateInv
<1>1. CASE UNCHANGED allVars
  BY <1>1, ThrottleStutters, RateStutters, BodiesStutter DEF allVars
<1>2. CASE Clock
  BY <1>2, TickPreserves, ThrottleStutters, RollPreserves, ElapsePreserves, BodiesStutter
  DEF Clock, RateTick
<1>3. QED
  BY <1>1, <1>2, RequestPreserves DEF IntakeNext

\* Counters, expiries and bodies fit together for any number of requests.
THEOREM Invariance == IntakeSpec => []IntakeInv
BY InitInvariant, StepPreserves, PTL DEF IntakeSpec

\* No order of INCR, EXPIRE and failures lets more attempts through than allowed.
THEOREM ThrottleHolds == IntakeSpec => []AttemptsBounded
<1>1. IntakeInv => AttemptsBounded
  BY DEF IntakeInv, ThrottleInv
<1>2. QED
  BY <1>1, Invariance, PTL

\* No order of late and renewed counts lets more requests of a bucket pass.
THEOREM BucketLimitHolds == IntakeSpec => []WithinBucketLimit
<1>1. IntakeInv => WithinBucketLimit
  BY DEF IntakeInv, RateInv
<1>2. QED
  BY <1>1, Invariance, PTL

\* The route reads whole bodies within the limits.
THEOREM BodiesWhole == IntakeSpec => []WholeBodyWithinLimit
<1>1. IntakeInv => WholeBodyWithinLimit
  BY DEF IntakeInv
<1>2. QED
  BY <1>1, Invariance, PTL
=============================================================================
