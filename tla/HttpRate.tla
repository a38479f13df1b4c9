-------------------------------- MODULE HttpRate --------------------------------
(***************************************************************************)
(* GlobalRateLimitMiddleware: the requests of one client to one path.       *)
(*                                                                         *)
(* A request belongs to the bucket of the clock in which it arrives; the    *)
(* bucket is part of the key it counts in, and it reaches Redis later.      *)
(* Buckets are numbered by their age, 0 for the one that the clock is in.   *)
(***************************************************************************)
EXTENDS Integers

CONSTANTS
  Callers,   \* requests in progress, over all workers
  Limit,     \* requests for each bucket
  Width,     \* length of a bucket in ticks
  MaxAge,    \* bound of the model: buckets that a request waits for Redis
  HitCap     \* bound of the model: a count above the limit stays there

ASSUME HttpRateAssumption ==
  /\ Limit \in Nat \ {0}
  /\ Width \in Nat \ {0}
  /\ MaxAge \in Nat
  /\ HitCap \in Nat
  /\ HitCap > Limit

Ages == 0 .. MaxAge
NotWaiting == MaxAge + 1

VARIABLES
  elapsed,  \* ticks since the current bucket began
  hits,     \* value of the key of each bucket, 0 if there is no such key
  life,     \* ticks before that key expires
  waits,    \* the age of the bucket of a request that waits for Redis
  passed    \* history: requests of the current bucket counted in it and let through

rateVars == <<elapsed, hits, life, waits, passed>>

RateTypeOK ==
  /\ elapsed \in 0 .. Width - 1
  /\ hits \in [Ages -> 0 .. HitCap]
  /\ life \in [Ages -> 0 .. Width + 1]
  /\ waits \in [Callers -> Ages \cup {NotWaiting}]
  /\ passed \in 0 .. HitCap

RateInit ==
  /\ elapsed = 0
  /\ hits = [a \in Ages |-> 0]
  /\ life = [a \in Ages |-> 0]
  /\ waits = [p \in Callers |-> NotWaiting]
  /\ passed = 0

\* dispatch computes the bucket, and with it the key, before it awaits Redis.
ComputeBucket(p) ==
  /\ waits[p] = NotWaiting
  /\ waits' = [waits EXCEPT ![p] = 0]
  /\ UNCHANGED <<elapsed, hits, life, passed>>

More(n) == IF n < HitCap THEN n + 1 ELSE HitCap

\* The count that INCR returns to p.
CountOf(p) == More(hits[waits[p]])

Within(n) == n <= Limit

\* Mutant: the key gets an expiry of one tick.
CountShortLived(p) ==
  /\ waits[p] # NotWaiting
  /\ hits' = [hits EXCEPT ![waits[p]] = More(@)]
  /\ life' = [life EXCEPT ![waits[p]] = 1]
  /\ passed' = IF waits[p] = 0 /\ Within(CountOf(p)) THEN passed + 1 ELSE passed
  /\ waits' = [waits EXCEPT ![p] = NotWaiting]
  /\ UNCHANGED elapsed

\* INCR and EXPIRE in one MULTI; refused requests count and renew the expiry too.
Count(p) ==
  /\ waits[p] # NotWaiting
  /\ hits' = [hits EXCEPT ![waits[p]] = More(@)]
  /\ life' = [life EXCEPT ![waits[p]] = Width + 1]
  /\ passed' = IF waits[p] = 0 /\ Within(CountOf(p)) THEN passed + 1 ELSE passed
  /\ waits' = [waits EXCEPT ![p] = NotWaiting]
  /\ UNCHANGED elapsed

\* Redis fails, before the MULTI or before its answer arrives: the request passes.
FailOpen(p) ==
  /\ waits[p] # NotWaiting
  /\ \/ UNCHANGED <<hits, life>>
     \/ /\ hits' = [hits EXCEPT ![waits[p]] = More(@)]
        /\ life' = [life EXCEPT ![waits[p]] = Width + 1]
  /\ waits' = [waits EXCEPT ![p] = NotWaiting]
  /\ UNCHANGED <<elapsed, passed>>

Shorter(n) == IF n > 0 THEN n - 1 ELSE 0

\* Keys expire.
HitsLater == [a \in Ages |-> IF life[a] > 1 THEN hits[a] ELSE 0]
LifeLater == [a \in Ages |-> Shorter(life[a])]

\* Mutant: the key does not name the bucket.
RollSameKey ==
  /\ elapsed = Width - 1
  /\ elapsed' = 0
  /\ passed' = 0
  /\ hits' = HitsLater
  /\ life' = LifeLater
  /\ waits' = [p \in Callers |-> waits[p]]

\* The clock enters the next bucket, whose key does not exist.
Roll ==
  /\ elapsed = Width - 1
  /\ \A p \in Callers : waits[p] # MaxAge
  /\ elapsed' = 0
  /\ passed' = 0
  /\ hits' = [a \in Ages |-> IF a = 0 THEN 0 ELSE HitsLater[a - 1]]
  /\ life' = [a \in Ages |-> IF a = 0 THEN 0 ELSE LifeLater[a - 1]]
  /\ waits' = [p \in Callers |-> IF waits[p] = NotWaiting THEN NotWaiting ELSE waits[p] + 1]

Elapse ==
  /\ elapsed < Width - 1
  /\ elapsed' = elapsed + 1
  /\ hits' = HitsLater
  /\ life' = LifeLater
  /\ UNCHANGED <<waits, passed>>

RateTick == Roll \/ Elapse
=============================================================================
