--------------------------------- MODULE Intake ---------------------------------
(***************************************************************************)
(* A login request on its way in: the HTTP rate limit, the limits on its    *)
(* body, and the login throttle of the route.                               *)
(***************************************************************************)
EXTENDS LoginRate, HttpRate, BodyLimits

ASSUME SameRequests == Callers = Procs

NoBody == [wire |-> 0, plain |-> 0, seen |-> 0]

VARIABLES
  stage,  \* "idle", "counting", "body" or "login"
  body    \* of a request in the route: bytes sent, meant and read

intakeVars == <<stage, body>>
allVars == <<vars, rateVars, intakeVars>>

IntakeTypeOK ==
  /\ TypeOK
  /\ RateTypeOK
  /\ stage \in [Procs -> {"idle", "counting", "body", "login"}]
  /\ body \in [Procs -> [wire : Sizes, plain : Sizes, seen : 0 .. MaxSize + 1]]

IntakeInit ==
  /\ Init
  /\ RateInit
  /\ stage = [p \in Procs |-> "idle"]
  /\ body = [p \in Procs |-> NoBody]

To(p, s) == stage' = [stage EXCEPT ![p] = s]

Arrive(p) ==
  /\ stage[p] = "idle"
  /\ ComputeBucket(p)
  /\ To(p, "counting")
  /\ UNCHANGED <<vars, body>>

\* 429, or on to the body.
Counted(p) ==
  /\ stage[p] = "counting"
  /\ Count(p)
  /\ To(p, IF Within(CountOf(p)) THEN "body" ELSE "idle")
  /\ UNCHANGED <<vars, body>>

NotCounted(p) ==
  /\ stage[p] = "counting"
  /\ FailOpen(p)
  /\ To(p, "body")
  /\ UNCHANGED <<vars, body>>

\* 400 or 413, or on to the route.
CheckBody(p, b) ==
  /\ stage[p] = "body"
  /\ IF Reaches(b)
     THEN /\ To(p, "login")
          /\ body' = [body EXCEPT ![p] = [wire |-> b.wire, plain |-> b.plain, seen |-> Seen(b)]]
     ELSE To(p, "idle") /\ UNCHANGED body
  /\ UNCHANGED <<vars, rateVars>>

Leave(p) == To(p, "idle") /\ body' = [body EXCEPT ![p] = NoBody]

\* check_login_rate in the route; the rest of the login is left out.
Throttle(p) ==
  /\ stage[p] = "login"
  /\ Attempt(p)
  /\ IF key'[p] # NoKey THEN UNCHANGED intakeVars ELSE Leave(p)
  /\ UNCHANGED rateVars

\* The clock of Redis and the clock of the workers.
Clock ==
  /\ RateTick
  /\ Tick \/ ((\A k \in Keys : left[k] = 0) /\ UNCHANGED vars)
  /\ UNCHANGED intakeVars

IntakeNext ==
  \/ Clock
  \/ \E p \in Procs :
       \/ Arrive(p) \/ Counted(p) \/ NotCounted(p) \/ Throttle(p)
       \/ \E b \in Bodies : CheckBody(p, b)

IntakeSpec == IntakeInit /\ [][IntakeNext]_allVars

\* Time passes, a request that waits for Redis is answered, and one that Redis
\* and its worker serve goes on.
IntakeFairness ==
  /\ WF_allVars(Clock)
  /\ \A p \in Procs :
       /\ WF_allVars(Counted(p) \/ NotCounted(p))
       /\ WF_allVars(SetExpiry(p) /\ Throttle(p))

IntakeFairSpec == IntakeSpec /\ IntakeFairness

---------------------------------------------------------------------------
(* Properties, beside those of LoginRate.                                  *)

\* Of the requests that arrive in a bucket and are counted before it ends at
\* most Limit pass, although EXPIRE is renewed and late requests of older
\* buckets are counted meanwhile.
WithinBucketLimit == passed <= Limit

\* A client is let in again and again, however many of its requests are refused
\* and renew the expiry of their key meanwhile.
RateLimitEnds == []<>(hits[0] < Limit)

\* The route reads the whole body that was meant, however it was sent, and never
\* one above the limits: a longer one is refused, not cut off.
WholeBodyWithinLimit ==
  \A p \in Procs : stage[p] = "login" =>
    /\ body[p].wire <= BodyLimit
    /\ body[p].seen <= IF body[p].seen = body[p].wire THEN BodyLimit ELSE MaxDecompressed
    /\ EnableGzip => body[p].seen = body[p].plain
---------------------------------------------------------------------------
(* The inductive invariant behind the safety properties.                    *)

\* The key of the current bucket outlives the bucket.
KeyOutlivesBucket == hits[0] > 0 => life[0] + elapsed > Width

PassedWereCounted == passed <= hits[0]

RateInv == RateTypeOK /\ KeyOutlivesBucket /\ PassedWereCounted /\ WithinBucketLimit

IntakeInv == IntakeTypeOK /\ ThrottleInv /\ RateInv /\ WholeBodyWithinLimit
=============================================================================
