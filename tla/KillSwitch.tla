------------------------------- MODULE KillSwitch -------------------------------
(***************************************************************************)
(* The kill switch: KillSwitchMiddleware, engage_auto_kill, the exception   *)
(* handlers of main.py that call it, and the administrator's reset.         *)
(*                                                                         *)
(* Every worker looks at one Redis key, which holds the time at which the   *)
(* service resumes and expires after the same number of seconds.  Times are *)
(* ticks left, Sub of them to the second.                                   *)
(***************************************************************************)
EXTENDS Integers

CONSTANTS
  Procs,     \* requests in progress, over all workers
  Recovery,  \* recovery_seconds
  Sub,       \* ticks per second
  Manual     \* settings.KILL_SWITCH_ENABLED

ASSUME SwitchAssumption ==
  /\ Recovery \in Nat \ {0}
  /\ Sub \in Nat \ {0}
  /\ Manual \in BOOLEAN

Cooldown == Recovery * Sub

VARIABLES
  redisUp,  \* does Redis answer?
  until,    \* value of kill_switch:auto_kill_until: ticks before it
  key,      \* ticks before the key itself expires, 0 if there is no key
  step,     \* where a request stands: "idle", in its "route", to "engage"
  path,     \* what it asks for: "api", "reset" or a "whitelisted" path
  mine,     \* engage_auto_kill: ticks before the time it computed
  age       \* history: ticks since the latest infrastructure failure

vars == <<redisUp, until, key, step, path, mine, age>>

TypeOK ==
  /\ redisUp \in BOOLEAN
  /\ until \in 0 .. Cooldown
  /\ key \in 0 .. Cooldown
  /\ step \in [Procs -> {"idle", "route", "engage"}]
  /\ path \in [Procs -> {"none", "api", "reset", "whitelisted"}]
  /\ mine \in [Procs -> 0 .. Cooldown]
  /\ age \in 0 .. Cooldown

Init ==
  /\ redisUp \in BOOLEAN
  /\ until = 0
  /\ key = 0
  /\ step = [p \in Procs |-> "idle"]
  /\ path = [p \in Procs |-> "none"]
  /\ mine = [p \in Procs |-> 0]
  /\ age = Cooldown

\* _auto_kill_remaining in whole seconds, rounded down; it fails open.
Remaining == IF redisUp /\ key > 0 THEN until \div Sub ELSE 0

Active == Remaining > 0

Blocks(r) == r # "whitelisted" /\ (Manual \/ Active)

\* dispatch lets the request through to its route.
Pass(p, r) ==
  /\ step[p] = "idle"
  /\ ~Blocks(r)
  /\ step' = [step EXCEPT ![p] = "route"]
  /\ path' = [path EXCEPT ![p] = r]
  /\ UNCHANGED <<redisUp, until, key, mine, age>>

Finish(p) ==
  /\ step' = [step EXCEPT ![p] = "idle"]
  /\ path' = [path EXCEPT ![p] = "none"]
  /\ mine' = [mine EXCEPT ![p] = 0]

\* The route answers, or refuses; an application error is an answer too (500).
Answer(p) ==
  /\ step[p] = "route"
  /\ Finish(p)
  /\ UNCHANGED <<redisUp, until, key, age>>

\* Mutant: the time that is computed lies a second too far ahead.
FailureLonger(p) ==
  /\ step[p] = "route"
  /\ step' = [step EXCEPT ![p] = "engage"]
  /\ mine' = [mine EXCEPT ![p] = Cooldown + Sub]
  /\ age' = 0
  /\ UNCHANGED <<redisUp, until, key, path>>

\* An SQLAlchemyError, RedisError or InfrastructureError reaches the handlers
\* of main.py; engage_auto_kill computes the time, then waits for Redis.
Failure(p) ==
  /\ step[p] = "route"
  /\ step' = [step EXCEPT ![p] = "engage"]
  /\ mine' = [mine EXCEPT ![p] = Cooldown]
  /\ age' = 0
  /\ UNCHANGED <<redisUp, until, key, path>>

\* Mutant: SET without NX.
EngageOverwrites(p) ==
  /\ step[p] = "engage"
  /\ redisUp
  /\ until' = mine[p]
  /\ key' = Cooldown
  /\ Finish(p)
  /\ UNCHANGED <<redisUp, age>>

\* Mutant: the window is measured from the SET, not from the failure.
EngageLate(p) ==
  /\ step[p] = "engage"
  /\ redisUp
  /\ IF key = 0 THEN until' = Cooldown /\ key' = Cooldown ELSE UNCHANGED <<until, key>>
  /\ Finish(p)
  /\ UNCHANGED <<redisUp, age>>

\* SET NX EX: the first failure owns the window.
Engage(p) ==
  /\ step[p] = "engage"
  /\ redisUp
  /\ IF key = 0 THEN until' = mine[p] /\ key' = Cooldown ELSE UNCHANGED <<until, key>>
  /\ Finish(p)
  /\ UNCHANGED <<redisUp, age>>

\* Redis is down: the error is logged and the switch stays as it is.
EngageFails(p) ==
  /\ step[p] = "engage"
  /\ ~redisUp
  /\ Finish(p)
  /\ UNCHANGED <<redisUp, until, key, age>>

\* POST /reset-auto-kill by an administrator: DEL; without Redis the request
\* ends with an error and the switch stays as it is.
Reset(p) ==
  /\ step[p] = "route"
  /\ path[p] = "reset"
  /\ redisUp
  /\ until' = 0 /\ key' = 0
  /\ UNCHANGED <<redisUp, step, path, mine, age>>

RedisChanges == redisUp' = ~redisUp /\ UNCHANGED <<until, key, step, path, mine, age>>

Less(n) == IF n > 0 THEN n - 1 ELSE 0

Tick ==
  /\ until' = IF key > 1 THEN Less(until) ELSE 0
  /\ key' = Less(key)
  /\ mine' = [p \in Procs |-> Less(mine[p])]
  /\ age' = IF age < Cooldown THEN age + 1 ELSE age
  /\ UNCHANGED <<redisUp, step, path>>

Next ==
  \/ Tick \/ RedisChanges
  \/ \E p \in Procs :
       \/ \E r \in {"api", "reset", "whitelisted"} : Pass(p, r)
       \/ Answer(p) \/ Failure(p) \/ Engage(p) \/ EngageFails(p) \/ Reset(p)

Spec == Init /\ [][Next]_vars

\* Time passes.
FairSpec == Spec /\ WF_vars(Tick)

---------------------------------------------------------------------------
(* Properties.                                                             *)

\* While a window runs no failure of any worker lengthens it.
WindowNotExtended == [][key > 0 => until' <= until]_vars

\* Requests are turned away only within recovery_seconds of a failure: a slow
\* engage_auto_kill does not shift the window.
BlocksOnlyAfterFailure == Active => age < Cooldown

\* Automatic mode lets go of the service again and again, however often the
\* infrastructure fails meanwhile.
TrafficResumes == []<>~Active
---------------------------------------------------------------------------
(* The inductive invariant behind BlocksOnlyAfterFailure.                   *)

\* No window, set or about to be set, ends later than Cooldown after the latest
\* failure.
WindowsFromFailures ==
  /\ until + age <= Cooldown
  /\ \A p \in Procs : mine[p] + age <= Cooldown

SwitchInv == TypeOK /\ WindowsFromFailures /\ BlocksOnlyAfterFailure
=============================================================================
