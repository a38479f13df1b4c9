-------------------------------- MODULE LoginRate --------------------------------
(***************************************************************************)
(* The login throttle: token_store.check_login_rate, called first by        *)
(* AuthService.login_user.                                                  *)
(*                                                                         *)
(* A key login_attempts:{identifier}:{ip} counts the attempts.  The first   *)
(* attempt creates the key by INCR and gives it its expiry by a second      *)
(* command; requests of other workers, and a failure, fit between the two.  *)
(***************************************************************************)
EXTENDS Integers

CONSTANTS
  Keys,         \* normalised identifier and client ip
  Procs,        \* login requests in progress
  MaxAttempts,  \* settings.MAX_LOGIN_ATTEMPTS or 4
  Window,       \* settings.REFRESH_TOKEN_TTL_SECONDS or 300, in ticks
  CountCap,     \* bound of the model: a count above the limit stays there
  NoKey

ASSUME RateAssumption ==
  /\ NoKey \notin Keys
  /\ MaxAttempts \in Nat \ {0}
  /\ Window \in Nat \ {0}
  /\ CountCap \in Nat
  /\ CountCap > MaxAttempts

VARIABLES
  count,    \* value of the key, 0 if there is no such key
  left,     \* ticks before the key expires, 0 if it has no expiry
  key,      \* the key whose expiry a request has still to set
  granted   \* history: attempts let through since the key was created

vars == <<count, left, key, granted>>

TypeOK ==
  /\ count \in [Keys -> 0 .. CountCap]
  /\ left \in [Keys -> 0 .. Window]
  /\ key \in [Procs -> Keys \cup {NoKey}]
  /\ granted \in [Keys -> 0 .. CountCap]

Init ==
  /\ count = [k \in Keys |-> 0]
  /\ left = [k \in Keys |-> 0]
  /\ key = [p \in Procs |-> NoKey]
  /\ granted = [k \in Keys |-> 0]

\* Mutant: one attempt too many is let through.
AllowedOffByOne(n) == n <= MaxAttempts + 1

Allowed(n) == n <= MaxAttempts

\* INCR created the key: its expiry has still to be set.
FirstAttempt(p, k) ==
  /\ key[p] = NoKey
  /\ count[k] = 0
  /\ count' = [count EXCEPT ![k] = 1]
  /\ key' = [key EXCEPT ![p] = k]
  /\ UNCHANGED <<left, granted>>

Grant(k, n) ==
  granted' = IF Allowed(n) THEN [granted EXCEPT ![k] = @ + 1] ELSE granted

\* INCR of an existing key; the attempts of a client never have to stop.
Incremented(n) == IF n < CountCap THEN n + 1 ELSE CountCap

\* Mutant: every attempt gives the key its expiry anew.
LaterAttemptRenews(p, k) ==
  /\ key[p] = NoKey
  /\ count[k] > 0
  /\ count' = [count EXCEPT ![k] = Incremented(@)]
  /\ Grant(k, Incremented(count[k]))
  /\ left' = [left EXCEPT ![k] = Window]
  /\ UNCHANGED key

\* The count decides, the expiry is left alone.
LaterAttempt(p, k) ==
  /\ key[p] = NoKey
  /\ count[k] > 0
  /\ count' = [count EXCEPT ![k] = Incremented(@)]
  /\ Grant(k, Incremented(count[k]))
  /\ UNCHANGED <<left, key>>

\* EXPIRE, then the decision on the first attempt.
SetExpiry(p) ==
  /\ key[p] # NoKey
  /\ left' = IF count[key[p]] > 0 THEN [left EXCEPT ![key[p]] = Window] ELSE left
  /\ Grant(key[p], 1)
  /\ key' = [key EXCEPT ![p] = NoKey]
  /\ UNCHANGED count

\* Redis fails or the worker dies before EXPIRE; login answers with an error.
FailBeforeExpiry(p) ==
  /\ key[p] # NoKey
  /\ key' = [key EXCEPT ![p] = NoKey]
  /\ UNCHANGED <<count, left, granted>>

\* The clock; a key whose expiry is reached is gone.
Tick ==
  /\ \E k \in Keys : left[k] > 0
  /\ left' = [k \in Keys |-> IF left[k] > 0 THEN left[k] - 1 ELSE 0]
  /\ count' = [k \in Keys |-> IF left[k] = 1 THEN 0 ELSE count[k]]
  /\ granted' = [k \in Keys |-> IF left[k] = 1 THEN 0 ELSE granted[k]]
  /\ UNCHANGED key

Attempt(p) ==
  \/ \E k \in Keys : FirstAttempt(p, k) \/ LaterAttempt(p, k)
  \/ SetExpiry(p) \/ FailBeforeExpiry(p)

Next == Tick \/ \E p \in Procs : Attempt(p)

Spec == Init /\ [][Next]_vars

\* Time passes, and a request that Redis and its worker serve goes on.
Fairness == WF_vars(Tick) /\ \A p \in Procs : WF_vars(SetExpiry(p))

FairSpec == Spec /\ Fairness

---------------------------------------------------------------------------
(* Properties.                                                             *)

\* In the life of one key at most MaxAttempts logins get as far as the
\* password, whatever order the workers' INCR and EXPIRE take effect in.
AttemptsBounded == \A k \in Keys : granted[k] <= MaxAttempts

Locked(k) == count[k] >= MaxAttempts

\* A lockout whose key was given its expiry ends, however many attempts the
\* client goes on making.
TimedLockoutEnds ==
  \A k \in Keys : Locked(k) /\ left[k] > 0 ~> ~Locked(k)

\* auth_service.py:42, "Too many login attempts. Try again in a few minutes":
\* a client that is locked out is let in again at some time.  (It is not when the
\* request that created the key failed before EXPIRE.)
LockoutEnds == \A k \in Keys : Locked(k) ~> ~Locked(k)
---------------------------------------------------------------------------
(* The inductive invariant behind AttemptsBounded.                          *)

\* The key was created, and its expiry is still to be set.
Pending(k) == \E p \in Procs : key[p] = k

OnePending == \A p, q \in Procs : key[p] = key[q] /\ key[p] # NoKey => p = q

\* A key without an expiry stays, so it is there when its expiry is set.
PendingKeyStays ==
  \A k \in Keys : (Pending(k) => count[k] > 0 /\ left[k] = 0) /\ (left[k] > 0 => count[k] > 0)

\* The attempt that created the key is decided last, on a count of 1: room is
\* left for it.
GrantedWereCounted ==
  \A k \in Keys :
    /\ granted[k] <= count[k]
    /\ Pending(k) => granted[k] < count[k] /\ granted[k] < MaxAttempts

ThrottleInv == TypeOK /\ OnePending /\ PendingKeyStays /\ GrantedWereCounted /\ AttemptsBounded
=============================================================================
