------------------------------- MODULE AccessGate -------------------------------
(***************************************************************************)
(* Access tokens: the authentication dependencies (get_current_user and     *)
(* get_current_user_slt in App/api/dependencies/auth.py), the blocklist that *)
(* logout writes, and the account status that administrators change.        *)
(*                                                                         *)
(* The clock ticks Sub times per second.  A JWT's exp is a whole second;    *)
(* Redis counts an EX expiry in whole seconds from the moment of the SET.   *)
(* All tokens belong to one account.                                       *)
(***************************************************************************)
EXTENDS Integers

CONSTANTS
  Tokens,    \* access-token jtis
  Procs,     \* requests in progress
  Life,      \* ACCESS_TOKEN_EXPIRE_MINUTES (2 minutes for an SLT), in seconds
  Sub,       \* ticks per second
  MaxTime,   \* bound of the model: the last tick
  NoToken

ASSUME GateAssumption ==
  /\ NoToken \notin Tokens
  /\ Life \in Nat \ {0}
  /\ Sub \in Nat \ {0}
  /\ MaxTime \in Nat

VARIABLES
  now,        \* current tick
  exp,        \* token -> tick of its exp claim, 0 if not issued
  slt,        \* tokens whose "types" claim is "slts"
  blocked,    \* blocklist_at:{jti} -> tick at which the key expires, 0 if unset
  account,    \* is the account active, disabled or deleted?
  req,        \* what each process is doing
  loggedOut,  \* history: tokens whose logout answered
  missed      \* history: those of them for which Redis refused the blocklist key

vars == <<now, exp, slt, blocked, account, req, loggedOut, missed>>

\* step   the await the request stands at
\* route  its authentication dependency: get_current_user or get_current_user_slt
\* token  the access token it carries
\* ttl    logout: the lifetime it computed for the blocklist key
\* late   history: the token's logout had answered when the request began
\* active history: the account was active at some time during the request
\* left   history: ticks the token had left when the blocklist was read
Requests ==
  [step : {"idle", "blocklist", "user", "logout"},
   route : {"none", "standard", "recovery"},
   token : Tokens \cup {NoToken}, ttl : 0 .. Life,
   late : BOOLEAN, active : BOOLEAN, left : 0 .. Life * Sub]

Idle == [step |-> "idle", route |-> "none", token |-> NoToken, ttl |-> 0,
         late |-> FALSE, active |-> FALSE, left |-> 0]

TypeOK ==
  /\ now \in 0 .. MaxTime
  /\ exp \in [Tokens -> 0 .. MaxTime + Life * Sub]
  /\ slt \subseteq Tokens
  /\ blocked \in [Tokens -> 0 .. MaxTime + Life * Sub]
  /\ account \in {"active", "disabled", "deleted"}
  /\ req \in [Procs -> Requests]
  /\ loggedOut \subseteq Tokens
  /\ missed \subseteq Tokens

Init ==
  /\ now = 0
  /\ exp = [t \in Tokens |-> 0]
  /\ slt = {}
  /\ blocked = [t \in Tokens |-> 0]
  /\ account = "active"
  /\ req = [p \in Procs |-> Idle]
  /\ loggedOut = {}
  /\ missed = {}

Issued(t) == exp[t] > 0

\* create_access_token, create_short_live_token: PyJWT writes exp as a whole
\* second, rounding down.
Issue(t, short) ==
  /\ ~Issued(t)
  /\ exp' = [exp EXCEPT ![t] = (now \div Sub + Life) * Sub]
  /\ slt' = IF short THEN slt \cup {t} ELSE slt
  /\ UNCHANGED <<now, blocked, account, req, loggedOut, missed>>

\* decode_jwt: the signature is good and exp lies in the future.
Decodes(t) == Issued(t) /\ now < exp[t]

\* A request with a token arrives and its token is decoded.
Begin(p, t, r) ==
  /\ req[p].step = "idle"
  /\ Decodes(t)
  /\ req' = [req EXCEPT ![p] =
       [Idle EXCEPT !.step = "blocklist", !.route = r, !.token = t,
                    !.late = (t \in loggedOut),
                    !.active = (account = "active")]]
  /\ UNCHANGED <<now, exp, slt, blocked, account, loggedOut, missed>>

\* The request is refused (401, 403 or 404), or Redis or the database fails.
Refuse(p) ==
  /\ req' = [req EXCEPT ![p] = Idle]
  /\ UNCHANGED <<now, exp, slt, blocked, account, loggedOut, missed>>

IsBlocked(t) == now < blocked[t]

\* _validate_token_payload: blocklist, then exp again (both kinds of token
\* have type "access"); get_current_user then refuses short-lived tokens.
Validate(p) ==
  /\ req[p].step = "blocklist"
  /\ ~IsBlocked(req[p].token)
  /\ now < exp[req[p].token]
  /\ req[p].route = "standard" => req[p].token \notin slt
  /\ req' = [req EXCEPT ![p].step = "user",
                        ![p].left = exp[req[p].token] - now]
  /\ UNCHANGED <<now, exp, slt, blocked, account, loggedOut, missed>>

ValidateRefuses(p) ==
  /\ req[p].step = "blocklist"
  /\ \/ IsBlocked(req[p].token)
     \/ now >= exp[req[p].token]
     \/ req[p].route = "standard" /\ req[p].token \in slt
  /\ Refuse(p)

\* Mutant: the status is not looked at on the recovery routes.
StatusAllowsRecovery(p) == account = "active" \/ req[p].route = "recovery"

\* Short-lived tokens pass get_current_user_slt whatever the account's status.
StatusAllows(p) == account = "active" \/ req[p].token \in slt

\* get_by_id found an account whose status is good: the route's code runs.
Serve(p) ==
  /\ req[p].step = "user"
  /\ StatusAllows(p)
  /\ Refuse(p)

UserRefuses(p) ==
  /\ req[p].step = "user"
  /\ ~StatusAllows(p)
  /\ Refuse(p)

Larger(m, n) == IF m > n THEN m ELSE n

\* Mutant: the two times are subtracted in the wrong order.
LifetimeSwapped(t) == Larger((now - exp[t]) \div Sub, 1)

\* Mutant: the lifetime of an expired token is not raised to one second.
LifetimeUnbounded(t) == (exp[t] - now) \div Sub

\* max(int(exp - now), 1): whole seconds, rounded down, at least one.
LifetimeLeft(t) == Larger((exp[t] - now) \div Sub, 1)

\* Logout, step 4: its access token may have expired already.
LogoutBegin(p, t) ==
  /\ req[p].step = "idle"
  /\ Issued(t)
  /\ req' = [req EXCEPT ![p] =
       [Idle EXCEPT !.step = "logout", !.token = t, !.ttl = LifetimeLeft(t)]]
  /\ UNCHANGED <<now, exp, slt, blocked, account, loggedOut, missed>>

\* blocklist_access: SET with EX.
LogoutBlock(p) ==
  /\ req[p].step = "logout"
  /\ blocked' = [blocked EXCEPT ![req[p].token] = now + req[p].ttl * Sub]
  /\ loggedOut' = loggedOut \cup {req[p].token}
  /\ req' = [req EXCEPT ![p] = Idle]
  /\ UNCHANGED <<now, exp, slt, account, missed>>

\* Redis fails: logged as non-fatal, logout answers success.
LogoutBlockFails(p) ==
  /\ req[p].step = "logout"
  /\ loggedOut' = loggedOut \cup {req[p].token}
  /\ missed' = missed \cup {req[p].token}
  /\ req' = [req EXCEPT ![p] = Idle]
  /\ UNCHANGED <<now, exp, slt, blocked, account>>

\* An administrator's transaction commits (modelled by the account's status).
SetAccount(status) ==
  /\ account # status
  /\ account' = status
  /\ req' = [p \in Procs |->
       IF req[p].step = "idle" \/ req[p].step = "logout" THEN req[p]
       ELSE [req[p] EXCEPT !.active = @ \/ status = "active"]]
  /\ UNCHANGED <<now, exp, slt, blocked, loggedOut, missed>>

Tick ==
  /\ now < MaxTime
  /\ now' = now + 1
  /\ UNCHANGED <<exp, slt, blocked, account, req, loggedOut, missed>>

Next ==
  \/ Tick
  \/ \E t \in Tokens, short \in BOOLEAN : Issue(t, short)
  \/ \E status \in {"active", "disabled", "deleted"} : SetAccount(status)
  \/ \E p \in Procs :
       \/ \E t \in Tokens, r \in {"standard", "recovery"} : Begin(p, t, r)
       \/ \E t \in Tokens : LogoutBegin(p, t)
       \/ Validate(p) \/ ValidateRefuses(p) \/ Serve(p) \/ UserRefuses(p)
       \/ LogoutBlock(p) \/ LogoutBlockFails(p)

Spec == Init /\ [][Next]_vars

---------------------------------------------------------------------------
(* Properties.                                                             *)

\* A request that begins after its token's logout has answered is let in only
\* if the token was in the last second of its life when the blocklist was read,
\* or Redis refused the key: the blocklist covers the rest, whatever runs in
\* between.  README.md:348 (after logout, reusing the access token returns 401)
\* makes neither exception.
LoggedOutRefused ==
  [][\A p \in Procs : Serve(p) /\ req[p].late =>
       req[p].left < Sub \/ req[p].token \in missed]_vars

\* An account that is disabled or deleted during the whole of a request is let
\* in by a short-lived token on a recovery route and in no other way.
InactiveOnlyByRecovery ==
  [][\A p \in Procs : Serve(p) /\ ~req[p].active =>
       req[p].token \in slt /\ req[p].route = "recovery"]_vars
---------------------------------------------------------------------------
(* The inductive invariant behind these properties.                        *)

\* A token never lives longer than Life; who carries or logs out a token has one.
TokensAgree ==
  /\ \A t \in Tokens : exp[t] <= now + Life * Sub
  /\ \A t \in loggedOut : Issued(t)
  /\ \A p \in Procs : req[p].step # "idle" => req[p].token \in Tokens /\ Issued(req[p].token)

\* A key set for ttl seconds now would miss less than the last second of t.
Covers(ttl, t) == exp[t] < now + ttl * Sub + Sub

LogoutsCover ==
  \A p \in Procs : req[p].step = "logout" => Covers(req[p].ttl, req[p].token)

\* So does the key that was set.
KeysCover == \A t \in loggedOut \ missed : exp[t] < blocked[t] + Sub

\* What a request that was let past the blocklist has shown.
RequestsAgree ==
  \A p \in Procs :
    /\ req[p].late => req[p].token \in loggedOut
    /\ req[p].step \in {"blocklist", "user"} => req[p].route \in {"standard", "recovery"}
    /\ req[p].step \in {"blocklist", "user"} /\ account = "active" => req[p].active
    /\ req[p].step = "user" =>
         /\ req[p].late => req[p].left < Sub \/ req[p].token \in missed
         /\ req[p].route = "standard" => req[p].token \notin slt

GateInv == TypeOK /\ TokensAgree /\ LogoutsCover /\ KeysCover /\ RequestsAgree
=============================================================================
