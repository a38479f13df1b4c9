--------------------------------- MODULE Service ---------------------------------
(***************************************************************************)
(* The life of a request from the kill switch to its answer: dependencies,  *)
(* the route's own body, the commit, and what becomes of an exception that  *)
(* is raised in one of them.                                                *)
(*                                                                         *)
(* What a route asks of Redis and PostgreSQL is the set of exceptions that  *)
(* may come out of each part of it; an outage may be as short as one        *)
(* command.                                                                 *)
(***************************************************************************)
EXTENDS KillSwitch, ErrorRouting

CONSTANT Routes  \* the routes that requests ask for

RouteNames == DOMAIN Clauses \cup {"health"}

ASSUME RoutesAssumption == Routes \subseteq RouteNames

VARIABLES
  route,   \* what a request asks for, "none" if there is no request
  part,    \* "dependencies", "body", "commit", or "handler" of main.py
  fault    \* the exception whose handler runs, "none" elsewhere

serviceVars == <<route, part, fault>>
allVars == <<vars, serviceVars>>

ServiceTypeOK ==
  /\ TypeOK
  /\ route \in [Procs -> Routes \cup {"none"}]
  /\ part \in [Procs -> {"none", "dependencies", "body", "commit", "handler"}]
  /\ fault \in [Procs -> Exceptions \cup {"none"}]

ServiceInit ==
  /\ Init
  /\ route = [p \in Procs |-> "none"]
  /\ part = [p \in Procs |-> "none"]
  /\ fault = [p \in Procs |-> "none"]

PathOf(r) == CASE r = "reset" -> "reset" [] r = "health" -> "whitelisted" [] OTHER -> "api"

\* Routes that read the blocklist and the account's row to authenticate.
Authenticated == {"me", "list", "account", "reset"}

\* logout is the one route without a database session.
InSession(r) == r # "logout"

\* What may be raised in the parts of a route, besides an HTTPException.  get_db
\* and ensure_connected raise InfrastructureError; a command or a query that
\* fails under way raises the driver's own class, which login_user turns into an
\* InfrastructureError if it is Redis's.
FromBody ==
  [login   |-> {"Infrastructure", "Operational", "RateLimit", "MultipleResults"},
   signup  |-> {"Operational", "SAIntegrity", "Duplicate", "Domain"},
   refresh |-> {"Infrastructure", "Redis", "Operational", "Domain"},
   logout  |-> {"Infrastructure", "Redis"},
   me      |-> {"Operational", "NotFound"},
   list    |-> {"Operational"},
   account |-> {"Operational", "NotFound", "Duplicate", "PermissionDenied", "Domain"},
   reset   |-> {"Infrastructure", "PermissionDenied"},
   health  |-> {}]

FromDependencies(r) ==
  {"Infrastructure"} \cup IF r \in Authenticated THEN {"Redis", "Operational"} ELSE {}

Raisable(p) ==
  CASE part[p] = "dependencies" -> FromDependencies(route[p])
    [] part[p] = "body" -> FromBody[route[p]]
    [] part[p] = "commit" -> {"Operational", "Infrastructure"}
    [] OTHER -> {}

\* The middleware lets a request through.
Begin(p, r) ==
  /\ Pass(p, PathOf(r))
  /\ route' = [route EXCEPT ![p] = r]
  /\ part' = [part EXCEPT ![p] = IF InSession(r) THEN "dependencies" ELSE "body"]
  /\ UNCHANGED fault

Leave(p) ==
  /\ route' = [route EXCEPT ![p] = "none"]
  /\ part' = [part EXCEPT ![p] = "none"]
  /\ fault' = [fault EXCEPT ![p] = "none"]

\* One part is done.  The part "commit" is the end of get_db's session.
Advance(p) ==
  /\ step[p] = "route"
  /\ \/ part[p] = "dependencies" /\ part' = [part EXCEPT ![p] = "body"]
     \/ part[p] = "body" /\ InSession(route[p]) /\ part' = [part EXCEPT ![p] = "commit"]
  /\ UNCHANGED <<vars, route, fault>>

\* The last part is done, or an HTTPException of the code is answered.  So is a
\* request whose commit fails when its answer is already sent, as it is by some
\* releases of FastAPI (requirements.txt leaves it open).
Reply(p) == Answer(p) /\ Leave(p)

\* POST /reset-auto-kill has its effect in the body; then its session ends.
ResetSwitch(p) ==
  /\ part[p] = "body"
  /\ Reset(p)
  /\ part' = [part EXCEPT ![p] = "commit"]
  /\ UNCHANGED <<route, fault>>

\* The status of the answer to e, raised where p stands.
StatusOf(p, e) ==
  IF part[p] = "body" THEN Translated(route[p], e) ELSE Handled(e).status

\* Mutant: exceptions of the body reach the handlers too.
EscapesAnywhere(p, e) ==
  /\ Handled(e).engage
  /\ Failure(p)
  /\ part' = [part EXCEPT ![p] = "handler"]
  /\ fault' = [fault EXCEPT ![p] = e]
  /\ UNCHANGED route

\* e leaves the route: the handlers of main.py, some of which engage the switch.
Escapes(p, e) ==
  /\ part[p] # "body"
  /\ Handled(e).engage
  /\ Failure(p)
  /\ part' = [part EXCEPT ![p] = "handler"]
  /\ fault' = [fault EXCEPT ![p] = e]
  /\ UNCHANGED route

\* e is answered by an except clause, or by a handler that engages nothing.
IsAnswered(p, e) ==
  /\ part[p] = "body" \/ ~Handled(e).engage
  /\ Answer(p)
  /\ Leave(p)

Raises(p, e) == e \in Raisable(p) /\ (Escapes(p, e) \/ IsAnswered(p, e))

\* engage_auto_kill returns, whether Redis answered or not, and the handler's
\* answer is sent.
HandlerEnds(p) == (Engage(p) \/ EngageFails(p)) /\ Leave(p)

ServiceNext ==
  \/ (Tick \/ RedisChanges) /\ UNCHANGED serviceVars
  \/ \E p \in Procs :
       \/ \E r \in Routes : Begin(p, r)
       \/ Advance(p) \/ Reply(p) \/ ResetSwitch(p) \/ HandlerEnds(p)
       \/ \E e \in Exceptions : Raises(p, e)

ServiceSpec == ServiceInit /\ [][ServiceNext]_allVars

\* Time passes.
ServiceFairSpec == ServiceSpec /\ WF_allVars(Tick /\ UNCHANGED serviceVars)

---------------------------------------------------------------------------
(* Properties, beside those of KillSwitch.                                 *)

\* An outage is never answered as if the client were to blame (4xx), with the
\* exception of login and refresh, whose clause for DomainError comes before one
\* for InfrastructureError: ensure_connected's error becomes 400 and 401.
OutageNotBlamedOnClient ==
  [][\A p \in Procs, e \in Outages :
       Raises(p, e) =>
         \/ StatusOf(p, e) >= 500
         \/ route[p] \in {"login", "refresh"} /\ part[p] = "body" /\ e = "Infrastructure"
    ]_allVars

\* Only an outage engages the kill switch.  A route makes an answer of every
\* database error that the data of one request can cause, among them two
\* accounts of the same name at a login, before a handler sees it.
OnlyOutagesEngage == \A p \in Procs : part[p] = "handler" => fault[p] \in Outages
RequestsHaveRoutes == \A p \in Procs : part[p] # "none" => route[p] \in Routes

\* The inductive invariant behind the safety properties.
ServiceInv == ServiceTypeOK /\ SwitchInv /\ RequestsHaveRoutes /\ OnlyOutagesEngage
=============================================================================
