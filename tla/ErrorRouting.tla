------------------------------ MODULE ErrorRouting ------------------------------
(***************************************************************************)
(* From an exception to an answer: the except clauses of the routes, tried  *)
(* in their order, and the exception handlers of main.py, of which          *)
(* Starlette takes the one registered for the first class of the            *)
(* exception's method resolution order.                                     *)
(***************************************************************************)
EXTENDS FiniteSets, Integers, Sequences

\* The classes an exception is an instance of, the most special one first.
MRO ==
  [Infrastructure   |-> <<"Infrastructure", "Domain", "Exception">>,
   Redis            |-> <<"Redis", "Exception">>,
   Operational      |-> <<"Operational", "SQLAlchemy", "Exception">>,
   SAIntegrity      |-> <<"SAIntegrity", "SQLAlchemy", "Exception">>,
   MultipleResults  |-> <<"SQLAlchemy", "Exception">>,
   NotFound         |-> <<"NotFound", "Domain", "Exception">>,
   Duplicate        |-> <<"Duplicate", "Domain", "Exception">>,
   RateLimit        |-> <<"RateLimit", "Domain", "Exception">>,
   PermissionDenied |-> <<"PermissionDenied", "Domain", "Exception">>,
   Domain           |-> <<"Domain", "Exception">>,
   HTTP             |-> <<"HTTP", "Exception">>,
   Runtime          |-> <<"Runtime", "Exception">>,
   Other            |-> <<"Exception">>]

Exceptions == DOMAIN MRO

IsA(e, class) == \E i \in DOMAIN MRO[e] : MRO[e][i] = class

\* What the outage of Redis or of PostgreSQL raises: the connectors, or the
\* client in the middle of a command.
Outages == {"Infrastructure", "Redis", "Operational"}

\* The handlers: a status, and whether they engage the kill switch.  A handler
\* for HTTPException answers with the status that the exception carries.
Handlers ==
  [Operational      |-> [status |-> 503, engage |-> TRUE],
   SQLAlchemy       |-> [status |-> 503, engage |-> TRUE],
   Redis            |-> [status |-> 503, engage |-> TRUE],
   Infrastructure   |-> [status |-> 503, engage |-> TRUE],
   Domain           |-> [status |-> 400, engage |-> FALSE],
   PermissionDenied |-> [status |-> 403, engage |-> FALSE],
   Runtime          |-> [status |-> 503, engage |-> FALSE],
   SAIntegrity      |-> [status |-> 409, engage |-> FALSE],
   Exception        |-> [status |-> 500, engage |-> FALSE]]

\* Inside the handler of DomainError the name of the class decides.
DomainStatus(e) ==
  CASE e = "NotFound" -> 404 [] e = "Duplicate" -> 409 [] OTHER -> 400

\* The first element of a sequence that satisfies Test.
FirstIn(s, Test(_)) ==
  LET hits == {i \in DOMAIN s : Test(s[i])}
  IN  s[CHOOSE i \in hits : \A j \in hits : i <= j]

\* Mutant: DomainError's handler is found first, as its own comment fears.
HandledDomainFirst(e) ==
  IF IsA(e, "Domain")
  THEN [status |-> DomainStatus(e), engage |-> FALSE]
  ELSE Handlers[FirstIn(MRO[e], LAMBDA c : c \in DOMAIN Handlers)]

\* The answer to an exception that leaves a dependency, or the commit.
Handled(e) ==
  LET class == FirstIn(MRO[e], LAMBDA c : c \in DOMAIN Handlers)
  IN  IF class = "Domain"
      THEN [Handlers["Domain"] EXCEPT !.status = DomainStatus(e)]
      ELSE Handlers[class]

\* The except clauses of the routes.  An HTTPException is raised on as it is.
Clauses ==
  [login   |-> << <<"RateLimit", 429>>, <<"Runtime", 503>>, <<"SQLAlchemy", 503>>,
                  <<"Domain", 400>>, <<"Exception", 500>> >>,
   signup  |-> << <<"Duplicate", 409>>, <<"SQLAlchemy", 503>>, <<"Domain", 400>>,
                  <<"Exception", 500>> >>,
   refresh |-> << <<"SQLAlchemy", 503>>, <<"Domain", 401>>, <<"Exception", 500>> >>,
   logout  |-> << <<"Exception", 503>> >>,
   me      |-> << <<"NotFound", 404>>, <<"SQLAlchemy", 503>>, <<"Exception", 500>> >>,
   list    |-> << <<"SQLAlchemy", 503>>, <<"Exception", 500>> >>,
   account |-> << <<"NotFound", 404>>, <<"Duplicate", 409>>, <<"Domain", 400>>,
                  <<"SQLAlchemy", 503>>, <<"Exception", 500>> >>,
   reset   |-> << <<"Exception", 503>> >>]

\* The status of the HTTPException that a route makes of e.
Translated(route, e) == FirstIn(Clauses[route], LAMBDA c : IsA(e, c[1]))[2]
=============================================================================
