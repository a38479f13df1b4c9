------------------------------- MODULE DbConnector -------------------------------
(***************************************************************************)
(* Database of core/Connector.py and the dependency get_db: one engine of a *)
(* worker, connected by whichever request finds the flag down.  There is no *)
(* lock, so several requests may connect at the same time.                  *)
(***************************************************************************)
EXTENDS Integers

CONSTANTS
  Tasks,     \* requests of one worker
  Engines,   \* ids of engines, numbers
  Attempts,  \* stop_after_attempt of connect()
  NoEngine

ASSUME DbAssumption ==
  /\ Engines \subseteq Nat
  /\ NoEngine \notin Engines
  /\ Attempts \in Nat \ {0}

VARIABLES
  dbUp,     \* does PostgreSQL answer?
  engine,   \* _engine
  factory,  \* the engine that _session_factory is bound to
  dbFlag,   \* _is_connected
  dbAt,     \* where a request stands in get_db
  probe,    \* the engine whose "SELECT 1" it awaits
  tries     \* its attempts so far

dbVars == <<dbUp, engine, factory, dbFlag, dbAt, probe, tries>>

DbTypeOK ==
  /\ dbUp \in BOOLEAN
  /\ engine \in Engines \cup {NoEngine}
  /\ factory \in Engines \cup {NoEngine}
  /\ dbFlag \in BOOLEAN
  /\ dbAt \in [Tasks -> {"idle", "probing", "backoff", "session", "refused"}]
  /\ probe \in [Tasks -> Engines \cup {NoEngine}]
  /\ tries \in [Tasks -> 0 .. Attempts]

DbInit ==
  /\ dbUp \in BOOLEAN
  /\ engine = NoEngine
  /\ factory = NoEngine
  /\ dbFlag = FALSE
  /\ dbAt = [p \in Tasks |-> "idle"]
  /\ probe = [p \in Tasks |-> NoEngine]
  /\ tries = [p \in Tasks |-> 0]

Spare == {e \in Engines : e \notin {engine, factory} /\ \A q \in Tasks : probe[q] # e}

\* The body of connect() up to its first await: a new engine takes the place of
\* the old one, which nobody disposes of.
NewEngine(p, n) ==
  /\ \E e \in Engines :
       /\ e \in Spare /\ \A d \in Spare : e <= d
       /\ engine' = e
       /\ probe' = [probe EXCEPT ![p] = e]
  /\ dbAt' = [dbAt EXCEPT ![p] = "probing"]
  /\ tries' = [tries EXCEPT ![p] = n]
  /\ UNCHANGED <<factory, dbFlag>>

\* The flag is up: session() makes a session of the factory.
Open(p) ==
  /\ dbAt' = [dbAt EXCEPT ![p] = "session"]
  /\ tries' = [tries EXCEPT ![p] = 0]
  /\ probe' = [probe EXCEPT ![p] = NoEngine]

\* get_db: the flag is read and, if it is down, the engine is made with no
\* await in between.
GetDb(p) ==
  /\ dbAt[p] = "idle"
  /\ IF dbFlag THEN Open(p) /\ UNCHANGED <<engine, factory, dbFlag>> ELSE NewEngine(p, 1)
  /\ UNCHANGED dbUp

\* Mutant: the factory is bound to the engine that was probed.
ProbeAnswersOwn(p) ==
  /\ dbAt[p] = "probing"
  /\ dbUp
  /\ factory' = probe[p]
  /\ dbFlag' = TRUE
  /\ Open(p)
  /\ UNCHANGED <<dbUp, engine>>

\* Mutant: the flag is never raised again.
ProbeAnswersSilently(p) ==
  /\ dbAt[p] = "probing"
  /\ dbUp
  /\ factory' = engine
  /\ dbAt' = [dbAt EXCEPT ![p] = "refused"]
  /\ tries' = [tries EXCEPT ![p] = 0]
  /\ probe' = [probe EXCEPT ![p] = NoEngine]
  /\ UNCHANGED <<dbUp, engine, dbFlag>>

\* The probe answers.  The factory is bound to _engine as it is now: if another
\* request has replaced the engine meanwhile, to one that has not answered yet.
ProbeAnswers(p) ==
  /\ dbAt[p] = "probing"
  /\ dbUp
  /\ factory' = engine
  /\ dbFlag' = TRUE
  /\ Open(p)
  /\ UNCHANGED <<dbUp, engine>>

\* The flag goes down even if another request has connected meanwhile; tenacity
\* waits, or gives up: get_db raises InfrastructureError.
ProbeFails(p) ==
  /\ dbAt[p] = "probing"
  /\ ~dbUp
  /\ dbFlag' = FALSE
  /\ dbAt' = [dbAt EXCEPT ![p] = IF tries[p] < Attempts THEN "backoff" ELSE "refused"]
  /\ probe' = [probe EXCEPT ![p] = NoEngine]
  /\ UNCHANGED <<dbUp, engine, factory, tries>>

\* Mutant: the next attempt does not look at the flag again.
RetryBlindly(p) ==
  /\ dbAt[p] = "backoff"
  /\ NewEngine(p, tries[p] + 1)
  /\ UNCHANGED dbUp

\* The next attempt calls connect() from its start.
Retry(p) ==
  /\ dbAt[p] = "backoff"
  /\ IF dbFlag
     THEN Open(p) /\ UNCHANGED <<engine, factory, dbFlag>>
     ELSE NewEngine(p, tries[p] + 1)
  /\ UNCHANGED dbUp

\* The session ends: committed, or rolled back for an error that leaves the
\* flag alone (a business error, or a database error a route has translated).
EndSession(p) ==
  /\ dbAt[p] = "session"
  /\ dbAt' = [dbAt EXCEPT ![p] = "idle"]
  /\ UNCHANGED <<dbUp, engine, factory, dbFlag, probe, tries>>

\* An OperationalError or a driver error comes out of the body or the commit.
SessionBreaks(p) ==
  /\ dbAt[p] = "session"
  /\ ~dbUp
  /\ dbFlag' = FALSE
  /\ dbAt' = [dbAt EXCEPT ![p] = "idle"]
  /\ UNCHANGED <<dbUp, engine, factory, probe, tries>>

Refused(p) ==
  /\ dbAt[p] = "refused"
  /\ dbAt' = [dbAt EXCEPT ![p] = "idle"]
  /\ tries' = [tries EXCEPT ![p] = 0]
  /\ UNCHANGED <<dbUp, engine, factory, dbFlag, probe>>

\* The task is cancelled while it connects: CancelledError is no Exception, so
\* neither except clause runs and tenacity does not try again.
CancelDb(p) ==
  /\ dbAt[p] \in {"probing", "backoff"}
  /\ dbAt' = [dbAt EXCEPT ![p] = "idle"]
  /\ probe' = [probe EXCEPT ![p] = NoEngine]
  /\ tries' = [tries EXCEPT ![p] = 0]
  /\ UNCHANGED <<dbUp, engine, factory, dbFlag>>

DbChanges == dbUp' = ~dbUp /\ UNCHANGED <<engine, factory, dbFlag, dbAt, probe, tries>>

\* disconnect() when the last request has ended; the next process starts anew.
DbRestart ==
  /\ \A p \in Tasks : dbAt[p] = "idle"
  /\ engine' = NoEngine /\ factory' = NoEngine /\ dbFlag' = FALSE
  /\ UNCHANGED <<dbUp, dbAt, probe, tries>>

Connecting(p) == ProbeAnswers(p) \/ ProbeFails(p) \/ Retry(p)

DbCall(p) ==
  \/ GetDb(p) \/ Connecting(p) \/ EndSession(p) \/ SessionBreaks(p)
  \/ Refused(p) \/ CancelDb(p)

DbNext == DbChanges \/ DbRestart \/ \E p \in Tasks : DbCall(p)

DbSpec == DbInit /\ [][DbNext]_dbVars

\* The probe has a timeout and the pauses of tenacity are finite.
DbFairness == \A p \in Tasks : WF_dbVars(Connecting(p) \/ Refused(p))

DbFairSpec == DbSpec /\ DbFairness
=============================================================================
