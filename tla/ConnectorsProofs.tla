---------------------------- MODULE ConnectorsProofs ----------------------------
(***************************************************************************)
(* Proofs about Connectors, for any requests, clients, engines, numbers of  *)
(* attempts and sizes of the pool.  No step on one connector touches the    *)
(* variables of the other, so each has an invariant of its own.             *)
(***************************************************************************)
EXTENDS Connectors, TLAPS

\* The counters start in their ranges.
LEMMA CountersStart == 0 \in 0 .. Retries /\ 0 \in 0 .. Attempts /\ 1 \in 1 .. Attempts
  BY RedisAssumption, DbAssumption

\* No client, no engine, the lock free.
LEMMA InitInvariant == ConnectorsInit => ConnectorsInv
<1> SUFFICES ASSUME ConnectorsInit PROVE ConnectorsInv
  OBVIOUS
<1> USE DEF ConnectorsInit
<1>1. RedisInv
  <2>1. RedisTypeOK
    BY CountersStart DEF RedisInit, RedisTypeOK, Stages
  <2>2. LockIsHeld
    BY RedisAssumption DEF RedisInit, LockIsHeld, InLock
  <2>3. StagesAgree /\ UsersWereTroubled /\ CachedIsGood /\ KeptWhileGood
    BY DEF RedisInit, StagesAgree, UsersWereTroubled, CachedIsGood, KeptWhileGood
  <2>4. QED
    BY <2>1, <2>2, <2>3 DEF RedisInv
<1>2. DbInv
  <2>1. DbTypeOK
    BY CountersStart DEF DbInit, DbTypeOK
  <2>2. ProbesAgree /\ FactoryIsEngine
    BY DEF DbInit, ProbesAgree, FactoryIsEngine
  <2>3. QED
    BY <2>1, <2>2 DEF DbInv
<1>3. QED
  BY <1>1, <1>2 DEF ConnectorsInv

---------------------------------------------------------------------------
(* The Redis connector.                                                    *)

\* What BeginConnect puts in place is no client that a request has.
LEMMA FreshClient ==
  ASSUME RedisInv, NEW p \in Procs, BeginConnect(p)
  PROVE  /\ client' \in Clients /\ client' # NoClient
         /\ \A q \in Procs : mine[q] # client'
         /\ closed' = closed \cap Held
         /\ client' \notin closed'
         /\ at' = [at EXCEPT ![p] = "connecting"] /\ connected' = connected
  BY RedisAssumption DEF BeginConnect, Fresh, Unused, Held

\* The head of the loop, entered by p with or without a change of its attempt.
LEMMA EnterPreserves ==
  ASSUME RedisInv, NEW p \in Procs, Enter(p), lock' = p,
         lock \in {NoProc, p}, at[p] \in {"waiting", "backoff"},
         attempt' \in [Procs -> 0 .. Retries],
         \A q \in Procs : q # p => attempt'[q] = attempt[q],
         UNCHANGED <<redisUp, mine, trouble>>
  PROVE  RedisInv'
<1> USE DEF RedisInv
<1>1. /\ \A q \in Procs : q # p => at[q] \notin InLock
      /\ \A q \in Procs : q # p => at'[q] = at[q]
  BY RedisAssumption DEF LockIsHeld, Enter, BeginConnect, RedisTypeOK
<1>2. CASE client # NoClient /\ connected
  <2>1. at' = [at EXCEPT ![p] = "pinging"] /\ UNCHANGED <<client, closed, connected>>
    BY <1>2 DEF Enter
  <2>2. RedisTypeOK'
    BY <2>1 DEF RedisTypeOK, Stages
  <2>3. LockIsHeld' /\ StagesAgree' /\ UsersWereTroubled'
    BY <1>1, <1>2, <2>1
    DEF LockIsHeld, StagesAgree, UsersWereTroubled, InLock, RedisTypeOK
  <2>4. CachedIsGood' /\ KeptWhileGood'
    BY <2>1 DEF CachedIsGood, KeptWhileGood, RedisTypeOK
  <2>5. QED
    BY <2>2, <2>3, <2>4
<1>3. CASE ~(client # NoClient /\ connected)
  <2>1. BeginConnect(p) /\ ~connected
    BY <1>3 DEF Enter, CachedIsGood
  <2>2. /\ client' \in Clients /\ client' # NoClient
        /\ closed' \subseteq closed /\ client' \notin closed'
        /\ at' = [at EXCEPT ![p] = "connecting"] /\ ~connected' /\ connected' = connected
    BY <2>1, FreshClient
  <2>3. RedisTypeOK'
    BY <2>2 DEF RedisTypeOK, Stages
  <2>4. LockIsHeld' /\ StagesAgree' /\ UsersWereTroubled'
    BY <1>1, <2>2
    DEF LockIsHeld, StagesAgree, UsersWereTroubled, InLock, RedisTypeOK
  <2>5. CachedIsGood' /\ KeptWhileGood'
    BY <2>2 DEF CachedIsGood, KeptWhileGood, RedisTypeOK
  <2>6. QED
    BY <2>3, <2>4, <2>5
<1>4. QED
  BY <1>2, <1>3

\* A request that calls ensure_connected holds nothing yet.
LEMMA ArrivePreserves ==
  ASSUME RedisInv, NEW p \in Procs, Arrive(p)
  PROVE  RedisInv'
<1> USE DEF RedisInv, Arrive
<1>1. RedisTypeOK'
  BY RedisAssumption DEF RedisTypeOK, Stages
<1>2. LockIsHeld' /\ StagesAgree' /\ UsersWereTroubled' /\ CachedIsGood' /\ KeptWhileGood'
  BY DEF LockIsHeld, StagesAgree, UsersWereTroubled, CachedIsGood, KeptWhileGood, InLock,
         RedisTypeOK
<1>3. QED
  BY <1>1, <1>2

\* A request gets a client that nobody has closed, and gives the lock back.
LEMMA HandOutPreserves ==
  ASSUME RedisInv, NEW p \in Procs, HandOut(p), at[p] \in {"pinging", "connecting"},
         connected' = TRUE, UNCHANGED <<redisUp, client, closed, attempt>>
  PROVE  RedisInv'
<1> USE DEF RedisInv, HandOut
<1>1. client # NoClient /\ client \notin closed
  BY DEF StagesAgree, CachedIsGood
<1>2. \A q \in Procs : q # p => at[q] \notin InLock
  BY DEF LockIsHeld, InLock
<1>3. RedisTypeOK'
  BY DEF RedisTypeOK, Stages
<1>4. LockIsHeld' /\ StagesAgree' /\ UsersWereTroubled'
  BY <1>2, RedisAssumption DEF LockIsHeld, StagesAgree, UsersWereTroubled, InLock, RedisTypeOK
<1>5. CachedIsGood' /\ KeptWhileGood'
  BY <1>1 DEF CachedIsGood, KeptWhileGood, RedisTypeOK
<1>6. QED
  BY <1>3, <1>4, <1>5

\* A client whose ping failed is current no more: the flag is down, and its users
\* are in trouble.
LEMMA PingFailsPreserves ==
  ASSUME RedisInv, NEW p \in Procs, PingFails(p)
  PROVE  RedisInv'
<1> USE DEF RedisInv, PingFails
<1>1. client # NoClient /\ lock = p
  BY DEF StagesAgree, CachedIsGood, LockIsHeld, InLock
<1>2. \A q \in Procs : q # p => at[q] \notin InLock
  BY <1>1 DEF LockIsHeld, InLock
<1>3. \A q \in Procs : trouble'[q] = (trouble[q] \/ at[q] = "using")
  OBVIOUS
<1>4. RedisTypeOK'
  <2>1. trouble' \in [Procs -> BOOLEAN]
    OBVIOUS
  <2>2. QED
    BY <2>1 DEF RedisTypeOK, Stages
<1>5. LockIsHeld' /\ StagesAgree' /\ UsersWereTroubled'
  BY <1>1, <1>2, <1>3 DEF LockIsHeld, StagesAgree, UsersWereTroubled, InLock, RedisTypeOK
<1>6. CachedIsGood' /\ KeptWhileGood'
  BY <1>3 DEF CachedIsGood, KeptWhileGood, RedisTypeOK
<1>7. QED
  BY <1>4, <1>5, <1>6

\* After aclose() a new client takes the place of the closed one.
LEMMA ClosedPreserves ==
  ASSUME RedisInv, NEW p \in Procs, Closed(p)
  PROVE  RedisInv'
<1> USE DEF RedisInv, Closed
<1>1. lock = p /\ client # NoClient
  BY DEF LockIsHeld, InLock, StagesAgree
<1>2. \A q \in Procs : q # p => at[q] \notin InLock
  BY <1>1 DEF LockIsHeld, InLock
<1>3. /\ client' \in Clients /\ client' # NoClient
      /\ closed' \subseteq closed \cup {client} /\ client' \notin closed'
  BY RedisAssumption DEF Fresh, Unused
<1>4. \A q \in Procs : at[q] = "using" => trouble[q]
  BY DEF UsersWereTroubled
<1>5. RedisTypeOK'
  BY <1>1, <1>3 DEF RedisTypeOK, Stages
<1>6. LockIsHeld' /\ StagesAgree' /\ UsersWereTroubled'
  BY <1>1, <1>2, <1>3 DEF LockIsHeld, StagesAgree, UsersWereTroubled, InLock, RedisTypeOK
<1>7. CachedIsGood' /\ KeptWhileGood'
  BY <1>4 DEF CachedIsGood, KeptWhileGood, RedisTypeOK
<1>8. QED
  BY <1>5, <1>6, <1>7

\* A failed attempt keeps the lock or gives it back.
LEMMA ConnectFailsPreserves ==
  ASSUME RedisInv, NEW p \in Procs, ConnectFails(p)
  PROVE  RedisInv'
<1> USE DEF RedisInv, ConnectFails
<1>1. lock = p
  BY DEF LockIsHeld, InLock
<1>2. \A q \in Procs : q # p => at[q] \notin InLock
  BY <1>1 DEF LockIsHeld, InLock
<1>3. RedisTypeOK'
  BY DEF RedisTypeOK, Stages
<1>4. LockIsHeld' /\ StagesAgree' /\ UsersWereTroubled'
  BY <1>1, <1>2, RedisAssumption
  DEF LockIsHeld, StagesAgree, UsersWereTroubled, InLock, RedisTypeOK
<1>5. CachedIsGood' /\ KeptWhileGood'
  BY DEF CachedIsGood, KeptWhileGood, RedisTypeOK
<1>6. QED
  BY <1>3, <1>4, <1>5

\* A request without the lock leaves what others know as it was.
LEMMA ReleasePreserves ==
  ASSUME RedisInv, NEW p \in Procs, Release(p)
  PROVE  RedisInv'
<1> USE DEF RedisInv, Release
<1>1. RedisTypeOK'
  BY CountersStart DEF RedisTypeOK, Stages
<1>2. LockIsHeld' /\ StagesAgree' /\ UsersWereTroubled' /\ CachedIsGood' /\ KeptWhileGood'
  BY DEF LockIsHeld, StagesAgree, UsersWereTroubled, CachedIsGood, KeptWhileGood, InLock,
         RedisTypeOK
<1>3. QED
  BY <1>1, <1>2

\* A cancelled close leaves a client that is closed, and not connected.
LEMMA CancelPreserves ==
  ASSUME RedisInv, NEW p \in Procs, Cancel(p)
  PROVE  RedisInv'
<1> USE DEF RedisInv, Cancel
<1>1. closed' \subseteq Clients /\ (closed' = closed \/ at[p] = "closing")
  BY DEF RedisTypeOK, StagesAgree
<1>2. closed' \subseteq closed \cup {client}
  OBVIOUS
<1>3. \A q \in Procs : q # p /\ at[p] \in InLock => at[q] \notin InLock
  BY DEF LockIsHeld
<1>4. RedisTypeOK'
  BY <1>1, RedisAssumption DEF RedisTypeOK, Stages
<1>5. LockIsHeld'
  BY <1>3, RedisAssumption DEF LockIsHeld, InLock, RedisTypeOK
<1>6. StagesAgree' /\ UsersWereTroubled'
  BY <1>1, <1>3 DEF StagesAgree, UsersWereTroubled, InLock, RedisTypeOK
<1>7. CachedIsGood'
  BY <1>1 DEF CachedIsGood, StagesAgree
<1>8. KeptWhileGood'
  BY <1>1, <1>2 DEF KeptWhileGood, UsersWereTroubled, RedisTypeOK
<1>9. QED
  BY <1>4, <1>5, <1>6, <1>7, <1>8

\* Whoever uses a client while Redis goes down or comes back is in trouble.
LEMMA RedisChangesPreserves ==
  ASSUME RedisInv, RedisChanges
  PROVE  RedisInv'
<1> USE DEF RedisInv, RedisChanges
<1>1. /\ trouble' \in [Procs -> BOOLEAN]
      /\ \A q \in Procs : trouble'[q] = (trouble[q] \/ at[q] = "using")
  OBVIOUS
<1>2. RedisTypeOK'
  BY <1>1 DEF RedisTypeOK
<1>3. LockIsHeld' /\ StagesAgree' /\ UsersWereTroubled' /\ CachedIsGood' /\ KeptWhileGood'
  BY <1>1 DEF LockIsHeld, StagesAgree, UsersWereTroubled, CachedIsGood, KeptWhileGood
<1>4. QED
  BY <1>2, <1>3

\* A worker restarts without requests, with a new client or none.
LEMMA RestartPreserves ==
  ASSUME RedisInv, Restart
  PROVE  RedisInv'
<1> USE DEF RedisInv, Restart
<1>1. RedisTypeOK'
  BY DEF RedisTypeOK
<1>2. LockIsHeld' /\ StagesAgree' /\ UsersWereTroubled' /\ CachedIsGood' /\ KeptWhileGood'
  BY RedisAssumption
  DEF LockIsHeld, StagesAgree, UsersWereTroubled, CachedIsGood, KeptWhileGood, InLock
<1>3. QED
  BY <1>1, <1>2

\* The connector keeps its invariant, whatever a request does in it.
LEMMA RedisCallPreserves ==
  ASSUME RedisInv, NEW p \in Procs, RedisCall(p)
  PROVE  RedisInv'
<1>1. CASE Acquire(p)
  BY <1>1, EnterPreserves DEF Acquire, RedisInv, RedisTypeOK
<1>2. CASE Resume(p)
  <2>1. lock = p /\ attempt[p] < Retries
    BY <1>2 DEF Resume, RedisInv, LockIsHeld, InLock, StagesAgree
  <2>2. /\ attempt' \in [Procs -> 0 .. Retries]
        /\ \A q \in Procs : q # p => attempt'[q] = attempt[q]
    BY <1>2, <2>1, RedisAssumption DEF Resume, RedisInv, RedisTypeOK
  <2>3. QED
    BY <1>2, <2>1, <2>2, EnterPreserves DEF Resume
<1>3. CASE PingAnswers(p)
  BY <1>3, HandOutPreserves DEF PingAnswers, RedisInv, RedisTypeOK, StagesAgree
<1>4. CASE ConnectAnswers(p)
  BY <1>4, HandOutPreserves DEF ConnectAnswers
<1>5. QED
  BY <1>1, <1>2, <1>3, <1>4, ArrivePreserves, PingFailsPreserves, ClosedPreserves,
     ConnectFailsPreserves, ReleasePreserves, CancelPreserves
  DEF RedisCall, Proceed

---------------------------------------------------------------------------
(* The database connector.                                                 *)

\* connect() makes an engine only while the flag is down.
LEMMA NewEnginePreserves ==
  ASSUME DbInv, NEW p \in Tasks, NEW n \in 1 .. Attempts, NewEngine(p, n), ~dbFlag, dbUp' = dbUp
  PROVE  DbInv'
<1> USE DEF DbInv, NewEngine
<1>1. PICK e \in Engines : engine' = e /\ probe' = [probe EXCEPT ![p] = e]
  OBVIOUS
<1>2. DbTypeOK'
  BY <1>1, DbAssumption DEF DbTypeOK
<1>3. ProbesAgree' /\ FactoryIsEngine'
  BY <1>1, DbAssumption DEF ProbesAgree, FactoryIsEngine, DbTypeOK
<1>4. QED
  BY <1>2, <1>3

\* A session is opened on the factory as it is, or as a probe has just bound it.
LEMMA OpenPreserves ==
  ASSUME DbInv, NEW p \in Tasks, Open(p), UNCHANGED <<dbUp, engine>>,
         \/ UNCHANGED <<factory, dbFlag>>
         \/ factory' = engine /\ dbFlag' = TRUE /\ dbAt[p] = "probing"
  PROVE  DbInv'
<1> USE DEF DbInv, Open
<1>1. DbTypeOK'
  BY CountersStart DEF DbTypeOK
<1>2. ProbesAgree' /\ FactoryIsEngine'
  BY DEF ProbesAgree, FactoryIsEngine, DbTypeOK
<1>3. QED
  BY <1>1, <1>2

\* Whatever a request does in connect(), the factory keeps to the engine.
LEMMA DbCallPreserves ==
  ASSUME DbInv, NEW p \in Tasks, DbCall(p)
  PROVE  DbInv'
<1>1. CASE GetDb(p)
  BY <1>1, NewEnginePreserves, OpenPreserves, CountersStart DEF GetDb
<1>2. CASE ProbeAnswers(p)
  BY <1>2, OpenPreserves DEF ProbeAnswers
<1>3. CASE Retry(p)
  <2>1. tries[p] + 1 \in 1 .. Attempts
    BY <1>3, DbAssumption DEF Retry, DbInv, DbTypeOK, ProbesAgree
  <2>2. QED
    BY <1>3, <2>1, NewEnginePreserves, OpenPreserves DEF Retry
<1>4. CASE ProbeFails(p)
  BY <1>4, DbAssumption DEF ProbeFails, DbInv, DbTypeOK, ProbesAgree, FactoryIsEngine
<1>5. CASE EndSession(p)
  BY <1>5 DEF EndSession, DbInv, DbTypeOK, ProbesAgree, FactoryIsEngine
<1>6. CASE SessionBreaks(p)
  BY <1>6 DEF SessionBreaks, DbInv, DbTypeOK, ProbesAgree, FactoryIsEngine
<1>7. CASE Refused(p)
  BY <1>7, DbAssumption DEF Refused, DbInv, DbTypeOK, ProbesAgree, FactoryIsEngine
<1>8. CASE CancelDb(p)
  BY <1>8, DbAssumption DEF CancelDb, DbInv, DbTypeOK, ProbesAgree, FactoryIsEngine
<1>9. QED
  BY <1>1, <1>2, <1>3, <1>4, <1>5, <1>6, <1>7, <1>8 DEF DbCall, Connecting

\* PostgreSQL and the worker's lifespan touch no request's engine.
LEMMA DbChangesPreserves ==
  ASSUME DbInv, DbChanges \/ DbRestart
  PROVE  DbInv'
<1>1. CASE DbChanges
  <2>1. dbUp' \in BOOLEAN
    BY <1>1 DEF DbChanges
  <2>2. QED
    BY <1>1, <2>1 DEF DbChanges, DbInv, DbTypeOK, ProbesAgree, FactoryIsEngine
<1>2. CASE DbRestart
  BY <1>2 DEF DbRestart, DbInv, DbTypeOK, ProbesAgree, FactoryIsEngine
<1>3. QED
  BY <1>1, <1>2

---------------------------------------------------------------------------
(* Both.                                                                   *)

\* Steps of the database connector leave the Redis connector alone.
LEMMA RedisStutters == RedisInv /\ UNCHANGED redisVars => RedisInv'
  BY DEF redisVars, RedisInv, RedisTypeOK, LockIsHeld, StagesAgree, UsersWereTroubled, CachedIsGood,
         KeptWhileGood

\* Steps of the Redis connector leave the database connector alone.
LEMMA DbStutters == DbInv /\ UNCHANGED dbVars => DbInv'
  BY DEF dbVars, DbInv, DbTypeOK, ProbesAgree, FactoryIsEngine

\* Every step keeps the invariant.
LEMMA StepPreserves == ConnectorsInv /\ [ConnectorsNext]_connectorVars => ConnectorsInv'
<1> SUFFICES ASSUME RedisInv, DbInv, [ConnectorsNext]_connectorVars
             PROVE  RedisInv' /\ DbInv'
  BY DEF ConnectorsInv
<1>1. CASE UNCHANGED connectorVars
  BY <1>1, RedisStutters, DbStutters DEF connectorVars
<1>2. CASE Lifespan
  BY <1>2, RestartPreserves, DbChangesPreserves DEF Lifespan
<1>3. CASE Outage
  BY <1>3, RedisChangesPreserves, DbStutters DEF Outage
<1>4. CASE DbOutage
  BY <1>4, DbChangesPreserves, RedisStutters DEF DbOutage
<1>5. ASSUME NEW p \in Procs, OnRedis(p) \/ OnDb(p) PROVE RedisInv' /\ DbInv'
  BY <1>5, SameRequests, RedisCallPreserves, DbCallPreserves, RedisStutters, DbStutters
  DEF OnRedis, OnDb
<1>6. QED
  BY <1>1, <1>2, <1>3, <1>4, <1>5 DEF ConnectorsNext

\* One request at a time pings, closes or connects, and each stage of it knows
\* whether the client is good; probes have an engine.
THEOREM Invariance == ConnectorsSpec => []ConnectorsInv
BY InitInvariant, StepPreserves, PTL DEF ConnectorsSpec

\* The client that the next request will ping and use has not been closed.
THEOREM CachedClientGood == ConnectorsSpec => []CachedIsGood
<1>1. ConnectorsInv => CachedIsGood
  BY DEF ConnectorsInv, RedisInv
<1>2. QED
  BY <1>1, Invariance, PTL

\* A request loses its client only in trouble: no other request takes it away.
THEOREM ClientKept == ConnectorsSpec => []KeptWhileGood
<1>1. ConnectorsInv => KeptWhileGood
  BY DEF ConnectorsInv, RedisInv
<1>2. QED
  BY <1>1, Invariance, PTL

\* A connected worker makes its sessions from the engine that it would dispose of.
THEOREM FactoryBound == ConnectorsSpec => []FactoryIsEngine
<1>1. ConnectorsInv => FactoryIsEngine
  BY DEF ConnectorsInv, DbInv
<1>2. QED
  BY <1>1, Invariance, PTL

\* No step replaces the engine of a worker that stays connected.
THEOREM EngineStays == ConnectorsSpec => ConnectedEngineStays
<1>1. ASSUME [ConnectorsNext]_connectorVars, dbFlag, dbFlag' PROVE engine' = engine
  <2>1. CASE UNCHANGED dbVars
    BY <2>1 DEF dbVars
  <2>2. CASE DbRestart \/ DbChanges
    BY <1>1, <2>2 DEF DbRestart, DbChanges
  <2>3. ASSUME NEW p \in Tasks, DbCall(p) PROVE engine' = engine
    BY <1>1, <2>3
    DEF DbCall, GetDb, Connecting, ProbeAnswers, ProbeFails, Retry, EndSession, SessionBreaks,
        Refused, CancelDb
  <2>4. QED
    BY <1>1, <2>1, <2>2, <2>3, SameRequests
    DEF ConnectorsNext, connectorVars, Lifespan, Outage, DbOutage, OnRedis, OnDb
<1>2. QED
  BY <1>1, PTL DEF ConnectorsSpec, ConnectedEngineStays
=============================================================================
