------------------------------- MODULE Connectors -------------------------------
(***************************************************************************)
(* Both connectors of one worker: every request asks the one or the other,  *)
(* one at a time, as often as its middlewares, dependencies and route do.   *)
(***************************************************************************)
EXTENDS RedisConnector, DbConnector

ASSUME SameRequests == Tasks = Procs

connectorVars == <<redisVars, dbVars>>

ConnectorsInit == RedisInit /\ DbInit

OnRedis(p) == RedisCall(p) /\ dbAt[p] = "idle" /\ UNCHANGED dbVars
OnDb(p) == DbCall(p) /\ at[p] = "idle" /\ UNCHANGED redisVars

\* lifespan: the connectors are disconnected when the last request has ended.
Lifespan == Restart /\ DbRestart

Outage == RedisChanges /\ UNCHANGED dbVars
DbOutage == DbChanges /\ UNCHANGED redisVars

ConnectorsNext ==
  \/ Lifespan \/ Outage \/ DbOutage
  \/ \E p \in Procs : OnRedis(p) \/ OnDb(p)

ConnectorsSpec == ConnectorsInit /\ [][ConnectorsNext]_connectorVars

\* asyncio.Lock is FIFO, so who waits while the lock is free again and again is
\* served; every ping, connect and probe has a timeout, pauses are finite, and a
\* refused request ends.
ConnectorsFairness ==
  \A p \in Procs :
    /\ WF_connectorVars(Proceed(p) /\ UNCHANGED dbVars)
    /\ SF_connectorVars(Acquire(p) /\ UNCHANGED dbVars)
    /\ WF_connectorVars(at[p] = "failed" /\ Release(p) /\ UNCHANGED dbVars)
    /\ WF_connectorVars((Connecting(p) \/ Refused(p)) /\ UNCHANGED redisVars)

ConnectorsFairSpec == ConnectorsSpec /\ ConnectorsFairness

---------------------------------------------------------------------------
(* Properties.                                                             *)

\* What the next request will ping and use is a client whose connections were
\* not closed, even if the request that was closing it was cancelled half-way.
CachedIsGood == connected => client # NoClient /\ client \notin closed

\* A client is closed while a request still uses it only if, since that request
\* got it, Redis was down or the commands of the worker filled its pool: no
\* request loses its client because another one asks for it.
KeptWhileGood ==
  \A p \in Procs : at[p] = "using" /\ mine[p] \in closed => trouble[p]

\* The sessions of a connected worker are made from the engine that disconnect
\* disposes of, although several requests may have connected at the same time.
FactoryIsEngine == dbFlag => factory = engine /\ engine # NoEngine

\* An engine is not replaced under a connected worker.
ConnectedEngineStays == [][dbFlag /\ dbFlag' => engine' = engine]_connectorVars

\* A request never hangs in a connector: it gets its client or session, or an
\* error, however often the services come and go.
ConnectingEnds ==
  \A p \in Procs :
    /\ at[p] \notin {"idle", "using", "failed"} ~> at[p] \in {"idle", "using", "failed"}
    /\ dbAt[p] \in {"probing", "backoff"} ~> dbAt[p] \notin {"probing", "backoff"}

\* Once both services stay up, no request is refused any more: neither connector
\* stays broken after an outage, whatever it interrupted.
OutageLeavesNoTrace ==
  <>[](redisUp /\ dbUp) => <>[](\A p \in Procs : at[p] # "failed" /\ dbAt[p] # "refused")

---------------------------------------------------------------------------
(* The inductive invariant behind the safety properties.                    *)

InLock == {"pinging", "closing", "connecting", "backoff"}

\* Who pings, closes or connects is the one that has the lock.
LockIsHeld == \A p \in Procs : lock = p <=> at[p] \in InLock

\* What a request with the lock knows of the client and of its attempts.
StagesAgree ==
  \A p \in Procs :
    /\ at[p] = "pinging" => connected
    /\ at[p] \in {"closing", "connecting"} => ~connected /\ client # NoClient
    /\ at[p] = "connecting" => client \notin closed
    /\ at[p] = "backoff" => ~connected /\ attempt[p] < Retries

\* A client is being closed only after something has happened to its users.
UsersWereTroubled ==
  \A p, q \in Procs : at[p] = "closing" /\ at[q] = "using" => trouble[q]

\* Probes run on engines that connect() has made, as often as tenacity allows.
ProbesAgree ==
  \A p \in Tasks :
    /\ dbAt[p] = "probing" => engine # NoEngine
    /\ dbAt[p] = "backoff" => tries[p] < Attempts

RedisInv ==
  RedisTypeOK /\ LockIsHeld /\ StagesAgree /\ UsersWereTroubled /\ CachedIsGood /\ KeptWhileGood

DbInv == DbTypeOK /\ ProbesAgree /\ FactoryIsEngine

ConnectorsInv == RedisInv /\ DbInv
=============================================================================
