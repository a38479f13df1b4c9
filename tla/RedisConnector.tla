----------------------------- MODULE RedisConnector -----------------------------
(***************************************************************************)
(* RedisClient of core/RedisConnector.py: the one client of a worker, which *)
(* ensure_connected verifies or replaces before each use.                   *)
(*                                                                         *)
(* A client is the object that redis.from_url makes.  aclose() disconnects  *)
(* every connection of its pool, those with a command in flight included.   *)
(***************************************************************************)
EXTENDS FiniteSets, Integers

CONSTANTS
  Procs,    \* requests of one worker
  Clients,  \* ids of clients, numbers: more than Procs can hold at a time
  Retries,  \* the argument retries of ensure_connected
  PoolSize, \* max_connections of a client
  NoClient,
  NoProc

ASSUME RedisAssumption ==
  /\ Clients \subseteq Nat
  /\ NoClient \notin Clients
  /\ NoProc \notin Procs
  /\ Retries \in Nat
  /\ PoolSize \in Nat \ {0}

VARIABLES
  redisUp,    \* does Redis answer?
  client,     \* _client
  connected,  \* _is_connected
  lock,       \* the request that holds _connect_lock
  closed,     \* clients that aclose() has disconnected and something refers to
  at,         \* where a request stands in ensure_connected
  attempt,    \* its number of the attempt
  mine,       \* the client it was given
  trouble     \* history: since a request got its client, a ping failed or Redis was down

redisVars == <<redisUp, client, connected, lock, closed, at, attempt, mine, trouble>>

Stages ==
  {"idle", "waiting", "pinging", "closing", "connecting", "backoff", "using", "failed"}

RedisTypeOK ==
  /\ redisUp \in BOOLEAN
  /\ client \in Clients \cup {NoClient}
  /\ connected \in BOOLEAN
  /\ lock \in Procs \cup {NoProc}
  /\ closed \subseteq Clients
  /\ at \in [Procs -> Stages]
  /\ attempt \in [Procs -> 0 .. Retries]
  /\ mine \in [Procs -> Clients \cup {NoClient}]
  /\ trouble \in [Procs -> BOOLEAN]

RedisInit ==
  /\ redisUp \in BOOLEAN
  /\ client = NoClient
  /\ connected = FALSE
  /\ lock = NoProc
  /\ closed = {}
  /\ at = [p \in Procs |-> "idle"]
  /\ attempt = [p \in Procs |-> 0]
  /\ mine = [p \in Procs |-> NoClient]
  /\ trouble = [p \in Procs |-> FALSE]

\* The clients that requests hold.
Held == {mine[q] : q \in Procs} \ {NoClient}

Unused == Clients \ (Held \cup {client})

\* The id of a client that nothing refers to, the least one: no step depends on
\* which id a new client gets.
Fresh(c) == c \in Unused /\ \A d \in Unused : c <= d

\* from_url puts a new client in place; then its ping is awaited.
BeginConnect(p) ==
  /\ \E c \in Clients :
       /\ Fresh(c)
       /\ client' = c
       /\ closed' = closed \cap Held
  /\ at' = [at EXCEPT ![p] = "connecting"]
  /\ UNCHANGED connected

\* Mutant: the client is replaced at each use, as if it were never good.
EnterReplaces(p) ==
  IF client # NoClient /\ connected
  THEN at' = [at EXCEPT ![p] = "closing"] /\ connected' = FALSE /\ UNCHANGED <<client, closed>>
  ELSE BeginConnect(p)

\* The head of the loop: ping the cached client, or connect.
Enter(p) ==
  IF client # NoClient /\ connected
  THEN at' = [at EXCEPT ![p] = "pinging"] /\ UNCHANGED <<client, closed, connected>>
  ELSE BeginConnect(p)

Arrive(p) ==
  /\ at[p] = "idle"
  /\ at' = [at EXCEPT ![p] = "waiting"]
  /\ attempt' = [attempt EXCEPT ![p] = 0]
  /\ UNCHANGED <<redisUp, client, connected, lock, closed, mine, trouble>>

Acquire(p) ==
  /\ at[p] = "waiting"
  /\ lock = NoProc
  /\ lock' = p
  /\ Enter(p)
  /\ UNCHANGED <<redisUp, attempt, mine, trouble>>

\* return self._client, with the lock released.
HandOut(p) ==
  /\ mine' = [mine EXCEPT ![p] = client]
  /\ at' = [at EXCEPT ![p] = "using"]
  /\ lock' = NoProc
  /\ UNCHANGED trouble

PingAnswers(p) ==
  /\ at[p] = "pinging"
  /\ redisUp
  /\ HandOut(p)
  /\ UNCHANGED <<redisUp, client, connected, closed, attempt>>

\* Every connection of the pool carries a command of some request.
PoolFull == Cardinality({q \in Procs : at[q] = "using" /\ mine[q] = client}) >= PoolSize

\* Mutant: the flag is cleared only when the client is closed.
PingFailsFlagLater(p) ==
  /\ at[p] = "pinging"
  /\ ~redisUp \/ PoolFull
  /\ at' = [at EXCEPT ![p] = "closing"]
  /\ trouble' = [q \in Procs |-> trouble[q] \/ at[q] = "using"]
  /\ UNCHANGED <<redisUp, client, connected, lock, closed, attempt, mine>>

\* The ping fails: Redis does not answer, or max_connections are in use.
PingFails(p) ==
  /\ at[p] = "pinging"
  /\ ~redisUp \/ PoolFull
  /\ at' = [at EXCEPT ![p] = "closing"]
  /\ connected' = FALSE
  /\ trouble' = [q \in Procs |-> trouble[q] \/ at[q] = "using"]
  /\ UNCHANGED <<redisUp, client, lock, closed, attempt, mine>>

\* aclose() of the old client, _client = None, then a new one at once.
Closed(p) ==
  /\ at[p] = "closing"
  /\ \E c \in Clients :
       /\ Fresh(c)
       /\ client' = c
       /\ closed' = (closed \cup {client}) \cap Held
  /\ connected' = FALSE
  /\ at' = [at EXCEPT ![p] = "connecting"]
  /\ UNCHANGED <<redisUp, lock, attempt, mine, trouble>>

\* Mutant: reconnecting takes the lock that ensure_connected holds.
ConnectAnswersLocked(p) ==
  /\ at[p] = "connecting"
  /\ lock = NoProc
  /\ redisUp
  /\ connected' = TRUE
  /\ HandOut(p)
  /\ UNCHANGED <<redisUp, client, closed, attempt>>

ConnectAnswers(p) ==
  /\ at[p] = "connecting"
  /\ redisUp
  /\ connected' = TRUE
  /\ HandOut(p)
  /\ UNCHANGED <<redisUp, client, closed, attempt>>

\* Mutant: one attempt more than retries + 1.
ConnectFailsOnceMore(p) ==
  /\ at[p] = "connecting"
  /\ ~redisUp
  /\ closed' = closed \cap Held
  /\ client' = NoClient
  /\ connected' = FALSE
  /\ IF attempt[p] <= Retries
     THEN at' = [at EXCEPT ![p] = "backoff"] /\ UNCHANGED lock
     ELSE at' = [at EXCEPT ![p] = "failed"] /\ lock' = NoProc
  /\ UNCHANGED <<redisUp, attempt, mine, trouble>>

\* InfrastructureError: try again after a pause, with the lock held, or raise.
ConnectFails(p) ==
  /\ at[p] = "connecting"
  /\ ~redisUp
  /\ closed' = closed \cap Held
  /\ client' = NoClient
  /\ connected' = FALSE
  /\ IF attempt[p] < Retries
     THEN at' = [at EXCEPT ![p] = "backoff"] /\ UNCHANGED lock
     ELSE at' = [at EXCEPT ![p] = "failed"] /\ lock' = NoProc
  /\ UNCHANGED <<redisUp, attempt, mine, trouble>>

Resume(p) ==
  /\ at[p] = "backoff"
  /\ attempt' = [attempt EXCEPT ![p] = @ + 1]
  /\ Enter(p)
  /\ UNCHANGED <<redisUp, lock, mine, trouble>>

\* The caller is done with the client, or with the error.
Release(p) ==
  /\ at[p] \in {"using", "failed"}
  /\ at' = [at EXCEPT ![p] = "idle"]
  /\ mine' = [mine EXCEPT ![p] = NoClient]
  /\ attempt' = [attempt EXCEPT ![p] = 0]
  /\ trouble' = [trouble EXCEPT ![p] = FALSE]
  /\ closed' = {c \in closed : c = client \/ \E q \in Procs \ {p} : mine[q] = c}
  /\ UNCHANGED <<redisUp, client, connected, lock>>

\* The task is cancelled at one of the awaits.  CancelledError is none of the
\* exceptions that are caught; aclose() may have done its work or not.
Cancel(p) ==
  /\ at[p] \in {"waiting", "pinging", "closing", "connecting", "backoff"}
  /\ at' = [at EXCEPT ![p] = "idle"]
  /\ attempt' = [attempt EXCEPT ![p] = 0]
  /\ lock' = IF lock = p THEN NoProc ELSE lock
  /\ closed' \in IF at[p] = "closing" THEN {closed, closed \cup {client}} ELSE {closed}
  /\ UNCHANGED <<redisUp, client, connected, mine, trouble>>

RedisChanges ==
  /\ redisUp' = ~redisUp
  /\ trouble' = [q \in Procs |-> trouble[q] \/ at[q] = "using"]
  /\ UNCHANGED <<client, connected, lock, closed, at, attempt, mine>>

\* disconnect() at shutdown, when no request is left, and the start of the
\* next process, whose connect() may find Redis down and go on without.
Restart ==
  /\ \A p \in Procs : at[p] = "idle"
  /\ \/ /\ redisUp
        /\ \E c \in Clients : client' = c
        /\ connected' = TRUE
     \/ client' = NoClient /\ connected' = FALSE
  /\ closed' = {}
  /\ UNCHANGED <<redisUp, lock, at, attempt, mine, trouble>>

\* What a call does once it has the lock.
Proceed(p) ==
  \/ PingAnswers(p) \/ PingFails(p) \/ Closed(p)
  \/ ConnectAnswers(p) \/ ConnectFails(p) \/ Resume(p)

RedisCall(p) == Arrive(p) \/ Acquire(p) \/ Proceed(p) \/ Release(p) \/ Cancel(p)

RedisNext == RedisChanges \/ Restart \/ \E p \in Procs : RedisCall(p)

RedisSpec == RedisInit /\ [][RedisNext]_redisVars

\* asyncio.Lock is FIFO, so who waits while the lock is free again and again is
\* served; socket_timeout ends every ping and every connect, pauses are finite.
RedisFairness == \A p \in Procs : WF_redisVars(Proceed(p)) /\ SF_redisVars(Acquire(p))

RedisFairSpec == RedisSpec /\ RedisFairness
=============================================================================
