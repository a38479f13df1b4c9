# A TLA+ model of the API boilerplate

This directory models the service in `src/`: a FastAPI application with JWT access
tokens, rotating refresh tokens in Redis, account and permission administration in
PostgreSQL, and a stack of middlewares. Paths below are relative to `src/App/` unless they
start with `src/`.

Every worker process runs one event loop. Between two `await`s of a request any other
request of the same or another worker may run, and all of them share Redis, PostgreSQL and
nothing else that matters here. So the models have one action for each Redis command (or
MULTI pipeline) and for each flush or commit, and a request may fail at any of them.

## 1. Inventory

| Component | State it keeps | Operations | Hard behaviour | Correct means |
|---|---|---|---|---|
| Refresh sessions: `core/token_store.py`, `core/redis_keys.py`, `services/auth_service.py`, `services/user_service.py`, refresh part of `api/dependencies/auth.py`, routes in `api/v1/UserAuth.py`, `api/v1/Users.py` | Redis: `refresh:{jti}`, `revoked_rt:{jti}`, `refresh_family:{family}`, `user_families:{user}`, each with an expiry | login, refresh (rotation), logout, `revoke_session` | several commands per request, not atomic together; concurrent use of one token; logout while a rotation runs; failure between two commands; four expiries that must stay in step | one usable token per family; a usable token is never taken for a reuse; logout finds every usable token; a spent token is recognised while its signature verifies |
| Login throttle: `check_login_rate` | Redis: `login_attempts:{id}:{ip}` | INCR, then EXPIRE on the first attempt | failure or other workers between the two | at most the limit in the life of a key; a lockout ends |
| Access tokens and authentication: `api/dependencies/auth.py` | the JWT itself; Redis `blocklist_at:{jti}`; the account's row | issue, decode, validate, block at logout, short-lived recovery tokens | blocklist and account are read at two awaits; lifetimes are cut to whole seconds; the block is "non-fatal" | a logged-out token is refused; an inactive account gets in by the recovery routes only |
| Kill switch: `middleware/kill_switch_middleware.py`, handlers in `src/main.py`, reset route | Redis: `kill_switch:auto_kill_until` | dispatch, `engage_auto_kill`, reset | many failures at once, slow Redis, Redis down, the reset itself | requests are refused only shortly after a failure, and service resumes |
| Accounts and permissions: `services/admin_service.py`, `api/v1/Admin.py`, `repository/UserRepository.py`, `api/dependencies/permissions.py` | PostgreSQL table `users` | update, disable, enable, delete, restore, temp token, set / bulk set / remove permissions, update password | READ COMMITTED transactions that decide on rows read earlier and write only the columns that changed | a row is never half deleted; a deletion is undone by a restore only; some administrator can still log in |
| Sign-up, admin creation: `register_user`, `create_admin_if_not_exists` | `users` | check and insert; ON CONFLICT DO NOTHING, then read and promote | check-then-insert race, unique index, every worker seeds | one account per e-mail; the seeded administrator is one |
| Redis connector: `core/RedisConnector.py` | one client per worker, a lock | connect, reconnect with ping, disconnect | a client replaced while others use it; cancellation between closing and forgetting it; a full pool | nobody gets a closed client, loses a good one, or hangs; an outage leaves nothing broken |
| Database connector: `core/Connector.py` | engine, `is_connected` | connect, session, disconnect | no lock: concurrent reconnects, the factory bound to a shared attribute after an await, the flag cleared by a late failure | sessions come from the engine that is disposed of; a refused request is answered; the worker recovers |
| HTTP rate limit: `middleware/rate_limit_middleware.py` | Redis counters per bucket | count and refuse | fixed buckets, counts that arrive late, refused requests that renew the expiry, missing Redis | the limit per bucket; a client is let in again |
| Body size, gzip, size parsing: `middleware/body_size_middleware.py`, `gzip_*`, `core/size_parser.py` | none | check, decompress, compress | limits before and after decompression | the route reads the whole body or none of it, within the limits |
| Exception routing: `src/main.py`, `core/exceptions.py` | none | exception to status, engage the kill switch | which clause or handler wins; which failures engage the kill switch | outages are not blamed on the client; nothing but an outage engages the switch |
| Request ids, logging, settings, schemas, listing and health routes, slowapi limiter, e-mail sender, migrations, `src/pmg.py` | none that the rest reads | | | |

How they interact: a request passes the kill switch, the HTTP rate limit, request id and
body limits, then authentication (Redis blocklist, then the account's row), then
`require_permission` (the row as authentication read it), then the service, which uses the
token store or the repository. An infrastructure exception travels back to `src/main.py`,
which engages the kill switch. Disabling or deleting an account does not touch Redis; it
takes effect because the next authentication reads the row.

## 2. Modules

| Module | Models | Its state in the code |
|---|---|---|
| `RefreshChains` | what rotation promises: abstract token chains | `used`, `holder`: no counterpart, this is the abstraction |
| `Sessions` | the token store and its four requests | `refresh`, `revoked`, `members`, `index` are the Redis keys as ticks left or sets, `membersLeft`, `indexLeft` their expiries; `owner`, `familyOf`, `jwtLeft` what the minted JWTs say; `op`, `pc` and the locals are the coroutine of each request |
| `SessionsInvariant` | the inductive invariant of `Sessions` | |
| `SessionsHistory` | `Sessions` with history variables (`raced`, `unmarked`) for the properties that compare two states, and the invariant behind them | |
| `SessionsClaims` | `Sessions` with what the documentation claims and the code does not do | |
| `SessionsProofs`, `SessionsHistoryProofs` | theorems about `Sessions` and `SessionsHistory` | |
| `ErrorRouting` | `core/exceptions.py`, the handlers of `src/main.py`, the except clauses of the routes: `Handled` and `Translated` as functions of an exception | none |
| `Service` | a request from the kill switch through dependencies, body and commit to its answer: `KillSwitch` composed with `ErrorRouting` | `route`, `part` say how far a request has come, `fault` which exception's handler runs for it |
| `RedisConnector` | `RedisClient` | `client`, `connected` are `_client`, `_is_connected`, `lock` the asyncio lock; `at`, `attempt` a call of `ensure_connected`; `mine` the client a request was given; `closed` the clients after `aclose()`; `trouble` is history |
| `DbConnector` | `Database.connect`, `session`, `disconnect` and `get_db` | `engine`, `factory`, `dbFlag` are `_engine`, `_session_factory`, `_is_connected`; `probe` the engine whose `SELECT 1` a request awaits, `tries` tenacity's attempts |
| `Connectors` | both connectors of one worker, used by the same requests, and `lifespan` | |
| `HttpRate` | `GlobalRateLimitMiddleware` for one client and path | `hits`, `life` are the keys of the latest buckets and their expiries, numbered by age; `waits` a request that has computed its key and awaits Redis; `passed` is history |
| `BodyLimits` | `BodySizeLimitMiddleware`, `GZipRequestMiddleware`: functions of a body | none |
| `Intake` | a login request on its way in: `HttpRate`, `BodyLimits` and `LoginRate` composed | `stage` how far a request has come; `body` what was sent, meant and read |
| `Credentials` | sign-up, `create_admin`, `PUT /account` and `PUT /account/password` as transactions on e-mail, password and role | `rows` the committed rows; `draft` the columns that an open transaction writes; `req` the requests; `assured` and `stale` are history |
| `LoginRate` | `check_login_rate` | `count`, `left` are the key and its expiry; `key[p]` is a request between INCR and EXPIRE; `granted` is history |
| `AccessGate` | issue, validation and blocking of access tokens against the account's status | `exp`, `slt` are claims; `blocked` the Redis key; `account` the row; `req` the requests; `loggedOut`, `missed` and three fields of `req` are history |
| `KillSwitch` | middleware, `engage_auto_kill`, handlers, reset | `until`, `key` are value and expiry of the Redis key; `mine` the time a failed request computed before it reached Redis; `age` is history |
| `Accounts` | the transactions of the administrator routes | `db` the committed rows; `change` what each open transaction has assigned and not committed; `slts` users with a recovery token; `req` the requests |
| `AccountsProofs`, `CredentialsProofs`, `AccessGateProofs`, `ServiceProofs`, `IntakeProofs`, `ConnectorsProofs` | theorems about the module they are named after, and so about the modules it composes | |
| `MCSessions`, `MCSessionsClaims`, `MCAccounts` | symmetry and definitions for TLC | |

The other runs need no MC module: their cfg files give every constant a value.

Correspondence that is not obvious:

* **Time.** Redis expiries and JWT lifetimes are ticks left, counted down by `Tick`. Only
  their order matters to `Sessions`, so one tick stands for any stretch of time. Where the
  code truncates to whole seconds (`AccessGate`, `KillSwitch`) the clock has `Sub` ticks per
  second and the truncation is modelled as `\div`.
* **Failure.** `Abort` ends a request at any await: Redis or the database failed, the client
  left, the worker died, or a check on data that the model leaves out refused it. Earlier
  commands stay. In `Accounts` an abort drops the transaction.
* **SQLAlchemy.** A flush emits an UPDATE of the columns whose value differs from the one
  loaded (`Changed`), and waits for the row lock (`Holds`). Assigning a value that was
  already there writes nothing: this is why `full_restore` cannot undo a deletion that it
  did not see, and the model would show it if it wrote every column (the mutant
  `ChangedAll`).
* **Unique index.** A transaction holds the index entry of the e-mail it has written and of
  the one it has replaced; another that wants one of them waits, and then conflicts or not
  (`HoldsEntry`, `Waits`, `Conflict` in `Credentials`). Checks (`exists_by_email`,
  `get_by_email`) read committed rows and hold nothing. The names of accounts are not
  unique in the table and decide nothing.
* **Objects.** A Redis client or an engine is an id; a new one gets the least id that nothing
  refers to, so that finitely many ids are enough for any number of reconnects.
* **Exceptions.** `Raisable` is the set of exceptions that may come out of a part of a route,
  read off the calls it makes. An outage may be as short as one command, so any call may
  fail at any time. `Clauses` lists the except clauses of a route in their order and `MRO`
  the classes of an exception, so that order and inheritance decide in the model as they do
  in Python and in Starlette.
* **Permissions** are the sets of keys whose value is true; `RouteKeys` lists the keys that
  open each route.
* `Mixes` (in `Accounts`) bounds which operations meet in one behaviour. It is a constant of
  the specification, and the theorems hold for every value of it, the set of all operations
  included.

## 3. Runs

| Run | Question | Bounds, and why they are enough |
|---|---|---|
| `Sessions` | Do rotation, reuse detection and the indexes of logout stay right when two requests race logins, rotations and logouts, any of them failing anywhere? Does the store implement `RefreshChains`? | 1 user, 1 family, 3 tokens, 2 requests. Three tokens give a spent, a current and a pending one. Properties about pairs of tokens or of requests need two of each; that no number of requests breaks the two central ones is proved |
| `SessionsFamilies` | The same with two logins of one user and with `revoke_session`, which no route calls: does revoking one family spoil the other? | 1 user, 2 families, 2 tokens, 2 requests |
| `AccessGate` | Which logged-out tokens and inactive accounts are still let in? | 1 token, 2 requests, life 2 s, 2 ticks per second, 6 ticks: longer than the token's life, so that blocks and tokens expire; half seconds show the truncation |
| `Accounts` | Are rows left consistent by any two overlapping transactions, and who can remove the last administrator? | 2 users, 2 requests, one permission key, three mixes of operations, chosen so that each operation meets each other one that writes a column it reads |
| `Service` | Which failures engage the kill switch, what is the client told, who is turned away, how long, and does service resume? | 2 requests, nine routes that stand for every combination of except clauses, dependencies and session; 2 s cool-down, 2 ticks per second, automatic mode; Redis comes and goes |
| `Connectors` | Is a client or a session that a request is given good, does it ever lose it to another request, hang, or stay refused after an outage? | 2 requests, 1 retry (the default), 2 attempts, a pool of 1 (so that it is full when one request uses it); 3 clients and 4 engines: one more than can be referred to at a time |
| `Intake` | Do the HTTP limit and the login throttle hold and end when requests race and Redis fails, and does the route read a whole body? | 2 requests, one client; limits of 2; buckets of 2 ticks, up to one bucket late; a login window of 3 ticks; every body of up to 3 bytes against limits of 1 and 2 |
| `Credentials` | One account per e-mail, an administrator after seeding, and who replaces which password, when checks and writes interleave? | 3 rows, 2 e-mails, 2 passwords, 2 transactions at a time; three rows leave one that neither transaction writes |
| `SessionsReuse`, `SessionsLogoutRace`, `LoginLockout`, `AccountsLockout` | Four statements of the documentation, comments or messages that the code does not keep (section 5) | as above, with what the statement needs |

All three lifetimes of the Sessions runs are equal, as in the shipped configuration (seven
days each). This matters: `SpentStaysMarked` needs a marker that lives at least as long as
the signature, and the markers of logout are written with `REFRESH_TOKEN_TTL_SECONDS`; a
shorter setting (300 seconds are allowed) would let a revoked JWT outlive its marker. Two of
the theorems state this as a hypothesis (`LifetimesOrdered`); the others hold for any lifetimes.

Named bounds: `CountCap` (LoginRate) and
`HitCap` (HttpRate): a count above the limit stays at the cap, which no step tells apart;
`MaxAge` (HttpRate: buckets that a request may wait for Redis), `MaxSize` (BodyLimits: bytes
of a body), `MaxTime` (AccessGate: the last tick), `Mixes` (Accounts), and the sets of ids.
Token ids are uuids that never repeat, so a run of `Sessions` ends when they are used up;
`AccessGate`, `Accounts`, `Credentials` and `Intake` reach a bound or serve their last
request too, and are run without deadlock checking. `Service` and `Connectors` are checked
for deadlock: a request always has a way on.

Symmetry is used where only safety is checked (`Sessions*`, `Accounts*`), over ids that no
formula tells apart.

**What the properties say.**

* `IInv`, `HInv`, `GateInv`, `ServiceInv`, `ConnectorsInv`, `IntakeInv`, `CredentialsInv`: the
  inductive invariants of section 4. TLC checks them so that a strengthening that is wrong
  shows on a small instance; each but `HInv`, which stands
  beside `IInv`, contains its module's type invariant.
* `OneLivePerFamily`, `LiveNotRevoked`: two requests that present the same token cannot both
  obtain a successor, because GETDEL decides, not the check of the marker before it; and no
  usable token is ever marked as spent.
* `LiveIsIndexed`: each usable token is in both indexes for at least as long as it lives.
  The exception is precise: tokens stored while a revocation of the same user was running,
  as long as one runs or if it has lost them (`raced`). A token that a revocation raced and
  left in the indexes is no exception any more when none is running.
* `SpentStaysMarked`: what was taken out is recognised as a reuse while it verifies, unless
  the request failed between GETDEL and SET.
* `LogoutKillsUnraced`: when logout answers, the usable tokens of the user are those in
  `raced`: stored while this logout or a chain of revocations that overlaps it ran, or stored
  during an earlier one that put them out of the indexes. The latter are older than the logout
  and no logout finds them (`SessionsLogoutRace` shows how they come about). Everything else
  dies, whatever failed before: also what an earlier revocation raced and left in the indexes.
* `AttemptsBounded`, `TimedLockoutEnds`: INCR decides, so the order of the EXPIRE does not
  matter to the limit; a lockout whose key got its expiry ends although the client may go on
  trying for ever, because later attempts leave the expiry alone. (`LoginLockout` is about the
  key that never got one.)
* `WithinBucketLimit`, `RateLimitEnds`: although each request renews the expiry, a refused or
  late one included, a bucket lets no more than its limit pass, and the next one starts from
  nothing because the bucket is in the key. Requests that Redis did not answer pass, by
  design, and are not counted by the property.
* `WholeBodyWithinLimit`: what reaches the route is the body that was meant, whole; the extra
  byte that is read tells a body above the limit from one of exactly the limit.
* `LoggedOutRefused`: the blocklist covers a logged-out token up to the last second of its
  life (the lifetime is cut to whole seconds), unless Redis refused the key, which logout
  does not report.
* `InactiveOnlyByRecovery`: a request during the whole of which the account was inactive is
  served only with a short-lived token on a recovery route.
* `BlocksOnlyAfterFailure`, `WindowNotExtended`, `TrafficResumes`: NX makes the first failure
  the owner of the window, and the time is computed before Redis is awaited.
* `OnlyOutagesEngage`: the handlers would engage the switch for any `SQLAlchemyError`, also
  one that the data of a single request causes (a conflict on the unique index, two accounts
  of one name at a login); each route answers those before a handler sees them.
* `OutageNotBlamedOnClient`: an outage is answered 5xx, with one precise exception: the
  `InfrastructureError` of `ensure_connected` in the body of login and refresh (section 5).
* `CachedIsGood`, `KeptWhileGood`: what the next request pings was not closed, although a
  request may be cancelled while it closes the client; and a client is closed under its users
  only when Redis was down or the pool was full, not because another request asked for it.
* `FactoryIsEngine`, `ConnectedEngineStays`: several requests connect at the same time without
  a lock and replace each other's engine. The factory may be bound to an engine that has not
  answered its probe, but never to one that `disconnect` does not know, and the engine of a
  connected worker is never replaced. (A replaced engine is dropped without `dispose()`; its
  connections are left to the garbage collector.)
* `ConnectingEnds`, `OutageLeavesNoTrace`: nobody hangs in a connector, and when both services
  stay up, every request is served in the end, whatever the outage interrupted.
* `CredentialsInv` (with `OneAccountPerEmail`), `SeededAdmin`: the checks before a write
  decide nothing, the unique index does, over committed and pending rows; after the conflict
  `create_admin` reads and promotes the row that won. From then on only `PUT /account` of
  another administrator or of a delegate takes the role away, or one that changes the e-mail;
  if it does so between the SELECT and the commit of a worker, that worker has promoted
  nobody, and the property does not count it.
* `ReplacedKnowingly`: which requests replace a password. Sign-ups and seeding workers never
  do, whatever they race; `PUT /account/password` by the owner compares the old one with a
  row read earlier, so it replaces the one that was given or one set while the request was
  open; administrators and recovery tokens need none, and neither does `PUT /account`, the
  owner's own included (section 5).
* `DeletedIffInactive`, `DeletedUntilRestored`: although transactions mix their columns in a
  row, deletion and activity are written together; the enable route cannot undo a deletion.
* `LastAdminLostByRace`: an administrator acting alone cannot remove the last usable
  administrator account. Only a delegate (an account with `admin.users.promote` or the like)
  can, or an administrator whose own account is taken away while the request runs.

**Fairness.** Only liveness properties use it. In `Service` `WF(Tick)`: time passes. In
`Intake` time passes, a request that waits for Redis gets an answer or an error (the Redis
client has timeouts), and `SetExpiry` of a request that Redis serves happens; the
alternative `FailBeforeExpiry` stays possible, since weak fairness of one does not forbid the
other. In `Connectors` weak fairness of `Proceed` and `Connecting`: every ping, connect and
probe has a timeout and every pause is finite; weak fairness of the end of a refused request;
and strong fairness of `Acquire`, because `asyncio.Lock` serves its waiters in their order, so
one that waits while the lock is free again and again gets it. Nothing is assumed about
clients, failures or recoveries of Redis and PostgreSQL: `TrafficResumes`, `RateLimitEnds` and
`ConnectingEnds` hold however often they fail; `OutageLeavesNoTrace` says in itself that they
stay up.

**Mutants.** Beside many actions stands an operator marked "Mutant": the same action with a
plausible bug. Substituting it must break the property it is listed with, which shows that
the property depends on that line of the code.

## 4. Proofs

Checked by TLAPS for every value of the constants that satisfies the `ASSUME`s.

**`SessionsProofs`** (from `IdsAssumption`, `TTLAssumption`, `OperationsAssumption`).
`OneLivePerFamily` is not inductive: when a rotation stores a successor one must know that
the family has no usable token. The invariant `IInv` of `SessionsInvariant` says who may:
a request *carries* a family from the moment it took the family's token out (or minted the
family) until it has stored the successor; a carried family has no usable token
(`CarrierExcludesLive`), two requests never carry the same family (`CarriersDiffer`), and a
token that is minted and not stored is known to nobody (`PendingIsNew`, `UnmintedIsNew`,
`PendingDiffer`), so that storing it cannot revive a marked one. `Invariance` proves it action
by action; `TypeCorrect`, `SingleChain` and `FirstUseAccepted` follow. `Implements` proves the
refinement: under `Used` and `Holder` (a CHOOSE that `SingleChain` makes unambiguous) every
step of the store issues, retires, burns or stutters in `RefreshChains`.

**`SessionsHistoryProofs`** (from the same; `HistoryInvariance` and `SpentMarked` also from
`LifetimesOrdered`: `JwtTTL <= RefreshTTL` and `JwtTTL <= MarkTTL`, which the defaults satisfy).
Every step of `HSpec` is a step of `Spec`, so `IInv` is there to use. Two invariants come on
top. `IndexInv` is about a running revocation: every usable token that it pursues and that is
not in `raced` is in a family that it has still to read, or in the answer of SMEMBERS that
it is about to delete (`PursuedAreAhead`). So the family key is deleted only with all of its
unraced tokens, and the index of the user only when none is left; both would be false without
knowing that requests and indexes name families of one user (`FamiliesAreOwned`,
`IndexedAreOwned`). `LiveFindable` and `LogoutKills` follow. Each action is proved for an arbitrary set of excepted
tokens (`IndexInvBut`); `Forgotten` then shows that a token may leave `raced` when it is in the
indexes and no revocation of its user runs, since then nobody pursues it. `MarkInv` is about lifetimes: the
key of a usable token, and the marker of a spent one, last as long as the JWT
(`JwtExpiresFirst`); the lemmas on Mark, Store and FamilyKill are where the hypothesis is
used. `SpentMarked` follows; it extends to tokens still on their way to a client (`Sent`),
since a logout may kill one before its client has it.

**`AccountsProofs`** (from `AccountsAssumption`). `DeletedIffInactive` needs that each pending
change touches both columns or neither and agrees on them (`ChangesAgree`): a change computed
on an old row must still be good for the row it is merged into. `LastAdminLostByRace` needs
`AdminsKeepThemselves`: what an administrator's request has pending for its own row takes
nothing away. `DeletedUntilRestored` needs `UndeletedByRestore`: a pending change that takes back
a deletion is a restore's, because an enable accepts only an account that it saw undeleted and an
UPDATE has the changed columns alone. `IdleChangesNothing` ties changes to requests. Results:
`Invariance`, `TypeCorrect`, `DeletedTogether`, `LastAdminLost`, `DeletionStands`.

**`CredentialsProofs`** (from `CredentialsAssumption`). `OneAccountPerEmail` speaks of committed
rows and of index entries that open transactions hold, and is inductive only together with
`RowsHeldOnce` (a row is written by one transaction), `TargetsExist` and, for the two other
results, `SeedersPromote` and `OwnersKnew`: what a request has read is still so, or another
request has changed just that since (`stale`). Every action but `Commit` changes one request
and its draft; `LocalStep` proves those at once. Results: `Invariance`, `SeededAdminStays`,
`ReplacesKnown`.

**`AccessGateProofs`** (from `GateAssumption`). The lifetime of a blocklist key is computed
first, in whole seconds, and the key is set later: `Covers` says that even then less than a
second of the token is missed, from the lemmas on `\div` about rounding down. `LogoutsCover`
carries it from one step of logout to the next, `KeysCover` keeps it in Redis, and
`RequestsAgree` keeps what a request in flight knows of logouts and of the account. Results:
`Invariance`, `LogoutCloses`, `InactiveRecoversOnly`.

**`ServiceProofs`** (from `SwitchAssumption` and `RoutesAssumption`). `BlocksOnlyAfterFailure`
follows from `WindowsFromFailures`: a window, set or computed and not yet set, and the age of the
latest failure together stay within the cool-down. `OnlyOutagesEngage` and
`OutageNotBlamedOnClient` are about every route, exception and except clause: `OutsideBodies` and
`OutageClasses` say what can come out of a part of a route, `OutageHandled` and `OutageTranslated`
what becomes of it, by going through the except clauses in their order. Results: `Invariance`,
`BlocksAfterFailure`, `OutagesEngage`, `WindowStands`, `OutagesNotBlamed`.

**`IntakeProofs`** (from `RateAssumption`, `HttpRateAssumption`, `BodyAssumption`, and
`SameRequests`). The throttle: the attempt that created the key is decided last, on a count of 1,
so while it is pending there is room for it (`GrantedWereCounted`, `PendingKeyStays`). The HTTP
limit: what passed was counted (`PassedWereCounted`), and the key of the current bucket outlives
the bucket (`KeyOutlivesBucket`), because each count renews it. Results: `Invariance`,
`ThrottleHolds`, `BucketLimitHolds`, `BodiesWhole`.

**`ConnectorsProofs`** (from `RedisAssumption`, `DbAssumption` and `SameRequests`). `CachedIsGood`
needs that exactly the request with the lock pings, closes or connects (`LockIsHeld`) and what it
knows of the flag and the client at each stage (`StagesAgree`); `KeptWhileGood` that a client is
being closed only after its users were in trouble (`UsersWereTroubled`). `FactoryIsEngine` is
inductive with `ProbesAgree`. Results: `Invariance`, `CachedClientGood`, `ClientKept`,
`FactoryBound`, `EngineStays`.

The operators in these modules use no recursion, so the SMT backend is available throughout.
The temporal steps combine an invariant with `[Next]_vars`; there is no other temporal reasoning.

**Only model-checked.** Liveness (`TimedLockoutEnds`, `RateLimitEnds`, `TrafficResumes`,
`ConnectingEnds`, `OutageLeavesNoTrace`): liveness under fairness and ENABLED are beyond the
prover. Every other property of a passing run is a theorem. What a recursive definition computes on all
inputs would need induction over data, which the prover cannot do either; no module has one.

## 5. Where the code and its words differ

| Run | The words | The code |
|---|---|---|
| `SessionsReuse` | `src/README.md:274`: reuse of a consumed refresh token kills the whole family | `refresh_access_token` logs the reuse and refuses the request; the family stays usable |
| `SessionsLogoutRace` | `src/README.md:270`: logout kills every refresh family the user has tracked | a rotation that stores its successor after the SMEMBERS of `revoke_family` (or after that family's turn) survives, and is no longer tracked |
| `LoginLockout` | `services/auth_service.py:42`: "Try again in a few minutes" | a failure between INCR and EXPIRE leaves a counter that never expires; and the window passed in is the refresh-token lifetime |
| `AccountsLockout` | `services/admin_service.py:125`: administrators must never disable themselves, because the system is bricked if the last one does | two administrators who disable each other at the same time both succeed |

Further differences that need no run to see them; a property would only restate the line:

* `src/README.md:449` promises 503 when Redis is down, and the docstring of
  `InfrastructureError` (`core/exceptions.py:26`) says that it has to be caught before
  `DomainError`. The routes of login and refresh catch `DomainError` only
  (`api/v1/UserAuth.py:140`), so a login without Redis answers 400 and a refresh 401, and
  neither engages the kill switch. `OutageNotBlamedOnClient` shows that these two are the
  only such places.
* `api/v1/Admin.py:317`: administrators can reset the system from safety mode. The route is
  not whitelisted (`middleware/kill_switch_middleware.py:87`), so it is answered 503 while
  there is something to reset; only a request that was let in before can do it.
* `src/main.py:378` passes `settings.GZIP_COMPRESS_LEVEL` as the body limit. The setting
  described as "Maximum request body size in bytes" (`core/settings.py:68`) is not used, and
  with the default level a body of more than five bytes is answered 413. `BodyLimits` takes
  whatever limit it is given.
* `api/dependencies/auth.py:278` calls short-lived tokens "meant to be single-use"; nothing
  marks one as used, so it opens the recovery routes until it expires.
* `services/admin_service.py:506`: "Old password is required to change your password". That is
  so on `PUT /account/password/{id}`; `PUT /account/{id}` takes a `password` as well
  (`models/UserAuthModel.py:68`), hashes it and stores it with no old one asked, for owners
  too (`services/admin_service.py:58`, `:94`). `UpdateAccount` in `Credentials` does so.
* The docstring of `UserRepository.create` names a `DuplicateNameError`, but names are not
  unique in the table. Two accounts of one name are created, and a login by that name is
  answered 503, because `scalar_one_or_none` raises `MultipleResultsFound`, an
  `SQLAlchemyError`.
* `src/main.py:409`: /health answers 503 if "a hard dependency (DB, Redis) is down". It asks
  `RedisClient.health_check`, which reports `disconnected` while `_client` is None and never
  reconnects, and /health is exempt from the two middlewares that would (kill switch and rate
  limit). So a worker that starts, or gives up reconnecting, while Redis is down reports
  itself unhealthy after Redis is back, until some other request reaches it. In `Connectors`
  this is the stretch in which `client = NoClient` although `redisUp`; only a call of
  `ensure_connected` (`Arrive`) ends it, and nothing obliges one to come.

## 6. Not modelled

* Hashing and password confirmation of disable, enable and delete: a confirmation that fails is
  one of the refusals that `Abort` covers. The token that opens `restore_passwd` is a request
  of `Accounts`; in `Credentials` a change with it is `ResetPassword`.
* Of the columns that `PUT /account/{id}` may write, e-mail, password and role are in
  `Credentials`, role and `disabled` in `Accounts`; names and profile pictures are in neither.
  Roles other than "admin" are one role, as the code tells no others apart.
* The repository's and connector's methods without a caller
  (`bulk` helpers, `BaseRepository`, `Database.transaction`, `Database.health_check`).
* The choice of the HTTP limit by longest prefix, the exempt paths, and the client's address.
* The compression of responses and the parsing of size strings: functions of one value,
  without state.
* What read-only routes return, logging, request ids, settings parsing, schema validation, e-mail,
  slowapi limiter, migrations: no state that the rest of the program reads, or generated or
  third-party behaviour.
* Signature checking, hashing and header parsing: a token is taken to be genuine.
* PostgreSQL deadlock detection is external: a waiting request may abort, which is all the
  application sees.

## 7. Plan

Done, in this order: `RefreshChains`, `Sessions` (with invariant, history and claims),
`LoginRate`, `AccessGate`, `KillSwitch`, `Accounts`, `RedisConnector`, `DbConnector`,
`Connectors`, `ErrorRouting`, `Service`, `HttpRate`, `BodyLimits`, `Intake`, `Credentials`; then
the proofs of all of them.

To extend the model: a composition of `AccessGate` and `Sessions` through logout; the longest
prefix of the rate limits and `parse_size` as functions checked against a reference.

To prove more:

1. The properties of a component as theorems of its own specification, not only of the module
   that composes it.
2. The bounds of the model as theorems: that `Clients` and `Engines` of the sizes in the cfg
   always leave a fresh one, so that no action is disabled for want of ids.
