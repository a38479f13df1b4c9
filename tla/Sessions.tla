-------------------------------- MODULE Sessions --------------------------------
(***************************************************************************)
(* Refresh-token sessions: the Redis token store of App/core/token_store.py *)
(* and the requests that use it (login, refresh, logout, revoke_session).  *)
(*                                                                         *)
(* Redis is shared by every worker.  A request is a coroutine; between two  *)
(* of its awaits any other request of any worker may run, so each Redis     *)
(* command, and each MULTI pipeline, is one action.  A request may fail at  *)
(* any await (Abort), its earlier commands having taken effect.             *)
(*                                                                         *)
(* Time is the tick of a coarse clock; every Redis key and every JWT keeps  *)
(* the number of ticks it has left.  Zero left means: no such key, or an    *)
(* expired signature.                                                       *)
(***************************************************************************)
EXTENDS Integers, FiniteSets

CONSTANTS
  Users, Families, Jtis,  \* user ids, family uuids, refresh-token uuids
  Procs,                  \* requests in progress, over all workers
  RefreshTTL,             \* settings.REFRESH_TOKEN_TTL_SECONDS
  MarkTTL,                \* default revoke_ttl of consume_refresh (7 days)
  JwtTTL,                 \* exp of create_refresh_token (7 days)
  Operations,             \* the operations that are called
  None                    \* absent user, family or token

ASSUME IdsAssumption ==
  /\ None \notin Users
  /\ None \notin Families
  /\ None \notin Jtis

ASSUME TTLAssumption ==
  /\ RefreshTTL \in Nat \ {0}
  /\ MarkTTL \in Nat \ {0}
  /\ JwtTTL \in Nat \ {0}

ASSUME OperationsAssumption ==
  Operations \subseteq {"login", "refresh", "logout", "revoke_session"}

VARIABLES
  \* What was minted (uuid4 ids never repeat).
  owner,         \* family -> user that logged in, None if unused
  familyOf,      \* jti -> "family" claim of the JWT, None if unused
  jwtLeft,       \* jti -> ticks before the JWT's exp
  held,          \* tokens whose response reached a client
  \* Redis.
  refresh,       \* refresh:{jti}: ticks left
  revoked,       \* revoked_rt:{jti}: ticks left
  members,       \* refresh_family:{family}: set of jtis
  membersLeft,   \* its ticks left
  index,         \* user_families:{user}: set of families
  indexLeft,     \* its ticks left
  \* The request that each process runs.
  op,            \* which operation, "none" if idle
  pc,            \* the await it stands at
  usr, fam, tok, \* user, family and token it is working on
  todo,          \* families that revoke_all_sessions_for_user has still to kill
  snap           \* what SMEMBERS returned to revoke_family

minted  == <<owner, familyOf, held>>
store   == <<refresh, revoked, members, membersLeft, index, indexLeft>>
locals  == <<usr, fam, tok, todo, snap>>
vars    == <<owner, familyOf, jwtLeft, held, refresh, revoked, members,
             membersLeft, index, indexLeft, op, pc, usr, fam, tok, todo, snap>>

AnyLeft == 0 .. (RefreshTTL + MarkTTL + JwtTTL)
Steps   == {"idle", "consume", "mark", "mint", "store", "track",
            "families", "kill", "deny"}

TypeOK ==
  /\ owner \in [Families -> Users \cup {None}]
  /\ familyOf \in [Jtis -> Families \cup {None}]
  /\ jwtLeft \in [Jtis -> AnyLeft]
  /\ held \subseteq Jtis
  /\ refresh \in [Jtis -> AnyLeft]
  /\ revoked \in [Jtis -> AnyLeft]
  /\ members \in [Families -> SUBSET Jtis]
  /\ membersLeft \in [Families -> AnyLeft]
  /\ index \in [Users -> SUBSET Families]
  /\ indexLeft \in [Users -> AnyLeft]
  /\ op \in [Procs -> Operations \cup {"none"}]
  /\ pc \in [Procs -> Steps]
  /\ usr \in [Procs -> Users \cup {None}]
  /\ fam \in [Procs -> Families \cup {None}]
  /\ tok \in [Procs -> Jtis \cup {None}]
  /\ todo \in [Procs -> SUBSET Families]
  /\ snap \in [Procs -> SUBSET Jtis]

Init ==
  /\ owner = [f \in Families |-> None]
  /\ familyOf = [j \in Jtis |-> None]
  /\ jwtLeft = [j \in Jtis |-> 0]
  /\ held = {}
  /\ refresh = [j \in Jtis |-> 0]
  /\ revoked = [j \in Jtis |-> 0]
  /\ members = [f \in Families |-> {}]
  /\ membersLeft = [f \in Families |-> 0]
  /\ index = [u \in Users |-> {}]
  /\ indexLeft = [u \in Users |-> 0]
  /\ op = [p \in Procs |-> "none"]
  /\ pc = [p \in Procs |-> "idle"]
  /\ usr = [p \in Procs |-> None]
  /\ fam = [p \in Procs |-> None]
  /\ tok = [p \in Procs |-> None]
  /\ todo = [p \in Procs |-> {}]
  /\ snap = [p \in Procs |-> {}]

Live(j) == refresh[j] > 0

\* The token's user, once its family is known.
UserOf(j) == owner[familyOf[j]]

At(p, o, step) == op[p] = o /\ pc[p] = step

Goto(p, step) == pc' = [pc EXCEPT ![p] = step] /\ UNCHANGED op

\* The request ends; its coroutine's variables go with it.
Finish(p) ==
  /\ op' = [op EXCEPT ![p] = "none"]
  /\ pc' = [pc EXCEPT ![p] = "idle"]
  /\ usr' = [usr EXCEPT ![p] = None]
  /\ fam' = [fam EXCEPT ![p] = None]
  /\ tok' = [tok EXCEPT ![p] = None]
  /\ todo' = [todo EXCEPT ![p] = {}]
  /\ snap' = [snap EXCEPT ![p] = {}]

Start(p, o) ==
  /\ pc[p] = "idle"
  /\ o \in Operations
  /\ op' = [op EXCEPT ![p] = o]

---------------------------------------------------------------------------
(* Login: the password was right (LoginRate and Accounts model that part). *)

\* create_refresh_token under a fresh family uuid.
LoginMint(p, u, f, j) ==
  /\ Start(p, "login")
  /\ owner[f] = None
  /\ familyOf[j] = None
  /\ owner' = [owner EXCEPT ![f] = u]
  /\ familyOf' = [familyOf EXCEPT ![j] = f]
  /\ jwtLeft' = [jwtLeft EXCEPT ![j] = JwtTTL]
  /\ pc' = [pc EXCEPT ![p] = "store"]
  /\ usr' = [usr EXCEPT ![p] = u]
  /\ fam' = [fam EXCEPT ![p] = f]
  /\ tok' = [tok EXCEPT ![p] = j]
  /\ UNCHANGED <<held, store, todo, snap>>

---------------------------------------------------------------------------
(* Refresh: POST /users_config/refresh with a token a client holds.  A JWT  *)
(* that is expired or of the wrong type is refused before Redis is read.    *)

\* is_refresh_revoked answered no.
RefreshCheck(p, j) ==
  /\ Start(p, "refresh")
  /\ j \in held
  /\ jwtLeft[j] > 0
  /\ revoked[j] = 0
  /\ pc' = [pc EXCEPT ![p] = "consume"]
  /\ tok' = [tok EXCEPT ![p] = j]
  /\ UNCHANGED <<minted, jwtLeft, store, usr, fam, todo, snap>>

\* is_refresh_revoked answered yes: a warning is logged and the request is
\* refused.  Nothing else is done, the family included.
RefreshReuse(p, j) ==
  /\ pc[p] = "idle"
  /\ "refresh" \in Operations
  /\ j \in held
  /\ jwtLeft[j] > 0
  /\ revoked[j] > 0
  /\ UNCHANGED vars

\* Mutant: the token is read but not deleted.
ConsumeByGet(p) ==
  /\ At(p, "refresh", "consume")
  /\ Live(tok[p])
  /\ fam' = [fam EXCEPT ![p] = familyOf[tok[p]]]
  /\ usr' = [usr EXCEPT ![p] = UserOf(tok[p])]
  /\ Goto(p, "mark")
  /\ UNCHANGED <<minted, jwtLeft, store, tok, todo, snap>>

\* consume_refresh: GETDEL returned the stored user and family.
Consume(p) ==
  /\ At(p, "refresh", "consume")
  /\ Live(tok[p])
  /\ refresh' = [refresh EXCEPT ![tok[p]] = 0]
  /\ fam' = [fam EXCEPT ![p] = familyOf[tok[p]]]
  /\ usr' = [usr EXCEPT ![p] = UserOf(tok[p])]
  /\ Goto(p, "mark")
  /\ UNCHANGED <<minted, jwtLeft, revoked, members, membersLeft, index,
                 indexLeft, tok, todo, snap>>

\* consume_refresh: GETDEL returned nothing.
ConsumeMiss(p) ==
  /\ At(p, "refresh", "consume")
  /\ ~Live(tok[p])
  /\ Finish(p)
  /\ UNCHANGED <<minted, jwtLeft, store>>

\* Mutant: the marker is written with a lifetime of one tick.
MarkBriefly(p) ==
  /\ At(p, "refresh", "mark")
  /\ revoked' = [revoked EXCEPT ![tok[p]] = 1]
  /\ Goto(p, "mint")
  /\ UNCHANGED <<minted, jwtLeft, refresh, members, membersLeft, index,
                 indexLeft, locals>>

\* consume_refresh: leave the reuse marker.
Mark(p) ==
  /\ At(p, "refresh", "mark")
  /\ revoked' = [revoked EXCEPT ![tok[p]] = MarkTTL]
  /\ Goto(p, "mint")
  /\ UNCHANGED <<minted, jwtLeft, refresh, members, membersLeft, index,
                 indexLeft, locals>>

\* get_by_id found the user; the successor is minted in the same family.
RotateMint(p, j) ==
  /\ At(p, "refresh", "mint")
  /\ familyOf[j] = None
  /\ familyOf' = [familyOf EXCEPT ![j] = fam[p]]
  /\ jwtLeft' = [jwtLeft EXCEPT ![j] = JwtTTL]
  /\ tok' = [tok EXCEPT ![p] = j]
  /\ Goto(p, "store")
  /\ UNCHANGED <<owner, held, store, usr, fam, todo, snap>>

---------------------------------------------------------------------------
(* The end of login and of refresh.                                        *)

\* Mutant: the family key keeps the expiry of the family's first token.
StoreWithoutFamilyExpire(p) ==
  /\ pc[p] = "store"
  /\ refresh' = [refresh EXCEPT ![tok[p]] = RefreshTTL]
  /\ members' = [members EXCEPT ![fam[p]] = @ \cup {tok[p]}]
  /\ membersLeft' = [membersLeft EXCEPT ![fam[p]] =
                       IF @ = 0 THEN RefreshTTL ELSE @]
  /\ index' = [index EXCEPT ![usr[p]] = @ \cup {fam[p]}]
  /\ indexLeft' = [indexLeft EXCEPT ![usr[p]] = RefreshTTL]
  /\ Goto(p, "track")
  /\ UNCHANGED <<minted, jwtLeft, revoked, locals>>

\* store_refresh: one pipeline writes the token and both of its indexes.
Store(p) ==
  /\ pc[p] = "store"
  /\ refresh' = [refresh EXCEPT ![tok[p]] = RefreshTTL]
  /\ members' = [members EXCEPT ![fam[p]] = @ \cup {tok[p]}]
  /\ membersLeft' = [membersLeft EXCEPT ![fam[p]] = RefreshTTL]
  /\ index' = [index EXCEPT ![usr[p]] = @ \cup {fam[p]}]
  /\ indexLeft' = [indexLeft EXCEPT ![usr[p]] = RefreshTTL]
  /\ Goto(p, "track")
  /\ UNCHANGED <<minted, jwtLeft, revoked, locals>>

\* track_family_for_user, then the response with both tokens.
Track(p) ==
  /\ pc[p] = "track"
  /\ index' = [index EXCEPT ![usr[p]] = @ \cup {fam[p]}]
  /\ indexLeft' = [indexLeft EXCEPT ![usr[p]] = RefreshTTL]
  /\ held' = held \cup {tok[p]}
  /\ Finish(p)
  /\ UNCHANGED <<owner, familyOf, jwtLeft, refresh, revoked, members,
                 membersLeft>>

---------------------------------------------------------------------------
(* Logout: the user id comes from a refresh or an access token, which may   *)
(* have expired; every family of the user is revoked.                       *)

HasTokens(u) == \E j \in held : UserOf(j) = u

\* revoke_all_sessions_for_user: get_user_families.
LogoutFamilies(p, u) ==
  /\ Start(p, "logout")
  /\ HasTokens(u)
  /\ usr' = [usr EXCEPT ![p] = u]
  /\ todo' = [todo EXCEPT ![p] = index[u]]
  /\ pc' = [pc EXCEPT ![p] = "families"]
  /\ UNCHANGED <<minted, jwtLeft, store, fam, tok, snap>>

\* revoke_family: SMEMBERS of the next family.
FamilyRead(p, f) ==
  /\ pc[p] = "families"
  /\ f \in todo[p]
  /\ todo' = [todo EXCEPT ![p] = @ \ {f}]
  /\ IF members[f] = {}
       THEN UNCHANGED <<op, pc, fam, snap>>
       ELSE /\ fam' = [fam EXCEPT ![p] = f]
            /\ snap' = [snap EXCEPT ![p] = members[f]]
            /\ Goto(p, "kill")
  /\ UNCHANGED <<minted, jwtLeft, store, usr, tok>>

\* Mutant: the members are marked and forgotten but their keys are kept.
FamilyKillMarksOnly(p) ==
  /\ pc[p] = "kill"
  /\ revoked' = [j \in Jtis |-> IF j \in snap[p] THEN RefreshTTL ELSE revoked[j]]
  /\ members' = [members EXCEPT ![fam[p]] = {}]
  /\ membersLeft' = [membersLeft EXCEPT ![fam[p]] = 0]
  /\ snap' = [snap EXCEPT ![p] = {}]
  /\ Goto(p, "families")
  /\ UNCHANGED <<minted, jwtLeft, refresh, index, indexLeft, usr, fam, tok, todo>>

\* revoke_family: one pipeline deletes and marks what SMEMBERS returned, and
\* deletes the family key with whatever it holds by now.
FamilyKill(p) ==
  /\ pc[p] = "kill"
  /\ refresh' = [j \in Jtis |-> IF j \in snap[p] THEN 0 ELSE refresh[j]]
  /\ revoked' = [j \in Jtis |-> IF j \in snap[p] THEN RefreshTTL ELSE revoked[j]]
  /\ members' = [members EXCEPT ![fam[p]] = {}]
  /\ membersLeft' = [membersLeft EXCEPT ![fam[p]] = 0]
  /\ snap' = [snap EXCEPT ![p] = {}]
  /\ Goto(p, "families")
  /\ UNCHANGED <<minted, jwtLeft, index, indexLeft, usr, fam, tok, todo>>

\* Mutant: the index is deleted before every family has been revoked.
LogoutClearEarly(p) ==
  /\ At(p, "logout", "families")
  /\ index' = [index EXCEPT ![usr[p]] = {}]
  /\ indexLeft' = [indexLeft EXCEPT ![usr[p]] = 0]
  /\ Finish(p)
  /\ UNCHANGED <<minted, jwtLeft, refresh, revoked, members, membersLeft>>

\* clear_user_families deletes the index with whatever it holds by now.
LogoutClear(p) ==
  /\ At(p, "logout", "families")
  /\ todo[p] = {}
  /\ index' = [index EXCEPT ![usr[p]] = {}]
  /\ indexLeft' = [indexLeft EXCEPT ![usr[p]] = 0]
  /\ Finish(p)
  /\ UNCHANGED <<minted, jwtLeft, refresh, revoked, members, membersLeft>>

---------------------------------------------------------------------------
(* AuthService.revoke_session: revokes one token and its family.  No route  *)
(* calls it; it is part of the service's interface.                         *)

\* revoke_refresh: DEL.
RevokeDelete(p, j) ==
  /\ Start(p, "revoke_session")
  /\ j \in held
  /\ refresh' = [refresh EXCEPT ![j] = 0]
  /\ tok' = [tok EXCEPT ![p] = j]
  /\ fam' = [fam EXCEPT ![p] = familyOf[j]]
  /\ usr' = [usr EXCEPT ![p] = UserOf(j)]
  /\ pc' = [pc EXCEPT ![p] = "deny"]
  /\ UNCHANGED <<minted, jwtLeft, revoked, members, membersLeft, index,
                 indexLeft, todo, snap>>

\* Mutant: the token is deleted and never marked.
RevokeUnmarked(p) ==
  /\ At(p, "revoke_session", "deny")
  /\ todo' = [todo EXCEPT ![p] = {fam[p]}]
  /\ Goto(p, "families")
  /\ UNCHANGED <<minted, jwtLeft, store, usr, fam, tok, snap>>

\* revoke_refresh: the marker lives as long as the JWT, at least one tick.
RevokeMark(p) ==
  /\ At(p, "revoke_session", "deny")
  /\ revoked' = [revoked EXCEPT ![tok[p]] =
                   IF jwtLeft[tok[p]] > 1 THEN jwtLeft[tok[p]] ELSE 1]
  /\ todo' = [todo EXCEPT ![p] = {fam[p]}]
  /\ Goto(p, "families")
  /\ UNCHANGED <<minted, jwtLeft, refresh, members, membersLeft, index,
                 indexLeft, usr, fam, tok, snap>>

\* Mutant: every family of the user is forgotten.
RevokeForgetAll(p) ==
  /\ At(p, "revoke_session", "families")
  /\ todo[p] = {}
  /\ index' = [index EXCEPT ![usr[p]] = {}]
  /\ indexLeft' = [indexLeft EXCEPT ![usr[p]] = 0]
  /\ Finish(p)
  /\ UNCHANGED <<minted, jwtLeft, refresh, revoked, members, membersLeft>>

\* forget_family_for_user.
RevokeForget(p) ==
  /\ At(p, "revoke_session", "families")
  /\ todo[p] = {}
  /\ index' = [index EXCEPT ![usr[p]] = @ \ {fam[p]}]
  /\ indexLeft' = [indexLeft EXCEPT ![usr[p]] =
                     IF index[usr[p]] \subseteq {fam[p]} THEN 0 ELSE @]
  /\ Finish(p)
  /\ UNCHANGED <<minted, jwtLeft, refresh, revoked, members, membersLeft>>

---------------------------------------------------------------------------
(* The environment.                                                        *)

\* Redis or the database fails, the client goes away or the worker dies: the
\* request ends where it stands.
Abort(p) ==
  /\ pc[p] # "idle"
  /\ Finish(p)
  /\ UNCHANGED <<minted, jwtLeft, store>>

Less(n) == IF n > 0 THEN n - 1 ELSE 0

\* One tick of the clock.  A key that reaches its expiry is gone.
Tick ==
  /\ jwtLeft' = [j \in Jtis |-> Less(jwtLeft[j])]
  /\ refresh' = [j \in Jtis |-> Less(refresh[j])]
  /\ revoked' = [j \in Jtis |-> Less(revoked[j])]
  /\ members' = [f \in Families |-> IF membersLeft[f] > 1 THEN members[f] ELSE {}]
  /\ membersLeft' = [f \in Families |-> Less(membersLeft[f])]
  /\ index' = [u \in Users |-> IF indexLeft[u] > 1 THEN index[u] ELSE {}]
  /\ indexLeft' = [u \in Users |-> Less(indexLeft[u])]
  /\ UNCHANGED <<minted, op, pc, locals>>

Login(p) ==
  \E u \in Users, f \in Families, j \in Jtis : LoginMint(p, u, f, j)

Refresh(p) ==
  \/ \E j \in Jtis : RefreshCheck(p, j) \/ RefreshReuse(p, j)
  \/ Consume(p) \/ ConsumeMiss(p) \/ Mark(p)
  \/ \E j \in Jtis : RotateMint(p, j)

Issued(p) == Store(p) \/ Track(p)

Logout(p) ==
  \/ \E u \in Users : LogoutFamilies(p, u)
  \/ LogoutClear(p)

RevokeFamily(p) == FamilyKill(p) \/ \E f \in Families : FamilyRead(p, f)

RevokeSession(p) ==
  \/ \E j \in Jtis : RevokeDelete(p, j)
  \/ RevokeMark(p) \/ RevokeForget(p)

Request(p) ==
  \/ Login(p) \/ Refresh(p) \/ Issued(p)
  \/ Logout(p) \/ RevokeFamily(p) \/ RevokeSession(p) \/ Abort(p)

Next == Tick \/ \E p \in Procs : Request(p)

Spec == Init /\ [][Next]_vars

---------------------------------------------------------------------------
(* Properties.                                                             *)

\* At most one refresh token of a family is usable: whatever requests race,
\* including two that present the same token, a login has one live descendant
\* (GETDEL in consume_refresh; store_refresh after it).
OneLivePerFamily ==
  \A i, j \in Jtis :
    Live(i) /\ Live(j) /\ familyOf[i] = familyOf[j] => i = j

\* A usable token carries no revoked_rt marker, so is_refresh_revoked never
\* refuses, as a reuse, the first use of a token (consume_refresh and
\* revoke_family mark only tokens whose key they delete).
LiveNotRevoked == \A j \in Jtis : Live(j) => revoked[j] = 0

---------------------------------------------------------------------------
(* The abstract specification.                                             *)

LiveIn(f) == {j \in Jtis : Live(j) /\ familyOf[j] = f}

\* Tokens minted and not waiting to be stored.
Used == {j \in Jtis : familyOf[j] # None /\ ~\E p \in Procs : pc[p] = "store" /\ tok[p] = j}

Holder == [f \in Families |->
             IF LiveIn(f) = {} THEN None ELSE CHOOSE j \in LiveIn(f) : TRUE]

Chains == INSTANCE RefreshChains
            WITH used <- Used, holder <- Holder, Nobody <- None

\* Rotation over Redis implements the token chains of RefreshChains: a token
\* becomes usable once, and only when no other of its family is.
ImplementsChains == Chains!ChainsSpec
=============================================================================
