----------------------------- MODULE SessionsHistory -----------------------------
(***************************************************************************)
(* Sessions with history variables, for the properties that compare a state *)
(* with an earlier one.  No action of Sessions depends on them.             *)
(***************************************************************************)
EXTENDS SessionsInvariant

VARIABLES
  raced,     \* tokens stored while a revocation of their user was in progress, as
             \* long as it may still lose them or has lost them
  unmarked   \* tokens deleted by a request that failed before marking them

history == <<raced, unmarked>>
hvars   == <<vars, history>>

HInit ==
  /\ Init
  /\ raced = {}
  /\ unmarked = {}

Revoking(u) ==
  \E p \in Procs : op[p] \in {"logout", "revoke_session"} /\ usr[p] = u

LiveOf(u) == {j \in Jtis : Live(j) /\ UserOf(j) = u}

\* In the indexes that logout reads, for at least as long as the token lives.
Indexed(j) ==
  /\ j \in members[familyOf[j]]
  /\ refresh[j] <= membersLeft[familyOf[j]]
  /\ familyOf[j] \in index[UserOf(j)]
  /\ refresh[j] <= indexLeft[UserOf(j)]

\* A token that is in the indexes when no revocation of its user is left is one
\* like any other: the next logout has to find it.
AtRisk(j) == Live(j) /\ (Revoking(UserOf(j)) \/ ~Indexed(j))

StillAtRisk(R) == {j \in R : AtRisk(j)'}

HStore(p) ==
  /\ Store(p)
  /\ raced' = StillAtRisk(IF Revoking(usr[p]) THEN raced \cup {tok[p]} ELSE raced)
  /\ UNCHANGED unmarked

HAbort(p) ==
  /\ Abort(p)
  /\ unmarked' = IF pc[p] \in {"mark", "deny"} THEN unmarked \cup {tok[p]} ELSE unmarked
  /\ raced' = StillAtRisk(raced)

Unrecorded(p) ==
  /\ \/ Login(p) \/ Refresh(p) \/ Track(p)
     \/ Logout(p) \/ RevokeFamily(p) \/ RevokeSession(p)
  /\ raced' = StillAtRisk(raced)
  /\ UNCHANGED unmarked

HRequest(p) == HStore(p) \/ HAbort(p) \/ Unrecorded(p)

\* What has expired need not be remembered.
HTick ==
  /\ Tick
  /\ raced' = StillAtRisk(raced)
  /\ unmarked' = {j \in unmarked : jwtLeft'[j] > 0}

HNext ==
  \/ HTick
  \/ \E p \in Procs : HRequest(p)

HSpec == HInit /\ [][HNext]_hvars

---------------------------------------------------------------------------
(* Properties.                                                             *)

\* A usable token can be found by logout, through user_families and then
\* refresh_family, until it expires; only a token that was stored while a
\* revocation of the same user was running may escape the indexes.
LiveIsIndexed == \A j \in Jtis : Live(j) => j \in raced \/ Indexed(j)

\* A token that was taken out of Redis by a refresh or a logout stays marked
\* for as long as its signature verifies, so that presenting it again is
\* recognised as a reuse, unless the request failed between the two commands.
SpentStaysMarked ==
  \A j \in held :
    \/ Live(j) \/ jwtLeft[j] = 0 \/ revoked[j] > 0
    \/ j \in unmarked
    \/ \E p \in Procs : pc[p] \in {"mark", "deny"} /\ tok[p] = j

\* When logout answers, a refresh token of the user is usable for one of two
\* reasons, whatever other requests did and whichever of them failed half-way.
\* It was stored while this logout, or a chain of revocations of the user that
\* overlaps it, ran; or an earlier revocation, during which it was stored, has
\* put it out of the indexes.  Every other one dies, tokens included that raced an
\* earlier revocation and were in the indexes when that was over.
LogoutKillsUnraced ==
  [][\A p \in Procs : LogoutClear(p) =>
       \A j \in LiveOf(usr[p]) : refresh'[j] = 0 \/ j \in raced]_hvars

---------------------------------------------------------------------------
(* The inductive invariant behind the theorems of SessionsHistoryProofs,    *)
(* beside IInv.                                                            *)

IndexedAreOwned == \A u \in Users : \A f \in index[u] : owner[f] = u

\* A request works on families of its user.
FamiliesAreOwned ==
  \A p \in Procs :
    /\ pc[p] \in {"mark", "mint", "store", "track", "deny", "kill"} =>
         owner[fam[p]] = usr[p]
    /\ pc[p] \in {"families", "kill"} => \A f \in todo[p] : owner[f] = usr[p]

\* A family is off the list while it is killed; revoke_session has only one.
TodoIsAhead ==
  \A p \in Procs :
    /\ pc[p] = "kill" => fam[p] \notin todo[p]
    /\ pc[p] \in {"families", "kill"} /\ op[p] = "revoke_session" => todo[p] \subseteq {fam[p]}

\* The tokens that a revocation is after.
Pursued(p, j) ==
  /\ UserOf(j) = usr[p]
  /\ op[p] = "revoke_session" => familyOf[j] = fam[p]

\* Every one that is still usable is in a family still to be read, or in the
\* answer that is about to be deleted, unless it was stored meanwhile.
PursuedAreAhead ==
  \A p \in Procs, j \in Jtis :
    pc[p] \in {"families", "kill"} /\ Live(j) /\ Pursued(p, j) /\ j \notin raced =>
      familyOf[j] \in todo[p] \/ (pc[p] = "kill" /\ j \in snap[p])

KeyLifetimesBounded == \A j \in Jtis : refresh[j] <= RefreshTTL

IndexInv ==
  /\ LiveIsIndexed
  /\ IndexedAreOwned
  /\ FamiliesAreOwned
  /\ TodoIsAhead
  /\ PursuedAreAhead
  /\ KeyLifetimesBounded

\* Neither the key of a usable token nor the marker of a spent one goes before
\* the signature of its JWT expires.
JwtExpiresFirst ==
  \A j \in Jtis :
    /\ jwtLeft[j] <= JwtTTL
    /\ Live(j) => jwtLeft[j] <= refresh[j]
    /\ revoked[j] > 0 => jwtLeft[j] <= revoked[j]

\* Stored, and at a client or on its way to one.
Sent(j) == j \in held \/ \E p \in Procs : pc[p] = "track" /\ tok[p] = j

BeingMarked(j) == \E p \in Procs : pc[p] \in {"mark", "deny"} /\ tok[p] = j

SentAreMarked ==
  \A j \in Jtis : Sent(j) =>
    \/ Live(j) \/ jwtLeft[j] = 0 \/ revoked[j] > 0
    \/ j \in unmarked \/ BeingMarked(j)

MarkInv == JwtExpiresFirst /\ SentAreMarked

HInv == IndexInv /\ MarkInv
=============================================================================
