-------------------------- MODULE SessionsHistoryProofs --------------------------
(***************************************************************************)
(* Theorems about Sessions with its history variables, for all sets of      *)
(* users, families, tokens and requests and any set of operations: logout   *)
(* finds and kills every usable token that no revocation has raced, and a    *)
(* spent token stays marked until its signature expires.                    *)
(*                                                                         *)
(* Every step of HSpec is a step of Spec, so IInv comes from SessionsProofs; *)
(* one lemma per action then shows that it preserves IndexInv, and one per   *)
(* action that touches a token that it preserves MarkInv.                    *)
(***************************************************************************)
EXTENDS SessionsHistory, SessionsProofs

---------------------------------------------------------------------------
(* Sessions underneath.                                                    *)

\* The history variables only watch.
LEMMA HistoryWatches == [HNext]_hvars => [Next]_vars
<1>1. HNext => Next
  BY DEF HNext, HTick, HRequest, HStore, HAbort, Unrecorded, Next, Request, Issued
<1> QED BY <1>1 DEF hvars

\* IInv holds with the history variables too.
LEMMA HInvariance == HSpec => []IInv
<1>1. HInit => Init
  BY DEF HInit
<1> QED BY <1>1, InitInvariant, NextInvariant, HistoryWatches, PTL DEF HSpec

\* A usable token has a family and a user.
LEMMA LiveIsMinted ==
  ASSUME IInv, NEW j \in Jtis, Live(j)
  PROVE  familyOf[j] \in Families /\ UserOf(j) \in Users
  BY DEF IInv, TypeOK, UnmintedIsNew, New, MintedHasOwner, Live, UserOf

---------------------------------------------------------------------------
(* The indexes.                                                            *)

\* IndexInv with any set of tokens in the place of raced.
FoundUnless(R) == \A j \in Jtis : Live(j) => j \in R \/ Indexed(j)

PursuedUnless(R) ==
  \A p \in Procs, j \in Jtis :
    pc[p] \in {"families", "kill"} /\ Live(j) /\ Pursued(p, j) /\ j \notin R =>
      familyOf[j] \in todo[p] \/ (pc[p] = "kill" /\ j \in snap[p])

IndexInvBut(R) ==
  /\ FoundUnless(R)
  /\ IndexedAreOwned
  /\ FamiliesAreOwned
  /\ TodoIsAhead
  /\ PursuedUnless(R)
  /\ KeyLifetimesBounded

LEMMA IndexInvIs == IndexInv <=> IndexInvBut(raced)
  BY DEF IndexInv, IndexInvBut, LiveIsIndexed, FoundUnless, PursuedAreAhead, PursuedUnless

\* A token that is no longer at risk is in the indexes, and nobody pursues it.
LEMMA Forgotten ==
  ASSUME IInv', NEW R, IndexInvBut(R)', raced' = StillAtRisk(R)
  PROVE  IndexInv'
<1>1. ASSUME NEW j \in Jtis, j \in R, Live(j)', j \notin raced'
      PROVE  Indexed(j)' /\ ~Revoking(UserOf(j))'
  BY <1>1 DEF StillAtRisk, AtRisk
<1>2. LiveIsIndexed'
  BY <1>1 DEF LiveIsIndexed, IndexInvBut, FoundUnless
<1>3. PursuedAreAhead'
  <2> SUFFICES ASSUME NEW p \in Procs, NEW j \in Jtis, pc'[p] \in {"families", "kill"},
                      Live(j)', Pursued(p, j)', j \notin raced'
               PROVE  familyOf'[j] \in todo'[p] \/ (pc'[p] = "kill" /\ j \in snap'[p])
    BY DEF PursuedAreAhead
  <2>1. Revoking(UserOf(j))'
    BY DEF Revoking, Pursued, IInv, LocalsAssigned
  <2>2. j \notin R
    BY <1>1, <2>1
  <2> QED BY <2>2 DEF IndexInvBut, PursuedUnless
<1> QED BY <1>2, <1>3 DEF IndexInv, IndexInvBut

\* Nothing is stored and nothing pursued.
LEMMA InitIndexed == HInit => IndexInv
<1> SUFFICES ASSUME HInit PROVE IndexInv
  OBVIOUS
<1> USE DEF HInit, Init
<1>1. LiveIsIndexed /\ PursuedAreAhead /\ KeyLifetimesBounded
  BY TTLAssumption DEF LiveIsIndexed, PursuedAreAhead, KeyLifetimesBounded, Live
<1>2. IndexedAreOwned /\ FamiliesAreOwned /\ TodoIsAhead
  BY DEF IndexedAreOwned, FamiliesAreOwned, TodoIsAhead
<1> QED BY <1>1, <1>2 DEF IndexInv

\* A login takes a family that nobody is after.
LEMMA LoginMintIndexed ==
  ASSUME IInv, IInv', NEW R, IndexInvBut(R), NEW p \in Procs,
         NEW u \in Users, NEW f \in Families, NEW j \in Jtis,
         LoginMint(p, u, f, j)
  PROVE  IndexInvBut(R)'
<1> USE DEF IndexInvBut, IInv, TypeOK, Live, UserOf, LoginMint, Start, store
<1>1. FoundUnless(R)'
  BY LiveIsMinted, IdsAssumption DEF FoundUnless, Indexed
<1>2. IndexedAreOwned'
  BY IdsAssumption DEF IndexedAreOwned
<1>3. FamiliesAreOwned'
  BY IdsAssumption DEF FamiliesAreOwned, LocalsAssigned
<1>4. TodoIsAhead'
  BY DEF TodoIsAhead
<1>5. PursuedUnless(R)'
  BY LiveIsMinted, IdsAssumption DEF PursuedUnless, Pursued
<1>6. KeyLifetimesBounded'
  BY DEF KeyLifetimesBounded
<1> QED BY <1>1, <1>2, <1>3, <1>4, <1>5, <1>6

\* The check only moves the request on.
LEMMA RefreshCheckIndexed ==
  ASSUME IInv, IInv', NEW R, IndexInvBut(R), NEW p \in Procs, NEW j \in Jtis,
         RefreshCheck(p, j)
  PROVE  IndexInvBut(R)'
<1> USE DEF IndexInvBut, IInv, TypeOK, Live, UserOf, RefreshCheck, Start, minted, store
<1>1. FoundUnless(R)'
  BY DEF FoundUnless, Indexed
<1>2. IndexedAreOwned'
  BY DEF IndexedAreOwned
<1>3. FamiliesAreOwned'
  BY DEF FamiliesAreOwned
<1>4. TodoIsAhead'
  BY DEF TodoIsAhead
<1>5. PursuedUnless(R)'
  BY DEF PursuedUnless, Pursued
<1>6. KeyLifetimesBounded'
  BY DEF KeyLifetimesBounded
<1> QED BY <1>1, <1>2, <1>3, <1>4, <1>5, <1>6

\* GETDEL makes one token unusable.
LEMMA ConsumeIndexed ==
  ASSUME IInv, IInv', NEW R, IndexInvBut(R), NEW p \in Procs,
         Consume(p)
  PROVE  IndexInvBut(R)'
<1> USE DEF IndexInvBut, IInv, TypeOK, Live, UserOf, Consume, At, Goto, minted
<1>1. FoundUnless(R)'
  BY DEF FoundUnless, Indexed
<1>2. IndexedAreOwned'
  BY DEF IndexedAreOwned
<1>3. FamiliesAreOwned'
  BY DEF FamiliesAreOwned
<1>4. TodoIsAhead'
  BY DEF TodoIsAhead
<1>5. PursuedUnless(R)'
  BY DEF PursuedUnless, Pursued
<1>6. KeyLifetimesBounded'
  BY TTLAssumption DEF KeyLifetimesBounded
<1> QED BY <1>1, <1>2, <1>3, <1>4, <1>5, <1>6

\* A refused request forgets its variables.
LEMMA ConsumeMissIndexed ==
  ASSUME IInv, IInv', NEW R, IndexInvBut(R), NEW p \in Procs,
         ConsumeMiss(p)
  PROVE  IndexInvBut(R)'
<1> USE DEF IndexInvBut, IInv, TypeOK, Live, UserOf, ConsumeMiss, At, Finish, minted, store
<1>1. FoundUnless(R)'
  BY DEF FoundUnless, Indexed
<1>2. IndexedAreOwned'
  BY DEF IndexedAreOwned
<1>3. FamiliesAreOwned'
  BY DEF FamiliesAreOwned
<1>4. TodoIsAhead'
  BY DEF TodoIsAhead
<1>5. PursuedUnless(R)'
  BY DEF PursuedUnless, Pursued
<1>6. KeyLifetimesBounded'
  BY DEF KeyLifetimesBounded
<1> QED BY <1>1, <1>2, <1>3, <1>4, <1>5, <1>6

\* The marker is in none of the indexes.
LEMMA MarkIndexed ==
  ASSUME IInv, IInv', NEW R, IndexInvBut(R), NEW p \in Procs,
         Mark(p)
  PROVE  IndexInvBut(R)'
<1> USE DEF IndexInvBut, IInv, TypeOK, Live, UserOf, Mark, At, Goto, minted, locals
<1>1. FoundUnless(R)'
  BY DEF FoundUnless, Indexed
<1>2. IndexedAreOwned'
  BY DEF IndexedAreOwned
<1>3. FamiliesAreOwned'
  BY DEF FamiliesAreOwned
<1>4. TodoIsAhead'
  BY DEF TodoIsAhead
<1>5. PursuedUnless(R)'
  BY DEF PursuedUnless, Pursued
<1>6. KeyLifetimesBounded'
  BY DEF KeyLifetimesBounded
<1> QED BY <1>1, <1>2, <1>3, <1>4, <1>5, <1>6

\* The successor belongs to the user and the family of its parent.
LEMMA RotateMintIndexed ==
  ASSUME IInv, IInv', NEW R, IndexInvBut(R), NEW p \in Procs, NEW j \in Jtis,
         RotateMint(p, j)
  PROVE  IndexInvBut(R)'
<1> USE DEF IndexInvBut, IInv, TypeOK, Live, UserOf, RotateMint, At, Goto, store
<1>1. FoundUnless(R)'
  BY LiveIsMinted, IdsAssumption DEF FoundUnless, Indexed
<1>2. IndexedAreOwned'
  BY DEF IndexedAreOwned
<1>3. FamiliesAreOwned'
  BY DEF FamiliesAreOwned
<1>4. TodoIsAhead'
  BY DEF TodoIsAhead
<1>5. PursuedUnless(R)'
  BY LiveIsMinted, IdsAssumption DEF PursuedUnless, Pursued
<1>6. KeyLifetimesBounded'
  BY DEF KeyLifetimesBounded
<1> QED BY <1>1, <1>2, <1>3, <1>4, <1>5, <1>6

\* A new token is put in both indexes for its whole life; a revocation of its
\* user that is running may miss it, and then it is raced.
LEMMA StoreIndexed ==
  ASSUME IInv, IInv', NEW R, IndexInvBut(R), NEW p \in Procs,
         Store(p), NEW S, S = IF Revoking(usr[p]) THEN R \cup {tok[p]} ELSE R
  PROVE  IndexInvBut(S)'
<1> USE DEF IndexInvBut, IInv, TypeOK, Live, UserOf, Store, Goto, minted, locals
<1>1. FoundUnless(S)'
  <2> SUFFICES ASSUME NEW j \in Jtis, Live(j)', j \notin S PROVE Indexed(j)'
    BY DEF FoundUnless
  <2>1. /\ tok[p] \in Jtis /\ familyOf[tok[p]] = fam[p]
        /\ fam[p] \in Families /\ usr[p] \in Users
    BY DEF PendingIsNew
  <2>2. owner[fam[p]] = usr[p]
    BY DEF FamiliesAreOwned
  <2>3. RefreshTTL \in Nat /\ refresh'[j] <= RefreshTTL
    BY <2>1, TTLAssumption DEF KeyLifetimesBounded
  <2>4. CASE j = tok[p]
    BY <2>1, <2>2, <2>3, <2>4 DEF Indexed
  <2>5. CASE j # tok[p]
    <3>1. Live(j) /\ j \notin R /\ refresh'[j] = refresh[j]
      BY <2>1, <2>5
    <3>2. Indexed(j) /\ familyOf[j] \in Families /\ UserOf(j) \in Users
      BY <3>1, LiveIsMinted DEF FoundUnless
    <3>3. j \in members'[familyOf[j]] /\ refresh'[j] <= membersLeft'[familyOf[j]]
      BY <2>1, <2>3, <3>1, <3>2 DEF Indexed
    <3>4. familyOf[j] \in index'[UserOf(j)] /\ refresh'[j] <= indexLeft'[UserOf(j)]
      BY <2>1, <2>3, <3>1, <3>2 DEF Indexed
    <3> QED BY <3>3, <3>4 DEF Indexed
  <2> QED BY <2>4, <2>5
<1>2. IndexedAreOwned'
  <2>1. usr[p] \in Users /\ owner[fam[p]] = usr[p]
    BY DEF FamiliesAreOwned
  <2> QED BY <2>1 DEF IndexedAreOwned
<1>3. FamiliesAreOwned'
  BY DEF FamiliesAreOwned
<1>4. TodoIsAhead'
  BY DEF TodoIsAhead
<1>5. PursuedUnless(S)'
  <2> SUFFICES ASSUME NEW q \in Procs, NEW j \in Jtis, pc'[q] \in {"families", "kill"},
                      Live(j)', Pursued(q, j)', j \notin S
               PROVE  familyOf[j] \in todo[q] \/ (pc'[q] = "kill" /\ j \in snap[q])
    BY DEF PursuedUnless
  <2>1. pc'[q] = pc[q] /\ Pursued(q, j)
    BY DEF Pursued
  <2>2. CASE j = tok[p]
    <3>1. usr[q] = usr[p]
      BY <2>1, <2>2 DEF PendingIsNew, FamiliesAreOwned, Pursued
    <3>2. Revoking(usr[p])
      BY <2>1, <3>1 DEF LocalsAssigned, Revoking
    <3> QED BY <2>2, <3>2
  <2>3. CASE j # tok[p]
    BY <2>1, <2>3 DEF PursuedUnless
  <2> QED BY <2>2, <2>3
<1>6. KeyLifetimesBounded'
  BY TTLAssumption DEF KeyLifetimesBounded
<1> QED BY <1>1, <1>2, <1>3, <1>4, <1>5, <1>6

\* The index is renewed, for at least as long as any token lives.
LEMMA TrackIndexed ==
  ASSUME IInv, IInv', NEW R, IndexInvBut(R), NEW p \in Procs,
         Track(p)
  PROVE  IndexInvBut(R)'
<1> USE DEF IndexInvBut, IInv, TypeOK, Live, UserOf, Track, Finish
<1>1. FoundUnless(R)'
  <2> SUFFICES ASSUME NEW j \in Jtis, Live(j), j \notin R PROVE Indexed(j)'
    BY DEF FoundUnless
  <2>1. usr[p] \in Users /\ Indexed(j) /\ familyOf[j] \in Families /\ UserOf(j) \in Users
    BY LiveIsMinted DEF FoundUnless
  <2>2. familyOf[j] \in index'[UserOf(j)] /\ refresh[j] <= indexLeft'[UserOf(j)]
    BY <2>1 DEF Indexed, KeyLifetimesBounded
  <2> QED BY <2>1, <2>2 DEF Indexed
<1>2. IndexedAreOwned'
  <2>1. usr[p] \in Users /\ owner[fam[p]] = usr[p]
    BY DEF FamiliesAreOwned
  <2> QED BY <2>1 DEF IndexedAreOwned
<1>3. FamiliesAreOwned'
  BY DEF FamiliesAreOwned
<1>4. TodoIsAhead'
  BY DEF TodoIsAhead
<1>5. PursuedUnless(R)'
  BY DEF PursuedUnless, Pursued
<1>6. KeyLifetimesBounded'
  BY DEF KeyLifetimesBounded
<1> QED BY <1>1, <1>2, <1>3, <1>4, <1>5, <1>6

\* The index of the user lists every family that has a token to pursue.
LEMMA LogoutFamiliesIndexed ==
  ASSUME IInv, IInv', NEW R, IndexInvBut(R), NEW p \in Procs, NEW u \in Users,
         LogoutFamilies(p, u)
  PROVE  IndexInvBut(R)'
<1> USE DEF IndexInvBut, IInv, TypeOK, Live, UserOf, LogoutFamilies, Start, minted, store
<1>1. FoundUnless(R)'
  BY DEF FoundUnless, Indexed
<1>2. IndexedAreOwned'
  BY DEF IndexedAreOwned
<1>3. FamiliesAreOwned'
  BY DEF FamiliesAreOwned, IndexedAreOwned
<1>4. TodoIsAhead'
  BY DEF TodoIsAhead
<1>5. PursuedUnless(R)'
  <2> SUFFICES ASSUME NEW q \in Procs, NEW j \in Jtis, pc'[q] \in {"families", "kill"},
                      Live(j), Pursued(q, j)', j \notin R
               PROVE  familyOf[j] \in todo'[q] \/ (pc'[q] = "kill" /\ j \in snap[q])
    BY DEF PursuedUnless
  <2>1. CASE q = p
    BY <2>1 DEF FoundUnless, Indexed, Pursued
  <2>2. CASE q # p
    BY <2>2 DEF PursuedUnless, Pursued
  <2> QED BY <2>1, <2>2
<1>6. KeyLifetimesBounded'
  BY DEF KeyLifetimesBounded
<1> QED BY <1>1, <1>2, <1>3, <1>4, <1>5, <1>6

\* SMEMBERS returns every token of the family that is pursued.
LEMMA FamilyReadIndexed ==
  ASSUME IInv, IInv', NEW R, IndexInvBut(R), NEW p \in Procs, NEW f \in Families,
         FamilyRead(p, f)
  PROVE  IndexInvBut(R)'
<1> USE DEF IndexInvBut, IInv, TypeOK, Live, UserOf, FamilyRead, Goto, minted, store
<1>1. FoundUnless(R)'
  BY DEF FoundUnless, Indexed
<1>2. IndexedAreOwned'
  BY DEF IndexedAreOwned
<1>3. FamiliesAreOwned'
  BY DEF FamiliesAreOwned
<1>4. TodoIsAhead'
  BY DEF TodoIsAhead
<1>5. PursuedUnless(R)'
  <2> SUFFICES ASSUME NEW q \in Procs, NEW j \in Jtis, pc'[q] \in {"families", "kill"},
                      Live(j), Pursued(q, j)', j \notin R
               PROVE  familyOf[j] \in todo'[q] \/ (pc'[q] = "kill" /\ j \in snap'[q])
    BY DEF PursuedUnless
  <2>1. CASE q = p
    <3>1. op[p] = "revoke_session" => f = fam[p]
      BY DEF TodoIsAhead
    <3>2. Pursued(p, j)
      BY <2>1, <3>1 DEF Pursued
    <3>3. familyOf[j] \in todo[p] /\ j \in members[familyOf[j]]
      BY <3>2 DEF PursuedUnless, FoundUnless, Indexed
    <3>4. CASE familyOf[j] = f
      BY <2>1, <3>3, <3>4
    <3>5. CASE familyOf[j] # f
      BY <2>1, <3>3, <3>5
    <3> QED BY <3>4, <3>5
  <2>2. CASE q # p
    BY <2>2 DEF PursuedUnless, Pursued
  <2> QED BY <2>1, <2>2
<1>6. KeyLifetimesBounded'
  BY DEF KeyLifetimesBounded
<1> QED BY <1>1, <1>2, <1>3, <1>4, <1>5, <1>6

\* The family key is deleted with the tokens that were in it: any other usable
\* token of the family is raced.
LEMMA FamilyKillIndexed ==
  ASSUME IInv, IInv', NEW R, IndexInvBut(R), NEW p \in Procs,
         FamilyKill(p)
  PROVE  IndexInvBut(R)'
<1> USE DEF IndexInvBut, IInv, TypeOK, Live, UserOf, FamilyKill, Goto, minted
<1>1. FoundUnless(R)'
  <2> SUFFICES ASSUME NEW j \in Jtis, Live(j)', j \notin R PROVE Indexed(j)'
    BY DEF FoundUnless
  <2>1. Live(j) /\ j \notin snap[p] /\ refresh'[j] = refresh[j]
    OBVIOUS
  <2>2. Indexed(j)
    BY <2>1 DEF FoundUnless
  <2>3. familyOf[j] # fam[p]
    <3> SUFFICES ASSUME familyOf[j] = fam[p] PROVE FALSE
      OBVIOUS
    <3>1. Pursued(p, j) /\ fam[p] \notin todo[p]
      BY DEF Pursued, FamiliesAreOwned, TodoIsAhead
    <3> QED BY <2>1, <3>1 DEF PursuedUnless
  <2>4. /\ members'[familyOf[j]] = members[familyOf[j]]
        /\ membersLeft'[familyOf[j]] = membersLeft[familyOf[j]]
    BY <2>1, <2>3
  <2> QED BY <2>1, <2>2, <2>4 DEF Indexed
<1>2. IndexedAreOwned'
  BY DEF IndexedAreOwned
<1>3. FamiliesAreOwned'
  BY DEF FamiliesAreOwned
<1>4. TodoIsAhead'
  BY DEF TodoIsAhead
<1>5. PursuedUnless(R)'
  BY DEF PursuedUnless, Pursued
<1>6. KeyLifetimesBounded'
  BY TTLAssumption DEF KeyLifetimesBounded
<1> QED BY <1>1, <1>2, <1>3, <1>4, <1>5, <1>6

\* The index is deleted when nothing is left to pursue.
LEMMA LogoutClearIndexed ==
  ASSUME IInv, IInv', NEW R, IndexInvBut(R), NEW p \in Procs,
         LogoutClear(p)
  PROVE  IndexInvBut(R)'
<1> USE DEF IndexInvBut, IInv, TypeOK, Live, UserOf, LogoutClear, At, Finish, minted
<1>1. FoundUnless(R)'
  <2> SUFFICES ASSUME NEW j \in Jtis, Live(j), j \notin R PROVE Indexed(j)'
    BY DEF FoundUnless
  <2>1. Indexed(j) /\ UserOf(j) \in Users
    BY LiveIsMinted DEF FoundUnless
  <2>2. UserOf(j) # usr[p]
    BY DEF PursuedUnless, Pursued
  <2>3. index'[UserOf(j)] = index[UserOf(j)] /\ indexLeft'[UserOf(j)] = indexLeft[UserOf(j)]
    BY <2>1, <2>2
  <2> QED BY <2>1, <2>3 DEF Indexed
<1>2. IndexedAreOwned'
  BY DEF IndexedAreOwned
<1>3. FamiliesAreOwned'
  BY DEF FamiliesAreOwned
<1>4. TodoIsAhead'
  BY DEF TodoIsAhead
<1>5. PursuedUnless(R)'
  BY DEF PursuedUnless, Pursued
<1>6. KeyLifetimesBounded'
  BY DEF KeyLifetimesBounded
<1> QED BY <1>1, <1>2, <1>3, <1>4, <1>5, <1>6

\* One token is deleted, whatever its family.
LEMMA RevokeDeleteIndexed ==
  ASSUME IInv, IInv', NEW R, IndexInvBut(R), NEW p \in Procs, NEW j \in Jtis,
         RevokeDelete(p, j)
  PROVE  IndexInvBut(R)'
<1> USE DEF IndexInvBut, IInv, TypeOK, Live, UserOf, RevokeDelete, Start, minted
<1>1. FoundUnless(R)'
  BY DEF FoundUnless, Indexed
<1>2. IndexedAreOwned'
  BY DEF IndexedAreOwned
<1>3. FamiliesAreOwned'
  BY DEF FamiliesAreOwned
<1>4. TodoIsAhead'
  BY DEF TodoIsAhead
<1>5. PursuedUnless(R)'
  BY DEF PursuedUnless, Pursued
<1>6. KeyLifetimesBounded'
  BY TTLAssumption DEF KeyLifetimesBounded
<1> QED BY <1>1, <1>2, <1>3, <1>4, <1>5, <1>6

\* The family of the token is the only one to read.
LEMMA RevokeMarkIndexed ==
  ASSUME IInv, IInv', NEW R, IndexInvBut(R), NEW p \in Procs,
         RevokeMark(p)
  PROVE  IndexInvBut(R)'
<1> USE DEF IndexInvBut, IInv, TypeOK, Live, UserOf, RevokeMark, At, Goto, minted
<1>1. FoundUnless(R)'
  BY DEF FoundUnless, Indexed
<1>2. IndexedAreOwned'
  BY DEF IndexedAreOwned
<1>3. FamiliesAreOwned'
  BY DEF FamiliesAreOwned
<1>4. TodoIsAhead'
  BY DEF TodoIsAhead
<1>5. PursuedUnless(R)'
  BY DEF PursuedUnless, Pursued
<1>6. KeyLifetimesBounded'
  BY DEF KeyLifetimesBounded
<1> QED BY <1>1, <1>2, <1>3, <1>4, <1>5, <1>6

\* The family leaves the index when nothing in it is left to pursue; the index
\* itself goes only if it was the last.
LEMMA RevokeForgetIndexed ==
  ASSUME IInv, IInv', NEW R, IndexInvBut(R), NEW p \in Procs,
         RevokeForget(p)
  PROVE  IndexInvBut(R)'
<1> USE DEF IndexInvBut, IInv, TypeOK, Live, UserOf, RevokeForget, At, Finish, minted
<1>1. FoundUnless(R)'
  <2> SUFFICES ASSUME NEW j \in Jtis, Live(j), j \notin R PROVE Indexed(j)'
    BY DEF FoundUnless
  <2>1. Indexed(j) /\ UserOf(j) \in Users
    BY LiveIsMinted DEF FoundUnless
  <2>2. ~(UserOf(j) = usr[p] /\ familyOf[j] = fam[p])
    BY DEF PursuedUnless, Pursued
  <2>3. familyOf[j] \in index'[UserOf(j)] /\ indexLeft'[UserOf(j)] = indexLeft[UserOf(j)]
    BY <2>1, <2>2 DEF Indexed
  <2> QED BY <2>1, <2>3 DEF Indexed
<1>2. IndexedAreOwned'
  BY DEF IndexedAreOwned
<1>3. FamiliesAreOwned'
  BY DEF FamiliesAreOwned
<1>4. TodoIsAhead'
  BY DEF TodoIsAhead
<1>5. PursuedUnless(R)'
  BY DEF PursuedUnless, Pursued
<1>6. KeyLifetimesBounded'
  BY DEF KeyLifetimesBounded
<1> QED BY <1>1, <1>2, <1>3, <1>4, <1>5, <1>6

\* A revocation that fails is after nothing any more.
LEMMA AbortIndexed ==
  ASSUME IInv, IInv', NEW R, IndexInvBut(R), NEW p \in Procs,
         Abort(p)
  PROVE  IndexInvBut(R)'
<1> USE DEF IndexInvBut, IInv, TypeOK, Live, UserOf, Abort, Finish, minted, store
<1>1. FoundUnless(R)'
  BY DEF FoundUnless, Indexed
<1>2. IndexedAreOwned'
  BY DEF IndexedAreOwned
<1>3. FamiliesAreOwned'
  BY DEF FamiliesAreOwned
<1>4. TodoIsAhead'
  BY DEF TodoIsAhead
<1>5. PursuedUnless(R)'
  BY DEF PursuedUnless, Pursued
<1>6. KeyLifetimesBounded'
  BY DEF KeyLifetimesBounded
<1> QED BY <1>1, <1>2, <1>3, <1>4, <1>5, <1>6

\* One tick: a token expires no later than the indexes it is in.
LEMMA TickIndexed ==
  ASSUME IInv, IInv', NEW R, IndexInvBut(R), Tick
  PROVE  IndexInvBut(R)'
<1> USE DEF IndexInvBut, IInv, TypeOK, Tick, minted, locals
<1>1. \A j \in Jtis : Live(j)' => Live(j) /\ refresh'[j] = refresh[j] - 1
  BY DEF Live, Less
<1>2. FoundUnless(R)'
  <2> SUFFICES ASSUME NEW j \in Jtis, Live(j)', j \notin R PROVE Indexed(j)'
    BY DEF FoundUnless
  <2>1. Live(j) /\ j \notin R /\ refresh'[j] = refresh[j] - 1 /\ refresh'[j] > 0
    BY <1>1 DEF Live
  <2>2. Indexed(j) /\ familyOf[j] \in Families /\ UserOf(j) \in Users
    BY <2>1, LiveIsMinted DEF FoundUnless
  <2>3. /\ membersLeft[familyOf[j]] > 1
        /\ membersLeft'[familyOf[j]] = membersLeft[familyOf[j]] - 1
    BY <2>1, <2>2 DEF Indexed, Less, AnyLeft
  <2>4. /\ indexLeft[UserOf(j)] > 1
        /\ indexLeft'[UserOf(j)] = indexLeft[UserOf(j)] - 1
    BY <2>1, <2>2 DEF Indexed, Less, AnyLeft
  <2>5. j \in members'[familyOf[j]] /\ refresh'[j] <= membersLeft'[familyOf[j]]
    BY <2>1, <2>2, <2>3 DEF Indexed, AnyLeft
  <2>6. familyOf[j] \in index'[UserOf(j)] /\ refresh'[j] <= indexLeft'[UserOf(j)]
    BY <2>1, <2>2, <2>4 DEF Indexed, AnyLeft
  <2> QED BY <2>5, <2>6 DEF Indexed, UserOf
<1>3. IndexedAreOwned'
  BY DEF IndexedAreOwned
<1>4. FamiliesAreOwned' /\ TodoIsAhead'
  BY DEF FamiliesAreOwned, TodoIsAhead
<1>5. PursuedUnless(R)'
  BY <1>1 DEF PursuedUnless, Pursued, UserOf
<1>6. KeyLifetimesBounded'
  BY TTLAssumption DEF KeyLifetimesBounded, Less, AnyLeft
<1> QED BY <1>2, <1>3, <1>4, <1>5, <1>6

\* A step that changes nothing keeps the indexes.
LEMMA StutterIndexed ==
  ASSUME NEW R, IndexInvBut(R), UNCHANGED vars
  PROVE  IndexInvBut(R)'
  BY DEF IndexInvBut, vars, FoundUnless, Indexed, IndexedAreOwned, FamiliesAreOwned,
     TodoIsAhead, PursuedUnless, Pursued, KeyLifetimesBounded, Live, UserOf

\* A step that stores nothing keeps the indexes, whatever tokens are excepted.
LEMMA UnrecordedIndexed ==
  ASSUME IInv, IInv', NEW R, IndexInvBut(R), NEW p \in Procs,
         Unrecorded(p) \/ Abort(p)
  PROVE  IndexInvBut(R)'
<1>1. CASE Login(p)
  BY <1>1, LoginMintIndexed DEF Login
<1>2. CASE Refresh(p)
  BY <1>2, StutterIndexed, RefreshCheckIndexed, ConsumeIndexed, ConsumeMissIndexed,
     MarkIndexed, RotateMintIndexed DEF Refresh, RefreshReuse
<1>3. CASE Track(p)
  BY <1>3, TrackIndexed
<1>4. CASE Logout(p)
  BY <1>4, LogoutFamiliesIndexed, LogoutClearIndexed DEF Logout
<1>5. CASE RevokeFamily(p)
  BY <1>5, FamilyReadIndexed, FamilyKillIndexed DEF RevokeFamily
<1>6. CASE RevokeSession(p)
  BY <1>6, RevokeDeleteIndexed, RevokeMarkIndexed, RevokeForgetIndexed DEF RevokeSession
<1> QED BY <1>1, <1>2, <1>3, <1>4, <1>5, <1>6, AbortIndexed DEF Unrecorded

\* Every step keeps the indexes.
LEMMA NextIndexed == IInv /\ IInv' /\ IndexInv /\ [HNext]_hvars => IndexInv'
<1> SUFFICES ASSUME IInv, IInv', IndexInv, [HNext]_hvars PROVE IndexInv'
  OBVIOUS
<1> PICK R : R = raced
  OBVIOUS
<1>1. IndexInvBut(R)
  BY IndexInvIs
<1>2. CASE UNCHANGED hvars
  <2>1. IndexInvBut(R)'
    BY <1>1, <1>2, StutterIndexed DEF hvars
  <2>2. raced' = R
    BY <1>2 DEF hvars, history
  <2> QED BY <2>1, <2>2
          DEF IndexInv, IndexInvBut, LiveIsIndexed, FoundUnless, PursuedAreAhead, PursuedUnless
<1>3. CASE HTick
  BY <1>1, <1>3, TickIndexed, Forgotten DEF HTick
<1>4. ASSUME NEW p \in Procs, HStore(p) PROVE IndexInv'
  <2> PICK S : S = IF Revoking(usr[p]) THEN R \cup {tok[p]} ELSE R
    OBVIOUS
  <2>1. IndexInvBut(S)' /\ raced' = StillAtRisk(S)
    BY <1>1, <1>4, StoreIndexed DEF HStore
  <2> QED BY <2>1, Forgotten
<1>5. ASSUME NEW p \in Procs, HAbort(p) \/ Unrecorded(p) PROVE IndexInv'
  <2>1. IndexInvBut(R)' /\ raced' = StillAtRisk(R)
    BY <1>1, <1>5, UnrecordedIndexed DEF HAbort, Unrecorded
  <2> QED BY <2>1, Forgotten
<1> QED BY <1>2, <1>3, <1>4, <1>5 DEF HNext, HRequest

\* The indexes that logout reads stay right.
THEOREM IndexInvariance == HSpec => []IndexInv
<1> QED BY HInvariance, InitIndexed, NextIndexed, PTL DEF HSpec

\* A usable refresh token is found through user_families and refresh_family
\* until it expires, unless it was stored while a revocation of its user was
\* running (store_refresh, revoke_family, clear_user_families).
THEOREM LiveFindable == HSpec => []LiveIsIndexed
<1>1. IndexInv => LiveIsIndexed
  BY DEF IndexInv
<1> QED BY <1>1, IndexInvariance, PTL

\* When logout answers, a token of the user is usable only if it was stored while
\* a revocation ran, and one still ran ever since or has put it out of the indexes
\* (revoke_all_sessions_for_user).
THEOREM LogoutKills == HSpec => LogoutKillsUnraced
<1> DEFINE Kills ==
      \A p \in Procs : LogoutClear(p) =>
        \A j \in LiveOf(usr[p]) : refresh'[j] = 0 \/ j \in raced
<1>1. IndexInv => [Kills]_hvars
  BY DEF IndexInv, LogoutClear, At, LiveOf, PursuedAreAhead, Pursued
<1> QED BY <1>1, IndexInvariance, PTL DEF LogoutKillsUnraced

---------------------------------------------------------------------------
(* The markers.                                                            *)

\* What the settings give: the JWT of a refresh token (7 days) outlives neither
\* its key nor its marker.  REFRESH_TOKEN_TTL_SECONDS may be set lower; then the
\* key goes first and a token that was never used is not marked either.
LifetimesOrdered == JwtTTL <= RefreshTTL /\ JwtTTL <= MarkTTL

\* Nothing is minted.
LEMMA InitMarked == HInit => MarkInv
  BY TTLAssumption DEF HInit, Init, MarkInv, JwtExpiresFirst, SentAreMarked, Sent, Live

\* A step of p that writes no key and hands nothing out, and remembers the token
\* that p had not marked yet.
LEMMA QuietMarked ==
  ASSUME IInv, IInv', MarkInv, NEW p \in Procs,
         UNCHANGED <<jwtLeft, refresh, revoked, held>>,
         unmarked \subseteq unmarked',
         \A q \in Procs : q # p => pc'[q] = pc[q] /\ tok'[q] = tok[q],
         pc[p] \in {"mark", "deny"} => tok[p] \in unmarked',
         pc'[p] # "track"
  PROVE  MarkInv'
<1> USE DEF MarkInv
<1>1. JwtExpiresFirst'
  BY DEF JwtExpiresFirst, Live
<1>2. SentAreMarked'
  <2> SUFFICES ASSUME NEW j \in Jtis, Sent(j)',
                      ~Live(j), jwtLeft[j] # 0, ~(revoked[j] > 0), j \notin unmarked'
               PROVE  BeingMarked(j)'
    BY DEF SentAreMarked, Live
  <2>1. Sent(j)
    BY DEF Sent
  <2>2. BeingMarked(j)
    BY <2>1 DEF SentAreMarked
  <2>3. PICK q \in Procs : pc[q] \in {"mark", "deny"} /\ tok[q] = j
    BY <2>2 DEF BeingMarked
  <2>4. q # p
    BY <2>3
  <2> QED BY <2>3, <2>4 DEF BeingMarked
<1> QED BY <1>1, <1>2

\* A token is minted: nobody has it yet.
LEMMA LoginMintMarked ==
  ASSUME IInv, IInv', MarkInv, NEW p \in Procs, NEW u \in Users, NEW f \in Families, NEW j \in Jtis,
         LoginMint(p, u, f, j), UNCHANGED unmarked
  PROVE  MarkInv'
<1> USE DEF MarkInv, IInv, TypeOK, Live, LoginMint, Start, store
<1>1. JwtExpiresFirst'
  BY TTLAssumption DEF JwtExpiresFirst, PendingIsNew, New
<1>2. SentAreMarked'
  BY DEF SentAreMarked, Sent, BeingMarked, UnmintedIsNew, New
<1> QED BY <1>1, <1>2

\* A successor is minted: nobody has it yet.
LEMMA RotateMintMarked ==
  ASSUME IInv, IInv', MarkInv, NEW p \in Procs, NEW j \in Jtis,
         RotateMint(p, j), UNCHANGED unmarked
  PROVE  MarkInv'
<1> USE DEF MarkInv, IInv, TypeOK, Live, RotateMint, At, Goto, store
<1>1. JwtExpiresFirst'
  BY TTLAssumption DEF JwtExpiresFirst, PendingIsNew, New
<1>2. SentAreMarked'
  BY DEF SentAreMarked, Sent, BeingMarked, UnmintedIsNew, New
<1> QED BY <1>1, <1>2

\* The token that GETDEL took is the request's to mark.
LEMMA ConsumeMarked ==
  ASSUME IInv, IInv', MarkInv, NEW p \in Procs,
         Consume(p), UNCHANGED unmarked
  PROVE  MarkInv'
<1> USE DEF MarkInv, IInv, TypeOK, Live, Consume, At, Goto, minted
<1>1. JwtExpiresFirst'
  BY DEF JwtExpiresFirst
<1>2. SentAreMarked'
  BY DEF SentAreMarked, Sent, BeingMarked
<1> QED BY <1>1, <1>2

\* The marker is there.
LEMMA MarkMarked ==
  ASSUME LifetimesOrdered, IInv, IInv', MarkInv, NEW p \in Procs,
         Mark(p), UNCHANGED unmarked
  PROVE  MarkInv'
<1> USE DEF MarkInv, IInv, TypeOK, Live, Mark, At, Goto, minted, locals
<1>1. JwtExpiresFirst'
  BY TTLAssumption DEF LifetimesOrdered, JwtExpiresFirst, AnyLeft
<1>2. SentAreMarked'
  BY TTLAssumption DEF SentAreMarked, Sent, BeingMarked
<1> QED BY <1>1, <1>2

\* The key lives as long as the JWT.
LEMMA StoreMarked ==
  ASSUME LifetimesOrdered, IInv, IInv', MarkInv, NEW p \in Procs,
         HStore(p)
  PROVE  MarkInv'
<1> USE DEF MarkInv, IInv, TypeOK, Live, HStore, Store, Goto, minted, locals
<1>1. JwtExpiresFirst'
  BY TTLAssumption DEF LifetimesOrdered, JwtExpiresFirst, AnyLeft
<1>2. SentAreMarked'
  BY TTLAssumption DEF SentAreMarked, Sent, BeingMarked
<1> QED BY <1>1, <1>2

\* A client gets what was on its way.
LEMMA TrackMarked ==
  ASSUME IInv, IInv', MarkInv, NEW p \in Procs,
         Track(p), UNCHANGED unmarked
  PROVE  MarkInv'
<1> USE DEF MarkInv, IInv, TypeOK, Live, Track, Finish
<1>1. JwtExpiresFirst'
  BY DEF JwtExpiresFirst
<1>2. SentAreMarked'
  BY DEF SentAreMarked, Sent, BeingMarked
<1> QED BY <1>1, <1>2

\* What is deleted is marked in the same pipeline.
LEMMA FamilyKillMarked ==
  ASSUME LifetimesOrdered, IInv, IInv', MarkInv, NEW p \in Procs,
         FamilyKill(p), UNCHANGED unmarked
  PROVE  MarkInv'
<1> USE DEF MarkInv, IInv, TypeOK, Live, FamilyKill, Goto, minted
<1>1. JwtExpiresFirst'
  BY TTLAssumption DEF LifetimesOrdered, JwtExpiresFirst, AnyLeft
<1>2. SentAreMarked'
  BY TTLAssumption DEF SentAreMarked, Sent, BeingMarked
<1> QED BY <1>1, <1>2

\* The token that DEL took is the request's to mark.
LEMMA RevokeDeleteMarked ==
  ASSUME IInv, IInv', MarkInv, NEW p \in Procs, NEW j \in Jtis,
         RevokeDelete(p, j), UNCHANGED unmarked
  PROVE  MarkInv'
<1> USE DEF MarkInv, IInv, TypeOK, Live, RevokeDelete, Start, minted
<1>1. JwtExpiresFirst'
  BY DEF JwtExpiresFirst
<1>2. SentAreMarked'
  BY DEF SentAreMarked, Sent, BeingMarked
<1> QED BY <1>1, <1>2

\* The marker lives as long as the JWT has left.
LEMMA RevokeMarkMarked ==
  ASSUME IInv, IInv', MarkInv, NEW p \in Procs,
         RevokeMark(p), UNCHANGED unmarked
  PROVE  MarkInv'
<1> USE DEF MarkInv, IInv, TypeOK, Live, RevokeMark, At, Goto, minted
<1>1. JwtExpiresFirst'
  BY DEF JwtExpiresFirst, AnyLeft
<1>2. SentAreMarked'
  BY DEF SentAreMarked, Sent, BeingMarked, AnyLeft
<1> QED BY <1>1, <1>2

\* One tick: everything that was in time still is.
LEMMA TickMarked ==
  ASSUME IInv, IInv', MarkInv, HTick
  PROVE  MarkInv'
<1> USE DEF MarkInv, IInv, TypeOK, HTick, Tick, minted, locals
<1>1. JwtExpiresFirst'
  BY TTLAssumption DEF JwtExpiresFirst, Live, Less, AnyLeft
<1>2. SentAreMarked'
  <2> SUFFICES ASSUME NEW j \in Jtis, Sent(j)', jwtLeft'[j] # 0
               PROVE  \/ Live(j)' \/ revoked'[j] > 0
                      \/ j \in unmarked' \/ BeingMarked(j)'
    BY DEF SentAreMarked
  <2>1. Sent(j) /\ (BeingMarked(j) => BeingMarked(j)')
    BY DEF Sent, BeingMarked
  <2>2. jwtLeft[j] > 1 /\ jwtLeft'[j] > 0
    BY DEF Less, AnyLeft
  <2>3. CASE Live(j)
    BY <2>2, <2>3 DEF JwtExpiresFirst, Live, Less, AnyLeft
  <2>4. CASE revoked[j] > 0
    BY <2>2, <2>4 DEF JwtExpiresFirst, Less, AnyLeft
  <2>5. CASE j \in unmarked \/ BeingMarked(j)
    BY <2>1, <2>2, <2>5
  <2> QED BY <2>1, <2>2, <2>3, <2>4, <2>5 DEF SentAreMarked
<1> QED BY <1>1, <1>2

\* Every step keeps the markers.
LEMMA NextMarked ==
  ASSUME LifetimesOrdered
  PROVE  IInv /\ IInv' /\ MarkInv /\ [HNext]_hvars => MarkInv'
<1> SUFFICES ASSUME IInv, IInv', MarkInv, [HNext]_hvars PROVE MarkInv'
  OBVIOUS
<1> USE DEF IInv, TypeOK
<1>1. UNCHANGED <<vars, unmarked>> => MarkInv'
  BY DEF vars, MarkInv, JwtExpiresFirst, SentAreMarked, Sent, BeingMarked, Live
<1>2. CASE HTick
  BY <1>2, TickMarked
<1>3. CASE \E p \in Procs : HRequest(p)
  <2> PICK p \in Procs : HRequest(p)
    BY <1>3
  <2>1. CASE HStore(p)
    BY <2>1, StoreMarked
  <2>2. CASE HAbort(p)
    <3> USE <2>2 DEF HAbort, Abort, Finish, minted, store
    <3>1. pc[p] \in {"mark", "deny"} => tok[p] \in unmarked'
      OBVIOUS
    <3>2. \A q \in Procs : q # p => pc'[q] = pc[q] /\ tok'[q] = tok[q]
      OBVIOUS
    <3>3. unmarked \subseteq unmarked' /\ pc'[p] # "track"
      OBVIOUS
    <3> QED BY <3>1, <3>2, <3>3, QuietMarked
  <2> SUFFICES ASSUME Unrecorded(p) PROVE MarkInv'
    BY <2>1, <2>2 DEF HRequest
  <2> UNCHANGED unmarked
    BY DEF Unrecorded
  <2>3. CASE Login(p)
    BY <2>3, LoginMintMarked DEF Login
  <2>4. CASE Refresh(p)
    <3>1. ASSUME NEW j \in Jtis, RefreshReuse(p, j) PROVE MarkInv'
      BY <1>1, <3>1 DEF RefreshReuse
    <3>2. ASSUME NEW j \in Jtis, RefreshCheck(p, j) PROVE MarkInv'
      BY <3>2, QuietMarked DEF RefreshCheck, Start, minted, store
    <3>3. ASSUME ConsumeMiss(p) PROVE MarkInv'
      BY <3>3, QuietMarked DEF ConsumeMiss, At, Finish, minted, store
    <3> QED BY <2>4, <3>1, <3>2, <3>3, ConsumeMarked, MarkMarked, RotateMintMarked DEF Refresh
  <2>5. CASE Track(p)
    BY <2>5, TrackMarked
  <2>6. CASE Logout(p)
    <3>1. ASSUME NEW u \in Users, LogoutFamilies(p, u) PROVE MarkInv'
      BY <3>1, QuietMarked DEF LogoutFamilies, Start, minted, store
    <3>2. ASSUME LogoutClear(p) PROVE MarkInv'
      BY <3>2, QuietMarked DEF LogoutClear, At, Finish, minted
    <3> QED BY <2>6, <3>1, <3>2 DEF Logout
  <2>7. CASE RevokeFamily(p)
    <3>1. ASSUME NEW f \in Families, FamilyRead(p, f) PROVE MarkInv'
      BY <3>1, QuietMarked DEF FamilyRead, Goto, minted, store
    <3> QED BY <2>7, <3>1, FamilyKillMarked DEF RevokeFamily
  <2>8. CASE RevokeSession(p)
    <3>1. ASSUME RevokeForget(p) PROVE MarkInv'
      BY <3>1, QuietMarked DEF RevokeForget, At, Finish, minted
    <3> QED BY <2>8, <3>1, RevokeDeleteMarked, RevokeMarkMarked DEF RevokeSession
  <2> QED BY <2>3, <2>4, <2>5, <2>6, <2>7, <2>8 DEF Unrecorded
<1> QED BY <1>1, <1>2, <1>3 DEF HNext, hvars, history

\* With the markers, the whole invariant that the runs check.
THEOREM HistoryInvariance ==
  ASSUME LifetimesOrdered
  PROVE  HSpec => []HInv
<1> QED BY HInvariance, IndexInvariance, InitMarked, NextMarked, PTL DEF HSpec, HInv

\* A token that a client holds and that Redis no longer has is marked for as
\* long as its signature verifies, unless the request that deleted it failed
\* before its next command (consume_refresh, revoke_refresh, revoke_family).
THEOREM SpentMarked ==
  ASSUME LifetimesOrdered
  PROVE  HSpec => []SpentStaysMarked
<1>1. IInv /\ HInv => SpentStaysMarked
  BY DEF IInv, TypeOK, HInv, MarkInv, SentAreMarked, Sent, BeingMarked, SpentStaysMarked
<1> QED BY <1>1, HInvariance, HistoryInvariance, PTL
=============================================================================
