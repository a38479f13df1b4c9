----------------------------- MODULE SessionsProofs -----------------------------
(***************************************************************************)
(* Theorems about Sessions, for all sets of users, families, tokens and     *)
(* requests, all lifetimes and any set of operations.                       *)
(*                                                                         *)
(* One lemma per action shows that it preserves IInv (SessionsInvariant);   *)
(* the theorems follow.  The last part shows that Sessions implements       *)
(* RefreshChains.                                                           *)
(***************************************************************************)
EXTENDS SessionsInvariant, TLAPS

---------------------------------------------------------------------------
(* The inductive invariant.                                                *)

\* IInv holds initially: nothing is minted, stored or in progress.
LEMMA InitInvariant == Init => IInv
<1> SUFFICES ASSUME Init PROVE IInv
  OBVIOUS
<1> USE DEF Init
<1>1. TypeOK
  BY TTLAssumption DEF TypeOK, AnyLeft, Steps
<1>2. OneLivePerFamily /\ LiveNotRevoked
  BY DEF OneLivePerFamily, LiveNotRevoked, Live
<1>3. CarrierExcludesLive /\ CarriersDiffer
  BY DEF CarrierExcludesLive, CarriersDiffer, Carries
<1>4. UnmintedIsNew
  BY IdsAssumption DEF UnmintedIsNew, New
<1>5. MintedHasOwner
  BY DEF MintedHasOwner
<1>6. PendingIsNew /\ PendingDiffer
  BY DEF PendingIsNew, PendingDiffer
<1>7. SpentIsHeld /\ LocalsAssigned
  BY DEF SpentIsHeld, LocalsAssigned
<1> QED BY <1>1, <1>2, <1>3, <1>4, <1>5, <1>6, <1>7 DEF IInv

\* A login takes a family nobody used, so no token and no request is in it yet.
LEMMA LoginMintStep ==
  ASSUME IInv, NEW p \in Procs, NEW u \in Users, NEW f \in Families, NEW j \in Jtis,
         LoginMint(p, u, f, j)
  PROVE  IInv'
<1> USE DEF IInv, LoginMint, Start, store
<1>1. TypeOK'
  BY TTLAssumption DEF TypeOK, AnyLeft, Steps
<1>2. OneLivePerFamily'
  BY DEF OneLivePerFamily, MintedHasOwner, Live
<1>3. LiveNotRevoked'
  BY DEF LiveNotRevoked, Live
<1>4. CarrierExcludesLive'
  BY IdsAssumption DEF TypeOK, CarrierExcludesLive, UnmintedIsNew,
     MintedHasOwner, New, Carries, Live, AnyLeft, Steps
<1>5. CarriersDiffer'
  BY DEF TypeOK, CarrierExcludesLive, CarriersDiffer, Carries, Live, AnyLeft,
     Steps
<1>6. UnmintedIsNew'
  BY IdsAssumption DEF TypeOK, UnmintedIsNew, New, AnyLeft, Steps
<1>7. MintedHasOwner'
  BY IdsAssumption DEF TypeOK, MintedHasOwner, AnyLeft, Steps
<1>8. PendingIsNew'
  BY DEF TypeOK, UnmintedIsNew, PendingIsNew, New, AnyLeft, Steps
<1>9. PendingDiffer'
  BY DEF TypeOK, UnmintedIsNew, PendingDiffer, New, AnyLeft, Steps
<1>10. SpentIsHeld'
  BY DEF SpentIsHeld, Live
<1>11. LocalsAssigned'
  BY DEF TypeOK, LocalsAssigned, AnyLeft, Steps
<1> QED BY <1>1, <1>2, <1>3, <1>4, <1>5, <1>6, <1>7, <1>8, <1>9, <1>10, <1>11

\* The check only moves the request on; its token is held by a client.
LEMMA RefreshCheckStep ==
  ASSUME IInv, NEW p \in Procs, NEW j \in Jtis,
         RefreshCheck(p, j)
  PROVE  IInv'
<1> USE DEF IInv, RefreshCheck, Start, minted, store
<1>1. TypeOK'
  BY DEF TypeOK, AnyLeft, Steps
<1>2. OneLivePerFamily'
  BY DEF OneLivePerFamily, Live
<1>3. LiveNotRevoked'
  BY DEF LiveNotRevoked, Live
<1>4. CarrierExcludesLive'
  BY DEF CarrierExcludesLive, Carries, Live
<1>5. CarriersDiffer'
  BY DEF CarriersDiffer, Carries
<1>6. UnmintedIsNew'
  BY DEF UnmintedIsNew, New
<1>7. MintedHasOwner'
  BY DEF MintedHasOwner
<1>8. PendingIsNew'
  BY DEF PendingIsNew, New
<1>9. PendingDiffer'
  BY DEF PendingDiffer
<1>10. SpentIsHeld'
  BY DEF TypeOK, SpentIsHeld, Live, AnyLeft, Steps
<1>11. LocalsAssigned'
  BY DEF LocalsAssigned
<1> QED BY <1>1, <1>2, <1>3, <1>4, <1>5, <1>6, <1>7, <1>8, <1>9, <1>10, <1>11

\* GETDEL makes the family carried by this request: the token it deleted was the
\* family's only live one, and no other request carried the family.
LEMMA ConsumeStep ==
  ASSUME IInv, NEW p \in Procs,
         Consume(p)
  PROVE  IInv'
<1> USE DEF IInv, Consume, At, Goto, UserOf, minted, Live
<1>1. TypeOK'
  BY DEF TypeOK, LiveNotRevoked, UnmintedIsNew, SpentIsHeld, New, AnyLeft,
     Steps
<1>2. OneLivePerFamily'
  BY DEF OneLivePerFamily
<1>3. LiveNotRevoked'
  BY DEF LiveNotRevoked
<1>4. CarrierExcludesLive'
  BY DEF TypeOK, OneLivePerFamily, CarrierExcludesLive, UnmintedIsNew,
     MintedHasOwner, SpentIsHeld, New, Carries, AnyLeft, Steps
<1>5. CarriersDiffer'
  BY DEF TypeOK, CarrierExcludesLive, CarriersDiffer, SpentIsHeld, Carries,
     AnyLeft, Steps
<1>6. UnmintedIsNew'
  BY DEF UnmintedIsNew, New
<1>7. MintedHasOwner'
  BY DEF MintedHasOwner
<1>8. PendingIsNew'
  BY DEF PendingIsNew, New
<1>9. PendingDiffer'
  BY DEF PendingDiffer
<1>10. SpentIsHeld'
  BY DEF TypeOK, SpentIsHeld, AnyLeft, Steps
<1>11. LocalsAssigned'
  BY DEF TypeOK, UnmintedIsNew, MintedHasOwner, SpentIsHeld, LocalsAssigned,
     New, AnyLeft, Steps
<1> QED BY <1>1, <1>2, <1>3, <1>4, <1>5, <1>6, <1>7, <1>8, <1>9, <1>10, <1>11

\* The request ends.
LEMMA ConsumeMissStep ==
  ASSUME IInv, NEW p \in Procs,
         ConsumeMiss(p)
  PROVE  IInv'
<1> USE DEF IInv, ConsumeMiss, At, Finish, minted, store, Live
<1>1. TypeOK'
  BY DEF TypeOK, AnyLeft, Steps
<1>2. OneLivePerFamily'
  BY DEF OneLivePerFamily
<1>3. LiveNotRevoked'
  BY DEF LiveNotRevoked
<1>4. CarrierExcludesLive'
  BY DEF CarrierExcludesLive, Carries
<1>5. CarriersDiffer'
  BY DEF CarriersDiffer, Carries
<1>6. UnmintedIsNew'
  BY IdsAssumption DEF UnmintedIsNew, New
<1>7. MintedHasOwner'
  BY DEF MintedHasOwner
<1>8. PendingIsNew'
  BY DEF PendingIsNew, New
<1>9. PendingDiffer'
  BY DEF PendingDiffer
<1>10. SpentIsHeld'
  BY DEF TypeOK, SpentIsHeld, AnyLeft, Steps
<1>11. LocalsAssigned'
  BY DEF LocalsAssigned
<1> QED BY <1>1, <1>2, <1>3, <1>4, <1>5, <1>6, <1>7, <1>8, <1>9, <1>10, <1>11

\* The marker is written on a token that this request has deleted.
LEMMA MarkStep ==
  ASSUME IInv, NEW p \in Procs,
         Mark(p)
  PROVE  IInv'
<1> USE DEF IInv, Mark, At, Goto, minted, locals
<1>1. TypeOK'
  BY TTLAssumption DEF TypeOK, SpentIsHeld, Live, AnyLeft, Steps
<1>2. OneLivePerFamily'
  BY DEF OneLivePerFamily, Live
<1>3. LiveNotRevoked'
  BY DEF LiveNotRevoked, SpentIsHeld, Live
<1>4. CarrierExcludesLive'
  BY DEF CarrierExcludesLive, Carries, Live
<1>5. CarriersDiffer'
  BY DEF CarriersDiffer, Carries
<1>6. UnmintedIsNew'
  BY DEF UnmintedIsNew, New
<1>7. MintedHasOwner'
  BY DEF MintedHasOwner
<1>8. PendingIsNew'
  BY DEF PendingIsNew, SpentIsHeld, New, Live
<1>9. PendingDiffer'
  BY DEF PendingDiffer
<1>10. SpentIsHeld'
  BY DEF SpentIsHeld, Live
<1>11. LocalsAssigned'
  BY DEF LocalsAssigned
<1> QED BY <1>1, <1>2, <1>3, <1>4, <1>5, <1>6, <1>7, <1>8, <1>9, <1>10, <1>11

\* The successor is a token nobody has seen, in the family that is carried.
LEMMA RotateMintStep ==
  ASSUME IInv, NEW p \in Procs, NEW j \in Jtis,
         RotateMint(p, j)
  PROVE  IInv'
<1> USE DEF IInv, RotateMint, At, Goto, store
<1>1. TypeOK'
  BY TTLAssumption DEF TypeOK, AnyLeft, Steps
<1>2. OneLivePerFamily'
  BY DEF OneLivePerFamily, UnmintedIsNew, New, Live
<1>3. LiveNotRevoked'
  BY DEF LiveNotRevoked, Live
<1>4. CarrierExcludesLive'
  BY DEF CarrierExcludesLive, UnmintedIsNew, New, Carries, Live
<1>5. CarriersDiffer'
  BY DEF CarriersDiffer, Carries
<1>6. UnmintedIsNew'
  BY IdsAssumption DEF TypeOK, UnmintedIsNew, LocalsAssigned, New, AnyLeft,
     Steps
<1>7. MintedHasOwner'
  BY DEF CarrierExcludesLive, MintedHasOwner, Carries, Live
<1>8. PendingIsNew'
  BY DEF TypeOK, UnmintedIsNew, PendingIsNew, New, AnyLeft, Steps
<1>9. PendingDiffer'
  BY DEF TypeOK, UnmintedIsNew, PendingDiffer, New, AnyLeft, Steps
<1>10. SpentIsHeld'
  BY DEF SpentIsHeld, Live
<1>11. LocalsAssigned'
  BY DEF LocalsAssigned
<1> QED BY <1>1, <1>2, <1>3, <1>4, <1>5, <1>6, <1>7, <1>8, <1>9, <1>10, <1>11

\* The carried family gets its one live token back, and is no longer carried.
LEMMA StoreStep ==
  ASSUME IInv, NEW p \in Procs,
         Store(p)
  PROVE  IInv'
<1> USE DEF IInv, Store, Goto, minted, locals
<1>1. TypeOK'
  BY TTLAssumption DEF TypeOK, PendingIsNew, LocalsAssigned, New, AnyLeft,
     Steps
<1>2. OneLivePerFamily'
  BY DEF OneLivePerFamily, CarrierExcludesLive, PendingIsNew, New, Carries,
     Live
<1>3. LiveNotRevoked'
  BY DEF LiveNotRevoked, PendingIsNew, New, Live
<1>4. CarrierExcludesLive'
  BY DEF TypeOK, CarrierExcludesLive, CarriersDiffer, PendingIsNew, New,
     Carries, Live, AnyLeft, Steps
<1>5. CarriersDiffer'
  BY DEF CarriersDiffer, Carries
<1>6. UnmintedIsNew'
  BY DEF UnmintedIsNew, New
<1>7. MintedHasOwner'
  BY DEF MintedHasOwner
<1>8. PendingIsNew'
  BY DEF TypeOK, PendingIsNew, PendingDiffer, New, AnyLeft, Steps
<1>9. PendingDiffer'
  BY DEF PendingDiffer
<1>10. SpentIsHeld'
  BY DEF PendingIsNew, SpentIsHeld, New, Live
<1>11. LocalsAssigned'
  BY DEF PendingIsNew, LocalsAssigned, New
<1> QED BY <1>1, <1>2, <1>3, <1>4, <1>5, <1>6, <1>7, <1>8, <1>9, <1>10, <1>11

\* The token is handed to the client.
LEMMA TrackStep ==
  ASSUME IInv, NEW p \in Procs,
         Track(p)
  PROVE  IInv'
<1> USE DEF IInv, Track, Finish
<1>1. TypeOK'
  BY TTLAssumption DEF TypeOK, LocalsAssigned, AnyLeft, Steps
<1>2. OneLivePerFamily'
  BY DEF OneLivePerFamily, Live
<1>3. LiveNotRevoked'
  BY DEF LiveNotRevoked, Live
<1>4. CarrierExcludesLive'
  BY DEF CarrierExcludesLive, Carries, Live
<1>5. CarriersDiffer'
  BY DEF CarriersDiffer, Carries
<1>6. UnmintedIsNew'
  BY IdsAssumption DEF UnmintedIsNew, New
<1>7. MintedHasOwner'
  BY DEF MintedHasOwner
<1>8. PendingIsNew'
  BY DEF PendingIsNew, PendingDiffer, New
<1>9. PendingDiffer'
  BY DEF TypeOK, PendingDiffer, AnyLeft, Steps
<1>10. SpentIsHeld'
  BY DEF SpentIsHeld, Live
<1>11. LocalsAssigned'
  BY DEF TypeOK, LocalsAssigned, AnyLeft, Steps
<1> QED BY <1>1, <1>2, <1>3, <1>4, <1>5, <1>6, <1>7, <1>8, <1>9, <1>10, <1>11

\* Logout reads the index.
LEMMA LogoutFamiliesStep ==
  ASSUME IInv, NEW p \in Procs, NEW u \in Users,
         LogoutFamilies(p, u)
  PROVE  IInv'
<1> USE DEF IInv, LogoutFamilies, Start, UserOf, minted, store, HasTokens
<1>1. TypeOK'
  BY DEF TypeOK, AnyLeft, Steps
<1>2. OneLivePerFamily'
  BY DEF OneLivePerFamily, Live
<1>3. LiveNotRevoked'
  BY DEF LiveNotRevoked, Live
<1>4. CarrierExcludesLive'
  BY DEF CarrierExcludesLive, Carries, Live
<1>5. CarriersDiffer'
  BY DEF CarriersDiffer, Carries
<1>6. UnmintedIsNew'
  BY DEF UnmintedIsNew, New
<1>7. MintedHasOwner'
  BY DEF MintedHasOwner
<1>8. PendingIsNew'
  BY DEF PendingIsNew, New
<1>9. PendingDiffer'
  BY DEF PendingDiffer
<1>10. SpentIsHeld'
  BY DEF SpentIsHeld, Live
<1>11. LocalsAssigned'
  BY DEF TypeOK, LocalsAssigned, AnyLeft, Steps
<1> QED BY <1>1, <1>2, <1>3, <1>4, <1>5, <1>6, <1>7, <1>8, <1>9, <1>10, <1>11

\* SMEMBERS returns tokens that were stored.
LEMMA FamilyReadStep ==
  ASSUME IInv, NEW p \in Procs, NEW f \in Families,
         FamilyRead(p, f)
  PROVE  IInv'
<1> USE DEF IInv, FamilyRead, Goto, minted, store
<1>1. TypeOK'
  <2>1. CASE members[f] = {}
    BY <2>1 DEF TypeOK
  <2>2. CASE members[f] # {}
    BY <2>2 DEF TypeOK, AnyLeft, Steps
  <2> QED BY <2>1, <2>2
<1>2. OneLivePerFamily'
  BY DEF OneLivePerFamily, Live
<1>3. LiveNotRevoked'
  BY DEF LiveNotRevoked, Live
<1>4. CarrierExcludesLive'
  BY DEF TypeOK, CarrierExcludesLive, Carries, Live, AnyLeft, Steps
<1>5. CarriersDiffer'
  BY DEF TypeOK, CarriersDiffer, Carries, AnyLeft, Steps
<1>6. UnmintedIsNew'
  BY IdsAssumption DEF TypeOK, UnmintedIsNew, New, AnyLeft, Steps
<1>7. MintedHasOwner'
  BY DEF MintedHasOwner
<1>8. PendingIsNew'
  <2>1. CASE members[f] = {}
    BY <2>1 DEF PendingIsNew, New
  <2>2. CASE members[f] # {}
    BY <2>2 DEF TypeOK, PendingIsNew, New, Steps
  <2> QED BY <2>1, <2>2
<1>9. PendingDiffer'
  BY DEF TypeOK, PendingDiffer, AnyLeft, Steps
<1>10. SpentIsHeld'
  BY DEF TypeOK, SpentIsHeld, Live, AnyLeft, Steps
<1>11. LocalsAssigned'
  BY DEF TypeOK, LocalsAssigned, AnyLeft, Steps
<1> QED BY <1>1, <1>2, <1>3, <1>4, <1>5, <1>6, <1>7, <1>8, <1>9, <1>10, <1>11

\* What is marked is deleted in the same pipeline.
LEMMA FamilyKillStep ==
  ASSUME IInv, NEW p \in Procs,
         FamilyKill(p)
  PROVE  IInv'
<1> USE DEF IInv, FamilyKill, Goto, minted
<1>1. TypeOK'
  BY TTLAssumption DEF TypeOK, LocalsAssigned, AnyLeft, Steps
<1>2. OneLivePerFamily'
  BY DEF OneLivePerFamily, Live
<1>3. LiveNotRevoked'
  BY DEF LiveNotRevoked, Live
<1>4. CarrierExcludesLive'
  BY DEF CarrierExcludesLive, Carries, Live
<1>5. CarriersDiffer'
  BY DEF CarriersDiffer, Carries
<1>6. UnmintedIsNew'
  BY DEF UnmintedIsNew, New
<1>7. MintedHasOwner'
  BY DEF MintedHasOwner
<1>8. PendingIsNew'
  BY DEF PendingIsNew, New
<1>9. PendingDiffer'
  BY DEF PendingDiffer
<1>10. SpentIsHeld'
  BY DEF TypeOK, SpentIsHeld, Live, AnyLeft, Steps
<1>11. LocalsAssigned'
  BY DEF LocalsAssigned
<1> QED BY <1>1, <1>2, <1>3, <1>4, <1>5, <1>6, <1>7, <1>8, <1>9, <1>10, <1>11

\* The index goes; tokens and requests stay.
LEMMA LogoutClearStep ==
  ASSUME IInv, NEW p \in Procs,
         LogoutClear(p)
  PROVE  IInv'
<1> USE DEF IInv, LogoutClear, At, Finish, minted
<1>1. TypeOK'
  BY TTLAssumption DEF TypeOK, LocalsAssigned, AnyLeft, Steps
<1>2. OneLivePerFamily'
  BY DEF OneLivePerFamily, Live
<1>3. LiveNotRevoked'
  BY DEF LiveNotRevoked, Live
<1>4. CarrierExcludesLive'
  BY DEF CarrierExcludesLive, Carries, Live
<1>5. CarriersDiffer'
  BY DEF CarriersDiffer, Carries
<1>6. UnmintedIsNew'
  BY IdsAssumption DEF UnmintedIsNew, New
<1>7. MintedHasOwner'
  BY DEF MintedHasOwner
<1>8. PendingIsNew'
  BY DEF PendingIsNew, New
<1>9. PendingDiffer'
  BY DEF PendingDiffer
<1>10. SpentIsHeld'
  BY DEF SpentIsHeld, Live
<1>11. LocalsAssigned'
  BY DEF TypeOK, LocalsAssigned, AnyLeft, Steps
<1> QED BY <1>1, <1>2, <1>3, <1>4, <1>5, <1>6, <1>7, <1>8, <1>9, <1>10, <1>11

\* A token that a client holds is deleted.
LEMMA RevokeDeleteStep ==
  ASSUME IInv, NEW p \in Procs, NEW j \in Jtis,
         RevokeDelete(p, j)
  PROVE  IInv'
<1> USE DEF IInv, RevokeDelete, Start, UserOf, minted
<1>1. TypeOK'
  BY TTLAssumption DEF TypeOK, UnmintedIsNew, New, AnyLeft, Steps
<1>2. OneLivePerFamily'
  BY DEF OneLivePerFamily, Live
<1>3. LiveNotRevoked'
  BY DEF LiveNotRevoked, Live
<1>4. CarrierExcludesLive'
  BY DEF CarrierExcludesLive, Carries, Live
<1>5. CarriersDiffer'
  BY DEF CarriersDiffer, Carries
<1>6. UnmintedIsNew'
  BY DEF UnmintedIsNew, New
<1>7. MintedHasOwner'
  BY DEF MintedHasOwner
<1>8. PendingIsNew'
  BY DEF PendingIsNew, New
<1>9. PendingDiffer'
  BY DEF PendingDiffer
<1>10. SpentIsHeld'
  BY DEF TypeOK, SpentIsHeld, Live, AnyLeft, Steps
<1>11. LocalsAssigned'
  BY DEF TypeOK, UnmintedIsNew, MintedHasOwner, LocalsAssigned, New, AnyLeft,
     Steps
<1> QED BY <1>1, <1>2, <1>3, <1>4, <1>5, <1>6, <1>7, <1>8, <1>9, <1>10, <1>11

\* The marker is written on a token that was deleted.
LEMMA RevokeMarkStep ==
  ASSUME IInv, NEW p \in Procs,
         RevokeMark(p)
  PROVE  IInv'
<1> USE DEF IInv, RevokeMark, At, Goto, minted
<1>1. TypeOK'
  BY TTLAssumption DEF TypeOK, SpentIsHeld, LocalsAssigned, Live, AnyLeft,
     Steps
<1>2. OneLivePerFamily'
  BY DEF OneLivePerFamily, Live
<1>3. LiveNotRevoked'
  BY DEF LiveNotRevoked, SpentIsHeld, Live
<1>4. CarrierExcludesLive'
  BY DEF CarrierExcludesLive, Carries, Live
<1>5. CarriersDiffer'
  BY DEF CarriersDiffer, Carries
<1>6. UnmintedIsNew'
  BY DEF UnmintedIsNew, New
<1>7. MintedHasOwner'
  BY DEF MintedHasOwner
<1>8. PendingIsNew'
  BY DEF PendingIsNew, SpentIsHeld, New, Live
<1>9. PendingDiffer'
  BY DEF PendingDiffer
<1>10. SpentIsHeld'
  BY DEF SpentIsHeld, Live
<1>11. LocalsAssigned'
  BY DEF LocalsAssigned
<1> QED BY <1>1, <1>2, <1>3, <1>4, <1>5, <1>6, <1>7, <1>8, <1>9, <1>10, <1>11

\* The index changes; tokens and requests stay.
LEMMA RevokeForgetStep ==
  ASSUME IInv, NEW p \in Procs,
         RevokeForget(p)
  PROVE  IInv'
<1> USE DEF IInv, RevokeForget, At, Finish, minted
<1>1. TypeOK'
  BY TTLAssumption DEF TypeOK, LocalsAssigned, AnyLeft, Steps
<1>2. OneLivePerFamily'
  BY DEF OneLivePerFamily, Live
<1>3. LiveNotRevoked'
  BY DEF LiveNotRevoked, Live
<1>4. CarrierExcludesLive'
  BY DEF CarrierExcludesLive, Carries, Live
<1>5. CarriersDiffer'
  BY DEF CarriersDiffer, Carries
<1>6. UnmintedIsNew'
  BY IdsAssumption DEF UnmintedIsNew, New
<1>7. MintedHasOwner'
  BY DEF MintedHasOwner
<1>8. PendingIsNew'
  BY DEF PendingIsNew, New
<1>9. PendingDiffer'
  BY DEF PendingDiffer
<1>10. SpentIsHeld'
  BY DEF SpentIsHeld, Live
<1>11. LocalsAssigned'
  BY DEF TypeOK, LocalsAssigned, AnyLeft, Steps
<1> QED BY <1>1, <1>2, <1>3, <1>4, <1>5, <1>6, <1>7, <1>8, <1>9, <1>10, <1>11

\* A request that ends carries nothing any more.
LEMMA AbortStep ==
  ASSUME IInv, NEW p \in Procs,
         Abort(p)
  PROVE  IInv'
<1> USE DEF IInv, Abort, Finish, minted, store
<1>1. TypeOK'
  BY DEF TypeOK, AnyLeft, Steps
<1>2. OneLivePerFamily'
  BY DEF OneLivePerFamily, Live
<1>3. LiveNotRevoked'
  BY DEF LiveNotRevoked, Live
<1>4. CarrierExcludesLive'
  BY DEF TypeOK, CarrierExcludesLive, Carries, Live, AnyLeft, Steps
<1>5. CarriersDiffer'
  BY DEF TypeOK, CarriersDiffer, Carries, AnyLeft, Steps
<1>6. UnmintedIsNew'
  BY IdsAssumption DEF UnmintedIsNew, New
<1>7. MintedHasOwner'
  BY DEF MintedHasOwner
<1>8. PendingIsNew'
  BY DEF TypeOK, PendingIsNew, New, AnyLeft, Steps
<1>9. PendingDiffer'
  BY DEF TypeOK, PendingDiffer, AnyLeft, Steps
<1>10. SpentIsHeld'
  BY DEF TypeOK, SpentIsHeld, Live, AnyLeft, Steps
<1>11. LocalsAssigned'
  BY DEF TypeOK, LocalsAssigned, AnyLeft, Steps
<1> QED BY <1>1, <1>2, <1>3, <1>4, <1>5, <1>6, <1>7, <1>8, <1>9, <1>10, <1>11

\* Counting down keeps a lifetime in range and revives nothing.
LEMMA LessInRange ==
  ASSUME NEW n \in AnyLeft
  PROVE  /\ Less(n) \in AnyLeft
         /\ Less(n) > 0 => n > 0
         /\ n = 0 => Less(n) = 0
  BY TTLAssumption DEF Less, AnyLeft

\* The clock takes keys away and leaves requests alone.
LEMMA TickStep ==
  ASSUME IInv, Tick
  PROVE  IInv'
<1> USE DEF IInv, Tick, minted, locals
<1>1. \A j \in Jtis : /\ Live(j)' => Live(j)
                      /\ refresh[j] = 0 => refresh'[j] = 0
                      /\ revoked[j] = 0 => revoked'[j] = 0
  BY LessInRange DEF TypeOK, Live
<1>2. TypeOK'
  <2>1. /\ jwtLeft' \in [Jtis -> AnyLeft]
        /\ refresh' \in [Jtis -> AnyLeft]
        /\ revoked' \in [Jtis -> AnyLeft]
        /\ membersLeft' \in [Families -> AnyLeft]
        /\ indexLeft' \in [Users -> AnyLeft]
    BY LessInRange DEF TypeOK
  <2>2. members' \in [Families -> SUBSET Jtis] /\ index' \in [Users -> SUBSET Families]
    BY DEF TypeOK
  <2> QED BY <2>1, <2>2 DEF TypeOK
<1>3. OneLivePerFamily'
  BY <1>1 DEF OneLivePerFamily
<1>4. LiveNotRevoked'
  BY <1>1, LessInRange DEF LiveNotRevoked, TypeOK, Live
<1>5. CarrierExcludesLive'
  BY <1>1 DEF CarrierExcludesLive, Carries
<1>6. CarriersDiffer'
  BY DEF CarriersDiffer, Carries
<1>7. \A j \in Jtis : New(j) => New(j)'
  BY <1>1 DEF New
<1>8. UnmintedIsNew' /\ PendingIsNew'
  BY <1>7 DEF UnmintedIsNew, PendingIsNew
<1>9. MintedHasOwner' /\ PendingDiffer' /\ LocalsAssigned'
  BY DEF MintedHasOwner, PendingDiffer, LocalsAssigned
<1>10. SpentIsHeld'
  BY <1>1 DEF SpentIsHeld, TypeOK, Live
<1> QED BY <1>2, <1>3, <1>4, <1>5, <1>6, <1>8, <1>9, <1>10

\* A step that changes nothing keeps IInv.
LEMMA StutterStep == IInv /\ UNCHANGED vars => IInv'
  BY DEF IInv, vars, TypeOK, OneLivePerFamily, LiveNotRevoked, CarrierExcludesLive,
     CarriersDiffer, UnmintedIsNew, MintedHasOwner, PendingIsNew, PendingDiffer,
     SpentIsHeld, LocalsAssigned, New, Carries, Live

\* Every step of the store, of a request or of the clock keeps IInv.
LEMMA NextInvariant == IInv /\ [Next]_vars => IInv'
<1> SUFFICES ASSUME IInv, [Next]_vars PROVE IInv'
  OBVIOUS
<1>1. CASE UNCHANGED vars
  BY <1>1, StutterStep
<1>2. CASE Tick
  BY <1>2, TickStep
<1>3. CASE \E p \in Procs : Request(p)
  <2> PICK p \in Procs : Request(p)
    BY <1>3
  <2>1. CASE Login(p)
    BY <2>1, LoginMintStep DEF Login
  <2>2. CASE Refresh(p)
    <3>1. ASSUME NEW j \in Jtis, RefreshReuse(p, j) PROVE IInv'
      BY <3>1, StutterStep DEF RefreshReuse
    <3> QED BY <2>2, <3>1, RefreshCheckStep, ConsumeStep, ConsumeMissStep, MarkStep,
               RotateMintStep DEF Refresh
  <2>3. CASE Issued(p)
    BY <2>3, StoreStep, TrackStep DEF Issued
  <2>4. CASE Logout(p)
    BY <2>4, LogoutFamiliesStep, LogoutClearStep DEF Logout
  <2>5. CASE RevokeFamily(p)
    BY <2>5, FamilyReadStep, FamilyKillStep DEF RevokeFamily
  <2>6. CASE RevokeSession(p)
    BY <2>6, RevokeDeleteStep, RevokeMarkStep, RevokeForgetStep DEF RevokeSession
  <2>7. CASE Abort(p)
    BY <2>7, AbortStep
  <2> QED BY <2>1, <2>2, <2>3, <2>4, <2>5, <2>6, <2>7 DEF Request
<1> QED BY <1>1, <1>2, <1>3 DEF Next

---------------------------------------------------------------------------
(* Theorems.                                                               *)

\* IInv holds in every reachable state.
THEOREM Invariance == Spec => []IInv
<1> QED BY InitInvariant, NextInvariant, PTL DEF Spec

\* Every variable of the token store and of the requests keeps its type; in
\* particular no lifetime in Redis exceeds the sum of the configured ones.
THEOREM TypeCorrect == Spec => []TypeOK
<1>1. IInv => TypeOK
  BY DEF IInv
<1> QED BY <1>1, Invariance, PTL

\* Whatever requests race over the token store, and wherever they fail, a
\* family never has two usable refresh tokens (consume_refresh, store_refresh).
THEOREM SingleChain == Spec => []OneLivePerFamily
<1>1. IInv => OneLivePerFamily
  BY DEF IInv
<1> QED BY <1>1, Invariance, PTL

\* A usable refresh token is never marked as reused (is_refresh_revoked does not
\* refuse the first use of a token).
THEOREM FirstUseAccepted == Spec => []LiveNotRevoked
<1>1. IInv => LiveNotRevoked
  BY DEF IInv
<1> QED BY <1>1, Invariance, PTL

---------------------------------------------------------------------------
(* Sessions implements RefreshChains.                                      *)

\* What the CHOOSE in Holder chooses: the family's live token, if it has one.
HolderIsLive ==
  /\ Holder \in [Families -> Jtis \cup {None}]
  /\ \A f \in Families, j \in Jtis :
       Holder[f] = j <=> Live(j) /\ familyOf[j] = f

\* While a family has at most one usable token, Holder names exactly that one.
LEMMA HolderDetermined == OneLivePerFamily => HolderIsLive
<1> SUFFICES ASSUME OneLivePerFamily PROVE HolderIsLive
  OBVIOUS
<1>1. ASSUME NEW f \in Families
      PROVE  /\ Holder[f] \in Jtis \cup {None}
             /\ \A j \in Jtis : Holder[f] = j <=> Live(j) /\ familyOf[j] = f
  <2>1. CASE LiveIn(f) = {}
    BY <2>1, IdsAssumption DEF Holder, LiveIn
  <2>2. CASE LiveIn(f) # {}
    <3>1. PICK i \in LiveIn(f) : TRUE
      BY <2>2
    <3>2. \A j \in LiveIn(f) : j = i
      BY <3>1 DEF LiveIn, OneLivePerFamily
    <3>3. Holder[f] = i
      BY <2>2, <3>1, <3>2 DEF Holder
    <3> QED BY <3>1, <3>2, <3>3 DEF LiveIn
  <2> QED BY <2>1, <2>2
<1>2. Holder = [f \in Families |-> Holder[f]]
  BY DEF Holder
<1> QED BY <1>1, <1>2 DEF HolderIsLive

\* The same in the next state.
LEMMA HolderDeterminedNext == OneLivePerFamily' => HolderIsLive'
  BY HolderDetermined, PTL

\* Initially no token is used and no family has a holder.
LEMMA InitImplements == Init => Chains!ChainsInit
<1> SUFFICES ASSUME Init PROVE Chains!ChainsInit
  OBVIOUS
<1>1. Used = {}
  BY DEF Init, Used
<1>2. Holder = [f \in Families |-> None]
  BY DEF Init, Holder, LiveIn, Live
<1> QED BY <1>1, <1>2 DEF Chains!ChainsInit

\* A step that changes neither the usable tokens nor the minted ones.
LEMMA QuietStep ==
  ASSUME HolderIsLive, HolderIsLive', Used' = Used,
         \A j \in Jtis : (Live(j)' <=> Live(j)) /\ (Live(j) => familyOf'[j] = familyOf[j])
  PROVE  UNCHANGED <<Used, Holder>>
<1>1. \A f \in Families : Holder'[f] = Holder[f]
  BY IdsAssumption DEF HolderIsLive
<1> QED BY <1>1 DEF HolderIsLive

\* A step after which some tokens are not usable any more.
LEMMA RetireStep ==
  ASSUME HolderIsLive, HolderIsLive', Used' = Used, familyOf' = familyOf,
         \A j \in Jtis : Live(j)' => Live(j)
  PROVE  \E F \in SUBSET Families : Chains!Retire(F)
<1> DEFINE F == {f \in Families : Holder'[f] = None}
<1>1. \A f \in Families : f \notin F => Holder'[f] = Holder[f]
  BY IdsAssumption DEF HolderIsLive
<1>2. Holder' = [f \in Families |-> IF f \in F THEN None ELSE Holder[f]]
  BY <1>1 DEF HolderIsLive
<1>3. Chains!Retire(F)
  BY <1>2 DEF Chains!Retire
<1> QED BY <1>3

\* Used does not change while no request starts or stops waiting to store.
LEMMA UsedUnchanged ==
  ASSUME NEW p \in Procs, familyOf' = familyOf, TypeOK, TypeOK',
         \A q \in Procs : q # p => pc'[q] = pc[q] /\ tok'[q] = tok[q],
         pc[p] # "store", pc'[p] # "store"
  PROVE  Used' = Used
  BY DEF Used

\* A login's minted token is not used until it is stored: a stutter.
LEMMA LoginMintImplements ==
  ASSUME IInv, HolderIsLive, HolderIsLive', NEW p \in Procs,
         NEW u \in Users, NEW f \in Families, NEW j \in Jtis, LoginMint(p, u, f, j)
  PROVE  UNCHANGED <<Used, Holder>>
<1>1. Used' = Used
  BY IdsAssumption DEF Used, LoginMint, Start, IInv, TypeOK
<1>2. \A i \in Jtis : (Live(i)' <=> Live(i)) /\ (Live(i) => familyOf'[i] = familyOf[i])
  BY DEF LoginMint, store, Live, IInv, TypeOK, UnmintedIsNew, New
<1> QED BY <1>1, <1>2, QuietStep

\* A successor is not used until it is stored: a stutter.
LEMMA RotateMintImplements ==
  ASSUME IInv, HolderIsLive, HolderIsLive', NEW p \in Procs,
         NEW j \in Jtis, RotateMint(p, j)
  PROVE  UNCHANGED <<Used, Holder>>
<1>1. fam[p] \in Families
  BY DEF RotateMint, At, IInv, LocalsAssigned
<1>2. Used' = Used
  BY <1>1, IdsAssumption DEF Used, RotateMint, At, Goto, IInv, TypeOK
<1>3. \A i \in Jtis : (Live(i)' <=> Live(i)) /\ (Live(i) => familyOf'[i] = familyOf[i])
  BY DEF RotateMint, store, Live, IInv, TypeOK, UnmintedIsNew, New
<1> QED BY <1>2, <1>3, QuietStep

\* The pending token becomes its family's usable one.
LEMMA StoreImplements ==
  ASSUME IInv, HolderIsLive, HolderIsLive', NEW p \in Procs, Store(p)
  PROVE  \E f \in Families, j \in Jtis : Chains!Issue(f, j)
<1>1. /\ tok[p] \in Jtis
      /\ fam[p] \in Families
      /\ familyOf[tok[p]] = fam[p]
      /\ \A q \in Procs : q # p /\ pc[q] = "store" => tok[q] # tok[p]
  BY DEF Store, IInv, PendingIsNew, PendingDiffer, LocalsAssigned
<1>2. Used' = Used \cup {tok[p]}
  BY <1>1, IdsAssumption DEF Used, Store, Goto, minted, locals, IInv, TypeOK
<1>3. tok[p] \notin Used
  BY DEF Used, Store
<1>4. \A j \in Jtis : Live(j)' <=> Live(j) \/ j = tok[p]
  BY <1>1, TTLAssumption DEF Store, Live, IInv, TypeOK
<1>5. Holder[fam[p]] = None
  BY <1>1 DEF Store, HolderIsLive, IInv, CarrierExcludesLive, Carries
<1>6. Holder' = [Holder EXCEPT ![fam[p]] = tok[p]]
  <2>1. familyOf' = familyOf
    BY DEF Store, minted
  <2>2. Holder'[fam[p]] = tok[p]
    BY <1>1, <1>4, <2>1 DEF HolderIsLive
  <2>3. \A f \in Families : f # fam[p] => Holder'[f] = Holder[f]
    BY <1>1, <1>4, <2>1, IdsAssumption DEF HolderIsLive
  <2> QED BY <1>1, <2>2, <2>3 DEF HolderIsLive
<1>7. Chains!Issue(fam[p], tok[p])
  BY <1>2, <1>3, <1>5, <1>6 DEF Chains!Issue
<1> QED BY <1>1, <1>7

\* A request that waited to store its token burns it by failing.
LEMMA AbortImplements ==
  ASSUME IInv, IInv', HolderIsLive, HolderIsLive', NEW p \in Procs, Abort(p)
  PROVE  (\E j \in Jtis : Chains!Burn(j)) \/ UNCHANGED <<Used, Holder>>
<1>1. Holder' = Holder
  BY DEF Abort, minted, store, Holder, LiveIn, Live
<1>2. CASE pc[p] = "store"
  <2>1. /\ tok[p] \in Jtis
        /\ familyOf[tok[p]] # None
        /\ \A q \in Procs : q # p /\ pc[q] = "store" => tok[q] # tok[p]
    BY <1>2, IdsAssumption DEF IInv, PendingIsNew, PendingDiffer, LocalsAssigned
  <2>2. Used' = Used \cup {tok[p]}
    BY <1>2, <2>1 DEF Used, Abort, Finish, minted, IInv, TypeOK
  <2>3. Chains!Burn(tok[p])
    BY <1>1, <1>2, <2>2 DEF Chains!Burn, Used
  <2> QED BY <2>1, <2>3
<1>3. CASE pc[p] # "store"
  <2>1. Used' = Used
    BY <1>3 DEF Used, Abort, Finish, minted, IInv, TypeOK
  <2> QED BY <1>1, <2>1
<1> QED BY <1>2, <1>3

\* The steps of a request that store, delete and mint nothing.
QuietSteps(p) ==
  \/ \E j \in Jtis : RefreshCheck(p, j)
  \/ ConsumeMiss(p) \/ Mark(p) \/ Track(p) \/ LogoutClear(p)
  \/ \E u \in Users : LogoutFamilies(p, u)
  \/ \E f \in Families : FamilyRead(p, f)
  \/ RevokeMark(p) \/ RevokeForget(p)

\* Steps that only read, mark or index change nothing of the chains.
LEMMA QuietImplements ==
  ASSUME IInv, IInv', HolderIsLive, HolderIsLive', NEW p \in Procs, QuietSteps(p)
  PROVE  UNCHANGED <<Used, Holder>>
<1> USE DEF Start, Goto, At, Finish, minted, store, locals
<1>1. familyOf' = familyOf /\ refresh' = refresh
  BY DEF QuietSteps, RefreshCheck, ConsumeMiss, Mark, Track, LogoutClear,
     LogoutFamilies, FamilyRead, RevokeMark, RevokeForget
<1>2. \A q \in Procs : q # p => pc'[q] = pc[q] /\ tok'[q] = tok[q]
  BY DEF QuietSteps, RefreshCheck, ConsumeMiss, Mark, Track, LogoutClear,
     LogoutFamilies, FamilyRead, RevokeMark, RevokeForget, IInv, TypeOK
<1>3. pc[p] # "store" /\ pc'[p] # "store"
  BY DEF QuietSteps, RefreshCheck, ConsumeMiss, Mark, Track, LogoutClear,
     LogoutFamilies, FamilyRead, RevokeMark, RevokeForget, IInv, TypeOK
<1>4. Used' = Used
  BY <1>1, <1>2, <1>3, UsedUnchanged DEF IInv
<1>5. \A j \in Jtis : (Live(j)' <=> Live(j)) /\ (Live(j) => familyOf'[j] = familyOf[j])
  BY <1>1 DEF Live
<1> QED BY <1>4, <1>5, QuietStep

\* The steps of a request that delete tokens.
DeletingSteps(p) ==
  Consume(p) \/ FamilyKill(p) \/ \E j \in Jtis : RevokeDelete(p, j)

\* GETDEL, DEL and the revocation pipeline retire tokens.
LEMMA DeletingImplements ==
  ASSUME IInv, IInv', HolderIsLive, HolderIsLive', NEW p \in Procs, DeletingSteps(p)
  PROVE  \E F \in SUBSET Families : Chains!Retire(F)
<1> USE DEF DeletingSteps, Consume, FamilyKill, RevokeDelete, Start, Goto, At, minted
<1>1. familyOf' = familyOf
  OBVIOUS
<1>2. \A j \in Jtis : Live(j)' => Live(j)
  BY DEF Live, IInv, TypeOK
<1>3. \A q \in Procs : q # p => pc'[q] = pc[q] /\ tok'[q] = tok[q]
  BY DEF IInv, TypeOK
<1>4. pc[p] # "store" /\ pc'[p] # "store"
  BY DEF IInv, TypeOK
<1>5. Used' = Used
  BY <1>1, <1>3, <1>4, UsedUnchanged DEF IInv
<1> QED BY <1>1, <1>2, <1>5, RetireStep

\* Expiry retires tokens.
LEMMA TickImplements ==
  ASSUME IInv, HolderIsLive, HolderIsLive', Tick
  PROVE  \E F \in SUBSET Families : Chains!Retire(F)
<1>1. familyOf' = familyOf /\ Used' = Used
  BY DEF Tick, minted, locals, Used
<1>2. \A j \in Jtis : Live(j)' => Live(j)
  BY LessInRange DEF Tick, Live, IInv, TypeOK
<1> QED BY <1>1, <1>2, RetireStep

\* Every step of Sessions is a step of RefreshChains or a stutter.
LEMMA StepImplements ==
  IInv /\ IInv' /\ [Next]_vars => [Chains!ChainsNext]_<<Used, Holder>>
<1> SUFFICES ASSUME IInv, IInv', [Next]_vars
             PROVE  Chains!ChainsNext \/ UNCHANGED <<Used, Holder>>
  OBVIOUS
<1>1. HolderIsLive /\ HolderIsLive'
  BY HolderDetermined, HolderDeterminedNext DEF IInv
<1>2. CASE UNCHANGED vars
  BY <1>2 DEF vars, Used, Holder, LiveIn, Live
<1>3. CASE Tick
  BY <1>1, <1>3, TickImplements DEF Chains!ChainsNext
<1>4. CASE \E p \in Procs : Request(p)
  <2> PICK p \in Procs : Request(p)
    BY <1>4
  <2>1. CASE QuietSteps(p)
    BY <1>1, <2>1, QuietImplements
  <2>2. CASE DeletingSteps(p)
    BY <1>1, <2>2, DeletingImplements DEF Chains!ChainsNext
  <2>3. CASE Login(p)
    BY <1>1, <2>3, LoginMintImplements DEF Login
  <2>4. CASE \E j \in Jtis : RotateMint(p, j)
    BY <1>1, <2>4, RotateMintImplements
  <2>5. CASE Store(p)
    BY <1>1, <2>5, StoreImplements DEF Chains!ChainsNext
  <2>6. CASE Abort(p)
    BY <1>1, <2>6, AbortImplements DEF Chains!ChainsNext
  <2>7. ASSUME NEW j \in Jtis, RefreshReuse(p, j) PROVE UNCHANGED <<Used, Holder>>
    BY <2>7 DEF RefreshReuse, vars, Used, Holder, LiveIn, Live
  <2> QED BY <2>1, <2>2, <2>3, <2>4, <2>5, <2>6, <2>7
          DEF Request, Refresh, Issued, Logout, RevokeFamily, RevokeSession,
              QuietSteps, DeletingSteps
<1> QED BY <1>2, <1>3, <1>4 DEF Next

\* The token store with its racing requests implements the token chains: every
\* step issues one token to a family that has none, retires tokens, burns one
\* that was never stored, or changes nothing of the chains.
THEOREM Implements == Spec => ImplementsChains
<1>1. Chains!chainVars = <<Used, Holder>>
  BY DEF Chains!chainVars
<1>2. Init /\ [][Next]_vars /\ []IInv => Chains!ChainsInit /\ [][Chains!ChainsNext]_<<Used, Holder>>
  BY InitImplements, StepImplements, PTL
<1>3. Spec => Chains!ChainsInit /\ [][Chains!ChainsNext]_<<Used, Holder>>
  BY <1>2, Invariance, PTL DEF Spec
<1> QED BY <1>3 DEF ImplementsChains, Chains!ChainsSpec, Chains!chainVars
=============================================================================
