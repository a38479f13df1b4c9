---------------------------- MODULE SessionsInvariant ----------------------------
(***************************************************************************)
(* The inductive invariant behind the safety theorems of SessionsProofs.    *)
(*                                                                         *)
(* A request carries a family from the moment it took the family's usable   *)
(* token out of Redis (or minted the family) until it stores the successor. *)
(* A family is either carried by one request, or has at most one live token.*)
(***************************************************************************)
EXTENDS Sessions

Carries(p) == pc[p] \in {"mark", "mint", "store"}

CarrierExcludesLive ==
  \A p \in Procs : Carries(p) =>
    /\ fam[p] \in Families
    /\ owner[fam[p]] # None
    /\ \A j \in Jtis : Live(j) => familyOf[j] # fam[p]

CarriersDiffer ==
  \A p, q \in Procs : Carries(p) /\ Carries(q) /\ fam[p] = fam[q] => p = q

\* Nothing in Redis or at a client knows the token.
New(j) ==
  /\ refresh[j] = 0
  /\ revoked[j] = 0
  /\ j \notin held
  /\ \A f \in Families : j \notin members[f]
  /\ \A p \in Procs : j \notin snap[p]

UnmintedIsNew ==
  \A j \in Jtis : familyOf[j] = None => New(j) /\ \A p \in Procs : tok[p] # j

MintedHasOwner ==
  \A j \in Jtis : familyOf[j] # None => owner[familyOf[j]] # None

PendingIsNew ==
  \A p \in Procs : pc[p] = "store" =>
    tok[p] \in Jtis /\ familyOf[tok[p]] = fam[p] /\ New(tok[p])

PendingDiffer ==
  \A p, q \in Procs :
    pc[p] = "store" /\ pc[q] \in {"store", "track"} /\ tok[p] = tok[q] => p = q

\* A request looks for, or has deleted, a token that a client presented.
SpentIsHeld ==
  \A p \in Procs :
    /\ pc[p] \in {"consume", "mark", "deny"} => tok[p] \in held
    /\ pc[p] \in {"mark", "deny"} => ~Live(tok[p])

\* The variables that each step of a coroutine reads have been assigned.
LocalsAssigned ==
  \A p \in Procs :
    /\ pc[p] \in {"store", "track", "mark", "mint", "deny"} =>
         usr[p] \in Users /\ fam[p] \in Families
    /\ pc[p] = "track" => tok[p] \in Jtis
    /\ pc[p] = "kill" => fam[p] \in Families
    /\ pc[p] \in {"families", "kill"} => usr[p] \in Users /\ op[p] \in {"logout", "revoke_session"}
    /\ pc[p] \in {"families", "kill"} /\ op[p] = "revoke_session" => fam[p] \in Families

IInv ==
  /\ TypeOK
  /\ OneLivePerFamily
  /\ LiveNotRevoked
  /\ CarrierExcludesLive
  /\ CarriersDiffer
  /\ UnmintedIsNew
  /\ MintedHasOwner
  /\ PendingIsNew
  /\ PendingDiffer
  /\ SpentIsHeld
  /\ LocalsAssigned
=============================================================================
