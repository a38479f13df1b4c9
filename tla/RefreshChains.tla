------------------------------ MODULE RefreshChains ------------------------------
(***************************************************************************)
(* What refresh-token rotation promises, without Redis, requests or time.  *)
(*                                                                         *)
(* A family is the chain of refresh tokens that descends from one login.   *)
(* At any moment at most one token of the chain is usable; a token becomes *)
(* usable at most once; a token that stopped being usable stays unusable.  *)
(* Module Sessions implements this specification (Sessions!Chains).        *)
(***************************************************************************)

CONSTANTS
  Families,   \* ids of refresh-token families
  Jtis,       \* ids of refresh tokens
  Nobody      \* not a token id: the holder of a family that has no usable token

VARIABLES
  used,       \* token ids that are usable now or can never be usable again
  holder      \* for each family, its usable token

chainVars == <<used, holder>>

ChainsInit ==
  /\ used = {}
  /\ holder = [f \in Families |-> Nobody]

\* The family's next token becomes usable: only while the family has none.
Issue(f, j) ==
  /\ holder[f] = Nobody
  /\ j \notin used
  /\ used' = used \cup {j}
  /\ holder' = [holder EXCEPT ![f] = j]

\* Tokens stop being usable: spent by a rotation, revoked, or expired.
Retire(F) ==
  /\ holder' = [f \in Families |-> IF f \in F THEN Nobody ELSE holder[f]]
  /\ UNCHANGED used

\* A token was minted and the request that minted it failed before storing it.
Burn(j) ==
  /\ j \notin used
  /\ used' = used \cup {j}
  /\ UNCHANGED holder

ChainsNext ==
  \/ \E f \in Families, j \in Jtis : Issue(f, j)
  \/ \E F \in SUBSET Families : Retire(F)
  \/ \E j \in Jtis : Burn(j)

ChainsSpec == ChainsInit /\ [][ChainsNext]_chainVars
=============================================================================
