----------------------------- MODULE SessionsClaims -----------------------------
(***************************************************************************)
(* What the documentation says of sessions and the code does not do, with   *)
(* the history variables it takes to say it.                               *)
(***************************************************************************)
EXTENDS Sessions

VARIABLES
  reused,    \* families of which a spent token was recognised as a reuse
  targets    \* for each logout, the families that were live when it began

claims == <<reused, targets>>
cvars  == <<vars, claims>>

CInit ==
  /\ Init
  /\ reused = {}
  /\ targets = [p \in Procs |-> {}]

LiveFamilies(u) == {f \in Families : owner[f] = u /\ LiveIn(f) # {}}

CReuse(p, j) ==
  /\ RefreshReuse(p, j)
  /\ reused' = reused \cup {familyOf[j]}
  /\ UNCHANGED targets

CLogoutFamilies(p, u) ==
  /\ LogoutFamilies(p, u)
  /\ targets' = [targets EXCEPT ![p] = LiveFamilies(u)]
  /\ UNCHANGED reused

CNext ==
  \/ Next /\ ~(\E p \in Procs, u \in Users : LogoutFamilies(p, u)) /\ UNCHANGED claims
  \/ \E p \in Procs, j \in Jtis : CReuse(p, j)
  \/ \E p \in Procs, u \in Users : CLogoutFamilies(p, u)

CSpec == CInit /\ [][CNext]_cvars

\* README.md:274: when a client presents an already consumed refresh token,
\* the server kills every token in the family.  (refresh_access_token logs
\* the reuse and refuses the request; the family stays usable.)
ReuseKillsFamily ==
  \A j \in Jtis : familyOf[j] \in reused => ~Live(j)

\* README.md:270: logout kills every refresh family the user currently has
\* tracked in Redis, so once it has answered no token of a family that was
\* live when it began is usable.
LogoutKillsFamilies ==
  [][\A p \in Procs : LogoutClear(p) =>
       \A j \in Jtis : familyOf[j] \in targets[p] => refresh'[j] = 0]_cvars
=============================================================================
