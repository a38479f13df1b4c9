----------------------------- MODULE AccountsProofs -----------------------------
(***************************************************************************)
(* Proofs about Accounts, for any users, requests, permissions and mixes.   *)
(***************************************************************************)
EXTENDS Accounts, TLAPS

\* What Assign records of a row is well typed.
LEMMA AssignedOK ==
  ASSUME NEW old \in Rows, NEW new \in Rows
  PROVE  /\ ChangeOK([c \in Changed(old, new) |-> new[c]])
         /\ DOMAIN [c \in Changed(old, new) |-> new[c]] = Changed(old, new)
  BY DEF Rows, ChangeOK, Changed, Columns

\* An update of well-typed columns keeps a row well typed.
LEMMA UpdatedOK ==
  ASSUME NEW row \in Rows, NEW c, ChangeOK(c)
  PROVE  /\ Updated(row, c) \in Rows
         /\ \A k \in Columns : Updated(row, c)[k] = IF k \in DOMAIN c THEN c[k] ELSE row[k]
  BY DEF Rows, ChangeOK, Updated, Columns

\* IInv holds initially.
LEMMA InitInvariant == Init => IInv
<1> SUFFICES ASSUME Init PROVE IInv
  OBVIOUS
<1> USE DEF Init
<1>1. TypeOK
  BY DEF TypeOK, Rows, Requests, Idle, Untouched, ChangeOK
<1>2. DeletedIffInactive
  BY DEF DeletedIffInactive
<1>3. ChangesAgree /\ IdleChangesNothing
  BY DEF ChangesAgree, IdleChangesNothing, Dirty, Untouched
<1>4. AdminsKeepThemselves
  BY DEF AdminsKeepThemselves, Active, Idle
<1>5. UndeletedByRestore
  BY DEF UndeletedByRestore, Untouched
<1>6. QED
  BY <1>1, <1>2, <1>3, <1>4, <1>5 DEF IInv

---------------------------------------------------------------------------
(* The steps of a request's transaction.                                   *)

\* Ending a request, whatever becomes of the rows, keeps what IInv says of
\* requests and changes.
LEMMA FinishPreserves ==
  ASSUME IInv, NEW p \in Procs, Finish(p), mix' = mix,
         db' \in [Users -> Rows], slts' \subseteq Users, DeletedIffInactive'
  PROVE  IInv'
<1> USE DEF IInv, Finish
<1>1. req' \in [Procs -> Requests]
  BY DEF TypeOK, Requests, Idle
<1>2. /\ change' = [change EXCEPT ![p] = Untouched]
      /\ change'[p] = Untouched
      /\ \A q \in Procs : q # p => change'[q] = change[q]
  BY DEF TypeOK
<1>3. /\ req'[p] = Idle
      /\ \A q \in Procs : q # p => req'[q] = req[q]
  BY DEF TypeOK
<1>4. TypeOK'
  <2>1. \A u \in Users : ChangeOK(Untouched[u])
    BY DEF ChangeOK, Untouched
  <2>2. DOMAIN change' = Procs
    BY DEF TypeOK
  <2>3. \A q \in Procs : DOMAIN change'[q] = Users
    BY <1>2 DEF TypeOK, Untouched
  <2>4. \A q \in Procs, u \in Users : ChangeOK(change'[q][u])
    BY <1>2, <2>1 DEF TypeOK
  <2>5. QED
    BY <1>1, <2>2, <2>3, <2>4 DEF TypeOK, ChangeOK
<1>5. ChangesAgree'
  BY <1>2 DEF ChangesAgree, Untouched
<1>6. IdleChangesNothing'
  BY <1>2, <1>3 DEF IdleChangesNothing, Active, Dirty, Untouched
<1>7. AdminsKeepThemselves'
  BY <1>2, <1>3 DEF AdminsKeepThemselves, Active, IsAdmin, Idle
<1>8. UndeletedByRestore'
  BY <1>2, <1>3 DEF UndeletedByRestore, Untouched
<1>9. QED
  BY <1>4, <1>5, <1>6, <1>7, <1>8

\* A step that moves one request on and changes no row and no pending change.
LEMMA MovePreserves ==
  ASSUME IInv, NEW p \in Procs, NEW r \in Requests,
         r.step # "idle", r.actor \in Users,
         Active(p) => r.actor = req[p].actor /\ r.role = req[p].role /\ r.op = req[p].op,
         req' = [req EXCEPT ![p] = r], UNCHANGED <<mix, db, slts, change>>
  PROVE  IInv'
<1> USE DEF IInv
<1>1. /\ req'[p] = r
      /\ \A q \in Procs : q # p => req'[q] = req[q]
  BY DEF TypeOK
<1>2. TypeOK'
  BY DEF TypeOK, ChangeOK
<1>3. DeletedIffInactive' /\ ChangesAgree'
  BY DEF DeletedIffInactive, ChangesAgree
<1>4. IdleChangesNothing'
  BY <1>1 DEF IdleChangesNothing, Active, Dirty
<1>5. AdminsKeepThemselves'
  BY <1>1 DEF AdminsKeepThemselves, IdleChangesNothing, Active, Dirty, IsAdmin
<1>6. UndeletedByRestore'
  BY <1>1 DEF UndeletedByRestore, IdleChangesNothing, Dirty
<1>7. QED
  BY <1>2, <1>3, <1>4, <1>5, <1>6

\* An accepted operation that leaves deletion and activity agreeing, and takes
\* nothing from an administrator's own row, keeps the invariant.
LEMMA AssignPreserves ==
  ASSUME IInv, NEW p \in Procs, NEW u \in Users, NEW row \in Rows,
         Active(p), Assign(p, u, row),
         row.deleted <=> ~row.active,
         db[u].deleted /\ ~row.deleted => req[p].op = "restore",
         IsAdmin(p) /\ IsSelf(p, u) =>
           /\ row.role = db[u].role
           /\ row.active \/ row.active = db[u].active
           /\ ~row.disabled \/ row.disabled = db[u].disabled
           /\ ~row.deleted \/ row.deleted = db[u].deleted
  PROVE  IInv'
<1> DEFINE c == [k \in Changed(db[u], row) |-> row[k]]
<1> USE DEF IInv
<1>1. db[u] \in Rows
  BY DEF TypeOK
<1>2. ChangeOK(c) /\ DOMAIN c = Changed(db[u], row)
  BY <1>1, AssignedOK
<1>3. \A k \in DOMAIN c : c[k] = row[k] /\ row[k] # db[u][k]
  BY <1>2 DEF Changed
<1>4. /\ DOMAIN change' = Procs
      /\ \A q \in Procs : DOMAIN change'[q] = Users
      /\ change'[p][u] = c
      /\ \A q \in Procs, v \in Users : q # p \/ v # u => change'[q][v] = change[q][v]
  BY DEF Assign, TypeOK
<1>5. /\ req' \in [Procs -> Requests]
      /\ req'[p].step = "flush" /\ req'[p].actor = req[p].actor
      /\ req'[p].role = req[p].role /\ req'[p].op = req[p].op
      /\ \A q \in Procs : q # p => req'[q] = req[q]
  <2> DEFINE r == [req[p] EXCEPT !.step = "flush", !.perms = {}, !.slt = FALSE,
                                 !.todo = req[p].todo \ {u}, !.target = u]
  <2>1. req[p] \in Requests /\ req \in [Procs -> Requests]
    BY DEF TypeOK
  <2>2. /\ r \in Requests /\ r.step = "flush" /\ r.actor = req[p].actor
        /\ r.role = req[p].role /\ r.op = req[p].op
    BY <2>1 DEF Requests
  <2>3. req' = [req EXCEPT ![p] = r]
    BY DEF Assign
  <2> HIDE DEF r
  <2>4. QED
    BY <2>1, <2>2, <2>3
<1>6. UNCHANGED <<mix, db, slts>>
  BY DEF Assign
<1> HIDE DEF c
<1>7. TypeOK'
  BY <1>2, <1>4, <1>5, <1>6 DEF TypeOK, ChangeOK
<1>8. DeletedIffInactive'
  BY <1>6 DEF DeletedIffInactive
<1>9. ChangesAgree'
  <2>1. db[u].deleted <=> ~db[u].active
    BY DEF DeletedIffInactive
  <2>2. /\ row.deleted \in BOOLEAN /\ row.active \in BOOLEAN
        /\ db[u].deleted \in BOOLEAN /\ db[u].active \in BOOLEAN
    BY <1>1 DEF Rows
  <2>3. "deleted" \in DOMAIN c <=> "active" \in DOMAIN c
    BY <1>2, <2>1, <2>2 DEF Changed, Columns
  <2>4. "deleted" \in DOMAIN c => (c.deleted <=> ~c.active)
    BY <1>3, <2>3
  <2>5. QED
    BY <1>4, <2>3, <2>4 DEF ChangesAgree
<1>10. IdleChangesNothing'
  BY <1>4, <1>5 DEF IdleChangesNothing, Active, Dirty
<1>11. AdminsKeepThemselves'
  <2> SUFFICES ASSUME NEW q \in Procs, Active(q)'
               PROVE  /\ req'[q].actor \in Users
                      /\ IsAdmin(q)' =>
                           LET d == change'[q][req'[q].actor] IN
                           /\ "role" \notin DOMAIN d
                           /\ "active" \in DOMAIN d => d.active
                           /\ "disabled" \in DOMAIN d => ~d.disabled
                           /\ "deleted" \in DOMAIN d => ~d.deleted
    BY DEF AdminsKeepThemselves
  <2>1. req'[q].actor = req[q].actor /\ req'[q].role = req[q].role /\ Active(q)
    BY <1>5 DEF Active
  <2>2. CASE q = p /\ req[q].actor = u
    <3>1. IsAdmin(q)' => IsAdmin(p) /\ IsSelf(p, u)
      BY <2>1, <2>2 DEF IsAdmin, IsSelf
    <3>2. QED
      BY <1>3, <1>4, <2>1, <2>2, <3>1
  <2>3. CASE ~(q = p /\ req[q].actor = u)
    BY <1>4, <2>1, <2>3 DEF AdminsKeepThemselves, IsAdmin
  <2>4. QED
    BY <2>2, <2>3
<1>12. UndeletedByRestore'
  <2>1. "deleted" \in DOMAIN c /\ ~c.deleted => db[u].deleted /\ ~row.deleted
    BY <1>1, <1>3 DEF Rows
  <2>2. QED
    BY <1>4, <1>5, <2>1 DEF UndeletedByRestore
<1>13. QED
  BY <1>7, <1>8, <1>9, <1>10, <1>11, <1>12

\* The row that a COMMIT writes keeps its type and the agreement of deletion
\* and activity.
LEMMA UpdatedAgrees ==
  ASSUME NEW row \in Rows, NEW c, ChangeOK(c),
         row.deleted <=> ~row.active,
         "deleted" \in DOMAIN c <=> "active" \in DOMAIN c,
         "deleted" \in DOMAIN c => (c.deleted <=> ~c.active)
  PROVE  Updated(row, c).deleted <=> ~Updated(row, c).active
  BY UpdatedOK DEF Columns

---------------------------------------------------------------------------
(* The actions.                                                            *)

\* Starting a request: its process has nothing pending.
LEMMA StartPreserves ==
  ASSUME IInv, NEW p \in Procs, Start(p)
  PROVE  IInv'
<1>1. PICK a \in Users, o \in mix, slt \in BOOLEAN :
        \E U \in Targets(o) : Begin(p, a, o, U, slt)
  BY DEF Start
<1>2. PICK U \in Targets(o) : Begin(p, a, o, U, slt)
  BY <1>1
<1> DEFINE r == [op |-> o, step |-> "load", actor |-> a, role |-> db[a].role,
                 perms |-> db[a].permissions, slt |-> slt, todo |-> U, target |-> Nobody]
<1>3. U \in SUBSET Users
  BY DEF Targets
<1>4. o \in DOMAIN RouteKeys
  BY AccountsAssumption DEF IInv, TypeOK
<1>5. r \in Requests
  BY <1>3, <1>4 DEF IInv, TypeOK, Rows, Requests
<1>6. ~Active(p) /\ req' = [req EXCEPT ![p] = r] /\ UNCHANGED <<mix, db, slts, change>>
  BY <1>2 DEF Begin, Active
<1>7. QED
  BY <1>5, <1>6, MovePreserves

\* Flushing changes nothing but the step the request stands at.
LEMMA FlushPreserves ==
  ASSUME IInv, NEW p \in Procs, Flush(p)
  PROVE  IInv'
<1> DEFINE r == [req[p] EXCEPT !.step = IF req[p].todo = {} THEN "commit" ELSE "load",
                               !.target = Nobody]
<1>1. Active(p)
  BY DEF Flush, Active
<1>2. /\ r \in Requests /\ r.step # "idle" /\ r.actor = req[p].actor
      /\ r.role = req[p].role /\ r.op = req[p].op
  <2>1. req[p] \in Requests
    BY DEF IInv, TypeOK
  <2>2. QED
    BY <2>1 DEF Requests
<1>3. r.actor \in Users
  BY <1>1, <1>2 DEF IInv, AdminsKeepThemselves
<1>4. req' = [req EXCEPT ![p] = r] /\ UNCHANGED <<mix, db, slts, change>>
  BY DEF Flush
<1>5. QED
  BY <1>2, <1>3, <1>4, MovePreserves

\* A COMMIT writes both columns of each row or neither.
LEMMA CommitPreserves ==
  ASSUME IInv, NEW p \in Procs, Commit(p)
  PROVE  IInv'
<1>1. db' = [u \in Users |-> Updated(db[u], change[p][u])]
  BY DEF Commit
<1>2. \A u \in Users : db[u] \in Rows /\ ChangeOK(change[p][u])
  BY DEF IInv, TypeOK
<1>3. db' \in [Users -> Rows]
  BY <1>1, <1>2, UpdatedOK
<1>4. DeletedIffInactive'
  BY <1>1, <1>2, UpdatedAgrees DEF IInv, DeletedIffInactive, ChangesAgree
<1>5. slts' \subseteq Users
  BY DEF Commit, IInv, TypeOK
<1>6. QED
  BY <1>3, <1>4, <1>5, FinishPreserves DEF Commit

\* An aborted transaction leaves no trace.
LEMMA AbortPreserves ==
  ASSUME IInv, NEW p \in Procs, Abort(p)
  PROVE  IInv'
<1>1. DeletedIffInactive' /\ db' \in [Users -> Rows] /\ slts' \subseteq Users
  BY DEF Abort, IInv, TypeOK, DeletedIffInactive
<1>2. QED
  BY <1>1, FinishPreserves DEF Abort

\* Neither does a temporary token change a row.
LEMMA TokenPreserves ==
  ASSUME IInv, NEW u \in Users,
         (\E p \in Procs : MakeTempToken(p, u)) \/ ExpireTempToken(u)
  PROVE  IInv'
<1>1. DeletedIffInactive' /\ db' \in [Users -> Rows] /\ slts' \subseteq Users
  BY DEF MakeTempToken, ExpireTempToken, IInv, TypeOK, DeletedIffInactive
<1>2. CASE \E p \in Procs : MakeTempToken(p, u)
  BY <1>1, <1>2, FinishPreserves DEF MakeTempToken
<1>3. CASE ExpireTempToken(u)
  <2>1. TypeOK'
    BY <1>1, <1>3 DEF IInv, ExpireTempToken, TypeOK, ChangeOK
  <2>2. ChangesAgree' /\ IdleChangesNothing' /\ AdminsKeepThemselves' /\ UndeletedByRestore'
    BY <1>3 DEF IInv, ExpireTempToken, ChangesAgree, IdleChangesNothing,
                AdminsKeepThemselves, UndeletedByRestore, Active, Dirty, IsAdmin
  <2>3. QED
    BY <1>1, <2>1, <2>2 DEF IInv
<1>4. QED
  BY <1>2, <1>3

\* The operations: each leaves deletion and activity agreeing, and spares the
\* own row of an administrator.
LEMMA LoadPreserves ==
  ASSUME IInv, NEW p \in Procs, Load(p)
  PROVE  IInv'
<1>1. PICK u \in Users :
        \/ UpdateAccount(p, u) \/ DisableAccount(p, u) \/ EnableAccount(p, u)
        \/ DeleteAccount(p, u) \/ RestoreAccount(p, u) \/ MakeTempToken(p, u)
        \/ SetPermissions(p, u) \/ ReplaceAllPermissions(p, u) \/ RemovePermissions(p, u)
  BY DEF Load
<1>2. /\ db[u] \in Rows
      /\ db[u].deleted <=> ~db[u].active
  BY DEF IInv, TypeOK, DeletedIffInactive
<1>3. ASSUME NEW o, Loading(p, u, o) PROVE Active(p)
  BY <1>3 DEF Loading, Active
<1>4. CASE UpdateAccount(p, u)
  <2>1. PICK fields \in SUBSET {"role", "disabled"}, r \in {"admin", "user"}, d \in BOOLEAN :
          /\ Loading(p, u, "update")
          /\ \/ IsAdmin(p) /\ (IsSelf(p, u) => fields = {})
             \/ ~IsAdmin(p) /\ Has(p, {"admin.settings.update", Promote})
             \/ IsSelf(p, u) /\ Has(p, {"user.update.self", "user.update.profile"}) /\ fields = {}
          /\ Assign(p, u, [db[u] EXCEPT !.role = IF "role" \in fields THEN r ELSE @,
                                        !.disabled = IF "disabled" \in fields THEN d ELSE @])
    BY <1>4 DEF UpdateAccount
  <2> DEFINE row == [db[u] EXCEPT !.role = IF "role" \in fields THEN r ELSE @,
                                  !.disabled = IF "disabled" \in fields THEN d ELSE @]
  <2>2. row \in Rows /\ row.active = db[u].active /\ row.deleted = db[u].deleted
    BY <1>2 DEF Rows
  <2>3. IsAdmin(p) /\ IsSelf(p, u) => fields = {}
    BY <2>1
  <2>4. fields = {} => row.role = db[u].role /\ row.disabled = db[u].disabled
    BY <1>2 DEF Rows
  <2>5. Active(p) /\ Assign(p, u, row)
    BY <1>3, <2>1
  <2> HIDE DEF row
  <2>6. QED
    BY <1>2, <2>2, <2>3, <2>4, <2>5, AssignPreserves
<1>5. CASE DisableAccount(p, u)
  <2> DEFINE row == [db[u] EXCEPT !.disabled = TRUE]
  <2>1. /\ row \in Rows /\ row.active = db[u].active /\ row.deleted = db[u].deleted
    BY <1>2 DEF Rows
  <2>2. Active(p) /\ Assign(p, u, row) /\ ~(IsAdmin(p) /\ IsSelf(p, u))
    BY <1>3, <1>5 DEF DisableAccount
  <2> HIDE DEF row
  <2>3. QED
    BY <1>2, <2>1, <2>2, AssignPreserves
<1>6. CASE EnableAccount(p, u) \/ RestoreAccount(p, u)
  <2>1. /\ Restored(db[u]) \in Rows /\ Restored(db[u]).role = db[u].role
        /\ Restored(db[u]).active /\ ~Restored(db[u]).disabled /\ ~Restored(db[u]).deleted
    BY <1>2 DEF Rows, Restored
  <2>2. /\ Active(p) /\ Assign(p, u, Restored(db[u]))
        /\ db[u].deleted => req[p].op = "restore"
    BY <1>3, <1>6 DEF EnableAccount, RestoreAccount, Loading
  <2>3. QED
    BY <2>1, <2>2, AssignPreserves
<1>7. CASE DeleteAccount(p, u)
  <2> DEFINE row == [db[u] EXCEPT !.active = FALSE, !.disabled = TRUE, !.deleted = TRUE]
  <2>1. row \in Rows /\ ~row.active /\ row.deleted
    BY <1>2 DEF Rows
  <2>2. Active(p) /\ Assign(p, u, row) /\ ~(IsAdmin(p) /\ IsSelf(p, u))
    BY <1>3, <1>7 DEF DeleteAccount
  <2> HIDE DEF row
  <2>3. QED
    BY <2>1, <2>2, AssignPreserves
<1>8. CASE MakeTempToken(p, u)
  BY <1>8, TokenPreserves
<1>9. CASE SetPermissions(p, u) \/ ReplaceAllPermissions(p, u) \/ RemovePermissions(p, u)
  <2>1. PICK keys \in SUBSET Perms : Assign(p, u, [db[u] EXCEPT !.permissions = keys])
    <3>1. db[u].permissions \in SUBSET Perms
      BY <1>2 DEF Rows
    <3>2. CASE SetPermissions(p, u)
      BY <3>1, <3>2 DEF SetPermissions
    <3>3. CASE ReplaceAllPermissions(p, u)
      BY <3>3 DEF ReplaceAllPermissions
    <3>4. CASE RemovePermissions(p, u)
      BY <3>1, <3>4 DEF RemovePermissions
    <3>5. QED
      BY <1>9, <3>2, <3>3, <3>4
  <2>2. Active(p)
    BY <1>3, <1>9 DEF SetPermissions, ReplaceAllPermissions, RemovePermissions
  <2> DEFINE row == [db[u] EXCEPT !.permissions = keys]
  <2>3. /\ row \in Rows /\ row.role = db[u].role /\ row.active = db[u].active
        /\ row.disabled = db[u].disabled /\ row.deleted = db[u].deleted
    BY <1>2 DEF Rows
  <2>4. Assign(p, u, row)
    BY <2>1
  <2> HIDE DEF row
  <2>5. QED
    BY <1>2, <2>2, <2>3, <2>4, AssignPreserves
<1>10. QED
  BY <1>1, <1>4, <1>5, <1>6, <1>7, <1>8, <1>9

\* Every step keeps the invariant.
LEMMA NextPreserves == IInv /\ [Next]_vars => IInv'
<1> SUFFICES ASSUME IInv, [Next]_vars PROVE IInv'
  OBVIOUS
<1>1. CASE \E p \in Procs : Start(p) \/ Load(p) \/ Flush(p) \/ Commit(p) \/ Abort(p)
  BY <1>1, StartPreserves, LoadPreserves, FlushPreserves, CommitPreserves, AbortPreserves
<1>2. CASE \E u \in Users : ExpireTempToken(u)
  BY <1>2, TokenPreserves
<1>3. CASE UNCHANGED vars
  BY <1>3 DEF vars, IInv, TypeOK, ChangeOK, DeletedIffInactive, ChangesAgree,
              IdleChangesNothing, AdminsKeepThemselves, UndeletedByRestore,
              Active, Dirty, IsAdmin
<1>4. QED
  BY <1>1, <1>2, <1>3 DEF Next

\* The committed rows change by a COMMIT only.
LEMMA OnlyCommitsWrite ==
  ASSUME Next, db' # db
  PROVE  \E p \in Procs : Commit(p)
<1>1. PICK q \in Procs : Start(q) \/ Load(q) \/ Flush(q) \/ Commit(q) \/ Abort(q)
  BY DEF Next, ExpireTempToken
<1>2. ~(Start(q) \/ Flush(q) \/ Abort(q))
  BY DEF Start, Begin, Flush, Abort
<1>3. ~Load(q)
  <2>1. ASSUME NEW u \in Users, NEW row, Assign(q, u, row) PROVE FALSE
    BY <2>1 DEF Assign
  <2>2. ASSUME NEW u \in Users, MakeTempToken(q, u) PROVE FALSE
    BY <2>2 DEF MakeTempToken
  <2>3. ASSUME NEW u \in Users,
               \/ UpdateAccount(q, u) \/ DisableAccount(q, u) \/ EnableAccount(q, u)
               \/ DeleteAccount(q, u) \/ RestoreAccount(q, u)
        PROVE  FALSE
    BY <2>1, <2>3 DEF UpdateAccount, DisableAccount, EnableAccount, DeleteAccount,
                      RestoreAccount
  <2>4. ASSUME NEW u \in Users,
               \/ SetPermissions(q, u) \/ ReplaceAllPermissions(q, u)
               \/ RemovePermissions(q, u)
        PROVE  FALSE
    BY <2>1, <2>4 DEF SetPermissions, ReplaceAllPermissions, RemovePermissions
  <2>5. QED
    BY <2>2, <2>3, <2>4 DEF Load
<1>4. QED
  BY <1>1, <1>2, <1>3

---------------------------------------------------------------------------
(* The theorems.                                                           *)

\* The inductive invariant holds in every state: rows and pending changes are
\* well typed, a pending change of deletion is one of activity, and an
\* administrator's request spares its own row.
THEOREM Invariance == Spec => []IInv
  BY InitInvariant, NextPreserves, PTL DEF Spec

\* Types, for any number of users, requests and permissions.
THEOREM TypeCorrect == Spec => []TypeOK
<1>1. IInv => TypeOK
  BY DEF IInv
<1>2. QED
  BY <1>1, Invariance, PTL

\* Deletion and activity agree in every row, however transactions overlap.
THEOREM DeletedTogether == Spec => []DeletedIffInactive
<1>1. IInv => DeletedIffInactive
  BY DEF IInv
<1>2. QED
  BY <1>1, Invariance, PTL

\* A deletion is undone by a restore only, however transactions overlap: an
\* enable that read the account before it was deleted does not write the column
\* (full_restore assigns it, but an UPDATE has the changed columns alone).
THEOREM DeletionStands == Spec => DeletedUntilRestored
<1> DEFINE Undeleted(u) == db[u].deleted /\ ~db'[u].deleted
           ByRestore == \E p \in Procs : Commit(p) /\ req[p].op = "restore"
<1>1. IInv /\ [Next]_vars => [\A u \in Users : Undeleted(u) => ByRestore]_vars
  <2> SUFFICES ASSUME IInv, Next, NEW u \in Users, Undeleted(u) PROVE ByRestore
    OBVIOUS
  <2>1. PICK p \in Procs : Commit(p)
    BY OnlyCommitsWrite
  <2>2. db[u] \in Rows /\ ChangeOK(change[p][u])
    BY DEF IInv, TypeOK
  <2>3. db'[u] = Updated(db[u], change[p][u])
    BY <2>1 DEF Commit
  <2>4. "deleted" \in DOMAIN change[p][u] /\ ~change[p][u].deleted
    BY <2>2, <2>3, UpdatedOK DEF Columns
  <2>5. QED
    BY <2>1, <2>4 DEF IInv, UndeletedByRestore
<1>2. QED
  BY <1>1, Invariance, PTL DEF Spec, DeletedUntilRestored

\* No administrator's commit takes away the last usable administrator account
\* while the own account is still good.
THEOREM LastAdminLost == Spec => LastAdminLostByRace
<1> DEFINE Lost == (\E u \in Users : ActiveAdmin(u)) /\ ~(\E u \in Users : ActiveAdmin(u))'
           ByRace == \E p \in Procs :
                       /\ Commit(p)
                       /\ req[p].role = "admin" => ~ActiveAdmin(req[p].actor)
<1>1. IInv /\ [Next]_vars => [Lost => ByRace]_vars
  <2> SUFFICES ASSUME IInv, Next, Lost PROVE ByRace
    OBVIOUS
  <2>1. PICK p \in Procs : Commit(p)
    BY OnlyCommitsWrite DEF ActiveAdmin, MayAuthenticate
  <2>2. ASSUME req[p].role = "admin", ActiveAdmin(req[p].actor) PROVE FALSE
    <3>1. Active(p) /\ IsAdmin(p)
      BY <2>1, <2>2 DEF Commit, Active, IsAdmin
    <3>2. PICK a \in Users :
            /\ ActiveAdmin(a)
            /\ "role" \notin DOMAIN change[p][a]
            /\ "active" \in DOMAIN change[p][a] => change[p][a].active
            /\ "disabled" \in DOMAIN change[p][a] => ~change[p][a].disabled
            /\ "deleted" \in DOMAIN change[p][a] => ~change[p][a].deleted
      BY <2>2, <3>1 DEF IInv, AdminsKeepThemselves
    <3>3. db[a] \in Rows /\ ChangeOK(change[p][a])
      BY <3>2 DEF IInv, TypeOK
    <3>4. db'[a] = Updated(db[a], change[p][a])
      BY <2>1, <3>2 DEF Commit
    <3>5. ActiveAdmin(a)'
      BY <3>2, <3>3, <3>4, UpdatedOK DEF ActiveAdmin, MayAuthenticate, Columns
    <3>6. QED
      BY <3>5
  <2>3. QED
    BY <2>1, <2>2
<1>2. QED
  BY <1>1, Invariance, PTL DEF Spec, LastAdminLostByRace
=============================================================================
