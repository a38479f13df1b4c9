-------------------------------- MODULE Accounts --------------------------------
(***************************************************************************)
(* User accounts: the administrator routes of App/api/v1/Admin.py, the      *)
(* AdminService behind them and the UserRepository that writes the rows.    *)
(*                                                                         *)
(* A request is one READ COMMITTED transaction.  It reads the actor's row   *)
(* (authentication), later the row of its target, decides on what it read,  *)
(* flushes an UPDATE of the columns whose value it changed, which locks the *)
(* row, and commits when the handler has returned.  The second SELECT of    *)
(* the repository returns the object the session already holds, so a        *)
(* request sees each target as it was when it first read it.                *)
(*                                                                         *)
(* Passwords, names and e-mail addresses are left out, and so is what a     *)
(* handler refuses because of them: any request may end by Abort.          *)
(***************************************************************************)
CONSTANTS
  Users,   \* ids of the rows of table users
  Procs,   \* requests in progress, over all workers
  Perms,   \* permission keys that may be granted
  Mixes,   \* bound of the model: sets of operations that meet in a behaviour
  Nobody   \* no user

Promote == "admin.users.promote"

\* require_permission: one of these keys opens the route (mode "any", and no
\* bypass for administrators except for temp_token).
RouteKeys ==
  [update |-> {"admin.settings.update", Promote, "user.update.self", "user.update.profile"},
   disable |-> {"admin.users.disable", Promote, "admin.users.restore",
                "admin.settings.update", "user.disable.self"},
   enable |-> {"user.self.enable", "admin.user.enable", Promote},
   delete |-> {"user.delete.self", "admin.users.delete", Promote},
   restore |-> {"admin.users.restore", Promote},
   temp_token |-> {Promote, "admin.users.restore", "admin.users.disable"},
   set_permissions |-> {Promote},
   set_permissions_bulk |-> {Promote},
   remove_permissions |-> {Promote}]

ASSUME AccountsAssumption ==
  /\ Nobody \notin Users
  /\ Mixes \subseteq SUBSET DOMAIN RouteKeys

\* "permissions" is the set of keys whose value is true; every reader treats a
\* missing key as false.
Rows == [role : {"admin", "user"}, active : BOOLEAN, disabled : BOOLEAN,
         deleted : BOOLEAN, permissions : SUBSET Perms]

Columns == {"role", "active", "disabled", "deleted", "permissions"}

VARIABLES
  mix,      \* the operations that are called in this behaviour
  db,       \* the committed rows
  slts,     \* users for whom an account_restoration token is valid
  req,      \* what each process is doing
  change    \* for each request and row, the new values of the changed columns

vars == <<mix, db, slts, req, change>>

\* op         the operation, step the await it stands at
\* actor      the authenticated user; role and perms as read at that time
\* slt        it came with a short-lived token
\* todo       the users it has still to load, target the one it is changing
Requests ==
  [op : DOMAIN RouteKeys \cup {"none"}, step : {"idle", "load", "flush", "commit"},
   actor : Users \cup {Nobody}, role : {"admin", "user"}, perms : SUBSET Perms,
   slt : BOOLEAN, todo : SUBSET Users, target : Users \cup {Nobody}]

Idle == [op |-> "none", step |-> "idle", actor |-> Nobody, role |-> "user",
         perms |-> {}, slt |-> FALSE, todo |-> {}, target |-> Nobody]

Untouched == [u \in Users |-> [k \in {} |-> {}]]

\* Some of the columns, and values for them.
ChangeOK(c) ==
  /\ DOMAIN c \subseteq Columns
  /\ "role" \in DOMAIN c => c.role \in {"admin", "user"}
  /\ "permissions" \in DOMAIN c => c.permissions \in SUBSET Perms
  /\ \A k \in DOMAIN c \cap {"active", "disabled", "deleted"} : c[k] \in BOOLEAN

TypeOK ==
  /\ mix \in Mixes
  /\ db \in [Users -> Rows]
  /\ slts \subseteq Users
  /\ req \in [Procs -> Requests]
  /\ DOMAIN change = Procs
  /\ \A p \in Procs : DOMAIN change[p] = Users
  /\ \A p \in Procs, u \in Users : ChangeOK(change[p][u])

\* The accounts exist and are good; some of them are administrators'.
Init ==
  /\ mix \in Mixes
  /\ db \in [Users -> {r \in Rows : r.active /\ ~r.disabled /\ ~r.deleted}]
  /\ \E u \in Users : db[u].role = "admin"
  /\ slts = {}
  /\ req = [p \in Procs |-> Idle]
  /\ change = [p \in Procs |-> Untouched]

\* get_current_user: the account's status is good.
MayAuthenticate(r) == r.active /\ ~r.disabled /\ ~r.deleted

ActiveAdmin(u) == MayAuthenticate(db[u]) /\ db[u].role = "admin"

---------------------------------------------------------------------------
(* A request and its transaction.                                          *)

\* The transaction ends: its session and its locks go.
Finish(p) ==
  /\ req' = [req EXCEPT ![p] = Idle]
  /\ change' = [change EXCEPT ![p] = Untouched]

\* The request is refused, or Redis, the database or the client fails; a
\* request that waits for a lock may be the victim of a deadlock.
Abort(p) ==
  /\ req[p].step # "idle"
  /\ Finish(p)
  /\ UNCHANGED <<mix, db, slts>>

RouteOpen(o, r) ==
  \/ RouteKeys[o] \cap r.permissions # {}
  \/ o = "temp_token" /\ r.role = "admin"

\* The routes whose dependency is get_current_user_slt.
RecoveryRoutes == {"enable", "restore"}

Targets(o) == IF o = "set_permissions_bulk" THEN SUBSET Users \ {{}} ELSE {{u} : u \in Users}

\* Authentication and require_permission.
Begin(p, a, o, U, slt) ==
  /\ req[p].step = "idle"
  /\ U \in Targets(o)
  /\ IF slt THEN a \in slts /\ o \in RecoveryRoutes ELSE MayAuthenticate(db[a])
  /\ RouteOpen(o, db[a])
  /\ req' = [req EXCEPT ![p] =
       [op |-> o, step |-> "load", actor |-> a, role |-> db[a].role,
        perms |-> db[a].permissions, slt |-> slt, todo |-> U, target |-> Nobody]]
  /\ UNCHANGED <<mix, db, slts, change>>

Loading(p, u, o) == req[p].step = "load" /\ req[p].op = o /\ u \in req[p].todo

IsAdmin(p) == req[p].role = "admin"
IsSelf(p, u) == req[p].actor = u
Has(p, keys) == keys \cap req[p].perms # {}

\* Mutant: every column counts as changed.
ChangedAll(old, new) == Columns

Changed(old, new) == {c \in Columns : new[c] # old[c]}

\* get_by_id, the service's decision, the assignments to the row's object:
\* nothing has reached the database yet.  What the decision was based on is not
\* looked at again.
Assign(p, u, row) ==
  /\ change' = [change EXCEPT ![p][u] = [c \in Changed(db[u], row) |-> row[c]]]
  /\ req' = [req EXCEPT ![p] = [@ EXCEPT !.step = "flush", !.perms = {}, !.slt = FALSE,
                                         !.todo = req[p].todo \ {u},
                                         !.target = u]]
  /\ UNCHANGED <<mix, db, slts>>

Dirty(p, u) == DOMAIN change[p][u] # {}

\* The row lock that the UPDATE of an open transaction holds.
Holds(p, u) == Dirty(p, u) /\ req[p].target # u

\* The flush emits an UPDATE if a column's value changed, and the UPDATE waits
\* for the row's lock.
Flush(p) ==
  LET u == req[p].target IN
  /\ req[p].step = "flush"
  /\ Dirty(p, u) => \A q \in Procs : ~Holds(q, u)
  /\ req' = [req EXCEPT ![p] = [@ EXCEPT !.step = IF req[p].todo = {} THEN "commit" ELSE "load",
                                         !.target = Nobody]]
  /\ UNCHANGED <<mix, db, slts, change>>

\* What the UPDATE makes of a row.
Updated(row, c) == [k \in Columns |-> IF k \in DOMAIN c THEN c[k] ELSE row[k]]

\* COMMIT at the end of Database.session.
Commit(p) ==
  /\ req[p].step = "commit"
  /\ db' = [u \in Users |-> Updated(db[u], change[p][u])]
  /\ Finish(p)
  /\ UNCHANGED <<mix, slts>>

---------------------------------------------------------------------------
(* The operations: when the service accepts, and what it assigns.  A request *)
(* that came with a short-lived token acts for the token's user alone.     *)

\* Mutant: an administrator may change the own role and status.
UpdateAccountSelf(p, u) ==
  \E fields \in SUBSET {"role", "disabled"}, r \in {"admin", "user"}, d \in BOOLEAN :
    /\ Loading(p, u, "update")
    /\ IsAdmin(p) \/ Has(p, {"admin.settings.update", Promote})
    /\ Assign(p, u, [db[u] EXCEPT !.role = IF "role" \in fields THEN r ELSE @,
                                  !.disabled = IF "disabled" \in fields THEN d ELSE @])

\* The body names the fields to change; those of no consequence are left out.
UpdateAccount(p, u) ==
  \E fields \in SUBSET {"role", "disabled"}, r \in {"admin", "user"}, d \in BOOLEAN :
    /\ Loading(p, u, "update")
    /\ \/ IsAdmin(p) /\ (IsSelf(p, u) => fields = {})
       \/ ~IsAdmin(p) /\ Has(p, {"admin.settings.update", Promote})
       \/ IsSelf(p, u) /\ Has(p, {"user.update.self", "user.update.profile"}) /\ fields = {}
    /\ Assign(p, u, [db[u] EXCEPT !.role = IF "role" \in fields THEN r ELSE @,
                                  !.disabled = IF "disabled" \in fields THEN d ELSE @])

DisableAccount(p, u) ==
  /\ Loading(p, u, "disable")
  /\ ~db[u].disabled
  /\ IF IsSelf(p, u)
       THEN ~IsAdmin(p) /\ Has(p, {"user.disable.self"})
       ELSE IsAdmin(p) \/ Has(p, {Promote, "admin.users.restore"})
  /\ Assign(p, u, [db[u] EXCEPT !.disabled = TRUE])

Restored(r) == [r EXCEPT !.active = TRUE, !.disabled = FALSE, !.deleted = FALSE]

EnableAccount(p, u) ==
  /\ Loading(p, u, "enable")
  /\ IF req[p].slt
       THEN IsSelf(p, u)
       ELSE \/ IsAdmin(p) \/ Has(p, {"admin.user.enable", Promote})
            \/ IsSelf(p, u) /\ Has(p, {"user.self.enable"})
  /\ ~db[u].deleted
  /\ db[u].disabled \/ ~db[u].active
  /\ Assign(p, u, Restored(db[u]))

\* Mutant: a deleted account keeps is_active.
DeleteKeepsActive(p, u) ==
  /\ Loading(p, u, "delete")
  /\ IsSelf(p, u) <=> ~(IsAdmin(p) \/ Has(p, {"admin.users.delete", Promote}))
  /\ ~db[u].deleted
  /\ Assign(p, u, [db[u] EXCEPT !.disabled = TRUE, !.deleted = TRUE])

\* Who may delete any account may not delete the own.
DeleteAccount(p, u) ==
  /\ Loading(p, u, "delete")
  /\ IsSelf(p, u) <=> ~(IsAdmin(p) \/ Has(p, {"admin.users.delete", Promote}))
  /\ ~db[u].deleted
  /\ Assign(p, u, [db[u] EXCEPT !.active = FALSE, !.disabled = TRUE, !.deleted = TRUE])

\* restore_deleted, and restore_disable when that found nothing to restore.
RestoreAccount(p, u) ==
  /\ Loading(p, u, "restore")
  /\ IF req[p].slt
       THEN IsSelf(p, u)
       ELSE IsAdmin(p) \/ Has(p, {"admin.users.restore", Promote})
  /\ db[u].deleted \/ db[u].disabled
  /\ Assign(p, u, Restored(db[u]))

\* temp_token_maker with restore_passwd false; it changes no row.
MakeTempToken(p, u) ==
  /\ Loading(p, u, "temp_token")
  /\ IsAdmin(p)
  /\ ~MayAuthenticate(db[u])
  /\ slts' = slts \cup {u}
  /\ Finish(p)
  /\ UNCHANGED <<mix, db>>

\* Two minutes later the token has expired.
ExpireTempToken(u) ==
  /\ u \in slts
  /\ slts' = slts \ {u}
  /\ UNCHANGED <<mix, db, req, change>>

\* Mutant: the keys of the body are not validated.
SetPermissionsUnchecked(p, u) ==
  /\ Loading(p, u, "set_permissions")
  /\ Assign(p, u, [db[u] EXCEPT !.permissions = @ \cup {"no.such.key"}])

\* The body's keys are merged into the permissions that were read.
SetPermissions(p, u) ==
  \E granted, denied \in SUBSET Perms :
    /\ Loading(p, u, "set_permissions")
    /\ granted \cap denied = {}
    /\ Assign(p, u, [db[u] EXCEPT !.permissions = (@ \ denied) \cup granted])

\* set_permissions_bulk: one flush for each user, one commit for all.
ReplaceAllPermissions(p, u) ==
  \E granted \in SUBSET Perms :
    /\ Loading(p, u, "set_permissions_bulk")
    /\ Assign(p, u, [db[u] EXCEPT !.permissions = granted])

\* remove_all is the case of all keys.
RemovePermissions(p, u) ==
  \E keys \in SUBSET Perms :
    /\ Loading(p, u, "remove_permissions")
    /\ Assign(p, u, [db[u] EXCEPT !.permissions = @ \ keys])

Start(p) ==
  \E a \in Users, o \in mix, slt \in BOOLEAN :
    \E U \in Targets(o) : Begin(p, a, o, U, slt)

Load(p) ==
  \E u \in Users :
    \/ UpdateAccount(p, u) \/ DisableAccount(p, u) \/ EnableAccount(p, u)
    \/ DeleteAccount(p, u) \/ RestoreAccount(p, u) \/ MakeTempToken(p, u)
    \/ SetPermissions(p, u) \/ ReplaceAllPermissions(p, u) \/ RemovePermissions(p, u)

Next ==
  \/ \E p \in Procs : Start(p) \/ Load(p) \/ Flush(p) \/ Commit(p) \/ Abort(p)
  \/ \E u \in Users : ExpireTempToken(u)

Spec == Init /\ [][Next]_vars

---------------------------------------------------------------------------
(* Properties.                                                             *)

\* A deleted account is inactive and an inactive one is deleted, whatever
\* transactions overlap: delete_account writes both columns or loses both, and
\* so does every restore.  search_users and count_users rely on it, since they
\* filter on is_active and never look at is_deleted.
DeletedIffInactive == \A u \in Users : db[u].deleted <=> ~db[u].active

\* Only a restore brings a deleted account back.  full_restore, behind the
\* enable route, assigns is_deleted too; it must not undo a deletion that was
\* committed after it had read the account.
DeletedUntilRestored ==
  [][\A u \in Users : db[u].deleted /\ ~db'[u].deleted =>
       \E p \in Procs : Commit(p) /\ req[p].op = "restore"]_vars

\* The last usable administrator account is lost only to a delegate, or to an
\* administrator whose own account was taken away while the request ran: an
\* administrator acting alone cannot lock everyone out.
LastAdminLostByRace ==
  [][(\E u \in Users : ActiveAdmin(u)) /\ ~(\E u \in Users : ActiveAdmin(u))' =>
       \E p \in Procs :
         /\ Commit(p)
         /\ req[p].role = "admin" => ~ActiveAdmin(req[p].actor)]_vars

\* admin_service.py:125-129: an administrator must never disable the own
\* account, because the system is bricked once the last one is disabled; so
\* administrators leave one of them usable.
AnAdminRemains == \E u \in Users : ActiveAdmin(u)

---------------------------------------------------------------------------
(* The inductive invariant behind the theorems of AccountsProofs.          *)

\* A change of is_deleted or is_active is a change of both.
ChangesAgree ==
  \A p \in Procs, u \in Users :
    LET c == change[p][u] IN
    /\ "deleted" \in DOMAIN c <=> "active" \in DOMAIN c
    /\ "deleted" \in DOMAIN c => (c.deleted <=> ~c.active)

Active(p) == req[p].step # "idle"

IdleChangesNothing == \A p \in Procs, u \in Users : Active(p) \/ ~Dirty(p, u)

\* What an administrator's request does to the own row takes nothing away.
AdminsKeepThemselves ==
  \A p \in Procs : Active(p) =>
    /\ req[p].actor \in Users
    /\ IsAdmin(p) =>
         LET c == change[p][req[p].actor] IN
         /\ "role" \notin DOMAIN c
         /\ "active" \in DOMAIN c => c.active
         /\ "disabled" \in DOMAIN c => ~c.disabled
         /\ "deleted" \in DOMAIN c => ~c.deleted

\* A pending change that takes back a deletion is a restore's.
UndeletedByRestore ==
  \A p \in Procs, u \in Users :
    "deleted" \in DOMAIN change[p][u] /\ ~change[p][u].deleted => req[p].op = "restore"

IInv ==
  /\ TypeOK
  /\ DeletedIffInactive
  /\ ChangesAgree
  /\ IdleChangesNothing
  /\ AdminsKeepThemselves
  /\ UndeletedByRestore
=============================================================================
