------------------------------ MODULE Credentials ------------------------------
(***************************************************************************)
(* E-mail, password and role of accounts: sign-up, the administrator that    *)
(* every worker seeds when it starts, PUT /account and PUT /account/password. *)
(*                                                                         *)
(* Each request is one READ COMMITTED transaction, as in Accounts.  It      *)
(* decides on what it read; its INSERT or UPDATE then waits for other       *)
(* transactions that hold the row or an entry of the unique index on        *)
(* users.email.  Names are not unique and decide nothing here.  Permissions  *)
(* are left out: any account that is not an administrator's may be a        *)
(* delegate's.                                                             *)
(***************************************************************************)
EXTENDS Integers, FiniteSets

CONSTANTS
  Ids,         \* of the rows of table users
  Emails,
  AdminEmail,  \* settings.ADMIN_EMAIL
  Passwords,
  Procs,       \* requests in progress and workers that start
  NoId

ASSUME CredentialsAssumption ==
  /\ AdminEmail \in Emails
  /\ NoId \notin Ids

VARIABLES
  rows,    \* the committed rows
  req,     \* what each process is doing
  draft,   \* the columns that its transaction writes
  assured  \* history: a worker has seeded the administrator, and no request has
           \* taken away role or e-mail since

vars == <<rows, req, draft, assured>>

AllColumns == {"email", "password", "role"}

\* user_role is any string; the program compares it with "admin" alone.
Roles == {"user", "admin"}

Row == [email : Emails, password : Passwords, role : Roles]

\* A draft has some of the columns of a row.
IsDraft(d) ==
  /\ DOMAIN d \subseteq AllColumns
  /\ "email" \in DOMAIN d => d.email \in Emails
  /\ "password" \in DOMAIN d => d.password \in Passwords
  /\ "role" \in DOMAIN d => d.role \in Roles

Drafts ==
  {d \in UNION {[C -> Emails \cup Passwords \cup Roles] : C \in SUBSET AllColumns} : IsDraft(d)}

NoDraft == [c \in {} |-> {}]

\* op     the operation, step the command it waits for
\* id     the row it writes, or has found
\* known  the password that a change by the owner has verified
\* stale  history: what the request relies on was changed after it was read
Requests ==
  [op : {"none", "signup", "seed", "update_account", "own_password", "reset"},
   step : {"idle", "insert", "select", "update", "commit"},
   id : Ids \cup {NoId}, known : Passwords \cup {"none"}, stale : BOOLEAN]

Idle == [op |-> "none", step |-> "idle", id |-> NoId, known |-> "none", stale |-> FALSE]

CredentialsTypeOK ==
  /\ DOMAIN rows \subseteq Ids
  /\ \A i \in DOMAIN rows : rows[i] \in Row
  /\ req \in [Procs -> Requests]
  /\ DOMAIN draft = Procs
  /\ \A p \in Procs : IsDraft(draft[p])
  /\ assured \in BOOLEAN

\* An empty table, or one with accounts of users.
Init ==
  /\ \E I \in SUBSET Ids : rows \in [I -> [email : Emails, password : Passwords, role : {"user"}]]
  /\ \A i, j \in DOMAIN rows : rows[i].email = rows[j].email => i = j
  /\ req = [p \in Procs |-> Idle]
  /\ draft = [p \in Procs |-> NoDraft]
  /\ assured = FALSE

---------------------------------------------------------------------------
(* The table.                                                              *)

Owner(e) == {i \in DOMAIN rows : rows[i].email = e}

Writes(p, c) == c \in DOMAIN draft[p]

\* A transaction holds its row, and the index entries of the e-mail it has
\* written and of the one it has replaced, until it ends.
HoldsRow(p, i) == req[p].step = "commit" /\ draft[p] # NoDraft /\ req[p].id = i

HoldsEntry(p, e) ==
  /\ req[p].step = "commit" /\ Writes(p, "email")
  /\ draft[p].email = e \/ req[p].id \in Owner(e)

Waits(p) ==
  \E q \in Procs \ {p} :
    \/ HoldsRow(q, req[p].id)
    \/ Writes(p, "email") /\ HoldsEntry(q, draft[p].email)

\* Mutant: the index on the e-mail is not unique.
NotUnique(p) == FALSE

\* The unique index refuses the e-mail.
Conflict(p) == Writes(p, "email") /\ Owner(draft[p].email) \ {req[p].id} # {}

\* The request is over.
Finish(p) ==
  /\ req' = [req EXCEPT ![p] = Idle]
  /\ draft' = [draft EXCEPT ![p] = NoDraft]
  /\ UNCHANGED <<rows, assured>>

Goto(p, s) == req' = [req EXCEPT ![p].step = s]

Start(p, o, s, i, known, d) ==
  /\ req[p].step = "idle"
  /\ req' = [req EXCEPT ![p] = [Idle EXCEPT !.op = o, !.step = s, !.id = i, !.known = known]]
  /\ draft' = [draft EXCEPT ![p] = d]
  /\ UNCHANGED <<rows, assured>>

---------------------------------------------------------------------------
(* The requests, up to their first write.                                  *)

\* exists_by_email finds nothing.
SignUp(p, e, w) ==
  /\ Owner(e) = {}
  /\ Start(p, "signup", "insert", NoId, "none", [email |-> e, password |-> w, role |-> "user"])

\* create_admin at the start of a worker.
Seed(p, w) ==
  Start(p, "seed", "insert", NoId, "none", [email |-> AdminEmail, password |-> w, role |-> "admin"])

\* PUT /account/{id}, by the account's owner, an administrator or a delegate; d
\* has the columns that get another value.  get_by_email does not find a new
\* e-mail; the new password needs no old one; the role is an administrator's to
\* give and take, though not the own one, or a delegate's.
UpdateAccount(p, i, d) ==
  /\ i \in DOMAIN rows
  /\ d # NoDraft
  /\ "email" \in DOMAIN d => Owner(d.email) = {}
  /\ "role" \in DOMAIN d =>
       /\ d.role # rows[i].role
       /\ \E actor \in DOMAIN rows : actor # i \/ rows[actor].role # "admin"
  /\ Start(p, "update_account", "update", i, "none", d)

\* Mutant: the old password is not compared.
ChangeOwnUnverified(p, i, old, new) ==
  /\ i \in DOMAIN rows
  /\ Start(p, "own_password", "update", i, old, [password |-> new])

\* PUT /account/password/{id} by the owner, whose row authentication has read
\* into the session: the old password is compared with that one.
ChangeOwnPassword(p, i, old, new) ==
  /\ i \in DOMAIN rows
  /\ rows[i].password = old
  /\ Start(p, "own_password", "update", i, old, [password |-> new])

\* The same by an administrator, or with a recovery token: no old password.
ResetPassword(p, i, new) ==
  /\ i \in DOMAIN rows
  /\ Start(p, "reset", "update", i, "none", [password |-> new])

---------------------------------------------------------------------------
(* Writes.                                                                 *)

\* repo.create answers 409 if the index refuses; ON CONFLICT DO NOTHING goes on
\* to read the row that is there.
Insert(p) ==
  /\ req[p].step = "insert"
  /\ ~Waits(p)
  /\ \/ /\ Conflict(p)
        /\ IF req[p].op = "seed"
           THEN Goto(p, "select") /\ UNCHANGED <<rows, draft, assured>>
           ELSE Finish(p)
     \/ /\ ~Conflict(p)
        /\ \E i \in Ids \ (DOMAIN rows \cup {req[q].id : q \in Procs}) :
             req' = [req EXCEPT ![p].id = i, ![p].step = "commit"]
        /\ UNCHANGED <<rows, draft, assured>>

\* Mutant: the account that is there is taken as it is.
SelectExistingKeepsRole(p) ==
  /\ req[p].step = "select"
  /\ IF Owner(AdminEmail) = {} THEN Finish(p)
     ELSE /\ Goto(p, "commit")
          /\ draft' = [draft EXCEPT ![p] = NoDraft]
          /\ UNCHANGED <<rows, assured>>

\* create_admin_if_not_exists: the row may have gone ("disappeared mid-upsert"),
\* be an administrator's already, or have to be promoted.
SelectExisting(p) ==
  /\ req[p].step = "select"
  /\ \/ Owner(AdminEmail) = {} /\ Finish(p)
     \/ \E i \in Owner(AdminEmail) :
          /\ IF rows[i].role = "admin"
             THEN /\ req' = [req EXCEPT ![p].id = i, ![p].step = "commit"]
                  /\ draft' = [draft EXCEPT ![p] = NoDraft]
             ELSE /\ req' = [req EXCEPT ![p].id = i, ![p].step = "update"]
                  /\ draft' = [draft EXCEPT ![p] = [role |-> "admin"]]
          /\ UNCHANGED <<rows, assured>>

\* The flush of an UPDATE; DuplicateEmailError if the index refuses.
Update(p) ==
  /\ req[p].step = "update"
  /\ ~Waits(p)
  /\ IF Conflict(p) THEN Finish(p)
     ELSE Goto(p, "commit") /\ UNCHANGED <<rows, draft, assured>>

Written(i, d) ==
  [c \in AllColumns |-> IF c \in DOMAIN d THEN d[c] ELSE rows[i][c]]

\* p takes role or e-mail away from the account of settings.ADMIN_EMAIL.
TakesAway(p) ==
  /\ req[p].id \in Owner(AdminEmail)
  /\ \/ Writes(p, "email") /\ draft[p].email # AdminEmail
     \/ Writes(p, "role") /\ draft[p].role # "admin"

\* What p writes is what q has read and relies on.
Undercuts(p, q) ==
  /\ req[q].id = req[p].id
  /\ \/ req[q].op = "own_password" /\ Writes(p, "password")
     \/ req[q].op = "seed" /\ TakesAway(p)

Commit(p) ==
  LET i == req[p].id  d == draft[p] IN
  /\ req[p].step = "commit"
  /\ rows' = IF d = NoDraft THEN rows
             ELSE [j \in DOMAIN rows \cup {i} |-> IF j = i THEN Written(i, d) ELSE rows[j]]
  /\ req' = [q \in Procs |->
               IF q = p THEN Idle
               ELSE [req[q] EXCEPT !.stale = @ \/ Undercuts(p, q)]]
  /\ draft' = [draft EXCEPT ![p] = NoDraft]
  /\ assured' = ((assured /\ ~TakesAway(p)) \/ (req[p].op = "seed" /\ ~req[p].stale))

\* Refused for another reason, or the database or the client fails.
Abort(p) == req[p].step # "idle" /\ Finish(p)

Next ==
  \E p \in Procs :
    \/ \E w \in Passwords : Seed(p, w) \/ \E e \in Emails : SignUp(p, e, w)
    \/ \E i \in Ids, d \in Drafts : UpdateAccount(p, i, d)
    \/ \E i \in Ids, w \in Passwords :
         ResetPassword(p, i, w) \/ \E old \in Passwords : ChangeOwnPassword(p, i, old, w)
    \/ Insert(p) \/ SelectExisting(p) \/ Update(p) \/ Commit(p) \/ Abort(p)

Spec == Init /\ [][Next]_vars

---------------------------------------------------------------------------
(* Properties.                                                             *)

\* p has written the e-mail e, and may still roll back.
Holding(p, e) == req[p].step = "commit" /\ Writes(p, "email") /\ draft[p].email = e

\* get_by_email never finds two rows: committed rows, and rows that open
\* transactions have written, have different e-mails however sign-ups, seeding
\* workers and changes of e-mail overlap after their checks.
OneAccountPerEmail ==
  /\ \A i, j \in DOMAIN rows : rows[i].email = rows[j].email => i = j
  /\ \A p \in Procs, e \in Emails : Holding(p, e) =>
       /\ Owner(e) \subseteq {req[p].id}
       /\ \A q \in Procs : Holding(q, e) => p = q

\* From the commit of a worker that seeds, until PUT /account takes role or e-mail
\* away, the account of settings.ADMIN_EMAIL is an administrator's, whoever signs
\* up with that e-mail at the same time; and each worker that starts makes it so
\* again, unless a PUT /account comes between its SELECT and its commit.
SeededAdmin == assured => \E i \in Owner(AdminEmail) : rows[i].role = "admin"

\* The password of an account is replaced by PUT /account (which asks for no old
\* one), by an administrator or with a recovery token, or by the owner, who gave
\* the password that it has or had when the request read it.  No sign-up and no
\* worker that seeds replaces it, whatever it races.
ReplacedKnowingly ==
  [][\A p \in Procs :
       Commit(p) /\ Writes(p, "password") /\ req[p].id \in DOMAIN rows =>
         \/ req[p].op \in {"update_account", "reset"}
         \/ /\ req[p].op = "own_password"
            /\ rows[req[p].id].password = req[p].known \/ req[p].stale
    ]_vars
---------------------------------------------------------------------------
(* The inductive invariant behind these properties.                        *)

\* A row is written by one open transaction at a time, from the UPDATE or the
\* INSERT to the end of the transaction.
RowsHeldOnce ==
  \A p, q \in Procs, i \in Ids : HoldsRow(p, i) /\ HoldsRow(q, i) => p = q

\* The draft of p changes a row that exists, and its password on request only.
Updates(p) ==
  /\ req[p].id \in DOMAIN rows
  /\ Writes(p, "password") => req[p].op \in {"update_account", "reset", "own_password"}

\* The draft of p is a row that nobody else knows.
Creates(p) ==
  /\ req[p].id \in Ids \ DOMAIN rows
  /\ DOMAIN draft[p] = AllColumns
  /\ \A q \in Procs \ {p} : req[q].id # req[p].id

TargetsExist ==
  \A p \in Procs :
    /\ req[p].step \in {"insert", "select"} => req[p].id = NoId /\ DOMAIN draft[p] = AllColumns
    /\ req[p].step = "update" => Updates(p)
    /\ req[p].step = "commit" /\ draft[p] # NoDraft => Updates(p) \/ Creates(p)

\* The draft of p is the administrator's row.
Plants(p) ==
  DOMAIN draft[p] = AllColumns /\ draft[p].email = AdminEmail /\ draft[p].role = "admin"

\* The draft of p makes an administrator of the account that it has found.
Promotes(p) ==
  /\ DOMAIN draft[p] = {"role"} /\ draft[p].role = "admin"
  /\ req[p].id \in Owner(AdminEmail) \/ req[p].stale

\* p has found an administrator.
Confirms(p) ==
  /\ draft[p] = NoDraft
  /\ (req[p].id \in Owner(AdminEmail) /\ rows[req[p].id].role = "admin") \/ req[p].stale

SeedersPromote ==
  \A p \in Procs : req[p].op = "seed" =>
    /\ req[p].step = "insert" => Plants(p)
    /\ req[p].step = "update" => Promotes(p)
    /\ req[p].step = "commit" => Plants(p) \/ Promotes(p) \/ Confirms(p)

\* The owner has given the password that the row has, or had when the change
\* began.
OwnersKnew ==
  \A p \in Procs : req[p].op = "own_password" =>
    /\ req[p].id \in DOMAIN rows
    /\ rows[req[p].id].password = req[p].known \/ req[p].stale

CredentialsInv ==
  /\ CredentialsTypeOK
  /\ OneAccountPerEmail
  /\ RowsHeldOnce
  /\ TargetsExist
  /\ SeedersPromote
  /\ OwnersKnew
  /\ SeededAdmin
=============================================================================
