---------------------------- MODULE CredentialsProofs ----------------------------
(***************************************************************************)
(* Proofs about Credentials, for any ids, e-mails, passwords and processes. *)
(*                                                                         *)
(* Every action but Commit changes the request and the draft of one process *)
(* and nothing else: LocalStep says what it must not do.  Commit is proved  *)
(* by itself.                                                              *)
(***************************************************************************)
EXTENDS Credentials, TLAPS

\* The invariant holds initially.
LEMMA InitInvariant == Init => CredentialsInv
<1> SUFFICES ASSUME Init PROVE CredentialsInv
  OBVIOUS
<1> USE DEF Init
<1>1. CredentialsTypeOK
  BY DEF CredentialsTypeOK, Row, Roles, AllColumns, Requests, Idle, IsDraft, NoDraft
<1>2. OneAccountPerEmail
  BY DEF OneAccountPerEmail, Holding, Idle
<1>3. RowsHeldOnce
  BY DEF RowsHeldOnce, HoldsRow, Idle
<1>4. TargetsExist /\ SeedersPromote /\ OwnersKnew
  BY DEF TargetsExist, SeedersPromote, OwnersKnew, Idle
<1>5. SeededAdmin
  BY DEF SeededAdmin
<1>6. QED
  BY <1>1, <1>2, <1>3, <1>4, <1>5 DEF CredentialsInv

---------------------------------------------------------------------------
(* The steps that change no row.                                           *)

\* A step that gives p the draft d and keeps the other drafts.
DrafterOnly(p, d) ==
  /\ DOMAIN draft' = Procs
  /\ draft'[p] = d
  /\ \A q \in Procs : q # p => draft'[q] = draft[q]

\* draft as the code leaves it.
LEMMA DraftSteps ==
  ASSUME CredentialsInv, NEW p \in Procs
  PROVE  /\ UNCHANGED draft => DrafterOnly(p, draft[p])
         /\ \A d : draft' = [draft EXCEPT ![p] = d] => DrafterOnly(p, d)
  BY DEF DrafterOnly, CredentialsInv, CredentialsTypeOK

\* A step of p that gives it the request r and the draft d, and keeps every row.
LEMMA LocalStep ==
  ASSUME CredentialsInv, NEW p \in Procs, NEW r \in Requests, NEW d, IsDraft(d),
         req' = [req EXCEPT ![p] = r], DrafterOnly(p, d), UNCHANGED <<rows, assured>>,
         r.step = "commit" /\ "email" \in DOMAIN d =>
           /\ Owner(d.email) \subseteq {r.id}
           /\ \A q \in Procs \ {p} : ~Holding(q, d.email),
         r.step = "commit" /\ d # NoDraft => \A q \in Procs \ {p} : ~HoldsRow(q, r.id),
         r.id = NoId \/ r.id \in DOMAIN rows \/ \A q \in Procs \ {p} : req[q].id # r.id,
         r.step \in {"insert", "select"} => r.id = NoId /\ DOMAIN d = AllColumns,
         r.step = "update" => Updates(p)',
         r.step = "commit" /\ d # NoDraft => Updates(p)' \/ Creates(p)',
         r.op = "seed" /\ r.step = "insert" => Plants(p)',
         r.op = "seed" /\ r.step = "update" => Promotes(p)',
         r.op = "seed" /\ r.step = "commit" => Plants(p)' \/ Promotes(p)' \/ Confirms(p)',
         r.op = "own_password" =>
           /\ r.id \in DOMAIN rows
           /\ rows[r.id].password = r.known \/ r.stale
  PROVE  CredentialsInv'
<1> USE DEF CredentialsInv
<1>1. /\ req'[p] = r
      /\ \A q \in Procs : q # p => req'[q] = req[q]
      /\ draft'[p] = d
      /\ \A q \in Procs : q # p => draft'[q] = draft[q]
  BY DEF CredentialsTypeOK, DrafterOnly
<1>2. CredentialsTypeOK'
  <2>1. req' \in [Procs -> Requests] /\ DOMAIN draft' = Procs
    BY DEF CredentialsTypeOK, DrafterOnly
  <2>2. \A q \in Procs : IsDraft(draft'[q])
    BY <1>1 DEF CredentialsTypeOK
  <2>3. QED
    BY <2>1, <2>2 DEF CredentialsTypeOK, IsDraft
<1>3. OneAccountPerEmail'
  <2>1. \A q \in Procs \ {p}, e \in Emails : Holding(q, e)' <=> Holding(q, e)
    BY <1>1 DEF Holding, Writes
  <2>2. \A e \in Emails : Holding(p, e)' => r.step = "commit" /\ "email" \in DOMAIN d /\ e = d.email
    BY <1>1 DEF Holding, Writes
  <2>3. \A e \in Emails : Owner(e)' = Owner(e)
    BY DEF Owner
  <2>4. \A q \in Procs, e \in Emails : Holding(q, e)' => Owner(e)' \subseteq {req'[q].id}
    BY <1>1, <2>1, <2>2, <2>3 DEF OneAccountPerEmail
  <2>5. \A q1, q2 \in Procs, e \in Emails : Holding(q1, e)' /\ Holding(q2, e)' => q1 = q2
    BY <2>1, <2>2 DEF OneAccountPerEmail
  <2>6. QED
    BY <2>4, <2>5 DEF OneAccountPerEmail
<1>4. RowsHeldOnce'
  <2>1. \A q \in Procs \ {p}, i \in Ids : HoldsRow(q, i)' <=> HoldsRow(q, i)
    BY <1>1 DEF HoldsRow, NoDraft
  <2>2. \A i \in Ids : HoldsRow(p, i)' => r.step = "commit" /\ d # NoDraft /\ i = r.id
    BY <1>1 DEF HoldsRow, NoDraft
  <2>3. QED
    BY <2>1, <2>2 DEF RowsHeldOnce
<1>5. TargetsExist'
  <2> SUFFICES ASSUME NEW q \in Procs
               PROVE  /\ req'[q].step \in {"insert", "select"} =>
                           req'[q].id = NoId /\ DOMAIN draft'[q] = AllColumns
                      /\ req'[q].step = "update" => Updates(q)'
                      /\ req'[q].step = "commit" /\ draft'[q] # NoDraft =>
                           Updates(q)' \/ Creates(q)'
    BY DEF TargetsExist, AllColumns, NoDraft
  <2>1. CASE q = p
    BY <1>1, <2>1
  <2>2. CASE q # p
    <3>1. Updates(q)' <=> Updates(q)
      BY <1>1, <2>2 DEF Updates, Writes
    <3>2. Creates(q) => Creates(q)'
      BY <1>1, <2>2, CredentialsAssumption DEF Creates, AllColumns
    <3>3. QED
      BY <1>1, <2>2, <3>1, <3>2 DEF TargetsExist
  <2>3. QED
    BY <2>1, <2>2
<1>6. SeedersPromote'
  <2> SUFFICES ASSUME NEW q \in Procs \ {p}, req[q].op = "seed"
               PROVE  /\ req[q].step = "insert" => Plants(q)'
                      /\ req[q].step = "update" => Promotes(q)'
                      /\ req[q].step = "commit" => Plants(q)' \/ Promotes(q)' \/ Confirms(q)'
    BY <1>1 DEF SeedersPromote
  <2>1. req'[q] = req[q] /\ draft'[q] = draft[q]
    BY <1>1
  <2>2. Owner(AdminEmail)' = Owner(AdminEmail)
    BY DEF Owner
  <2>3. Plants(q) => Plants(q)'
    BY <2>1 DEF Plants, AllColumns
  <2>4. Promotes(q) => Promotes(q)'
    BY <2>1, <2>2 DEF Promotes
  <2>5. Confirms(q) => Confirms(q)'
    BY <2>1, <2>2 DEF Confirms, NoDraft
  <2>6. QED
    BY <2>3, <2>4, <2>5 DEF SeedersPromote
<1>7. OwnersKnew'
  BY <1>1 DEF OwnersKnew
<1>8. SeededAdmin'
  BY DEF SeededAdmin, Owner
<1>9. QED
  BY <1>2, <1>3, <1>4, <1>5, <1>6, <1>7, <1>8

\* The request of p is over.
LEMMA FinishPreserves ==
  ASSUME CredentialsInv, NEW p \in Procs, Finish(p)
  PROVE  CredentialsInv'
<1>1. Idle \in Requests /\ IsDraft(NoDraft)
  BY DEF Requests, Idle, IsDraft, NoDraft
<1>2. /\ Idle.step = "idle" /\ Idle.op = "none" /\ Idle.id = NoId
  BY DEF Idle
<1>3. QED
  BY <1>1, <1>2, DraftSteps, LocalStep DEF Finish

\* A request begins with the columns that it is going to write.
LEMMA StartPreserves ==
  ASSUME CredentialsInv, NEW p \in Procs,
         NEW o \in {"signup", "seed", "update_account", "own_password", "reset"},
         NEW s \in {"insert", "update"}, NEW i \in Ids \cup {NoId},
         NEW known \in Passwords \cup {"none"}, NEW d, IsDraft(d),
         Start(p, o, s, i, known, d),
         s = "insert" => i = NoId /\ DOMAIN d = AllColumns,
         s = "update" => i \in DOMAIN rows /\ o \notin {"signup", "seed"},
         o = "seed" => /\ s = "insert"
                       /\ d.role = "admin" /\ d.email = AdminEmail,
         o = "own_password" => s = "update" /\ rows[i].password = known
  PROVE  CredentialsInv'
<1> DEFINE r == [Idle EXCEPT !.op = o, !.step = s, !.id = i, !.known = known]
<1>1. /\ r \in Requests
      /\ r.op = o /\ r.step = s /\ r.id = i /\ r.known = known
  BY DEF Requests, Idle
<1>2. /\ req' = [req EXCEPT ![p] = r]
      /\ DrafterOnly(p, d)
      /\ UNCHANGED <<rows, assured>>
  BY DraftSteps DEF Start
<1>3. req'[p] = r /\ draft'[p] = d
  BY <1>2 DEF DrafterOnly, CredentialsInv, CredentialsTypeOK
<1> HIDE DEF r
<1>4. r.step = "update" => Updates(p)'
  BY <1>1, <1>2, <1>3 DEF Updates, Writes
<1>5. r.op = "seed" => r.step = "insert" /\ Plants(p)'
  BY <1>1, <1>2, <1>3 DEF Plants, AllColumns
<1>6. r.id = NoId \/ r.id \in DOMAIN rows
  BY <1>1
<1>7. QED
  BY <1>1, <1>2, <1>4, <1>5, <1>6, LocalStep

\* What a request waits for in an INSERT or an UPDATE, nobody else has when it
\* goes on without a conflict.
LEMMA NobodyElseHolds ==
  ASSUME CredentialsInv, NEW p \in Procs, ~Waits(p), ~Conflict(p)
  PROVE  /\ \A q \in Procs \ {p} : ~HoldsRow(q, req[p].id)
         /\ Writes(p, "email") =>
              /\ Owner(draft[p].email) \subseteq {req[p].id}
              /\ \A q \in Procs \ {p} : ~Holding(q, draft[p].email)
  BY DEF Waits, Conflict, HoldsEntry, Holding

\* An INSERT.
LEMMA InsertPreserves ==
  ASSUME CredentialsInv, NEW p \in Procs, Insert(p)
  PROVE  CredentialsInv'
<1>1. /\ req[p] \in Requests
      /\ req[p].step = "insert" /\ req[p].id = NoId
      /\ IsDraft(draft[p]) /\ DOMAIN draft[p] = AllColumns
      /\ req[p].op = "seed" => Plants(p)
  BY DEF CredentialsInv, CredentialsTypeOK, TargetsExist, SeedersPromote, Insert
<1>2. req[p].op # "own_password"
  BY <1>1, CredentialsAssumption DEF CredentialsInv, CredentialsTypeOK, OwnersKnew
<1>3. UNCHANGED draft => DrafterOnly(p, draft[p])
  BY DraftSteps
<1>4. CASE Conflict(p) /\ req[p].op # "seed"
  BY <1>4, FinishPreserves DEF Insert
<1>5. CASE Conflict(p) /\ req[p].op = "seed"
  <2> DEFINE r == [req[p] EXCEPT !.step = "select"]
  <2>1. /\ r \in Requests
        /\ r.op = req[p].op /\ r.step = "select" /\ r.id = NoId
    BY <1>1 DEF Requests
  <2>2. /\ req' = [req EXCEPT ![p] = r]
        /\ DrafterOnly(p, draft[p])
        /\ UNCHANGED <<rows, assured>>
    BY <1>3, <1>5 DEF Insert, Goto
  <2> HIDE DEF r
  <2>3. QED
    BY <1>1, <1>2, <2>1, <2>2, LocalStep
<1>6. CASE ~Conflict(p)
  <2>1. PICK i \in Ids \ (DOMAIN rows \cup {req[q].id : q \in Procs}) :
          req' = [req EXCEPT ![p].id = i, ![p].step = "commit"]
    BY <1>6 DEF Insert
  <2> DEFINE r == [req[p] EXCEPT !.id = i, !.step = "commit"]
  <2>2. /\ r \in Requests
        /\ r.op = req[p].op /\ r.step = "commit" /\ r.id = i
    BY <1>1 DEF Requests
  <2>3. /\ req' = [req EXCEPT ![p] = r]
        /\ DrafterOnly(p, draft[p])
        /\ UNCHANGED <<rows, assured>>
    BY <1>3, <1>6, <2>1 DEF Insert, CredentialsInv, CredentialsTypeOK
  <2>4. /\ req'[p] = r /\ draft'[p] = draft[p]
        /\ \A q \in Procs : q # p => req'[q] = req[q]
    BY <2>3 DEF DrafterOnly, CredentialsInv, CredentialsTypeOK
  <2> HIDE DEF r
  <2>5. \A q \in Procs : req[q].id # i
    BY <2>1
  <2>6. Creates(p)'
    BY <1>1, <2>1, <2>2, <2>3, <2>4, <2>5 DEF Creates, AllColumns
  <2>7. Writes(p, "email") /\ Owner(draft[p].email) = {}
    BY <1>1, <1>6, CredentialsAssumption
    DEF Conflict, Writes, AllColumns, Owner, CredentialsInv, CredentialsTypeOK
  <2>8. \A q \in Procs \ {p} : ~HoldsRow(q, i) /\ ~Holding(q, draft[p].email)
    BY <1>6, <2>5, <2>7, NobodyElseHolds DEF Insert, HoldsRow
  <2>9. req[p].op = "seed" => Plants(p)'
    BY <1>1, <2>4 DEF Plants, AllColumns
  <2>10. QED
    BY <1>1, <1>2, <2>2, <2>3, <2>5, <2>6, <2>7, <2>8, <2>9, LocalStep
<1>7. QED
  BY <1>4, <1>5, <1>6

\* The SELECT of a worker that seeds and has found the e-mail in use.
LEMMA SelectExistingPreserves ==
  ASSUME CredentialsInv, NEW p \in Procs, SelectExisting(p)
  PROVE  CredentialsInv'
<1>1. req[p] \in Requests /\ req[p].step = "select" /\ req[p].id = NoId
  BY DEF CredentialsInv, CredentialsTypeOK, TargetsExist, SelectExisting
<1>2. req[p].op # "own_password"
  BY <1>1, CredentialsAssumption DEF CredentialsInv, CredentialsTypeOK, OwnersKnew
<1>3. CASE Owner(AdminEmail) = {} /\ Finish(p)
  BY <1>3, FinishPreserves
<1>4. ASSUME NEW i \in Owner(AdminEmail), rows[i].role = "admin",
             req' = [req EXCEPT ![p].id = i, ![p].step = "commit"],
             draft' = [draft EXCEPT ![p] = NoDraft],
             UNCHANGED <<rows, assured>>
      PROVE  CredentialsInv'
  <2> DEFINE r == [req[p] EXCEPT !.id = i, !.step = "commit"]
  <2>1. i \in Ids /\ i \in DOMAIN rows /\ rows[i].email = AdminEmail
    BY <1>4 DEF Owner, CredentialsInv, CredentialsTypeOK
  <2>2. /\ r \in Requests /\ IsDraft(NoDraft) /\ DOMAIN NoDraft = {}
        /\ r.op = req[p].op /\ r.step = "commit" /\ r.id = i
    BY <1>1, <2>1 DEF Requests, IsDraft, NoDraft
  <2>3. req' = [req EXCEPT ![p] = r] /\ DrafterOnly(p, NoDraft)
    BY <1>4, DraftSteps DEF CredentialsInv, CredentialsTypeOK
  <2>4. req'[p] = r /\ draft'[p] = NoDraft
    BY <2>3 DEF DrafterOnly, CredentialsInv, CredentialsTypeOK
  <2> HIDE DEF r
  <2>5. Confirms(p)'
    BY <1>4, <2>1, <2>2, <2>4 DEF Confirms, Owner
  <2>6. QED
    BY <1>2, <1>4, <2>1, <2>2, <2>3, <2>5, LocalStep
<1>5. ASSUME NEW i \in Owner(AdminEmail),
             req' = [req EXCEPT ![p].id = i, ![p].step = "update"],
             draft' = [draft EXCEPT ![p] = [role |-> "admin"]],
             UNCHANGED <<rows, assured>>
      PROVE  CredentialsInv'
  <2> DEFINE r == [req[p] EXCEPT !.id = i, !.step = "update"]
             d == [role |-> "admin"]
  <2>1. i \in Ids /\ i \in DOMAIN rows /\ rows[i].email = AdminEmail
    BY <1>5 DEF Owner, CredentialsInv, CredentialsTypeOK
  <2>2. /\ r \in Requests /\ IsDraft(d) /\ DOMAIN d = {"role"} /\ d.role = "admin"
        /\ r.op = req[p].op /\ r.step = "update" /\ r.id = i
    BY <1>1, <2>1 DEF Requests, IsDraft, Roles, AllColumns
  <2>3. req' = [req EXCEPT ![p] = r] /\ DrafterOnly(p, d)
    BY <1>5, DraftSteps DEF CredentialsInv, CredentialsTypeOK
  <2>4. req'[p] = r /\ draft'[p] = d
    BY <2>3 DEF DrafterOnly, CredentialsInv, CredentialsTypeOK
  <2> HIDE DEF r, d
  <2>5. Updates(p)' /\ Promotes(p)'
    BY <1>5, <2>1, <2>2, <2>4 DEF Updates, Promotes, Writes, Owner
  <2>6. QED
    BY <1>2, <1>5, <2>1, <2>2, <2>3, <2>5, LocalStep
<1>6. QED
  BY <1>3, <1>4, <1>5 DEF SelectExisting

\* The flush of an UPDATE.
LEMMA UpdatePreserves ==
  ASSUME CredentialsInv, NEW p \in Procs, Update(p)
  PROVE  CredentialsInv'
<1>1. /\ req[p] \in Requests /\ req[p].step = "update" /\ Updates(p)
      /\ IsDraft(draft[p])
      /\ req[p].op = "seed" => Promotes(p)
      /\ req[p].op = "own_password" =>
           rows[req[p].id].password = req[p].known \/ req[p].stale
  BY DEF CredentialsInv, CredentialsTypeOK, TargetsExist, SeedersPromote, OwnersKnew, Update
<1>2. CASE Conflict(p)
  BY <1>2, FinishPreserves DEF Update
<1>3. CASE ~Conflict(p)
  <2> DEFINE r == [req[p] EXCEPT !.step = "commit"]
  <2>1. /\ r \in Requests /\ r.step = "commit"
        /\ r.op = req[p].op /\ r.id = req[p].id
        /\ r.known = req[p].known /\ r.stale = req[p].stale
    BY <1>1 DEF Requests
  <2>2. /\ req' = [req EXCEPT ![p] = r]
        /\ DrafterOnly(p, draft[p])
        /\ UNCHANGED <<rows, assured>>
    BY <1>3, DraftSteps DEF Update, Goto
  <2>3. req'[p] = r /\ draft'[p] = draft[p]
    BY <2>2 DEF DrafterOnly, CredentialsInv, CredentialsTypeOK
  <2> HIDE DEF r
  <2>4. Updates(p)' /\ (req[p].op = "seed" => Promotes(p)')
    BY <1>1, <2>1, <2>2, <2>3 DEF Updates, Promotes, Writes, Owner
  <2>5. req[p].id \in DOMAIN rows
    BY <1>1 DEF Updates
  <2>6. /\ \A q \in Procs \ {p} : ~HoldsRow(q, req[p].id)
        /\ "email" \in DOMAIN draft[p] =>
             /\ Owner(draft[p].email) \subseteq {req[p].id}
             /\ \A q \in Procs \ {p} : ~Holding(q, draft[p].email)
    BY <1>3, NobodyElseHolds DEF Update, Writes
  <2>7. QED
    BY <1>1, <2>1, <2>2, <2>4, <2>5, <2>6, LocalStep
<1>4. QED
  BY <1>2, <1>3

---------------------------------------------------------------------------
(* The end of a transaction.                                               *)

\* What COMMIT does to the rows: the columns of the draft reach one row.
LEMMA CommittedRows ==
  ASSUME CredentialsInv, NEW p \in Procs, Commit(p), draft[p] # NoDraft
  PROVE  LET i == req[p].id  d == draft[p] IN
         /\ i \in Ids
         /\ DOMAIN rows' = DOMAIN rows \cup {i}
         /\ \A j \in DOMAIN rows : j # i => rows'[j] = rows[j]
         /\ rows'[i] \in Row
         /\ \A c \in AllColumns : c \in DOMAIN d => rows'[i][c] = d[c]
         /\ \A c \in AllColumns : c \notin DOMAIN d =>
              i \in DOMAIN rows /\ rows'[i][c] = rows[i][c]
<1> DEFINE i == req[p].id
           d == draft[p]
<1>1. /\ IsDraft(d)
      /\ Updates(p) \/ Creates(p)
  BY DEF Commit, CredentialsInv, CredentialsTypeOK, TargetsExist
<1>2. i \in Ids
  BY <1>1 DEF Updates, Creates, CredentialsInv, CredentialsTypeOK
<1>3. rows' = [j \in DOMAIN rows \cup {i} |-> IF j = i THEN Written(i, d) ELSE rows[j]]
  BY DEF Commit
<1>4. rows'[i] = Written(i, d)
  BY <1>3
<1>5. \A c \in AllColumns : c \notin DOMAIN d => i \in DOMAIN rows
  BY <1>1 DEF Updates, Creates
<1>6. \A c \in AllColumns : Written(i, d)[c] = IF c \in DOMAIN d THEN d[c] ELSE rows[i][c]
  BY DEF Written, AllColumns
<1>7. Written(i, d) \in Row
  <2>1. i \in DOMAIN rows => rows[i] \in Row
    BY DEF CredentialsInv, CredentialsTypeOK
  <2>2. /\ Written(i, d).email \in Emails
        /\ Written(i, d).password \in Passwords
        /\ Written(i, d).role \in Roles
    BY <1>1, <1>5, <1>6, <2>1 DEF Row, IsDraft, AllColumns
  <2>3. QED
    BY <2>2 DEF Written, Row, AllColumns
<1>8. QED
  BY <1>2, <1>3, <1>4, <1>5, <1>6, <1>7

\* What COMMIT does to requests.
LEMMA CommittedRequests ==
  ASSUME CredentialsInv, NEW p \in Procs, Commit(p)
  PROVE  /\ req' \in [Procs -> Requests]
         /\ req'[p] = Idle
         /\ \A q \in Procs \ {p} :
              /\ req'[q].op = req[q].op /\ req'[q].step = req[q].step
              /\ req'[q].id = req[q].id /\ req'[q].known = req[q].known
              /\ req[q].stale \/ Undercuts(p, q) => req'[q].stale
         /\ DrafterOnly(p, NoDraft)
<1>1. req' = [q \in Procs |->
               IF q = p THEN Idle
               ELSE [req[q] EXCEPT !.stale = @ \/ Undercuts(p, q)]]
  BY DEF Commit
<1>2. Idle \in Requests
  BY DEF Idle, Requests
<1>3. \A q \in Procs : req[q] \in Requests
  BY DEF CredentialsInv, CredentialsTypeOK
<1>4. ASSUME NEW q \in Procs \ {p}
      PROVE  /\ req'[q] \in Requests
             /\ req'[q].op = req[q].op /\ req'[q].step = req[q].step
             /\ req'[q].id = req[q].id /\ req'[q].known = req[q].known
             /\ req[q].stale \/ Undercuts(p, q) => req'[q].stale
  <2> DEFINE b == req[q].stale \/ Undercuts(p, q)
  <2>1. b \in BOOLEAN
    BY <1>3 DEF Requests, Undercuts, TakesAway
  <2>2. req'[q] = [req[q] EXCEPT !.stale = b]
    BY <1>1
  <2> HIDE DEF b
  <2>3. req'[q] \in Requests /\ req'[q].stale = b
    BY <1>3, <2>1, <2>2 DEF Requests
  <2>4. /\ req'[q].op = req[q].op /\ req'[q].step = req[q].step
        /\ req'[q].id = req[q].id /\ req'[q].known = req[q].known
    BY <1>3, <2>2 DEF Requests
  <2>5. QED
    BY <2>3, <2>4 DEF b
<1>5. DrafterOnly(p, NoDraft)
  BY DraftSteps DEF Commit
<1>6. QED
  BY <1>1, <1>2, <1>4, <1>5

\* COMMIT leaves role and e-mail of the account of settings.ADMIN_EMAIL, unless
\* the request took them away.
LEMMA CommitKeepsAdmin ==
  ASSUME CredentialsInv, NEW p \in Procs, Commit(p), NEW i \in Owner(AdminEmail),
         ~(TakesAway(p) /\ req[p].id = i)
  PROVE  /\ i \in Owner(AdminEmail)'
         /\ rows[i].role = "admin" => rows'[i].role = "admin"
<1>1. i \in Ids /\ i \in DOMAIN rows /\ rows[i].email = AdminEmail
  BY DEF Owner, CredentialsInv, CredentialsTypeOK
<1>2. CASE draft[p] = NoDraft
  BY <1>1, <1>2 DEF Commit, Owner
<1>3. CASE draft[p] # NoDraft /\ req[p].id # i
  BY <1>1, <1>3, CommittedRows DEF Owner
<1>4. CASE draft[p] # NoDraft /\ req[p].id = i
  <2>1. /\ Writes(p, "email") => draft[p].email = AdminEmail
        /\ Writes(p, "role") => draft[p].role = "admin"
    BY <1>4 DEF TakesAway
  <2>2. QED
    BY <1>1, <1>4, <2>1, CommittedRows DEF Owner, Writes, AllColumns
<1>5. QED
  BY <1>2, <1>3, <1>4

\* COMMIT keeps e-mails apart, the committed ones and those still held.
LEMMA CommitKeepsEmails ==
  ASSUME CredentialsInv, NEW p \in Procs, Commit(p)
  PROVE  OneAccountPerEmail'
<1> USE CommittedRequests
<1>1. \A q \in Procs, e \in Emails : Holding(q, e)' => q # p /\ Holding(q, e)
  BY DEF Holding, Writes, Idle, DrafterOnly
<1>2. CASE draft[p] = NoDraft
  <2>1. rows' = rows
    BY <1>2 DEF Commit
  <2>2. \A e \in Emails : Owner(e)' = Owner(e)
    BY <2>1 DEF Owner
  <2>3. QED
    BY <1>1, <2>1, <2>2 DEF OneAccountPerEmail, CredentialsInv
<1>3. CASE draft[p] # NoDraft
  <2> DEFINE i == req[p].id
  <2>1. /\ i \in Ids /\ rows'[i].email \in Emails
        /\ DOMAIN rows' = DOMAIN rows \cup {i}
        /\ \A j \in DOMAIN rows : j # i => rows'[j] = rows[j]
    BY <1>3, CommittedRows DEF Row
  <2>2. \/ Holding(p, rows'[i].email)
        \/ i \in DOMAIN rows /\ rows'[i].email = rows[i].email
    BY <1>3, CommittedRows DEF Holding, Writes, AllColumns, Commit
  <2>3. ASSUME NEW j \in DOMAIN rows, rows[j].email = rows'[i].email PROVE j = i
    BY <2>1, <2>2, <2>3 DEF OneAccountPerEmail, Owner, CredentialsInv
  <2>4. \A j, k \in DOMAIN rows' : rows'[j].email = rows'[k].email => j = k
    BY <2>1, <2>3 DEF OneAccountPerEmail, CredentialsInv
  <2>5. ASSUME NEW q \in Procs, NEW e \in Emails, Holding(q, e)', NEW j \in Owner(e)'
        PROVE  j = req'[q].id
    <3>1. q # p /\ Holding(q, e) /\ Owner(e) \subseteq {req[q].id} /\ req'[q].id = req[q].id
      BY <1>1, <2>5 DEF OneAccountPerEmail, CredentialsInv
    <3>2. CASE j # i
      BY <2>1, <2>5, <3>1, <3>2 DEF Owner
    <3>3. CASE j = i
      <4>1. rows'[i].email = e
        BY <2>5, <3>3 DEF Owner
      <4>2. ~Holding(p, e)
        BY <3>1 DEF OneAccountPerEmail, CredentialsInv
      <4>3. QED
        BY <2>2, <3>1, <3>3, <4>1, <4>2 DEF Owner
    <3>4. QED
      BY <3>2, <3>3
  <2>6. QED
    BY <1>1, <2>4, <2>5 DEF OneAccountPerEmail, CredentialsInv
<1>4. QED
  BY <1>2, <1>3

\* What a transaction commits had its e-mail and its row to itself.
LEMMA CommitPreserves ==
  ASSUME CredentialsInv, NEW p \in Procs, Commit(p)
  PROVE  CredentialsInv'
<1> DEFINE i == req[p].id
<1> USE CommittedRequests
<1>1. /\ DOMAIN rows \subseteq DOMAIN rows'
      /\ DOMAIN rows' \subseteq DOMAIN rows \cup {i}
      /\ \A j \in DOMAIN rows' : rows'[j] \in Row /\ j \in Ids
      /\ draft[p] = NoDraft => rows' = rows
  <2>1. CASE draft[p] = NoDraft
    BY <2>1 DEF Commit, CredentialsInv, CredentialsTypeOK
  <2>2. CASE draft[p] # NoDraft
    <3>1. /\ i \in Ids /\ rows'[i] \in Row
          /\ DOMAIN rows' = DOMAIN rows \cup {i}
          /\ \A j \in DOMAIN rows : j # i => rows'[j] = rows[j]
      BY <2>2, CommittedRows
    <3>2. QED
      BY <2>2, <3>1 DEF CredentialsInv, CredentialsTypeOK
  <2>3. QED
    BY <2>1, <2>2
<1>2. CredentialsTypeOK'
  <2>1. \A q \in Procs : IsDraft(draft'[q])
    BY DEF CredentialsInv, CredentialsTypeOK, DrafterOnly, IsDraft, NoDraft
  <2>2. assured' \in BOOLEAN
    BY DEF Commit
  <2>3. QED
    BY <1>1, <2>1, <2>2 DEF CredentialsTypeOK, DrafterOnly, IsDraft
<1>3. RowsHeldOnce'
  <2>1. \A q \in Procs, j \in Ids : HoldsRow(q, j)' => q # p /\ HoldsRow(q, j)
    BY DEF HoldsRow, Idle, DrafterOnly, NoDraft
  <2>2. QED
    BY <2>1 DEF RowsHeldOnce, CredentialsInv
<1>4. TargetsExist'
  <2> SUFFICES ASSUME NEW q \in Procs \ {p}
               PROVE  /\ req'[q].step \in {"insert", "select"} =>
                           req'[q].id = NoId /\ DOMAIN draft'[q] = AllColumns
                      /\ req'[q].step = "update" => Updates(q)'
                      /\ req'[q].step = "commit" /\ draft'[q] # NoDraft =>
                           Updates(q)' \/ Creates(q)'
    BY DEF TargetsExist, AllColumns, NoDraft, Idle
  <2>1. draft'[q] = draft[q] /\ req'[q].id = req[q].id /\ req'[q].step = req[q].step
    BY DEF DrafterOnly
  <2>2. Updates(q) => Updates(q)'
    BY <1>1, <2>1 DEF Updates, Writes
  <2>3. Creates(q) => Creates(q)'
    <3>1. SUFFICES ASSUME Creates(q) PROVE Creates(q)'
      OBVIOUS
    <3>2. req[q].id # i /\ req[q].id # NoId
      BY <3>1, CredentialsAssumption DEF Creates
    <3>3. \A x \in Procs \ {q} : req'[x].id # req[q].id
      BY <3>1, <3>2 DEF Creates, Idle
    <3>4. QED
      BY <1>1, <2>1, <3>1, <3>2, <3>3 DEF Creates, AllColumns
  <2>4. QED
    BY <2>1, <2>2, <2>3 DEF TargetsExist, CredentialsInv
<1>5. SeedersPromote'
  <2> SUFFICES ASSUME NEW q \in Procs \ {p}, req'[q].op = "seed"
               PROVE  /\ req'[q].step = "insert" => Plants(q)'
                      /\ req'[q].step = "update" => Promotes(q)'
                      /\ req'[q].step = "commit" => Plants(q)' \/ Promotes(q)' \/ Confirms(q)'
    BY DEF SeedersPromote, Idle
  <2>1. /\ draft'[q] = draft[q] /\ req'[q].id = req[q].id
        /\ req'[q].step = req[q].step /\ req[q].op = "seed"
    BY DEF DrafterOnly
  <2>2. Plants(q) => Plants(q)'
    BY <2>1 DEF Plants, AllColumns
  <2>3. TakesAway(p) /\ req[p].id = req[q].id => req'[q].stale
    BY <2>1 DEF Undercuts
  <2>4. Promotes(q) => Promotes(q)'
    BY <2>1, <2>3, CommitKeepsAdmin DEF Promotes
  <2>5. Confirms(q) => Confirms(q)'
    BY <2>1, <2>3, CommitKeepsAdmin DEF Confirms, NoDraft
  <2>6. QED
    BY <2>1, <2>2, <2>4, <2>5 DEF SeedersPromote, CredentialsInv
<1>6. OwnersKnew'
  <2> SUFFICES ASSUME NEW q \in Procs \ {p}, req'[q].op = "own_password"
               PROVE  /\ req'[q].id \in DOMAIN rows'
                      /\ rows'[req'[q].id].password = req'[q].known \/ req'[q].stale
    BY DEF OwnersKnew, Idle
  <2>1. /\ req[q].id \in DOMAIN rows /\ req'[q].id = req[q].id /\ req'[q].known = req[q].known
        /\ rows[req[q].id].password = req[q].known \/ req[q].stale
    BY DEF OwnersKnew, CredentialsInv
  <2>2. \/ rows'[req[q].id].password = rows[req[q].id].password
        \/ Writes(p, "password") /\ req[q].id = i
    <3>1. CASE draft[p] = NoDraft
      BY <1>1, <3>1
    <3>2. CASE draft[p] # NoDraft
      BY <2>1, <3>2, CommittedRows DEF Writes, AllColumns
    <3>3. QED
      BY <3>1, <3>2
  <2>3. Writes(p, "password") /\ req[q].id = i => req'[q].stale
    BY DEF Undercuts
  <2>4. QED
    BY <1>1, <2>1, <2>2, <2>3
<1>7. SeededAdmin'
  <2>1. CASE assured /\ ~TakesAway(p)
    <3>1. PICK k \in Owner(AdminEmail) : rows[k].role = "admin"
      BY <2>1 DEF SeededAdmin, CredentialsInv
    <3>2. k \in Owner(AdminEmail)' /\ rows'[k].role = "admin"
      BY <2>1, <3>1, CommitKeepsAdmin
    <3>3. QED
      BY <3>2 DEF SeededAdmin
  <2>2. CASE req[p].op = "seed" /\ ~req[p].stale
    <3>1. Plants(p) \/ Promotes(p) \/ Confirms(p)
      BY <2>2 DEF SeedersPromote, CredentialsInv, Commit
    <3>2. CASE Plants(p)
      <4>1. draft[p] # NoDraft
        BY <3>2 DEF Plants, NoDraft, AllColumns
      <4>2. rows'[i].email = AdminEmail /\ rows'[i].role = "admin" /\ i \in DOMAIN rows'
        BY <3>2, <4>1, CommittedRows DEF Plants, AllColumns
      <4>3. QED
        BY <4>2 DEF SeededAdmin, Owner
    <3>3. CASE Promotes(p)
      <4>1. draft[p] # NoDraft /\ ~TakesAway(p) /\ i \in Owner(AdminEmail)
        BY <2>2, <3>3 DEF Promotes, NoDraft, TakesAway, Writes
      <4>2. i \in Owner(AdminEmail)'
        BY <4>1, CommitKeepsAdmin
      <4>3. rows'[i].role = "admin"
        BY <3>3, <4>1, CommittedRows DEF Promotes, AllColumns
      <4>4. QED
        BY <4>2, <4>3 DEF SeededAdmin
    <3>4. CASE Confirms(p)
      <4>1. rows' = rows /\ i \in Owner(AdminEmail) /\ rows[i].role = "admin"
        BY <2>2, <3>4 DEF Confirms, Commit
      <4>2. QED
        BY <4>1 DEF SeededAdmin, Owner
    <3>5. QED
      BY <3>1, <3>2, <3>3, <3>4
  <2>3. assured' => (assured /\ ~TakesAway(p)) \/ (req[p].op = "seed" /\ ~req[p].stale)
    BY DEF Commit
  <2>4. QED
    BY <2>1, <2>2, <2>3 DEF SeededAdmin
<1>8. QED
  BY <1>2, <1>3, <1>4, <1>5, <1>6, <1>7, CommitKeepsEmails DEF CredentialsInv

---------------------------------------------------------------------------
(* The theorems.                                                           *)

\* The requests that start.
LEMMA StartsPreserve ==
  ASSUME CredentialsInv, NEW p \in Procs
  PROVE  /\ \A w \in Passwords : Seed(p, w) => CredentialsInv'
         /\ \A e \in Emails, w \in Passwords : SignUp(p, e, w) => CredentialsInv'
         /\ \A i \in Ids, d \in Drafts : UpdateAccount(p, i, d) => CredentialsInv'
         /\ \A i \in Ids, w \in Passwords : ResetPassword(p, i, w) => CredentialsInv'
         /\ \A i \in Ids, old, w \in Passwords :
              ChangeOwnPassword(p, i, old, w) => CredentialsInv'
<1>1. ASSUME NEW w \in Passwords, Seed(p, w) PROVE CredentialsInv'
  <2> DEFINE d == [email |-> AdminEmail, password |-> w, role |-> "admin"]
  <2>1. IsDraft(d) /\ DOMAIN d = AllColumns /\ d.role = "admin" /\ d.email = AdminEmail
    BY CredentialsAssumption DEF IsDraft, AllColumns, Roles
  <2>2. Start(p, "seed", "insert", NoId, "none", d)
    BY <1>1 DEF Seed
  <2> HIDE DEF d
  <2>3. QED
    BY <2>1, <2>2, StartPreserves
<1>2. ASSUME NEW e \in Emails, NEW w \in Passwords, SignUp(p, e, w) PROVE CredentialsInv'
  <2> DEFINE d == [email |-> e, password |-> w, role |-> "user"]
  <2>1. IsDraft(d) /\ DOMAIN d = AllColumns
    BY DEF IsDraft, AllColumns, Roles
  <2>2. Start(p, "signup", "insert", NoId, "none", d)
    BY <1>2 DEF SignUp
  <2> HIDE DEF d
  <2>3. QED
    BY <2>1, <2>2, StartPreserves
<1>3. ASSUME NEW i \in Ids, NEW d \in Drafts, UpdateAccount(p, i, d) PROVE CredentialsInv'
  <2>1. IsDraft(d)
    BY DEF Drafts
  <2>2. i \in DOMAIN rows /\ Start(p, "update_account", "update", i, "none", d)
    BY <1>3 DEF UpdateAccount
  <2>3. QED
    BY <2>1, <2>2, StartPreserves
<1>4. ASSUME NEW i \in Ids, NEW w \in Passwords, NEW o \in {"reset", "own_password"},
             NEW known \in Passwords \cup {"none"}, i \in DOMAIN rows,
             o = "own_password" => rows[i].password = known,
             Start(p, o, "update", i, known, [password |-> w])
      PROVE  CredentialsInv'
  <2> DEFINE d == [password |-> w]
  <2>1. IsDraft(d) /\ DOMAIN d = {"password"}
    BY DEF IsDraft, AllColumns
  <2>2. Start(p, o, "update", i, known, d)
    BY <1>4
  <2> HIDE DEF d
  <2>3. QED
    BY <1>4, <2>1, <2>2, StartPreserves
<1>5. \A i \in Ids, w \in Passwords : ResetPassword(p, i, w) => CredentialsInv'
  BY <1>4 DEF ResetPassword
<1>6. \A i \in Ids, old, w \in Passwords : ChangeOwnPassword(p, i, old, w) => CredentialsInv'
  BY <1>4 DEF ChangeOwnPassword
<1>7. QED
  BY <1>1, <1>2, <1>3, <1>5, <1>6

\* Every step keeps the invariant.
LEMMA StepPreserves == CredentialsInv /\ [Next]_vars => CredentialsInv'
<1> SUFFICES ASSUME CredentialsInv, [Next]_vars PROVE CredentialsInv'
  OBVIOUS
<1>1. CASE UNCHANGED vars
  BY <1>1 DEF vars, CredentialsInv, CredentialsTypeOK, OneAccountPerEmail, Holding, Owner, Writes,
    RowsHeldOnce, HoldsRow, TargetsExist, Updates, Creates, SeedersPromote, Promotes,
    Plants, Confirms, OwnersKnew, SeededAdmin
<1>2. ASSUME NEW p \in Procs, Abort(p) PROVE CredentialsInv'
  BY <1>2, FinishPreserves DEF Abort
<1>3. QED
  BY <1>1, <1>2, StartsPreserve, InsertPreserves, SelectExistingPreserves, UpdatePreserves,
    CommitPreserves DEF Next

\* E-mails stay apart in the table and between open transactions, rows are held
\* by one transaction, and what each request is about to write fits its row.
THEOREM Invariance == Spec => []CredentialsInv
BY InitInvariant, StepPreserves, PTL DEF Spec

\* The account of settings.ADMIN_EMAIL is an administrator's from the commit of
\* a worker that seeds until PUT /account takes role or e-mail away.
THEOREM SeededAdminStays == Spec => []SeededAdmin
<1>1. CredentialsInv => SeededAdmin
  BY DEF CredentialsInv
<1>2. QED
  BY <1>1, Invariance, PTL

\* Neither a sign-up nor a worker that seeds replaces a password, and a change by
\* the owner replaces the one that was given, or one set meanwhile.
THEOREM ReplacesKnown == Spec => ReplacedKnowingly
<1>1. ASSUME CredentialsInv, NEW p \in Procs,
             Commit(p), Writes(p, "password"), req[p].id \in DOMAIN rows
      PROVE  \/ req[p].op \in {"update_account", "reset"}
             \/ /\ req[p].op = "own_password"
                /\ rows[req[p].id].password = req[p].known \/ req[p].stale
  <2>1. Updates(p)
    BY <1>1 DEF CredentialsInv, TargetsExist, Creates, Commit, Writes, NoDraft
  <2>2. QED
    BY <1>1, <2>1 DEF Updates, CredentialsInv, OwnersKnew
<1>2. CredentialsInv =>
        \A p \in Procs :
          Commit(p) /\ Writes(p, "password") /\ req[p].id \in DOMAIN rows =>
            \/ req[p].op \in {"update_account", "reset"}
            \/ /\ req[p].op = "own_password"
               /\ rows[req[p].id].password = req[p].known \/ req[p].stale
  BY <1>1
<1>3. QED
  BY <1>2, Invariance, PTL DEF ReplacedKnowingly
=============================================================================
