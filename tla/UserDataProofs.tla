--------------------------- MODULE UserDataProofs ---------------------------
(***************************************************************************)
(* Proofs about Accounts, and about UserData and AdminReports beside it,   *)
(* for any number of workers, accounts, rows, requests and values of the   *)
(* fields: accounts hold what was asked, what accounts keep stays theirs,  *)
(* and what an admin reads adds up to what changed meanwhile.              *)
(***************************************************************************)
EXTENDS AdminReports, FiniteSums

-----------------------------------------------------------------------------
(***************************************************************************)
(* Accounts.                                                               *)
(***************************************************************************)

-----------------------------------------------------------------------------
(* The inductive invariant: what the table holds, and what a worker        *)
(* carries from one statement to the next.  Both are operators of values,  *)
(* so that lemmas about them speak of this state and of the next alike.    *)

\* What a change, of one's own or by an admin, may set.
Change == AdminChanges \cup {[password |-> q] : q \in Password}

\* A row that has the staff flag has the admin's role.
GoodRow(row) == row \in Row /\ (row.staff => row.role = "Admin")

TableOK(table, accepted) ==
  /\ table \in Seq(Row)
  /\ \A id \in DOMAIN table : GoodRow(table[id]) /\ Asks(id, table[id]) \subseteq accepted
  /\ \A i, j \in DOMAIN table : table[i].email = table[j].email => i = j

\* A copy that waits to be saved may be old, but it is a good row, all of whose
\* values were accepted, and nobody changes addresses.
JobOK(j, table, accepted) ==
  /\ j.pc \in {"create", "seed"} => GoodRow(j.row)
  /\ j.pc = "promote" => j.id \in DOMAIN table
  /\ j.pc = "get" => /\ j.id \in DOMAIN table /\ j.change \in Change
                     /\ j.known \subseteq Password \cup {NoPassword}
  /\ j.pc = "save" => /\ j.id \in DOMAIN table /\ j.change \in Change
                      /\ GoodRow(j.row) /\ j.row.email = table[j.id].email
                      /\ Asks(j.id, j.row) \subseteq accepted

AccountInv ==
  /\ TableOK(users, asked)
  /\ job = [w \in Worker |-> job[w]]
  /\ \A w \in Worker : JobOK(job[w], users, asked)
  /\ received \in 0..MAX_REQUESTS
  /\ dismissed \subseteq Ids

\* No account goes, or changes its address.
AddressesKept == Ids \subseteq Ids' /\ \A id \in Ids : users'[id].email = users[id].email

-----------------------------------------------------------------------------
(* Rows and changes of rows.                                               *)

\* A row made by create_user or get_or_create is good.
LEMMA NewUserGood ==
  ASSUME NEW e \in Email, NEW p \in Password \cup {NoPassword}, NEW n \in Profile, NEW role \in TypedRole,
         NEW staff \in BOOLEAN, staff => role = "Admin"
  PROVE  /\ GoodRow(NewUser(e, p, n, role, staff)) /\ NewUser(e, p, n, role, staff).email = e
         /\ NewUser(e, p, n, role, staff).role = role /\ NewUser(e, p, n, role, staff).staff = staff
  BY DEF GoodRow, NewUser, Row

\* So is that of seed_admin, of an admin with the flag.
LEMMA SeedRowGood == GoodRow(SeedRow) /\ SeedRow.role = "Admin" /\ SeedRow.staff
<1>1. /\ Normal[SEED_EMAIL] \in Email /\ SEED_PASSWORD \in Password \cup {NoPassword}
      /\ SEED_PROFILE \in Profile
  BY EmailAssumption, SeedAssumption
<1>2. "Admin" \in TypedRole /\ TRUE \in BOOLEAN
  BY DEF TypedRole, Role
<1>3. GoodRow(SeedRow)
  BY <1>1, <1>2, NewUserGood DEF SeedRow
<1>4. SeedRow.role = "Admin" /\ SeedRow.staff
  BY DEF SeedRow, NewUser
<1> QED  BY <1>3, <1>4

\* A row made by a login with Google is good, and that of a user.
LEMMA GoogleUserGood ==
  ASSUME NEW e \in Email, NEW n \in Profile
  PROVE  LET row == NewUser(e, NoPassword, n, "User", FALSE)
         IN  GoodRow(row) /\ row.email = e /\ row.role = "User" /\ ~row.staff
  BY DEF GoodRow, NewUser, Row, Role, TypedRole

\* A change sets a field to a value of its kind, the role with the staff flag,
\* and never the address.
LEMMA UpdatedGood ==
  ASSUME NEW row, GoodRow(row), NEW change \in Change
  PROVE  GoodRow(Updated(row, change)) /\ Updated(row, change).email = row.email
<1>1. row \in Row /\ DOMAIN row = {"email", "password", "profile", "role", "staff", "active"}
  BY DEF GoodRow, Row
<1>2. CASE \E n \in Profile : change = [profile |-> n]
  <2>1. PICK n \in Profile : change = [profile |-> n]  BY <1>2
  <2>2. Updated(row, change) = [row EXCEPT !.profile = n]
    BY <1>1, <2>1 DEF Updated, Row
  <2> QED  BY <1>1, <2>2 DEF GoodRow, Row
<1>3. CASE \E role \in Role : change = RoleChange(role)
  <2>0. PICK role \in Role : change = RoleChange(role)  BY <1>3
  <2> DEFINE staff == role = "Admin"
  <2>1. staff \in BOOLEAN /\ change = [role |-> role, staff |-> staff]  BY <2>0 DEF RoleChange
  <2> HIDE DEF staff
  <2>2. DOMAIN change = {"role", "staff"} /\ change.role = role /\ change.staff = staff
    BY <2>1
  <2>3. Updated(row, change) = [row EXCEPT !.role = role, !.staff = staff]
    BY <1>1, <2>2 DEF Updated, Row
  <2> QED  BY <1>1, <2>1, <2>3 DEF GoodRow, Row, TypedRole, staff
<1>4. CASE \E b \in BOOLEAN : change = [active |-> b]
  <2>1. PICK b \in BOOLEAN : change = [active |-> b]  BY <1>4
  <2>2. Updated(row, change) = [row EXCEPT !.active = b]
    BY <1>1, <2>1 DEF Updated, Row
  <2> QED  BY <1>1, <2>2 DEF GoodRow, Row
<1>5. CASE \E q \in Password : change = [password |-> q]
  <2>1. PICK q \in Password : change = [password |-> q]  BY <1>5
  <2>2. Updated(row, change) = [row EXCEPT !.password = q]
    BY <1>1, <2>1 DEF Updated, Row
  <2> QED  BY <1>1, <2>2 DEF GoodRow, Row
<1> QED  BY <1>2, <1>3, <1>4, <1>5 DEF Change, AdminChanges

\* Setting fields asks for no value that neither the copy nor the change has.
LEMMA UpdatedAsks ==
  ASSUME NEW id, NEW row, NEW change
  PROVE  Asks(id, Updated(row, change)) \subseteq Asks(id, row) \cup Asks(id, change)
  BY DEF Asks, Updated

-----------------------------------------------------------------------------
(* What the two writes of the table keep.                                  *)

\* A table that grew, or whose rows kept their addresses, serves a job as well.
LEMMA JobKept ==
  ASSUME NEW j, NEW table, NEW accepted, NEW tableN, NEW acceptedN,
         JobOK(j, table, accepted),
         DOMAIN table \subseteq DOMAIN tableN, accepted \subseteq acceptedN,
         \A id \in DOMAIN table : tableN[id].email = table[id].email
  PROVE  JobOK(j, tableN, acceptedN)
  BY DEF JobOK

\* An insert of a row with a new address, and of a whole row over another.
LEMMA InsertKeeps ==
  ASSUME NEW table, NEW accepted, TableOK(table, accepted), NEW row, GoodRow(row),
         \A id \in DOMAIN table : table[id].email # row.email
  PROVE  /\ TableOK(Append(table, row), accepted \cup Asks(Len(table) + 1, row))
         /\ DOMAIN table \subseteq DOMAIN Append(table, row)
         /\ \A id \in DOMAIN table : Append(table, row)[id] = table[id]
<1> DEFINE tableN == Append(table, row)
           acceptedN == accepted \cup Asks(Len(table) + 1, row)
<1>1. table \in Seq(Row) /\ row \in Row  BY DEF TableOK, GoodRow
<1>2. tableN \in Seq(Row) /\ DOMAIN tableN = DOMAIN table \cup {Len(table) + 1}
  BY <1>1
<1>3. /\ tableN[Len(table) + 1] = row
      /\ \A id \in DOMAIN table : tableN[id] = table[id] /\ id # Len(table) + 1
  BY <1>1
<1> QED  BY <1>2, <1>3 DEF TableOK

LEMMA OverwriteKeeps ==
  ASSUME NEW table, NEW accepted, TableOK(table, accepted),
         NEW id \in DOMAIN table, NEW row, GoodRow(row), row.email = table[id].email,
         NEW tableN, tableN = [table EXCEPT ![id] = row],
         NEW acceptedN, accepted \subseteq acceptedN, Asks(id, row) \subseteq acceptedN
  PROVE  /\ TableOK(tableN, acceptedN)
         /\ DOMAIN tableN = DOMAIN table
         /\ \A i \in DOMAIN table : tableN[i].email = table[i].email
<1>1. table \in Seq(Row) /\ row \in Row  BY DEF TableOK, GoodRow
<1>2. tableN \in Seq(Row) /\ DOMAIN tableN = DOMAIN table
  BY <1>1
<1>3. tableN[id] = row /\ \A i \in DOMAIN table \ {id} : tableN[i] = table[i]
  BY <1>1
<1> QED  BY <1>2, <1>3 DEF TableOK

-----------------------------------------------------------------------------
(* The invariant is kept.                                                  *)

LEMMA AccountsInit == Init => AccountInv
<1> SUFFICES ASSUME Init PROVE AccountInv
  OBVIOUS
<1>1. TableOK(users, asked)
  <2>1. TableOK(<< >>, {})
    BY DEF TableOK
  <2>2. TableOK(Append(<< >>, SeedRow), {} \cup Asks(Len(<< >>) + 1, SeedRow))
    <3>1. \A id \in DOMAIN << >> : << >>[id].email # SeedRow.email
      OBVIOUS
    <3> QED  BY ONLY <2>1, <3>1, InsertKeeps, SeedRowGood
  <2>3. Append(<< >>, SeedRow) = <<SeedRow>> /\ {} \cup Asks(Len(<< >>) + 1, SeedRow) = Asks(1, SeedRow)
    OBVIOUS
  <2> QED  BY <2>1, <2>2, <2>3 DEF Init
<1>2. \A w \in Worker : JobOK(job[w], users, asked)
  BY DEF Init, Idle, JobOK
<1> QED  BY <1>1, <1>2, BoundAssumption DEF Init, AccountInv

\* A worker goes on with another job and the table is kept.  Other services
\* share the workers: their jobs are none of those JobOK speaks of.
LEMMA JobStep ==
  ASSUME AccountInv, NEW w \in Worker, NEW j, JobOK(j, users, asked),
         job' = [job EXCEPT ![w] = j],
         received' \in 0..MAX_REQUESTS, UNCHANGED <<users, asked, dismissed>>
  PROVE  AccountInv' /\ AddressesKept
<1>1. job' = [v \in Worker |-> job'[v]]
  BY DEF AccountInv
<1>2. \A v \in Worker : JobOK(job'[v], users, asked)
  BY DEF AccountInv
<1> QED  BY <1>1, <1>2 DEF AccountInv, AddressesKept, Ids

\* The table is written and the other workers go on as they were.
LEMMA WriteStep ==
  ASSUME AccountInv, TableOK(users, asked)',
         DOMAIN users \subseteq DOMAIN users', asked \subseteq asked',
         \A id \in DOMAIN users : users'[id].email = users[id].email,
         job' = [v \in Worker |-> job'[v]],
         \A v \in Worker : job'[v] = job[v] \/ job'[v] = Idle,
         received' \in 0..MAX_REQUESTS, dismissed' \subseteq Ids
  PROVE  AccountInv' /\ AddressesKept
<1>1. \A v \in Worker : JobOK(job'[v], users', asked')
  <2> SUFFICES ASSUME NEW v \in Worker PROVE JobOK(job'[v], users', asked')
    OBVIOUS
  <2>1. JobOK(Idle, users', asked')
    BY DEF JobOK, Idle
  <2>2. JobOK(job[v], users, asked)
    BY DEF AccountInv
  <2>3. JobOK(job[v], users', asked')
    BY <2>2, JobKept
  <2> QED  BY <2>1, <2>3
<1> QED  BY <1>1 DEF AccountInv, AddressesKept, Ids

\* A request taken is counted within the bound.
LEMMA TakeStep ==
  ASSUME AccountInv, NEW w \in Worker, NEW j, JobOK(j, users, asked), Take(w, j),
         UNCHANGED <<users, asked, dismissed>>
  PROVE  AccountInv' /\ AddressesKept
<1>1. job' = [job EXCEPT ![w] = j] /\ received' \in 0..MAX_REQUESTS
  BY BoundAssumption DEF Take, AccountInv
<1> QED  BY <1>1, JobStep

\* A row with a free address is inserted.
LEMMA InsertStep ==
  ASSUME AccountInv, NEW row, GoodRow(row), ~EmailTaken(row.email), Insert(row),
         job' = [v \in Worker |-> job'[v]],
         \A v \in Worker : job'[v] = job[v] \/ job'[v] = Idle,
         received' \in 0..MAX_REQUESTS, dismissed' = dismissed
  PROVE  AccountInv' /\ AddressesKept
<1>1. TableOK(users, asked) /\ \A id \in DOMAIN users : users[id].email # row.email
  BY DEF AccountInv, EmailTaken, Ids
<1>2. users' = Append(users, row) /\ asked' = asked \cup Asks(Len(users) + 1, row)
  BY DEF Insert
<1>3. /\ TableOK(Append(users, row), asked \cup Asks(Len(users) + 1, row))
      /\ DOMAIN users \subseteq DOMAIN Append(users, row)
      /\ \A id \in DOMAIN users : Append(users, row)[id] = users[id]
  BY <1>1, InsertKeeps
<1>4. /\ TableOK(users', asked')
      /\ DOMAIN users \subseteq DOMAIN users' /\ asked \subseteq asked'
      /\ \A id \in DOMAIN users : users'[id] = users[id]
  BY <1>2, <1>3
<1> QED  BY <1>4, WriteStep DEF AccountInv, AddressesKept, Ids

\* A row is replaced by one whose values were all accepted for it.
LEMMA OverwriteStep ==
  ASSUME AccountInv, NEW id \in Ids, NEW row, GoodRow(row), row.email = users[id].email,
         users' = [users EXCEPT ![id] = row],
         asked \subseteq asked', Asks(id, row) \subseteq asked',
         job' = [v \in Worker |-> job'[v]],
         \A v \in Worker : job'[v] = job[v] \/ job'[v] = Idle,
         received' \in 0..MAX_REQUESTS, dismissed' \subseteq Ids
  PROVE  AccountInv' /\ AddressesKept
<1>1. /\ TableOK(users, asked)'
      /\ DOMAIN users' = DOMAIN users
      /\ \A i \in DOMAIN users : users'[i].email = users[i].email
  BY OverwriteKeeps DEF AccountInv, AddressesKept, Ids
<1> QED  BY <1>1, WriteStep

LEMMA AccountsStep == AccountInv /\ [Next]_vars => AccountInv' /\ AddressesKept
<1> SUFFICES ASSUME AccountInv, [Next]_vars PROVE AccountInv' /\ AddressesKept
  OBVIOUS
<1> USE DEF Ids
<1>0. /\ TableOK(users, asked) /\ received \in 0..MAX_REQUESTS /\ dismissed \subseteq Ids
      /\ job = [v \in Worker |-> job[v]] /\ \A v \in Worker : JobOK(job[v], users, asked)
  BY DEF AccountInv
<1>1. ASSUME NEW w \in Worker, SeedAdmin(w) PROVE AccountInv' /\ AddressesKept
  <2>1. PICK j : JobOK(j, users, asked) /\ Take(w, j)
    <3>1. CASE Take(w, [pc |-> "seed", row |-> SeedRow])
      <4>1. JobOK([pc |-> "seed", row |-> SeedRow], users, asked)
        BY SeedRowGood DEF JobOK
      <4> QED  BY <3>1, <4>1
    <3>2. CASE \E id \in Ids : Take(w, [pc |-> "promote", id |-> id])
      <4>1. PICK id \in Ids : Take(w, [pc |-> "promote", id |-> id])
        BY <3>2
      <4>2. JobOK([pc |-> "promote", id |-> id], users, asked)
        BY DEF JobOK
      <4> QED  BY <4>1, <4>2
    <3> QED  BY <1>1, <3>1, <3>2 DEF SeedAdmin
  <2> QED  BY <1>1, <2>1, TakeStep DEF SeedAdmin
<1>11. ASSUME NEW w \in Worker, Seed(w) PROVE AccountInv' /\ AddressesKept
  <2>1. GoodRow(job[w].row)
    BY <1>0, <1>11 DEF Seed, JobOK
  <2>2. /\ job' = [v \in Worker |-> job'[v]] /\ \A v \in Worker : job'[v] = job[v] \/ job'[v] = Idle
        /\ received' \in 0..MAX_REQUESTS /\ dismissed' = dismissed
    BY <1>0, <1>11 DEF Seed
  <2>3. CASE EmailTaken(job[w].row.email)
    BY <1>0, <1>11, <2>2, <2>3, WriteStep DEF Seed
  <2>4. CASE ~EmailTaken(job[w].row.email)
    BY <1>11, <2>1, <2>2, <2>4, InsertStep DEF Seed
  <2> QED  BY <2>3, <2>4
<1>12. ASSUME NEW w \in Worker, Promote(w) PROVE AccountInv' /\ AddressesKept
  <2> DEFINE id == job[w].id
             row == [users[id] EXCEPT !.role = "Admin", !.staff = TRUE]
  <2>1. /\ job' = [v \in Worker |-> job'[v]] /\ \A v \in Worker : job'[v] = job[v] \/ job'[v] = Idle
        /\ received' \in 0..MAX_REQUESTS /\ dismissed' = dismissed
    BY <1>0, <1>12 DEF Promote
  <2>2. /\ id \in Ids
        /\ users' = [users EXCEPT ![id].role = "Admin", ![id].staff = TRUE]
        /\ asked' = asked \cup Asks(id, [role |-> "Admin", staff |-> TRUE])
    BY <1>0, <1>12 DEF Promote, JobOK
  <2> HIDE DEF id
  <2>3. GoodRow(users[id]) /\ Asks(id, users[id]) \subseteq asked
    BY <1>0, <2>2 DEF TableOK
  <2>4. GoodRow(row) /\ row.email = users[id].email
    BY <2>3 DEF GoodRow, Row, Role, TypedRole
  <2>5. Asks(id, row) \subseteq asked'
    BY <2>2, <2>3 DEF Asks, GoodRow, Row
  <2>6. users' = [users EXCEPT ![id] = row]
    BY <2>2, <1>0 DEF TableOK
  <2> HIDE DEF row
  <2> QED  BY <1>0, <2>1, <2>2, <2>4, <2>5, <2>6, OverwriteStep
<1>2. ASSUME NEW w \in Worker, NEW e \in Email, NEW p \in Password, NEW n \in Profile,
             NEW role \in TypedRole, Register(w, e, p, n, role)
      PROVE  AccountInv' /\ AddressesKept
  <2> DEFINE j == IF EmailTaken(e) THEN Idle
                  ELSE [pc |-> "create", typed |-> [email |-> e, password |-> p, role |-> role],
                        row |-> NewUser(Normal[e], p, n, role, FALSE)]
  <2>1. GoodRow(NewUser(Normal[e], p, n, role, FALSE))
    BY NewUserGood, EmailAssumption
  <2>2. JobOK(j, users, asked)
    BY <2>1 DEF JobOK, Idle
  <2>3. Take(w, j) /\ UNCHANGED <<users, asked, dismissed>>
    BY <1>2 DEF Register
  <2> HIDE DEF j
  <2> QED  BY <2>2, <2>3, TakeStep
<1>3. ASSUME NEW w \in Worker, Create(w) PROVE AccountInv' /\ AddressesKept
  <2>1. GoodRow(job[w].row)
    BY <1>0, <1>3 DEF Create, JobOK
  <2>2. /\ job' = [v \in Worker |-> job'[v]] /\ \A v \in Worker : job'[v] = job[v] \/ job'[v] = Idle
        /\ received' \in 0..MAX_REQUESTS /\ dismissed' = dismissed
    BY <1>0, <1>3 DEF Create
  <2>3. CASE EmailTaken(job[w].row.email)
    <3>1. UNCHANGED <<users, asked, dismissed>>
      BY <1>3, <2>3 DEF Create
    <3> QED  BY <1>0, <2>2, <3>1, WriteStep
  <2>4. CASE ~EmailTaken(job[w].row.email)
    <3>1. Insert(job[w].row)
      BY <1>3, <2>4 DEF Create
    <3> QED  BY <2>1, <2>2, <2>4, <3>1, InsertStep
  <2> QED  BY <2>3, <2>4
<1>4. ASSUME NEW w \in Worker, NEW e \in Email, NEW n \in Profile, GoogleLogin(w, e, n)
      PROVE  AccountInv' /\ AddressesKept
  <2>1. Take(w, Idle) /\ dismissed' = dismissed
    BY <1>4 DEF GoogleLogin
  <2>2. /\ job' = [v \in Worker |-> job'[v]] /\ \A v \in Worker : job'[v] = job[v] \/ job'[v] = Idle
        /\ received' \in 0..MAX_REQUESTS
    BY <1>0, <2>1, BoundAssumption DEF Take
  <2>3. CASE EmailTaken(e)
    <3>1. UNCHANGED <<users, asked>>
      BY <1>4, <2>3 DEF GoogleLogin
    <3>2. JobOK(Idle, users, asked)
      BY DEF JobOK, Idle
    <3> QED  BY <2>1, <3>1, <3>2, TakeStep
  <2>4. CASE ~EmailTaken(e)
    <3>1. Insert(NewUser(e, NoPassword, n, "User", FALSE))
      BY <1>4, <2>4 DEF GoogleLogin
    <3>2. GoodRow(NewUser(e, NoPassword, n, "User", FALSE)) /\ NewUser(e, NoPassword, n, "User", FALSE).email = e
      BY GoogleUserGood
    <3> QED  BY <2>1, <2>2, <2>4, <3>1, <3>2, InsertStep
  <2> QED  BY <2>3, <2>4
<1>5. ASSUME NEW w \in Worker, NEW id \in Ids, NEW n \in Profile, UpdateProfile(w, id, n)
      PROVE  AccountInv' /\ AddressesKept
  <2> DEFINE j == [pc |-> "save", id |-> id, row |-> users[id], change |-> [profile |-> n]]
  <2>1. GoodRow(users[id]) /\ Asks(id, users[id]) \subseteq asked
    BY <1>0 DEF TableOK
  <2>2. [profile |-> n] \in Change
    BY DEF Change, AdminChanges
  <2>3. JobOK(j, users, asked)
    BY <2>1, <2>2 DEF JobOK
  <2>4. Take(w, j) /\ UNCHANGED <<users, asked, dismissed>>
    BY <1>5 DEF UpdateProfile
  <2> HIDE DEF j
  <2> QED  BY <2>3, <2>4, TakeStep
<1>6. ASSUME NEW w \in Worker, NEW id \in Ids, NEW p \in Password, NEW q \in Password,
             ChangePassword(w, id, p, q)
      PROVE  AccountInv' /\ AddressesKept
  <2> DEFINE j == [pc |-> "get", id |-> id, known |-> {p}, change |-> [password |-> q]]
  <2>1. JobOK(j, users, asked)
    BY DEF JobOK, Change
  <2>2. Take(w, j) /\ UNCHANGED <<users, asked, dismissed>>
    BY <1>6 DEF ChangePassword
  <2> HIDE DEF j
  <2> QED  BY <2>1, <2>2, TakeStep
<1>7. ASSUME NEW w \in Worker, NEW caller \in Ids, NEW id \in Ids, NEW change \in AdminChanges,
             ChangeByAdmin(w, caller, id, change)
      PROVE  AccountInv' /\ AddressesKept
  <2> DEFINE j == [pc |-> "get", id |-> id, known |-> Password \cup {NoPassword}, change |-> change]
  <2>1. JobOK(j, users, asked)
    BY DEF JobOK, Change
  <2>2. Take(w, j) /\ UNCHANGED <<users, asked, dismissed>>
    BY <1>7 DEF ChangeByAdmin
  <2> HIDE DEF j
  <2> QED  BY <2>1, <2>2, TakeStep
<1>8. ASSUME NEW w \in Worker, Get(w) PROVE AccountInv' /\ AddressesKept
  <2> DEFINE row == users[job[w].id]
             j == IF row.password \notin job[w].known THEN Idle
                  ELSE [pc |-> "save", id |-> job[w].id, row |-> row, change |-> job[w].change]
  <2>1. job[w].id \in Ids /\ job[w].change \in Change
    BY <1>0, <1>8 DEF Get, JobOK
  <2>2. GoodRow(row) /\ Asks(job[w].id, row) \subseteq asked
    BY <1>0, <2>1 DEF TableOK
  <2>3. JobOK(j, users, asked)
    BY <2>1, <2>2 DEF JobOK, Idle
  <2>4. job' = [job EXCEPT ![w] = j] /\ UNCHANGED <<users, received, asked, dismissed>>
    BY <1>8 DEF Get
  <2> HIDE DEF j
  <2> QED  BY <1>0, <2>3, <2>4, JobStep
<1>9. ASSUME NEW w \in Worker, Save(w) PROVE AccountInv' /\ AddressesKept
  <2> DEFINE j == job[w]
  <2>1. /\ j.id \in Ids /\ j.change \in Change /\ GoodRow(j.row)
        /\ j.row.email = users[j.id].email /\ Asks(j.id, j.row) \subseteq asked
    BY <1>0, <1>9 DEF Save, JobOK
  <2>2. /\ users' = [users EXCEPT ![j.id] = Saved(j)] /\ asked' = asked \cup Asks(j.id, j.change)
        /\ dismissed' \subseteq dismissed \cup {j.id}
        /\ job' = [job EXCEPT ![w] = Idle] /\ received' = received
    BY <1>9 DEF Save
  <2>3. GoodRow(Saved(j)) /\ Saved(j).email = users[j.id].email
    BY <2>1, UpdatedGood DEF Saved
  <2>4. Asks(j.id, Saved(j)) \subseteq asked' /\ asked \subseteq asked'
    BY <2>1, <2>2, UpdatedAsks DEF Saved
  <2>5. job' = [v \in Worker |-> job'[v]] /\ \A v \in Worker : job'[v] = job[v] \/ job'[v] = Idle
    BY <1>0, <2>2
  <2> HIDE DEF j
  <2> QED  BY <1>0, <2>1, <2>2, <2>3, <2>4, <2>5, OverwriteStep
<1>10. CASE UNCHANGED vars
  BY <1>0, <1>10 DEF vars, AccountInv, AddressesKept
<1> QED
  BY <1>1, <1>2, <1>3, <1>4, <1>5, <1>6, <1>7, <1>8, <1>9, <1>10, <1>11, <1>12 DEF Next

\* What the invariant says of the properties.
LEMMA AccountsImplied == AccountInv => TypeOK /\ ValuesAsked /\ OneAccountPerEmail
<1> SUFFICES ASSUME AccountInv PROVE TypeOK /\ ValuesAsked /\ OneAccountPerEmail
  OBVIOUS
<1>1. ASSUME NEW w \in Worker, job[w].pc = "save" PROVE job[w].id \in Ids /\ Saved(job[w]) \in Row
  BY <1>1, UpdatedGood DEF AccountInv, JobOK, Saved, GoodRow, Ids
<1>2. TypeOK
  BY <1>1 DEF AccountInv, TableOK, JobOK, GoodRow, TypeOK, Ids
<1>3. ValuesAsked /\ OneAccountPerEmail
  BY DEF AccountInv, TableOK, GoodRow, ValuesAsked, OneAccountPerEmail, Ids
<1> QED  BY <1>2, <1>3

-----------------------------------------------------------------------------
(* A statement writes one row, and leaves the other workers where they are. *)

\* But for one row, the table is as it was.
OneRowWritten ==
  \E x : \A id \in (Ids \cup Ids') \ {x} : id \in Ids \cap Ids' /\ users'[id] = users[id]

LEMMA RowAppended ==
  ASSUME users \in Seq(Row), NEW row \in Row, users' = Append(users, row)
  PROVE  OneRowWritten
<1>1. DOMAIN users' = DOMAIN users \cup {Len(users) + 1}
  OBVIOUS
<1>2. \A id \in DOMAIN users : users'[id] = users[id]
  OBVIOUS
<1>3. \A id \in (Ids \cup Ids') \ {Len(users) + 1} : id \in Ids \cap Ids' /\ users'[id] = users[id]
  BY <1>1, <1>2 DEF Ids
<1> QED  BY <1>3 DEF OneRowWritten

LEMMA RowReplaced ==
  ASSUME users \in Seq(Row), NEW x \in Ids, NEW row, users' = [users EXCEPT ![x] = row]
  PROVE  OneRowWritten
<1>1. Ids' = Ids /\ \A id \in Ids \ {x} : users'[id] = users[id]
  BY DEF Ids
<1>2. \A id \in (Ids \cup Ids') \ {x} : id \in Ids \cap Ids' /\ users'[id] = users[id]
  BY <1>1
<1> QED  BY <1>2 DEF OneRowWritten

\* The states between the statements that Accounts models.
Accounting == {"idle", "create", "seed", "promote", "get", "save"}

LEMMA StatementByStatement ==
  AccountInv /\ Next =>
    /\ UNCHANGED users \/ OneRowWritten
    /\ \A v \in Worker : job'[v] = job[v] \/ job'[v].pc \in Accounting
<1> SUFFICES ASSUME AccountInv, Next
             PROVE  /\ UNCHANGED users \/ OneRowWritten
                    /\ \A v \in Worker : job'[v] = job[v] \/ job'[v].pc \in Accounting
  OBVIOUS
<1>0. /\ users \in Seq(Row) /\ job = [v \in Worker |-> job[v]]
      /\ \A v \in Worker : JobOK(job[v], users, asked)
  BY DEF AccountInv, TableOK
<1> USE DEF Ids, Accounting
<1>2. ASSUME NEW w \in Worker, NEW j, j.pc \in Accounting, job' = [job EXCEPT ![w] = j]
      PROVE  \A v \in Worker : job'[v] = job[v] \/ job'[v].pc \in Accounting
  BY <1>0, <1>2
<1>1. ASSUME NEW w \in Worker, SeedAdmin(w)
      PROVE  UNCHANGED users /\ \A v \in Worker : job'[v] = job[v] \/ job'[v].pc \in Accounting
  <2>0. UNCHANGED users
    BY <1>1 DEF SeedAdmin
  <2>1. \A v \in Worker : v # w => job'[v] = job[v]
    BY <1>0, <1>1 DEF SeedAdmin, Take
  <2>2. job'[w].pc \in {"seed", "promote"}
    <3>1. CASE Take(w, [pc |-> "seed", row |-> SeedRow])
      BY <1>0, <3>1 DEF Take
    <3>2. ASSUME NEW id \in Ids, Take(w, [pc |-> "promote", id |-> id])
          PROVE  job'[w].pc \in {"seed", "promote"}
      BY <1>0, <3>2 DEF Take
    <3> QED  BY <1>1, <3>1, <3>2 DEF SeedAdmin
  <2> QED  BY <2>0, <2>1, <2>2
<1>11. ASSUME NEW w \in Worker, Seed(w)
       PROVE  /\ UNCHANGED users \/ OneRowWritten
              /\ \A v \in Worker : job'[v] = job[v] \/ job'[v].pc \in Accounting
  <2>1. job[w].row \in Row
    BY <1>0, <1>11 DEF Seed, JobOK, GoodRow
  <2>2. users' = users \/ users' = Append(users, job[w].row)
    BY <1>11 DEF Seed, Insert
  <2>3. job' = [job EXCEPT ![w] = Idle] /\ Idle.pc \in Accounting
    BY <1>11 DEF Seed, Idle
  <2> QED  BY <1>0, <1>2, <2>1, <2>2, <2>3, RowAppended
<1>12. ASSUME NEW w \in Worker, Promote(w)
       PROVE  OneRowWritten /\ \A v \in Worker : job'[v] = job[v] \/ job'[v].pc \in Accounting
  <2> DEFINE id == job[w].id
             row == [users[id] EXCEPT !.role = "Admin", !.staff = TRUE]
  <2>1. id \in Ids
    BY <1>0, <1>12 DEF Promote, JobOK
  <2>2. users' = [users EXCEPT ![id] = row]
    BY <1>0, <1>12 DEF Promote
  <2>3. job' = [job EXCEPT ![w] = Idle] /\ Idle.pc \in Accounting
    BY <1>12 DEF Promote, Idle
  <2> HIDE DEF id, row
  <2> QED  BY <1>0, <1>2, <2>1, <2>2, <2>3, RowReplaced
<1>3. ASSUME NEW w \in Worker, NEW e \in Email, NEW p \in Password, NEW n \in Profile,
             NEW role \in TypedRole, Register(w, e, p, n, role)
      PROVE  UNCHANGED users /\ \A v \in Worker : job'[v] = job[v] \/ job'[v].pc \in Accounting
  BY <1>0, <1>3 DEF Register, Take, Idle
<1>4. ASSUME NEW w \in Worker, Create(w)
      PROVE  /\ UNCHANGED users \/ OneRowWritten
             /\ \A v \in Worker : job'[v] = job[v] \/ job'[v].pc \in Accounting
  <2>1. job[w].row \in Row
    BY <1>0, <1>4 DEF Create, JobOK, GoodRow
  <2>2. users' = users \/ users' = Append(users, job[w].row)
    BY <1>4 DEF Create, Insert
  <2>3. job' = [job EXCEPT ![w] = Idle] /\ Idle.pc \in Accounting
    BY <1>4 DEF Create, Idle
  <2> QED  BY <1>0, <1>2, <2>1, <2>2, <2>3, RowAppended
<1>5. ASSUME NEW w \in Worker, NEW e \in Email, NEW n \in Profile, GoogleLogin(w, e, n)
      PROVE  /\ UNCHANGED users \/ OneRowWritten
             /\ \A v \in Worker : job'[v] = job[v] \/ job'[v].pc \in Accounting
  <2>1. NewUser(e, NoPassword, n, "User", FALSE) \in Row
    BY GoogleUserGood DEF GoodRow
  <2>2. users' = users \/ users' = Append(users, NewUser(e, NoPassword, n, "User", FALSE))
    BY <1>5 DEF GoogleLogin, Insert
  <2>3. job' = [job EXCEPT ![w] = Idle] /\ Idle.pc \in Accounting
    BY <1>5 DEF GoogleLogin, Take, Idle
  <2> QED  BY <1>0, <1>2, <2>1, <2>2, <2>3, RowAppended
<1>6. ASSUME NEW w \in Worker, NEW id \in Ids, NEW n \in Profile, UpdateProfile(w, id, n)
      PROVE  UNCHANGED users /\ \A v \in Worker : job'[v] = job[v] \/ job'[v].pc \in Accounting
  BY <1>0, <1>6 DEF UpdateProfile, Take
<1>7. ASSUME NEW w \in Worker, NEW id \in Ids, NEW p \in Password, NEW q \in Password,
             ChangePassword(w, id, p, q)
      PROVE  UNCHANGED users /\ \A v \in Worker : job'[v] = job[v] \/ job'[v].pc \in Accounting
  BY <1>0, <1>7 DEF ChangePassword, Take
<1>8. ASSUME NEW w \in Worker, NEW caller \in Ids, NEW id \in Ids, NEW change \in AdminChanges,
             ChangeByAdmin(w, caller, id, change)
      PROVE  UNCHANGED users /\ \A v \in Worker : job'[v] = job[v] \/ job'[v].pc \in Accounting
  BY <1>0, <1>8 DEF ChangeByAdmin, Take
<1>9. ASSUME NEW w \in Worker, Get(w)
      PROVE  UNCHANGED users /\ \A v \in Worker : job'[v] = job[v] \/ job'[v].pc \in Accounting
  BY <1>0, <1>9 DEF Get, Idle
<1>10. ASSUME NEW w \in Worker, Save(w)
       PROVE  OneRowWritten /\ \A v \in Worker : job'[v] = job[v] \/ job'[v].pc \in Accounting
  <2>1. job[w].id \in Ids
    BY <1>0, <1>10 DEF Save, JobOK
  <2>2. users' = [users EXCEPT ![job[w].id] = Saved(job[w])]
    BY <1>10 DEF Save
  <2>3. job' = [job EXCEPT ![w] = Idle] /\ Idle.pc \in Accounting
    BY <1>10 DEF Save, Idle
  <2> QED  BY <1>0, <1>2, <2>1, <2>2, <2>3, RowReplaced
<1> QED  BY <1>1, <1>3, <1>4, <1>5, <1>6, <1>7, <1>8, <1>9, <1>10, <1>11, <1>12 DEF Next

-----------------------------------------------------------------------------
(* The theorems.                                                           *)

THEOREM AccountsInvariant == Spec => []AccountInv
  BY AccountsInit, AccountsStep, PTL DEF Spec

\* The rows and the jobs are of their kinds in every state.
THEOREM AccountsTyped == Spec => []TypeOK
  BY AccountsInvariant, AccountsImplied, PTL

\* A field of an account only ever holds a value accepted for that field of that
\* account, whichever whole rows are saved over one another.  (every user.save())
THEOREM FieldsHoldWhatWasAsked == Spec => []ValuesAsked
  BY AccountsInvariant, AccountsImplied, PTL

\* However registrations race, an address belongs to one account.
\* (RegisterCommandHandler.handle)
THEOREM AddressesAreUnique == Spec => []OneAccountPerEmail
  BY AccountsInvariant, AccountsImplied, PTL

\* No step removes an account or changes its address: the key that a worker
\* read stays that of the same person.  (the saves of auth_views.py)
THEOREM AddressesStay == Spec => [][AddressesKept]_vars
<1>1. AccountInv /\ [Next]_vars => [AddressesKept]_vars
  BY AccountsStep
<1> QED  BY <1>1, AccountsInvariant, PTL DEF Spec

-----------------------------------------------------------------------------
(* What was registered: the addresses typed, and the roles.                *)

\* A row has one of the two roles and the flag that goes with it, or the role
\* that was registered and no flag.
Explained(id, row, known) ==
  \/ row.role \in Role /\ (row.staff <=> row.role = "Admin")
  \/ ~row.staff /\ \E r \in known : r[1] = id /\ r[2].role = row.role

\* What was typed is known by its normal spelling while the row waits to be
\* inserted, and a stale copy has a role as good as that of its row.
RegistrationJob(j, known) ==
  /\ j.pc = "create" => /\ j.row.email = Normal[j.typed.email]
                        /\ j.row.role = j.typed.role /\ ~j.row.staff
  /\ j.pc = "seed" => j.row.role = "Admin" /\ j.row.staff
  /\ j.pc = "save" => Explained(j.id, j.row, known)

RegistrationInv ==
  /\ \A r \in registered : r[1] \in Ids /\ users[r[1]].email = Normal[r[2].email]
  /\ \A id \in Ids : Explained(id, users[id], registered)
  /\ \A w \in Worker : RegistrationJob(job[w], registered)

\* RegisteredCanLogIn, which fails for addresses that are not stored as typed,
\* with the address as stored.
RegisteredCanLogInAsStored ==
  \A r \in registered :
    (\A v \in asked : v[1] = r[1] => /\ v[2] = "password" => v[3] = r[2].password
                                     /\ v[2] = "active" => v[3])
      => r[1] \in LoginFinds(Normal[r[2].email], r[2].password)

\* Every change sets role and flag together, or neither.
LEMMA UpdatedExplained ==
  ASSUME NEW id, NEW row, GoodRow(row), NEW change \in Change, NEW known, Explained(id, row, known)
  PROVE  Explained(id, Updated(row, change), known)
<1>1. DOMAIN row = {"email", "password", "profile", "role", "staff", "active"}
  BY DEF GoodRow, Row
<1>2. CASE \E role \in Role : change = RoleChange(role)
  <2>1. PICK role \in Role : change = RoleChange(role)
    BY <1>2
  <2>2. DOMAIN change = {"role", "staff"} /\ change.role = role /\ (change.staff <=> role = "Admin")
    BY <2>1 DEF RoleChange
  <2>3. Updated(row, change).role = role /\ (Updated(row, change).staff <=> role = "Admin")
    BY <1>1, <2>2 DEF Updated
  <2> QED  BY <2>3 DEF Explained
<1>3. CASE ~\E role \in Role : change = RoleChange(role)
  <2>1. {"role", "staff"} \cap DOMAIN change = {}
    BY <1>3 DEF Change, AdminChanges
  <2>2. Updated(row, change).role = row.role /\ Updated(row, change).staff = row.staff
    BY <1>1, <2>1 DEF Updated
  <2> QED  BY <2>2 DEF Explained
<1> QED  BY <1>2, <1>3

\* A step that registers nobody, whose jobs and rows have roles as good as the
\* ones before.
LEMMA NothingRegistered ==
  ASSUME RegistrationInv, AddressesKept, registered' = registered,
         \A id \in Ids' : (id \in Ids /\ users'[id] = users[id]) \/ Explained(id, users'[id], registered),
         \A w \in Worker : job'[w] = job[w] \/ RegistrationJob(job'[w], registered)
  PROVE  RegistrationInv'
<1>1. \A id \in Ids' : Explained(id, users'[id], registered')
  BY DEF RegistrationInv
<1>2. \A w \in Worker : RegistrationJob(job'[w], registered')
  BY DEF RegistrationInv
<1> QED  BY <1>1, <1>2 DEF RegistrationInv, AddressesKept

\* The same, with the rows as they were.
LEMMA NobodyRegistered ==
  ASSUME RegistrationInv, AddressesKept, UNCHANGED <<users, registered>>,
         \A w \in Worker : job'[w] = job[w] \/ RegistrationJob(job'[w], registered)
  PROVE  RegistrationInv'
  BY NothingRegistered DEF Ids

\* A row appended has a role that the flag follows.
LEMMA AppendedRegistersNobody ==
  ASSUME RegistrationInv, AddressesKept, registered' = registered, users \in Seq(Row),
         NEW row, row \in Row, row.role \in Role, row.staff <=> row.role = "Admin",
         users' = Append(users, row),
         \A w \in Worker : job'[w] = job[w] \/ RegistrationJob(job'[w], registered)
  PROVE  RegistrationInv'
<1>1. ASSUME NEW id \in Ids'
      PROVE  (id \in Ids /\ users'[id] = users[id]) \/ Explained(id, users'[id], registered)
  <2>1. (id \in Ids /\ users'[id] = users[id]) \/ users'[id] = row
    BY DEF Ids
  <2> QED  BY <2>1 DEF Explained
<1> QED  BY <1>1, NothingRegistered

LEMMA IdleRegisters == \A known : RegistrationJob(Idle, known)
  BY DEF RegistrationJob, Idle

LEMMA RegistrationStep ==
  AccountInv /\ RegistrationInv /\ [Next]_vars => RegistrationInv'
<1> SUFFICES ASSUME AccountInv, RegistrationInv, [Next]_vars PROVE RegistrationInv'
  OBVIOUS
<1>0. /\ AddressesKept /\ job = [v \in Worker |-> job[v]] /\ users \in Seq(Row)
      /\ \A v \in Worker : JobOK(job[v], users, asked) /\ RegistrationJob(job[v], registered)
      /\ \A id \in Ids : Explained(id, users[id], registered)
  BY AccountsStep DEF AccountInv, TableOK, RegistrationInv
<1>00. ASSUME NEW w \in Worker, NEW j, job' = [job EXCEPT ![w] = j]
       PROVE  /\ job'[w] = j
              /\ \A v \in Worker : job'[v] = job[v] \/ job'[v] = j
  BY <1>0, <1>00
<1>1. ASSUME NEW w \in Worker, SeedAdmin(w) PROVE RegistrationInv'
  <2>1. PICK j : /\ job' = [job EXCEPT ![w] = j]
                 /\ j = [pc |-> "seed", row |-> SeedRow] \/ \E id \in Ids : j = [pc |-> "promote", id |-> id]
    BY <1>1 DEF SeedAdmin, Take
  <2>2. RegistrationJob(j, registered)
    BY <2>1, SeedRowGood DEF RegistrationJob
  <2> QED  BY <1>0, <1>00, <1>1, <2>1, <2>2, NobodyRegistered DEF SeedAdmin
<1>2. ASSUME NEW w \in Worker, Seed(w) PROVE RegistrationInv'
  <2>1. \A v \in Worker : job'[v] = job[v] \/ RegistrationJob(job'[v], registered)
    BY <1>0, <1>00, <1>2, IdleRegisters DEF Seed
  <2>2. CASE EmailTaken(job[w].row.email)
    BY <1>0, <1>2, <2>1, <2>2, NobodyRegistered DEF Seed
  <2>3. CASE ~EmailTaken(job[w].row.email)
    <3>1. users' = Append(users, job[w].row) /\ registered' = registered
      BY <1>2, <2>3 DEF Seed, Insert
    <3>2. job[w].row \in Row /\ job[w].row.role = "Admin" /\ job[w].row.staff
      BY <1>0, <1>2 DEF Seed, RegistrationJob, JobOK, GoodRow
    <3> QED  BY <1>0, <2>1, <3>1, <3>2, AppendedRegistersNobody DEF Role
  <2> QED  BY <2>2, <2>3
<1>3. ASSUME NEW w \in Worker, Promote(w) PROVE RegistrationInv'
  <2> DEFINE id == job[w].id
  <2>1. id \in Ids /\ users' = [users EXCEPT ![id].role = "Admin", ![id].staff = TRUE]
    BY <1>0, <1>3 DEF Promote, JobOK, Ids
  <2> HIDE DEF id
  <2>2. /\ Ids' = Ids /\ \A i \in Ids \ {id} : users'[i] = users[i]
        /\ users'[id].role = "Admin" /\ users'[id].staff
    <3>1. users[id] \in Row
      BY <1>0, <2>1 DEF Ids
    <3> QED  BY <1>0, <2>1, <3>1 DEF Ids, Row
  <2>3. Explained(id, users'[id], registered)
    BY <2>2 DEF Explained, Role
  <2>4. job' = [job EXCEPT ![w] = Idle] /\ registered' = registered
    BY <1>3 DEF Promote
  <2> QED  BY <1>0, <1>00, <2>2, <2>3, <2>4, IdleRegisters, NothingRegistered
<1>4. ASSUME NEW w \in Worker, NEW e \in Email, NEW p \in Password, NEW n \in Profile,
             NEW role \in TypedRole, Register(w, e, p, n, role)
      PROVE  RegistrationInv'
  <2> DEFINE row == NewUser(Normal[e], p, n, role, FALSE)
             typed == [email |-> e, password |-> p, role |-> role]
             j == IF EmailTaken(e) THEN Idle ELSE [pc |-> "create", typed |-> typed, row |-> row]
  <2>1. job' = [job EXCEPT ![w] = j] /\ UNCHANGED <<users, registered>>
    BY <1>4 DEF Register, Take
  <2>2. row.email = Normal[typed.email] /\ row.role = typed.role /\ ~row.staff
    BY DEF NewUser
  <2> HIDE DEF row, typed
  <2>3. RegistrationJob(j, registered)
    BY <2>2, IdleRegisters DEF RegistrationJob
  <2> HIDE DEF j
  <2> QED  BY <1>0, <1>00, <2>1, <2>3, NobodyRegistered
<1>5. ASSUME NEW w \in Worker, Create(w) PROVE RegistrationInv'
  <2>1. \A v \in Worker : job'[v] = job[v] \/ job'[v] = Idle
    BY <1>00, <1>5 DEF Create
  <2>2. CASE EmailTaken(job[w].row.email)
    <3>1. UNCHANGED <<users, registered>>
      BY <1>5, <2>2 DEF Create
    <3> QED  BY <1>0, <2>1, <3>1, IdleRegisters, NobodyRegistered
  <2>3. CASE ~EmailTaken(job[w].row.email)
    <3> DEFINE key == Len(users) + 1
    <3>1. /\ users' = Append(users, job[w].row)
          /\ registered' = registered \cup {<<key, job[w].typed>>}
      BY <1>5, <2>3 DEF Create, Insert
    <3>2. /\ job[w].row.email = Normal[job[w].typed.email] /\ job[w].row \in Row
          /\ job[w].row.role = job[w].typed.role /\ ~job[w].row.staff
      BY <1>0, <1>5 DEF Create, RegistrationJob, JobOK, GoodRow
    <3>3. /\ key \in Ids' /\ users'[key] = job[w].row
          /\ \A id \in Ids' \ {key} : id \in Ids /\ users'[id] = users[id]
      BY <1>0, <3>1, <3>2 DEF Ids
    <3> HIDE DEF key
    <3>4. ASSUME NEW r \in registered' PROVE r[1] \in Ids' /\ users'[r[1]].email = Normal[r[2].email]
      <4>1. CASE r \in registered
        BY <1>0, <4>1 DEF RegistrationInv, AddressesKept
      <4>2. CASE r = <<key, job[w].typed>>
        BY <3>2, <3>3, <4>2
      <4> QED  BY <3>1, <4>1, <4>2
    <3>5. ASSUME NEW id, NEW row, Explained(id, row, registered) PROVE Explained(id, row, registered')
      BY <3>1, <3>5 DEF Explained
    <3>6. ASSUME NEW id \in Ids' PROVE Explained(id, users'[id], registered')
      <4>1. CASE id = key
        <5> DEFINE r == <<key, job[w].typed>>
        <5>1. r \in registered' /\ r[1] = key /\ r[2] = job[w].typed
          BY <3>1
        <5> HIDE DEF r
        <5> QED  BY <3>2, <3>3, <4>1, <5>1 DEF Explained
      <4>2. CASE id # key
        BY <1>0, <3>3, <3>5, <4>2
      <4> QED  BY <4>1, <4>2
    <3>7. \A v \in Worker : RegistrationJob(job'[v], registered')
      <4>1. ASSUME NEW j, RegistrationJob(j, registered) PROVE RegistrationJob(j, registered')
        BY <3>5, <4>1 DEF RegistrationJob
      <4> QED  BY <1>0, <2>1, <4>1, IdleRegisters
    <3> QED  BY <3>4, <3>6, <3>7 DEF RegistrationInv
  <2> QED  BY <2>2, <2>3
<1>6. ASSUME NEW w \in Worker, NEW e \in Email, NEW n \in Profile, GoogleLogin(w, e, n)
      PROVE  RegistrationInv'
  <2> DEFINE row == NewUser(e, NoPassword, n, "User", FALSE)
  <2>1. \A v \in Worker : job'[v] = job[v] \/ RegistrationJob(job'[v], registered)
    BY <1>00, <1>6, IdleRegisters DEF GoogleLogin, Take
  <2>2. row \in Row /\ row.role = "User" /\ ~row.staff
    BY GoogleUserGood DEF GoodRow
  <2>3. registered' = registered /\ (users' = users \/ users' = Append(users, row))
    BY <1>6 DEF GoogleLogin, Insert
  <2> HIDE DEF row
  <2>4. CASE users' = users
    BY <1>0, <2>1, <2>3, <2>4, NobodyRegistered
  <2>5. CASE users' = Append(users, row)
    BY <1>0, <2>1, <2>2, <2>3, <2>5, AppendedRegistersNobody DEF Role
  <2> QED  BY <2>3, <2>4, <2>5
<1>7. ASSUME NEW w \in Worker, NEW id \in Ids, NEW n \in Profile, UpdateProfile(w, id, n)
      PROVE  RegistrationInv'
  <2> DEFINE j == [pc |-> "save", id |-> id, row |-> users[id], change |-> [profile |-> n]]
  <2>1. job' = [job EXCEPT ![w] = j] /\ UNCHANGED <<users, registered>>
    BY <1>7 DEF UpdateProfile, Take
  <2>2. RegistrationJob(j, registered)
    BY <1>0 DEF RegistrationJob
  <2> HIDE DEF j
  <2> QED  BY <1>0, <1>00, <2>1, <2>2, NobodyRegistered
<1>8. ASSUME NEW w \in Worker, NEW j, j.pc = "get", job' = [job EXCEPT ![w] = j],
             UNCHANGED <<users, registered>>
      PROVE  RegistrationInv'
  <2>1. RegistrationJob(j, registered)
    BY <1>8 DEF RegistrationJob
  <2> QED  BY <1>0, <1>00, <1>8, <2>1, NobodyRegistered
<1>9. ASSUME NEW w \in Worker, NEW id \in Ids, NEW p \in Password, NEW q \in Password,
             ChangePassword(w, id, p, q)
      PROVE  RegistrationInv'
  <2> DEFINE j == [pc |-> "get", id |-> id, known |-> {p}, change |-> [password |-> q]]
  <2>1. job' = [job EXCEPT ![w] = j] /\ j.pc = "get" /\ UNCHANGED <<users, registered>>
    BY <1>9 DEF ChangePassword, Take
  <2> HIDE DEF j
  <2> QED  BY <1>8, <2>1
<1>10. ASSUME NEW w \in Worker, NEW caller \in Ids, NEW id \in Ids, NEW change \in AdminChanges,
              ChangeByAdmin(w, caller, id, change)
       PROVE  RegistrationInv'
  <2> DEFINE j == [pc |-> "get", id |-> id, known |-> Password \cup {NoPassword}, change |-> change]
  <2>1. job' = [job EXCEPT ![w] = j] /\ j.pc = "get" /\ UNCHANGED <<users, registered>>
    BY <1>10 DEF ChangeByAdmin, Take
  <2> HIDE DEF j
  <2> QED  BY <1>8, <2>1
<1>11. ASSUME NEW w \in Worker, Get(w) PROVE RegistrationInv'
  <2> DEFINE row == users[job[w].id]
             j == IF row.password \notin job[w].known THEN Idle
                  ELSE [pc |-> "save", id |-> job[w].id, row |-> row, change |-> job[w].change]
  <2>1. job' = [job EXCEPT ![w] = j] /\ UNCHANGED <<users, registered>>
    BY <1>11 DEF Get
  <2>2. Explained(job[w].id, row, registered)
    BY <1>0, <1>11 DEF Get, JobOK, Ids
  <2> HIDE DEF row
  <2>3. RegistrationJob(j, registered)
    BY <2>2, IdleRegisters DEF RegistrationJob
  <2> HIDE DEF j
  <2> QED  BY <1>0, <1>00, <2>1, <2>3, NobodyRegistered
<1>12. ASSUME NEW w \in Worker, Save(w) PROVE RegistrationInv'
  <2> DEFINE j == job[w]
  <2>1. /\ j.id \in Ids /\ j.change \in Change /\ GoodRow(j.row)
        /\ Explained(j.id, j.row, registered)
    BY <1>0, <1>12 DEF Save, JobOK, RegistrationJob, Ids
  <2>2. /\ users' = [users EXCEPT ![j.id] = Saved(j)]
        /\ job' = [job EXCEPT ![w] = Idle] /\ registered' = registered
    BY <1>12 DEF Save
  <2> HIDE DEF j
  <2>3. Explained(j.id, Saved(j), registered)
    BY <2>1, UpdatedExplained DEF Saved
  <2>4. Ids' = Ids /\ users'[j.id] = Saved(j) /\ \A i \in Ids \ {j.id} : users'[i] = users[i]
    BY <1>0, <2>1, <2>2 DEF Ids
  <2> QED  BY <1>0, <1>00, <2>2, <2>3, <2>4, IdleRegisters, NothingRegistered
<1>13. CASE UNCHANGED vars
  BY <1>0, <1>13, NobodyRegistered DEF vars
<1> QED
  BY <1>1, <1>2, <1>3, <1>4, <1>5, <1>6, <1>7, <1>9, <1>10, <1>11, <1>12, <1>13 DEF Next

LEMMA RolesImplied == RegistrationInv => StaffIsAdmin
  BY DEF RegistrationInv, Explained, StaffIsAdmin

LEMMA NobodyRegisteredYet == Init => RegistrationInv
<1> SUFFICES ASSUME Init PROVE RegistrationInv
  OBVIOUS
<1>1. \A id \in Ids : users[id] = SeedRow
  BY DEF Init, Ids
<1>2. \A id \in Ids : Explained(id, users[id], registered)
  BY <1>1, SeedRowGood DEF Explained, Role
<1> QED  BY <1>2, IdleRegisters DEF Init, RegistrationInv

THEOREM RegistrationInvariant == Spec => []RegistrationInv
<1> QED  BY NobodyRegisteredYet, AccountsInvariant, RegistrationStep, PTL DEF Spec

\* The role is one of the two and the flag follows it, or the role is the one
\* registered and there is no flag: through every order of role changes, stale
\* saves and starts of the server.  (RegisterCommandHandler,
\* ChangeUserRoleCommand, seed_admin)
THEOREM StaffFollowsRole == Spec => []StaffIsAdmin
  BY RegistrationInvariant, RolesImplied, PTL

LEMMA RegistrationImplied ==
  AccountInv /\ RegistrationInv => RegisteredCanLogInAsStored
<1> SUFFICES ASSUME AccountInv, RegistrationInv, NEW r \in registered,
                    \A v \in asked : v[1] = r[1] => /\ v[2] = "password" => v[3] = r[2].password
                                                    /\ v[2] = "active" => v[3]
             PROVE  r[1] \in LoginFinds(Normal[r[2].email], r[2].password)
  BY DEF RegisteredCanLogInAsStored
<1>1. r[1] \in Ids /\ users[r[1]].email = Normal[r[2].email]
  BY DEF RegistrationInv
<1>2. /\ <<r[1], "password", users[r[1]].password>> \in asked
      /\ <<r[1], "active", users[r[1]].active>> \in asked
  <2>1. users[r[1]] \in Row /\ Asks(r[1], users[r[1]]) \subseteq asked
    BY <1>1 DEF AccountInv, TableOK, GoodRow, Ids
  <2>2. DOMAIN users[r[1]] = {"email", "password", "profile", "role", "staff", "active"}
    BY <2>1 DEF Row
  <2> QED  BY <2>1, <2>2 DEF Asks
<1> QED  BY <1>1, <1>2 DEF LoginFinds

\* Whoever registered finds the account by the address as it is stored, until a
\* change of the password or of being active is accepted: stale saves, and
\* registrations beside it, take nothing away.  What fails of RegisteredCanLogIn
\* is the spelling alone.  (RegisterCommandHandler, LoginCommandHandler)
THEOREM RegisteredLogIn == Spec => []RegisteredCanLogInAsStored
  BY AccountsInvariant, RegistrationInvariant, RegistrationImplied, PTL

-----------------------------------------------------------------------------
(***************************************************************************)
(* What accounts keep, and what an admin reads.                            *)
(***************************************************************************)

-----------------------------------------------------------------------------
(* The inductive invariant: the tables, and what the jobs carry.  As     *)
(* for accounts, its parts are operators of values: ids are the accounts   *)
(* there are, heard is what was accepted.                                  *)

RowKind(t, ids) ==
  IF t = "locations" THEN [owner : ids, name : Label, at : Label] ELSE [owner : ids, route : Label]

\* row belongs to an account, and holds what was accepted for it from there.
OwnedRow(t, key, row, ids, heard) ==
  /\ row \in RowKind(t, ids)
  /\ \A f \in DOMAIN row \ {"owner"} : <<<<t, key>>, row.owner, f, row[f]>> \in heard

RowsOK(tables, ids, heard) ==
  /\ tables = [t \in Table |-> tables[t]]
  /\ \A t \in Table :
       /\ tables[t] \in Seq({Gone} \cup RowKind(t, ids))
       /\ \A key \in DOMAIN tables[t] :
            tables[t][key] = Gone \/ OwnedRow(t, key, tables[t][key], ids, heard)

PreferenceRow == [default_filter : Label \cup {DEFAULT}, max_walk_distance : Label \cup {DEFAULT}]

OwnPreferences(id, row, heard) ==
  /\ row \in PreferenceRow
  /\ \A f \in DOMAIN row : row[f] = DEFAULT \/ <<<<"preferences", 0>>, id, f, row[f]>> \in heard

PreferencesOK(table, ids, heard) ==
  /\ DOMAIN table \subseteq ids
  /\ \A id \in DOMAIN table : OwnPreferences(id, table[id], heard)

FeedbackRow(ids) == [owner : ids, request : RequestId, rating : Label, comment : Label]

FeedbackOK(table, ids, heard) ==
  /\ table \in Seq(FeedbackRow(ids))
  /\ \A k \in DOMAIN table : SayingFeedback(table[k]) \subseteq heard
  /\ \A k, l \in DOMAIN table :
       table[k].owner = table[l].owner /\ table[k].request = table[l].request => k = l

\* A copy may be old, and its row gone: but it is of the account that saves it.
DataJobOK(j, ids, tables, comments, heard) ==
  /\ j.pc = "saveLocation" =>
       /\ j.key \in DOMAIN tables["locations"] /\ j.change \in LocationChange
       /\ OwnedRow("locations", j.key, j.row, ids, heard) /\ j.row.owner = j.caller
  /\ j.pc = "delete" => j.table \in Table /\ j.key \in DOMAIN tables[j.table]
  /\ j.pc = "savePreferences" =>
       /\ j.caller \in ids /\ j.change \in PreferenceChange
       /\ OwnPreferences(j.caller, j.row, heard)
  /\ j.pc = "createFeedback" => j.row \in FeedbackRow(ids)
  /\ j.pc = "saveFeedback" =>
       /\ j.row \in FeedbackRow(ids) /\ j.key \in DOMAIN comments
       /\ comments[j.key].owner = j.row.owner /\ comments[j.key].request = j.row.request

DataInv ==
  /\ RowsOK(rows, Ids, said)
  /\ PreferencesOK(preferences, Ids, said)
  /\ FeedbackOK(feedback, Ids, said)
  /\ \A w \in Worker : DataJobOK(job[w], Ids, rows, feedback, said)

-----------------------------------------------------------------------------
(* Rows and changes of rows.                                               *)

\* What was theirs stays theirs when accounts and accepted values are added.
LEMMA OwnedStays ==
  ASSUME NEW t, NEW key, NEW row, NEW ids, NEW heard, OwnedRow(t, key, row, ids, heard),
         NEW idsN, NEW heardN, ids \subseteq idsN, heard \subseteq heardN
  PROVE  OwnedRow(t, key, row, idsN, heardN)
<1>1. row \in RowKind(t, idsN)
  BY DEF OwnedRow, RowKind
<1> QED  BY <1>1 DEF OwnedRow

LEMMA OwnPreferencesStay ==
  ASSUME NEW id, NEW row, NEW heard, OwnPreferences(id, row, heard),
         NEW heardN, heard \subseteq heardN
  PROVE  OwnPreferences(id, row, heardN)
  BY DEF OwnPreferences

\* A row just created belongs to its creator.
LEMMA CreatedOwned ==
  ASSUME NEW t \in Table, NEW key, NEW ids, NEW caller \in ids, NEW content \in Content(t),
         NEW heard, Saying(t, key, caller, content) \subseteq heard
  PROVE  OwnedRow(t, key, Updated([owner |-> caller], content), ids, heard)
<1>1. CASE t = "locations"
  <2>1. PICK n \in Label, a \in Label : content = [name |-> n, at |-> a]
    BY <1>1 DEF Content
  <2>2. Updated([owner |-> caller], content) = [owner |-> caller, name |-> n, at |-> a]
    BY <2>1 DEF Updated
  <2>3. /\ <<<<t, key>>, caller, "name", n>> \in heard
        /\ <<<<t, key>>, caller, "at", a>> \in heard
    BY <2>1 DEF Saying
  <2> QED  BY <1>1, <2>2, <2>3 DEF OwnedRow, RowKind
<1>2. CASE t = "favourites"
  <2>1. PICK r \in Label : content = [route |-> r]
    BY <1>2 DEF Content
  <2>2. Updated([owner |-> caller], content) = [owner |-> caller, route |-> r]
    BY <2>1 DEF Updated
  <2>3. <<<<t, key>>, caller, "route", r>> \in heard
    BY <2>1 DEF Saying
  <2> QED  BY <1>2, <2>2, <2>3 DEF OwnedRow, RowKind
<1> QED  BY <1>1, <1>2 DEF Table

\* A copy saved with a change still belongs to whom it belonged.
LEMMA SavedOwned ==
  ASSUME NEW key, NEW row, NEW ids, NEW heard, OwnedRow("locations", key, row, ids, heard),
         NEW change \in LocationChange, NEW heardN, heard \subseteq heardN,
         Saying("locations", key, row.owner, change) \subseteq heardN
  PROVE  /\ OwnedRow("locations", key, Updated(row, change), ids, heardN)
         /\ Updated(row, change).owner = row.owner
<1>1. row \in [owner : ids, name : Label, at : Label] /\ DOMAIN row = {"owner", "name", "at"}
  BY DEF OwnedRow, RowKind
<1>2. CASE \E n \in Label : change = [name |-> n]
  <2>1. PICK n \in Label : change = [name |-> n]
    BY <1>2
  <2>2. Updated(row, change) = [row EXCEPT !.name = n]
    BY <1>1, <2>1 DEF Updated
  <2>3. <<<<"locations", key>>, row.owner, "name", n>> \in heardN
    BY <2>1 DEF Saying
  <2> QED  BY <1>1, <2>2, <2>3 DEF OwnedRow, RowKind
<1>3. CASE \E a \in Label : change = [at |-> a]
  <2>1. PICK a \in Label : change = [at |-> a]
    BY <1>3
  <2>2. Updated(row, change) = [row EXCEPT !.at = a]
    BY <1>1, <2>1 DEF Updated
  <2>3. <<<<"locations", key>>, row.owner, "at", a>> \in heardN
    BY <2>1 DEF Saying
  <2> QED  BY <1>1, <2>2, <2>3 DEF OwnedRow, RowKind
<1>4. change \in [name : Label] \/ change \in [at : Label]
  BY DEF LocationChange
<1> QED  BY <1>2, <1>3, <1>4

LEMMA SavedPreferences ==
  ASSUME NEW id, NEW row, NEW heard, OwnPreferences(id, row, heard),
         NEW change \in PreferenceChange, NEW heardN, heard \subseteq heardN,
         Saying("preferences", 0, id, change) \subseteq heardN
  PROVE  OwnPreferences(id, Updated(row, change), heardN)
<1>1. row \in PreferenceRow /\ DOMAIN row = {"default_filter", "max_walk_distance"}
  BY DEF OwnPreferences, PreferenceRow
<1>2. CASE \E x \in Label : change = [default_filter |-> x]
  <2>1. PICK x \in Label : change = [default_filter |-> x]
    BY <1>2
  <2>2. Updated(row, change) = [row EXCEPT !.default_filter = x]
    BY <1>1, <2>1 DEF Updated, PreferenceRow
  <2>3. <<<<"preferences", 0>>, id, "default_filter", x>> \in heardN
    BY <2>1 DEF Saying
  <2> QED  BY <1>1, <2>2, <2>3 DEF OwnPreferences, PreferenceRow
<1>3. CASE \E x \in Label : change = [max_walk_distance |-> x]
  <2>1. PICK x \in Label : change = [max_walk_distance |-> x]
    BY <1>3
  <2>2. Updated(row, change) = [row EXCEPT !.max_walk_distance = x]
    BY <1>1, <2>1 DEF Updated, PreferenceRow
  <2>3. <<<<"preferences", 0>>, id, "max_walk_distance", x>> \in heardN
    BY <2>1 DEF Saying
  <2> QED  BY <1>1, <2>2, <2>3 DEF OwnPreferences, PreferenceRow
<1>4. change \in [default_filter : Label] \/ change \in [max_walk_distance : Label]
  BY DEF PreferenceChange
<1> QED  BY <1>2, <1>3, <1>4

-----------------------------------------------------------------------------
(* What the writes of the tables keep.                                     *)

LEMMA SeqOfMore ==
  ASSUME NEW S, NEW T, S \subseteq T, NEW s \in Seq(S)
  PROVE  s \in Seq(T)
  OBVIOUS

LEMMA RowsStay ==
  ASSUME NEW tables, NEW ids, NEW heard, RowsOK(tables, ids, heard),
         NEW idsN, NEW heardN, ids \subseteq idsN, heard \subseteq heardN
  PROVE  RowsOK(tables, idsN, heardN)
<1> SUFFICES ASSUME NEW t \in Table
             PROVE  /\ tables[t] \in Seq({Gone} \cup RowKind(t, idsN))
                    /\ \A key \in DOMAIN tables[t] :
                         tables[t][key] = Gone \/ OwnedRow(t, key, tables[t][key], idsN, heardN)
  BY DEF RowsOK
<1>1. {Gone} \cup RowKind(t, ids) \subseteq {Gone} \cup RowKind(t, idsN)
  BY DEF RowKind
<1>2. tables[t] \in Seq({Gone} \cup RowKind(t, idsN))
  BY <1>1, SeqOfMore DEF RowsOK
<1>3. ASSUME NEW key \in DOMAIN tables[t], tables[t][key] # Gone
      PROVE  OwnedRow(t, key, tables[t][key], idsN, heardN)
  BY <1>3, OwnedStays DEF RowsOK
<1> QED  BY <1>2, <1>3

LEMMA AppendToTable ==
  ASSUME NEW tables, NEW ids, NEW heard, RowsOK(tables, ids, heard),
         NEW t \in Table, NEW row, OwnedRow(t, Len(tables[t]) + 1, row, ids, heard)
  PROVE  /\ RowsOK([tables EXCEPT ![t] = Append(@, row)], ids, heard)
         /\ \A u \in Table : DOMAIN tables[u] \subseteq DOMAIN [tables EXCEPT ![t] = Append(@, row)][u]
<1> DEFINE tablesN == [tables EXCEPT ![t] = Append(@, row)]
<1>1. /\ tables = [u \in Table |-> tables[u]]
      /\ \A u \in Table : tables[u] \in Seq({Gone} \cup RowKind(u, ids))
  BY DEF RowsOK
<1>2. /\ tablesN = [u \in Table |-> tablesN[u]]
      /\ tablesN[t] = Append(tables[t], row) /\ \A u \in Table \ {t} : tablesN[u] = tables[u]
  BY <1>1
<1> HIDE DEF tablesN
<1>3. row \in RowKind(t, ids)
  BY DEF OwnedRow
<1>4. /\ tablesN[t] \in Seq({Gone} \cup RowKind(t, ids))
      /\ DOMAIN tablesN[t] = DOMAIN tables[t] \cup {Len(tables[t]) + 1}
      /\ tablesN[t][Len(tables[t]) + 1] = row
      /\ \A key \in DOMAIN tables[t] : tablesN[t][key] = tables[t][key]
  BY <1>1, <1>2, <1>3
<1>5. \A key \in DOMAIN tablesN[t] :
        tablesN[t][key] = Gone \/ OwnedRow(t, key, tablesN[t][key], ids, heard)
  BY <1>4 DEF RowsOK
<1>6. RowsOK(tablesN, ids, heard)
  BY <1>2, <1>4, <1>5 DEF RowsOK
<1> QED  BY <1>2, <1>4, <1>6 DEF tablesN

LEMMA PutInTable ==
  ASSUME NEW tables, NEW ids, NEW heard, RowsOK(tables, ids, heard),
         NEW t \in Table, NEW k \in DOMAIN tables[t],
         NEW row, row = Gone \/ OwnedRow(t, k, row, ids, heard)
  PROVE  /\ RowsOK([tables EXCEPT ![t][k] = row], ids, heard)
         /\ \A u \in Table : DOMAIN tables[u] \subseteq DOMAIN [tables EXCEPT ![t][k] = row][u]
<1> DEFINE tablesN == [tables EXCEPT ![t][k] = row]
<1>1. /\ tables = [u \in Table |-> tables[u]]
      /\ \A u \in Table : tables[u] \in Seq({Gone} \cup RowKind(u, ids))
  BY DEF RowsOK
<1>2. /\ tablesN = [u \in Table |-> tablesN[u]]
      /\ tablesN[t] = [tables[t] EXCEPT ![k] = row]
      /\ \A u \in Table \ {t} : tablesN[u] = tables[u]
  BY <1>1
<1> HIDE DEF tablesN
<1>3. row \in {Gone} \cup RowKind(t, ids)
  BY DEF OwnedRow
<1>4. /\ tablesN[t] \in Seq({Gone} \cup RowKind(t, ids))
      /\ DOMAIN tablesN[t] = DOMAIN tables[t]
      /\ tablesN[t][k] = row
      /\ \A key \in DOMAIN tables[t] \ {k} : tablesN[t][key] = tables[t][key]
  BY <1>1, <1>2, <1>3
<1>5. \A key \in DOMAIN tablesN[t] :
        tablesN[t][key] = Gone \/ OwnedRow(t, key, tablesN[t][key], ids, heard)
  BY <1>4 DEF RowsOK
<1>6. RowsOK(tablesN, ids, heard)
  BY <1>2, <1>4, <1>5 DEF RowsOK
<1> QED  BY <1>2, <1>4, <1>6 DEF tablesN

LEMMA PreferencesStay ==
  ASSUME NEW table, NEW ids, NEW heard, PreferencesOK(table, ids, heard),
         NEW idsN, NEW heardN, ids \subseteq idsN, heard \subseteq heardN
  PROVE  PreferencesOK(table, idsN, heardN)
  BY OwnPreferencesStay DEF PreferencesOK

LEMMA FeedbackStays ==
  ASSUME NEW table, NEW ids, NEW heard, FeedbackOK(table, ids, heard),
         NEW idsN, NEW heardN, ids \subseteq idsN, heard \subseteq heardN
  PROVE  FeedbackOK(table, idsN, heardN)
<1>1. FeedbackRow(ids) \subseteq FeedbackRow(idsN)
  BY DEF FeedbackRow
<1>2. table \in Seq(FeedbackRow(idsN))
  BY <1>1, SeqOfMore DEF FeedbackOK
<1> QED  BY <1>2 DEF FeedbackOK

LEMMA AppendFeedback ==
  ASSUME NEW table, NEW ids, NEW heard, FeedbackOK(table, ids, heard),
         NEW row \in FeedbackRow(ids), SayingFeedback(row) \subseteq heard,
         \A k \in DOMAIN table : ~(table[k].owner = row.owner /\ table[k].request = row.request)
  PROVE  /\ FeedbackOK(Append(table, row), ids, heard)
         /\ DOMAIN table \subseteq DOMAIN Append(table, row)
         /\ \A k \in DOMAIN table : Append(table, row)[k] = table[k]
<1> DEFINE tableN == Append(table, row)
<1>1. table \in Seq(FeedbackRow(ids))
  BY DEF FeedbackOK
<1>2. /\ tableN \in Seq(FeedbackRow(ids)) /\ DOMAIN tableN = DOMAIN table \cup {Len(table) + 1}
      /\ tableN[Len(table) + 1] = row /\ \A k \in DOMAIN table : tableN[k] = table[k]
  BY <1>1
<1> HIDE DEF tableN
<1>3. FeedbackOK(tableN, ids, heard)
  BY <1>2 DEF FeedbackOK
<1> QED  BY <1>2, <1>3 DEF tableN

LEMMA PutFeedback ==
  ASSUME NEW table, NEW ids, NEW heard, FeedbackOK(table, ids, heard),
         NEW row \in FeedbackRow(ids), SayingFeedback(row) \subseteq heard,
         NEW k \in DOMAIN table, table[k].owner = row.owner, table[k].request = row.request
  PROVE  /\ FeedbackOK([table EXCEPT ![k] = row], ids, heard)
         /\ DOMAIN [table EXCEPT ![k] = row] = DOMAIN table
         /\ \A l \in DOMAIN table : /\ [table EXCEPT ![k] = row][l].owner = table[l].owner
                                    /\ [table EXCEPT ![k] = row][l].request = table[l].request
<1> DEFINE tableN == [table EXCEPT ![k] = row]
<1>1. table \in Seq(FeedbackRow(ids))
  BY DEF FeedbackOK
<1>2. /\ tableN \in Seq(FeedbackRow(ids)) /\ DOMAIN tableN = DOMAIN table
      /\ tableN[k] = row /\ \A l \in DOMAIN table \ {k} : tableN[l] = table[l]
  BY <1>1
<1> HIDE DEF tableN
<1>3. FeedbackOK(tableN, ids, heard)
  BY <1>2 DEF FeedbackOK
<1> QED  BY <1>2, <1>3 DEF tableN

-----------------------------------------------------------------------------
(* The steps of the views of UserData.                                     *)

\* Keys are never taken back, nor is what was accepted, and a row of feedback
\* stays whose it is and on the request it is on.
KeysKept ==
  /\ Ids \subseteq Ids' /\ said \subseteq said'
  /\ \A t \in Table : DOMAIN rows[t] \subseteq DOMAIN rows'[t]
  /\ DOMAIN feedback \subseteq DOMAIN feedback'
  /\ \A k \in DOMAIN feedback :
       feedback'[k].owner = feedback[k].owner /\ feedback'[k].request = feedback[k].request

LEMMA DataJobKept ==
  ASSUME NEW j, NEW ids, NEW tables, NEW comments, NEW heard,
         DataJobOK(j, ids, tables, comments, heard),
         NEW idsN, NEW tablesN, NEW commentsN, NEW heardN, ids \subseteq idsN, heard \subseteq heardN,
         \A t \in Table : DOMAIN tables[t] \subseteq DOMAIN tablesN[t],
         DOMAIN comments \subseteq DOMAIN commentsN,
         \A k \in DOMAIN comments : /\ commentsN[k].owner = comments[k].owner
                                    /\ commentsN[k].request = comments[k].request
  PROVE  DataJobOK(j, idsN, tablesN, commentsN, heardN)
<1>1. "locations" \in Table
  BY DEF Table
<1>2. FeedbackRow(ids) \subseteq FeedbackRow(idsN)
  BY DEF FeedbackRow
<1> QED  BY <1>1, <1>2, OwnedStays, OwnPreferencesStay DEF DataJobOK

LEMMA DataStep ==
  ASSUME DataInv, KeysKept,
         RowsOK(rows', Ids', said'), PreferencesOK(preferences', Ids', said'),
         FeedbackOK(feedback', Ids', said'),
         \A v \in Worker : job'[v] = job[v] \/ DataJobOK(job'[v], Ids', rows', feedback', said')
  PROVE  DataInv'
<1>1. ASSUME NEW v \in Worker PROVE DataJobOK(job'[v], Ids', rows', feedback', said')
  <2>1. DataJobOK(job[v], Ids, rows, feedback, said)
    BY DEF DataInv
  <2>2. DataJobOK(job[v], Ids', rows', feedback', said')
    BY <2>1, DataJobKept DEF KeysKept
  <2> QED  BY <2>2
<1> QED  BY <1>1 DEF DataInv

\* The tables stay as they are, though accounts may be added.
LEMMA TablesRest ==
  ASSUME DataInv, UNCHANGED data, Ids \subseteq Ids',
         \A v \in Worker : job'[v] = job[v] \/ DataJobOK(job'[v], Ids', rows', feedback', said')
  PROVE  DataInv'
<1>1. KeysKept
  BY DEF KeysKept, data
<1>2. /\ RowsOK(rows', Ids', said') /\ PreferencesOK(preferences', Ids', said')
      /\ FeedbackOK(feedback', Ids', said')
  BY RowsStay, PreferencesStay, FeedbackStays DEF DataInv, data
<1> QED  BY <1>1, <1>2, DataStep

\* A job of none of the kinds that DataJobOK speaks of.
LEMMA OtherJob ==
  ASSUME NEW j, NEW ids, NEW tables, NEW comments, NEW heard,
         j.pc \notin {"saveLocation", "delete", "savePreferences", "createFeedback", "saveFeedback"}
  PROVE  DataJobOK(j, ids, tables, comments, heard)
  BY DEF DataJobOK

\* A worker that serves other tables leaves the accounts as they should be.
LEMMA AccountsRest ==
  ASSUME AccountInv, UNCHANGED accounts, NEW w \in Worker, NEW j,
         j.pc \notin {"create", "seed", "promote", "get", "save"},
         job' = [job EXCEPT ![w] = j], received' \in 0..MAX_REQUESTS
  PROVE  /\ AccountInv' /\ Ids' = Ids
         /\ \A v \in Worker : job'[v] = job[v] \/ job'[v] = j
<1>1. JobOK(j, users, asked)
  BY DEF JobOK
<1>2. AccountInv'
  BY <1>1, JobStep DEF accounts
<1>3. \A v \in Worker : job'[v] = job[v] \/ job'[v] = j
  BY DEF AccountInv
<1> QED  BY <1>2, <1>3 DEF accounts, Ids

LEMMA TakenRest ==
  ASSUME AccountInv, UNCHANGED accounts, NEW w \in Worker, NEW j,
         j.pc \notin {"create", "seed", "promote", "get", "save"}, Take(w, j)
  PROVE  /\ AccountInv' /\ Ids' = Ids
         /\ \A v \in Worker : job'[v] = job[v] \/ job'[v] = j
<1>1. job' = [job EXCEPT ![w] = j] /\ received' \in 0..MAX_REQUESTS
  BY BoundAssumption DEF Take, AccountInv
<1> QED  BY <1>1, AccountsRest

UserInv == AccountInv /\ DataInv

\* Keys of accounts are positive, so a row that is gone is nobody's.
LEMMA FoundIsOwned ==
  ASSUME UserInv, NEW t \in Table, NEW key, NEW caller \in Ids, Finds(t, key, caller)
  PROVE  /\ key \in DOMAIN rows[t] /\ rows[t][key].owner = caller
         /\ OwnedRow(t, key, rows[t][key], Ids, said)
<1>1. 0 \notin Ids
  BY DEF UserInv, AccountInv, TableOK, Ids
<1>2. key \in DOMAIN rows[t] /\ rows[t][key].owner = caller
  BY DEF Finds
<1>3. rows[t][key] # Gone
  BY <1>1, <1>2 DEF Gone
<1> QED  BY <1>2, <1>3 DEF UserInv, DataInv, RowsOK

LEMMA CreateRowStep ==
  ASSUME UserInv, NEW w \in Worker, NEW caller \in Ids, NEW t \in Table, NEW content \in Content(t),
         CreateRow(w, caller, t, content)
  PROVE  UserInv'
<1> DEFINE row == Updated([owner |-> caller], content)
<1>1. /\ AccountInv' /\ Ids' = Ids /\ \A v \in Worker : job'[v] = job[v] \/ job'[v] = Idle
      /\ rows' = [rows EXCEPT ![t] = Append(@, row)]
      /\ said' = said \cup Saying(t, Len(rows[t]) + 1, caller, content)
      /\ UNCHANGED <<preferences, feedback>>
  BY TakenRest DEF CreateRow, UserInv, Idle
<1>2. OwnedRow(t, Len(rows[t]) + 1, row, Ids, said')
  BY <1>1, CreatedOwned
<1> HIDE DEF row
<1>3. RowsOK(rows, Ids, said')
  BY <1>1, RowsStay DEF UserInv, DataInv
<1>4. RowsOK(rows', Ids, said') /\ \A u \in Table : DOMAIN rows[u] \subseteq DOMAIN rows'[u]
  <2>1. /\ RowsOK([rows EXCEPT ![t] = Append(@, row)], Ids, said')
        /\ \A u \in Table : DOMAIN rows[u] \subseteq DOMAIN [rows EXCEPT ![t] = Append(@, row)][u]
    BY <1>2, <1>3, AppendToTable
  <2> QED  BY <1>1, <2>1
<1>5. PreferencesOK(preferences', Ids', said') /\ FeedbackOK(feedback', Ids', said')
  BY <1>1, PreferencesStay, FeedbackStays DEF UserInv, DataInv
<1>6. KeysKept
  BY <1>1, <1>4 DEF KeysKept
<1>7. \A v \in Worker : job'[v] = job[v] \/ DataJobOK(job'[v], Ids', rows', feedback', said')
  BY <1>1, OtherJob DEF Idle
<1> QED  BY <1>1, <1>4, <1>5, <1>6, <1>7, DataStep DEF UserInv

LEMMA UpdateLocationStep ==
  ASSUME UserInv, NEW w \in Worker, NEW caller \in Ids, NEW key, NEW change \in LocationChange,
         UpdateLocation(w, caller, key, change)
  PROVE  UserInv'
<1> DEFINE j == [pc |-> "saveLocation", caller |-> caller, key |-> key, row |-> rows["locations"][key],
                 change |-> change]
<1>1. /\ AccountInv' /\ Ids' = Ids /\ \A v \in Worker : job'[v] = job[v] \/ job'[v] = j
      /\ UNCHANGED data
  BY TakenRest DEF UpdateLocation, UserInv
<1>2. DataJobOK(j, Ids, rows, feedback, said)
  BY FoundIsOwned DEF UpdateLocation, DataJobOK, Table
<1> HIDE DEF j
<1> QED  BY <1>1, <1>2, TablesRest DEF UserInv, data

LEMMA SaveLocationStep ==
  ASSUME UserInv, NEW w \in Worker, SaveLocation(w)
  PROVE  UserInv'
<1> DEFINE j == job[w]
<1>1. /\ AccountInv' /\ Ids' = Ids /\ \A v \in Worker : job'[v] = job[v] \/ job'[v] = Idle
      /\ rows' = [rows EXCEPT !["locations"][j.key] = Saved(j)]
      /\ said' = said \cup Saying("locations", j.key, j.caller, j.change)
      /\ UNCHANGED <<preferences, feedback>>
  <2>1. UNCHANGED accounts /\ Idle.pc \notin {"create", "seed", "promote", "get", "save"}
        /\ job' = [job EXCEPT ![w] = Idle] /\ received' \in 0..MAX_REQUESTS
    BY DEF SaveLocation, UserInv, AccountInv, Idle
  <2> QED  BY <2>1, AccountsRest DEF SaveLocation, UserInv
<1>2. /\ j.key \in DOMAIN rows["locations"] /\ j.change \in LocationChange
      /\ OwnedRow("locations", j.key, j.row, Ids, said) /\ j.row.owner = j.caller
  BY DEF SaveLocation, UserInv, DataInv, DataJobOK
<1> HIDE DEF j
<1>3. OwnedRow("locations", j.key, Saved(j), Ids, said')
  BY <1>1, <1>2, SavedOwned DEF Saved
<1>4. RowsOK(rows, Ids, said')
  BY <1>1, RowsStay DEF UserInv, DataInv
<1>5. RowsOK(rows', Ids, said') /\ \A u \in Table : DOMAIN rows[u] \subseteq DOMAIN rows'[u]
  BY <1>1, <1>2, <1>3, <1>4, PutInTable DEF Table
<1>6. PreferencesOK(preferences', Ids', said') /\ FeedbackOK(feedback', Ids', said')
  BY <1>1, PreferencesStay, FeedbackStays DEF UserInv, DataInv
<1>7. KeysKept
  BY <1>1, <1>5 DEF KeysKept
<1>8. \A v \in Worker : job'[v] = job[v] \/ DataJobOK(job'[v], Ids', rows', feedback', said')
  BY <1>1, OtherJob DEF Idle
<1> QED  BY <1>1, <1>5, <1>6, <1>7, <1>8, DataStep DEF UserInv

LEMMA DeleteStep ==
  ASSUME UserInv, NEW w \in Worker, NEW caller \in Ids, NEW t \in Table, NEW key,
         Delete(w, caller, t, key)
  PROVE  UserInv'
<1> DEFINE j == [pc |-> "delete", table |-> t, key |-> key]
<1>1. /\ AccountInv' /\ Ids' = Ids /\ \A v \in Worker : job'[v] = job[v] \/ job'[v] = j
      /\ UNCHANGED data
  BY TakenRest DEF Delete, UserInv
<1>2. DataJobOK(j, Ids, rows, feedback, said)
  BY DEF Delete, Finds, DataJobOK
<1> HIDE DEF j
<1> QED  BY <1>1, <1>2, TablesRest DEF UserInv, data

LEMMA DeleteRowStep ==
  ASSUME UserInv, NEW w \in Worker, DeleteRow(w)
  PROVE  UserInv'
<1> DEFINE j == job[w]
<1>1. /\ AccountInv' /\ Ids' = Ids /\ \A v \in Worker : job'[v] = job[v] \/ job'[v] = Idle
      /\ rows' = [rows EXCEPT ![j.table][j.key] = Gone]
      /\ UNCHANGED <<preferences, feedback, said>>
  <2>1. UNCHANGED accounts /\ Idle.pc \notin {"create", "seed", "promote", "get", "save"}
        /\ job' = [job EXCEPT ![w] = Idle] /\ received' \in 0..MAX_REQUESTS
    BY DEF DeleteRow, UserInv, AccountInv, Idle
  <2> QED  BY <2>1, AccountsRest DEF DeleteRow, UserInv
<1>2. j.table \in Table /\ j.key \in DOMAIN rows[j.table]
  BY DEF DeleteRow, UserInv, DataInv, DataJobOK
<1> HIDE DEF j
<1>3. RowsOK(rows', Ids, said) /\ \A u \in Table : DOMAIN rows[u] \subseteq DOMAIN rows'[u]
  BY <1>1, <1>2, PutInTable DEF UserInv, DataInv
<1>4. PreferencesOK(preferences', Ids', said') /\ FeedbackOK(feedback', Ids', said')
  BY <1>1 DEF UserInv, DataInv
<1>5. KeysKept
  BY <1>1, <1>3 DEF KeysKept
<1>6. \A v \in Worker : job'[v] = job[v] \/ DataJobOK(job'[v], Ids', rows', feedback', said')
  BY <1>1, OtherJob DEF Idle
<1> QED  BY <1>1, <1>3, <1>4, <1>5, <1>6, DataStep DEF UserInv

\* An account without a row of preferences gets the defaults.
LEMMA PreferencesRead ==
  ASSUME UserInv, NEW id
  PROVE  OwnPreferences(id, PreferencesOf(id), said)
  BY DEF UserInv, DataInv, PreferencesOK, PreferencesOf, DefaultPreferences, OwnPreferences, PreferenceRow

\* The row written back when it was read is the one read, or the defaults.
LEMMA PreferStep ==
  ASSUME UserInv, AccountInv', Ids' = Ids, NEW caller \in Ids,
         NEW row, OwnPreferences(caller, row, said'), said \subseteq said',
         Prefer(caller, row), UNCHANGED <<rows, feedback>>,
         \A v \in Worker : job'[v] = job[v] \/ DataJobOK(job'[v], Ids', rows', feedback', said')
  PROVE  UserInv'
<1>1. PreferencesOK(preferences', Ids', said')
  <2>1. PreferencesOK(preferences, Ids, said')
    BY PreferencesStay DEF UserInv, DataInv
  <2> QED  BY <2>1 DEF Prefer, PreferencesOK, Updated
<1>2. RowsOK(rows', Ids', said') /\ FeedbackOK(feedback', Ids', said')
  BY RowsStay, FeedbackStays DEF UserInv, DataInv
<1>3. KeysKept
  BY DEF KeysKept
<1> QED  BY <1>1, <1>2, <1>3, DataStep DEF UserInv

LEMMA ReadPreferencesStep ==
  ASSUME UserInv, NEW w \in Worker, NEW caller \in Ids, ReadPreferences(w, caller)
  PROVE  UserInv'
<1>1. /\ AccountInv' /\ Ids' = Ids /\ \A v \in Worker : job'[v] = job[v] \/ job'[v] = Idle
      /\ Prefer(caller, PreferencesOf(caller)) /\ UNCHANGED <<rows, feedback, said>>
  BY TakenRest DEF ReadPreferences, UserInv, Idle
<1>2. \A v \in Worker : job'[v] = job[v] \/ DataJobOK(job'[v], Ids', rows', feedback', said')
  BY <1>1, OtherJob DEF Idle
<1>3. OwnPreferences(caller, PreferencesOf(caller), said')
  BY <1>1, PreferencesRead
<1> QED  BY <1>1, <1>2, <1>3, PreferStep

LEMMA UpdatePreferencesStep ==
  ASSUME UserInv, NEW w \in Worker, NEW caller \in Ids, NEW change \in PreferenceChange,
         UpdatePreferences(w, caller, change)
  PROVE  UserInv'
<1> DEFINE j == [pc |-> "savePreferences", caller |-> caller, row |-> PreferencesOf(caller),
                 change |-> change]
<1>1. /\ AccountInv' /\ Ids' = Ids /\ \A v \in Worker : job'[v] = job[v] \/ job'[v] = j
      /\ Prefer(caller, PreferencesOf(caller)) /\ UNCHANGED <<rows, feedback, said>>
  BY TakenRest DEF UpdatePreferences, UserInv
<1>2. DataJobOK(j, Ids, rows, feedback, said)
  BY PreferencesRead DEF DataJobOK
<1> HIDE DEF j
<1>3. \A v \in Worker : job'[v] = job[v] \/ DataJobOK(job'[v], Ids', rows', feedback', said')
  BY <1>1, <1>2
<1>4. OwnPreferences(caller, PreferencesOf(caller), said')
  BY <1>1, PreferencesRead
<1> QED  BY <1>1, <1>3, <1>4, PreferStep

LEMMA SavePreferencesStep ==
  ASSUME UserInv, NEW w \in Worker, SavePreferences(w)
  PROVE  UserInv'
<1> DEFINE j == job[w]
<1>1. /\ AccountInv' /\ Ids' = Ids /\ \A v \in Worker : job'[v] = job[v] \/ job'[v] = Idle
      /\ Prefer(j.caller, Saved(j)) /\ said' = said \cup Saying("preferences", 0, j.caller, j.change)
      /\ UNCHANGED <<rows, feedback>>
  <2>1. UNCHANGED accounts /\ Idle.pc \notin {"create", "seed", "promote", "get", "save"}
        /\ job' = [job EXCEPT ![w] = Idle] /\ received' \in 0..MAX_REQUESTS
    BY DEF SavePreferences, UserInv, AccountInv, Idle
  <2> QED  BY <2>1, AccountsRest DEF SavePreferences, UserInv
<1>2. j.caller \in Ids /\ j.change \in PreferenceChange /\ OwnPreferences(j.caller, j.row, said)
  BY DEF SavePreferences, UserInv, DataInv, DataJobOK
<1> HIDE DEF j
<1>3. OwnPreferences(j.caller, Saved(j), said')
  BY <1>1, <1>2, SavedPreferences DEF Saved
<1>4. \A v \in Worker : job'[v] = job[v] \/ DataJobOK(job'[v], Ids', rows', feedback', said')
  BY <1>1, OtherJob DEF Idle
<1> QED  BY <1>1, <1>2, <1>3, <1>4, PreferStep

LEMMA SubmitFeedbackStep ==
  ASSUME UserInv, NEW w \in Worker, NEW caller \in Ids, NEW r \in RequestId,
         NEW rating \in Label, NEW comment \in Label, SubmitFeedback(w, caller, r, rating, comment)
  PROVE  UserInv'
<1> DEFINE row == [owner |-> caller, request |-> r, rating |-> rating, comment |-> comment]
           there == FeedbackAt(caller, r)
<1>0. row \in FeedbackRow(Ids) /\ row.owner = caller /\ row.request = r
  BY DEF FeedbackRow
<1>1. CASE Take(w, [pc |-> "createFeedback", row |-> row])
  <2> DEFINE j == [pc |-> "createFeedback", row |-> row]
  <2>1. /\ AccountInv' /\ Ids' = Ids /\ \A v \in Worker : job'[v] = job[v] \/ job'[v] = j
        /\ UNCHANGED data
    BY <1>1, TakenRest DEF SubmitFeedback, UserInv
  <2>2. DataJobOK(j, Ids, rows, feedback, said)
    BY <1>0 DEF DataJobOK
  <2> HIDE DEF j
  <2> QED  BY <2>1, <2>2, TablesRest DEF UserInv, data
<1>2. CASE \E k \in there : Take(w, [pc |-> "saveFeedback", key |-> k, row |-> row])
  <2>1. PICK k \in there : Take(w, [pc |-> "saveFeedback", key |-> k, row |-> row])
    BY <1>2
  <2> DEFINE j == [pc |-> "saveFeedback", key |-> k, row |-> row]
  <2>2. /\ AccountInv' /\ Ids' = Ids /\ \A v \in Worker : job'[v] = job[v] \/ job'[v] = j
        /\ UNCHANGED data
    BY <2>1, TakenRest DEF SubmitFeedback, UserInv
  <2>3. k \in DOMAIN feedback /\ feedback[k].owner = caller /\ feedback[k].request = r
    BY DEF FeedbackAt
  <2>4. DataJobOK(j, Ids, rows, feedback, said)
    BY <1>0, <2>3 DEF DataJobOK
  <2> HIDE DEF j
  <2> QED  BY <2>2, <2>4, TablesRest DEF UserInv, data
<1> QED  BY <1>1, <1>2 DEF SubmitFeedback

LEMMA FeedbackStep ==
  ASSUME UserInv, NEW w \in Worker, CreateFeedback(w) \/ SaveFeedback(w)
  PROVE  UserInv' /\ KeysKept
<1> DEFINE row == job[w].row
<1>1. /\ AccountInv' /\ Ids' = Ids /\ \A v \in Worker : job'[v] = job[v] \/ job'[v] = Idle
      /\ UNCHANGED <<rows, preferences>>
  <2>1. UNCHANGED accounts /\ Idle.pc \notin {"create", "seed", "promote", "get", "save"}
        /\ job' = [job EXCEPT ![w] = Idle] /\ received' \in 0..MAX_REQUESTS
    BY DEF CreateFeedback, SaveFeedback, UserInv, AccountInv, Idle
  <2> QED  BY <2>1, AccountsRest DEF CreateFeedback, SaveFeedback, UserInv
<1>2. row \in FeedbackRow(Ids)
  BY DEF CreateFeedback, SaveFeedback, UserInv, DataInv, DataJobOK
<1>3. FeedbackOK(feedback, Ids, said')
      /\ RowsOK(rows', Ids', said') /\ PreferencesOK(preferences', Ids', said') /\ said \subseteq said'
  BY <1>1, RowsStay, PreferencesStay, FeedbackStays DEF UserInv, DataInv, CreateFeedback, SaveFeedback
<1>4. /\ FeedbackOK(feedback', Ids, said') /\ DOMAIN feedback \subseteq DOMAIN feedback'
      /\ \A k \in DOMAIN feedback :
           feedback'[k].owner = feedback[k].owner /\ feedback'[k].request = feedback[k].request
  <2>1. CASE UNCHANGED feedback
    BY <1>3, <2>1
  <2>2. CASE feedback' = Append(feedback, row) /\ FeedbackAt(row.owner, row.request) = {}
             /\ said' = said \cup SayingFeedback(row)
    <3>1. \A k \in DOMAIN feedback : ~(feedback[k].owner = row.owner /\ feedback[k].request = row.request)
      BY <2>2 DEF FeedbackAt
    <3>2. SayingFeedback(row) \subseteq said'
      BY <2>2
    <3> HIDE DEF row
    <3> QED  BY <1>2, <1>3, <2>2, <3>1, <3>2, AppendFeedback
  <2>3. CASE SaveFeedback(w)
    <3>1. /\ feedback' = [feedback EXCEPT ![job[w].key] = row]
          /\ SayingFeedback(row) \subseteq said'
      BY <2>3 DEF SaveFeedback
    <3>2. /\ job[w].key \in DOMAIN feedback
          /\ feedback[job[w].key].owner = row.owner /\ feedback[job[w].key].request = row.request
      BY <2>3 DEF SaveFeedback, UserInv, DataInv, DataJobOK
    <3> HIDE DEF row
    <3> QED  BY <1>2, <1>3, <3>1, <3>2, PutFeedback
  <2> QED  BY <2>1, <2>2, <2>3 DEF CreateFeedback
<1>5. KeysKept
  BY <1>1, <1>3, <1>4 DEF KeysKept
<1>6. \A v \in Worker : job'[v] = job[v] \/ DataJobOK(job'[v], Ids', rows', feedback', said')
  BY <1>1, OtherJob DEF Idle
<1> QED  BY <1>1, <1>3, <1>4, <1>5, <1>6, DataStep DEF UserInv

-----------------------------------------------------------------------------
(* The accounts, beside the tables; and all of it.                         *)

LEMMA AccountsBesideData == UserInv /\ Next /\ UNCHANGED data => UserInv'
<1> SUFFICES ASSUME UserInv, Next, UNCHANGED data PROVE UserInv'
  OBVIOUS
<1>1. AccountInv' /\ Ids \subseteq Ids'
  BY AccountsStep DEF UserInv, AddressesKept
<1>2. \A v \in Worker : job'[v] = job[v] \/ job'[v].pc \in Accounting
  BY StatementByStatement DEF UserInv
<1>3. \A v \in Worker : job'[v] = job[v] \/ DataJobOK(job'[v], Ids', rows', feedback', said')
  BY <1>2, OtherJob DEF Accounting
<1> QED  BY <1>1, <1>3, TablesRest DEF UserInv

LEMMA UserStep == UserInv /\ UserNext => UserInv'
<1> SUFFICES ASSUME UserInv, UserNext PROVE UserInv'
  OBVIOUS
<1> QED
  BY AccountsBesideData, CreateRowStep, DeleteStep, UpdateLocationStep, ReadPreferencesStep,
     UpdatePreferencesStep, SubmitFeedbackStep, SaveLocationStep, DeleteRowStep,
     SavePreferencesStep, FeedbackStep
  DEF UserNext

\* Feedback is written by the steps of its own views only.
LEMMA FeedbackWriters ==
  UserInv /\ UserNext => UNCHANGED feedback \/ \E w \in Worker : CreateFeedback(w) \/ SaveFeedback(w)
<1> SUFFICES ASSUME UserInv, UserNext, \A w \in Worker : ~CreateFeedback(w) /\ ~SaveFeedback(w)
             PROVE  UNCHANGED feedback
  OBVIOUS
<1>1. ASSUME NEW w \in Worker, NEW caller \in Ids
      PROVE  /\ \A t, content : CreateRow(w, caller, t, content) => UNCHANGED feedback
             /\ \A t, key : Delete(w, caller, t, key) => UNCHANGED feedback
             /\ \A key, change : UpdateLocation(w, caller, key, change) => UNCHANGED feedback
             /\ ReadPreferences(w, caller) => UNCHANGED feedback
             /\ \A change : UpdatePreferences(w, caller, change) => UNCHANGED feedback
             /\ \A r, rating, comment :
                  SubmitFeedback(w, caller, r, rating, comment) => UNCHANGED feedback
  BY DEF data, CreateRow, Delete, UpdateLocation, ReadPreferences, UpdatePreferences, SubmitFeedback
<1>2. ASSUME NEW w \in Worker, SaveLocation(w) \/ DeleteRow(w) \/ SavePreferences(w)
      PROVE  UNCHANGED feedback
  BY <1>2 DEF SaveLocation, DeleteRow, SavePreferences
<1> QED  BY <1>1, <1>2 DEF UserNext, data

LEMMA FeedbackWritten == UserInv /\ UserNext => UNCHANGED feedback \/ KeysKept
  BY FeedbackWriters, FeedbackStep

\* No two rows of feedback are written by one step.
OneSubmission ==
  \E x : \A k \in (DOMAIN feedback \cup DOMAIN feedback') \ {x} :
    k \in DOMAIN feedback \cap DOMAIN feedback' /\ feedback'[k] = feedback[k]

LEMMA FeedbackOneByOne == UserInv /\ UserNext => UNCHANGED feedback \/ OneSubmission
<1> SUFFICES ASSUME UserInv, NEW w \in Worker, CreateFeedback(w) \/ SaveFeedback(w)
             PROVE  UNCHANGED feedback \/ OneSubmission
  BY FeedbackWriters
<1>1. feedback \in Seq(FeedbackRow(Ids)) /\ Len(feedback) \in Nat /\ DOMAIN feedback = 1..Len(feedback)
  BY DEF UserInv, DataInv, FeedbackOK
<1>2. CASE feedback' = Append(feedback, job[w].row)
  <2>1. /\ DOMAIN feedback' = 1..(Len(feedback) + 1)
        /\ \A k \in 1..Len(feedback) : feedback'[k] = feedback[k]
    BY <1>1, <1>2
  <2>2. \A k \in 1..(Len(feedback) + 1) : k # Len(feedback) + 1 => k \in 1..Len(feedback)
    BY <1>1
  <2>3. \A k \in 1..Len(feedback) : k \in 1..(Len(feedback) + 1)
    BY <1>1
  <2>4. \A k \in (DOMAIN feedback \cup DOMAIN feedback') \ {Len(feedback) + 1} :
          k \in DOMAIN feedback \cap DOMAIN feedback' /\ feedback'[k] = feedback[k]
    BY <1>1, <2>1, <2>2, <2>3
  <2> QED  BY <2>4, Zenon DEF OneSubmission
<1>3. CASE SaveFeedback(w)
  <2>1. feedback' = [feedback EXCEPT ![job[w].key] = job[w].row]
    BY <1>3 DEF SaveFeedback
  <2>2. DOMAIN feedback' = DOMAIN feedback
        /\ \A k \in DOMAIN feedback \ {job[w].key} : feedback'[k] = feedback[k]
    BY <2>1
  <2>3. \A k \in (DOMAIN feedback \cup DOMAIN feedback') \ {job[w].key} :
          k \in DOMAIN feedback \cap DOMAIN feedback' /\ feedback'[k] = feedback[k]
    BY <2>2
  <2> QED  BY <2>3, Zenon DEF OneSubmission
<1> QED  BY <1>2, <1>3 DEF CreateFeedback

LEMMA UserInitial == UserInit => UserInv
<1> SUFFICES ASSUME UserInit PROVE UserInv
  OBVIOUS
<1>1. AccountInv
  BY AccountsInit DEF UserInit
<1>2. RowsOK(rows, Ids, said)
  BY DEF UserInit, RowsOK, Table
<1>3. PreferencesOK(preferences, Ids, said) /\ FeedbackOK(feedback, Ids, said)
  BY DEF UserInit, PreferencesOK, FeedbackOK
<1>4. \A w \in Worker : DataJobOK(job[w], Ids, rows, feedback, said)
  BY OtherJob DEF UserInit, Init, Idle
<1> QED  BY <1>1, <1>2, <1>3, <1>4 DEF UserInv, DataInv

-----------------------------------------------------------------------------
(* The overview of users: what it has counted, and what has changed since. *)

Within(a, b, d) == a - b <= d /\ b - a <= d

Inactive == {id \in Ids : ~users[id].active}

CountOK(j, total, inactive, admins, d) ==
  /\ j.pc = "countActive" => "total" \in DOMAIN j /\ j.total \in Nat /\ Within(j.total, total, d)
  /\ j.pc = "countAdmins" =>
       /\ {"total", "active"} \subseteq DOMAIN j /\ j.total \in Nat /\ j.active \in Nat
       /\ Within(j.total - j.active, inactive, d)
  /\ j.pc = "showUsers" =>
       /\ j.total \in Nat /\ j.active \in Nat /\ j.admins \in Nat
       /\ Within(j.total - j.active, inactive, d) /\ Within(j.admins, admins, d)
  /\ j.pc = "countRating" =>
       j = [pc |-> "countRating", total |-> j.total, distribution |-> j.distribution]

CountsInv ==
  \A w \in Worker :
    /\ drift[w] \in Nat
    /\ CountOK(job[w], Cardinality(Ids), Cardinality(Inactive), Cardinality(Admins), drift[w])

AdminInv == UserInv /\ CountsInv

\* Sets that agree but for one member differ by at most one in number.
LEMMA CloseSets ==
  ASSUME NEW S, NEW T, IsFiniteSet(S), IsFiniteSet(T), NEW x, S \ {x} = T \ {x}
  PROVE  Within(Cardinality(S), Cardinality(T), 1)
<1>1. /\ Cardinality(S) \in Nat /\ Cardinality(T) \in Nat
      /\ Cardinality(S \ {x}) = IF x \in S THEN Cardinality(S) - 1 ELSE Cardinality(S)
      /\ Cardinality(T \ {x}) = IF x \in T THEN Cardinality(T) - 1 ELSE Cardinality(T)
  BY FS_CardinalityType, FS_RemoveElement
<1>2. Cardinality(S \ {x}) = Cardinality(T \ {x})
  OBVIOUS
<1> QED  BY <1>1, <1>2 DEF Within

LEMMA AccountsFinite ==
  ASSUME AccountInv
  PROVE  /\ IsFiniteSet(Ids) /\ IsFiniteSet(Active) /\ IsFiniteSet(Inactive) /\ IsFiniteSet(Admins)
         /\ Cardinality(Ids) \in Nat /\ Cardinality(Active) \in Nat
         /\ Cardinality(Inactive) \in Nat /\ Cardinality(Admins) \in Nat
<1>1. Ids = 1..Len(users) /\ Len(users) \in Nat
  BY DEF AccountInv, TableOK, Ids
<1>2. IsFiniteSet(Ids)
  BY <1>1, FS_Interval
<1>3. IsFiniteSet(Active) /\ IsFiniteSet(Inactive) /\ IsFiniteSet(Admins)
  <2>1. Active \subseteq Ids /\ Inactive \subseteq Ids /\ Admins \subseteq Ids
    BY DEF Active, Inactive, Admins
  <2> QED  BY <1>2, <2>1, FS_Subset
<1> QED  BY <1>2, <1>3, FS_CardinalityType

\* Who is not active is inactive.
LEMMA CountsOfNow ==
  ASSUME AccountInv
  PROVE  Cardinality(Ids) - Cardinality(Active) = Cardinality(Inactive)
<1>1. /\ Ids \ Active = Inactive /\ Ids \cap Active = Active
  BY DEF Active, Inactive
<1>2. Cardinality(Ids \ Active) = Cardinality(Ids) - Cardinality(Ids \cap Active)
  BY AccountsFinite, FS_Difference
<1> QED  BY <1>1, <1>2

\* One row written moves each number by at most one.
LEMMA NumbersMove ==
  ASSUME AccountInv, AccountInv', OneRowWritten
  PROVE  /\ Within(Cardinality(Ids), Cardinality(Ids)', 1)
         /\ Within(Cardinality(Inactive), Cardinality(Inactive)', 1)
         /\ Within(Cardinality(Admins), Cardinality(Admins)', 1)
<1>1. PICK x : \A id \in (Ids \cup Ids') \ {x} : id \in Ids \cap Ids' /\ users'[id] = users[id]
  BY DEF OneRowWritten
<1>2. /\ IsFiniteSet(Ids) /\ IsFiniteSet(Inactive) /\ IsFiniteSet(Admins)
      /\ IsFiniteSet(Ids') /\ IsFiniteSet(Inactive') /\ IsFiniteSet(Admins')
  <2>1. IsFiniteSet(Ids) /\ IsFiniteSet(Inactive) /\ IsFiniteSet(Admins)
    BY AccountsFinite
  <2>2. (IsFiniteSet(Ids) /\ IsFiniteSet(Inactive) /\ IsFiniteSet(Admins))'
    BY AccountsFinite, PTL
  <2> QED  BY <2>1, <2>2
<1>3. /\ Ids \ {x} = Ids' \ {x} /\ Inactive \ {x} = Inactive' \ {x} /\ Admins \ {x} = Admins' \ {x}
  BY <1>1 DEF Inactive, Admins
<1> QED  BY <1>2, <1>3, CloseSets

\* The states between the statements of UserData.
Serving == {"idle", "saveLocation", "delete", "savePreferences", "createFeedback", "saveFeedback"}
Keeping == Accounting \cup {"saveLocation", "delete", "savePreferences", "createFeedback", "saveFeedback"}

\* Other views serve other tables, and their jobs are none of Accounts.
LEMMA OtherViews ==
  UserInv /\ UserNext =>
    \/ Next /\ UNCHANGED data
    \/ UNCHANGED accounts /\ \A v \in Worker : job'[v] = job[v] \/ job'[v].pc \in Serving
<1> SUFFICES ASSUME UserInv, UserNext, ~(Next /\ UNCHANGED data)
             PROVE  UNCHANGED accounts /\ \A v \in Worker : job'[v] = job[v] \/ job'[v].pc \in Serving
  OBVIOUS
<1> USE DEF Serving
<1>0. job = [v \in Worker |-> job[v]]
  BY DEF UserInv, AccountInv
<1>2. ASSUME NEW w \in Worker, NEW j, j.pc \in Serving, job' = [job EXCEPT ![w] = j]
      PROVE  \A v \in Worker : job'[v] = job[v] \/ job'[v].pc \in Serving
  BY <1>0, <1>2
<1>3. ASSUME NEW w \in Worker, NEW caller \in Ids, NEW t \in Table, NEW content \in Content(t),
             CreateRow(w, caller, t, content)
      PROVE  UNCHANGED accounts /\ \A v \in Worker : job'[v] = job[v] \/ job'[v].pc \in Serving
  BY <1>2, <1>3 DEF CreateRow, Take, Idle
<1>4. ASSUME NEW w \in Worker, NEW caller \in Ids, NEW t \in Table, NEW key,
             Delete(w, caller, t, key)
      PROVE  UNCHANGED accounts /\ \A v \in Worker : job'[v] = job[v] \/ job'[v].pc \in Serving
  BY <1>0, <1>4 DEF Delete, Take
<1>5. ASSUME NEW w \in Worker, NEW caller \in Ids, NEW key, NEW change \in LocationChange,
             UpdateLocation(w, caller, key, change)
      PROVE  UNCHANGED accounts /\ \A v \in Worker : job'[v] = job[v] \/ job'[v].pc \in Serving
  BY <1>0, <1>5 DEF UpdateLocation, Take
<1>6. ASSUME NEW w \in Worker, NEW caller \in Ids, ReadPreferences(w, caller)
      PROVE  UNCHANGED accounts /\ \A v \in Worker : job'[v] = job[v] \/ job'[v].pc \in Serving
  BY <1>2, <1>6 DEF ReadPreferences, Take, Idle
<1>7. ASSUME NEW w \in Worker, NEW caller \in Ids, NEW change \in PreferenceChange,
             UpdatePreferences(w, caller, change)
      PROVE  UNCHANGED accounts /\ \A v \in Worker : job'[v] = job[v] \/ job'[v].pc \in Serving
  BY <1>0, <1>7 DEF UpdatePreferences, Take
<1>8. ASSUME NEW w \in Worker, NEW caller \in Ids, NEW r \in RequestId, NEW rating \in Label,
             NEW comment \in Label, SubmitFeedback(w, caller, r, rating, comment)
      PROVE  UNCHANGED accounts /\ \A v \in Worker : job'[v] = job[v] \/ job'[v].pc \in Serving
  BY <1>0, <1>8 DEF SubmitFeedback, Take
<1>9. ASSUME NEW w \in Worker,
             SaveLocation(w) \/ DeleteRow(w) \/ SavePreferences(w) \/ CreateFeedback(w) \/ SaveFeedback(w)
      PROVE  UNCHANGED accounts /\ \A v \in Worker : job'[v] = job[v] \/ job'[v].pc \in Serving
  <2>1. job' = [job EXCEPT ![w] = Idle] /\ UNCHANGED accounts /\ Idle.pc \in Serving
    BY <1>9 DEF SaveLocation, DeleteRow, SavePreferences, CreateFeedback, SaveFeedback, Idle
  <2> QED  BY <1>2, <2>1
<1> QED  BY <1>3, <1>4, <1>5, <1>6, <1>7, <1>8, <1>9 DEF UserNext

LEMMA UserStatements ==
  UserInv /\ UserNext =>
    /\ UNCHANGED users \/ OneRowWritten
    /\ \A v \in Worker : job'[v] = job[v] \/ job'[v].pc \in Keeping
  BY OtherViews, StatementByStatement DEF UserInv, accounts, Keeping, Serving, Accounting

-----------------------------------------------------------------------------
(* The steps of the views of AdminReports: they change a job and no table. *)

\* A worker that counts goes on with what it counted, as good as before.
NextCount(w, j) ==
  /\ job' = [job EXCEPT ![w] = j] /\ j.pc \in Counting \cup {"idle"}
  /\ CountOK(j, Cardinality(Ids), Cardinality(Inactive), Cardinality(Admins),
             IF job[w].pc \in Counting THEN drift[w] ELSE 0)

LEMMA AdminJob ==
  ASSUME AdminInv, NEW w \in Worker, AdminStep(w)
  PROVE  /\ UNCHANGED <<accounts, data>> /\ received' \in 0..MAX_REQUESTS
         /\ \E j : NextCount(w, j)
<1> DEFINE d == IF job[w].pc \in Counting THEN drift[w] ELSE 0
<1>0. /\ AccountInv /\ drift[w] \in Nat /\ d \in Nat
      /\ CountOK(job[w], Cardinality(Ids), Cardinality(Inactive), Cardinality(Admins), drift[w])
      /\ Cardinality(Ids) \in Nat /\ Cardinality(Active) \in Nat
      /\ Cardinality(Inactive) \in Nat /\ Cardinality(Admins) \in Nat
      /\ Cardinality(Ids) - Cardinality(Active) = Cardinality(Inactive)
  BY AccountsFinite, CountsOfNow DEF AdminInv, UserInv, CountsInv
<1>1. UNCHANGED <<accounts, data>> /\ received' \in 0..MAX_REQUESTS
  <2>1. UNCHANGED <<accounts, data>>
    BY DEF AdminStep, CountUsers, CountFeedback, CountActive, CountAdmins, CountRating, Show
  <2>2. received' = received \/ (received < MAX_REQUESTS /\ received' = received + 1)
    BY DEF AdminStep, CountUsers, CountFeedback, CountActive, CountAdmins, CountRating, Show, Take
  <2> QED  BY <1>0, <2>1, <2>2, BoundAssumption DEF AccountInv
<1>2. CASE \E caller \in Ids : CountUsers(w, caller)
  <2> DEFINE j == [pc |-> "countActive", total |-> Cardinality(Ids)]
  <2>1. job' = [job EXCEPT ![w] = j]
    BY <1>2 DEF CountUsers, Take
  <2>2. CountOK(j, Cardinality(Ids), Cardinality(Inactive), Cardinality(Admins), d) /\ j.pc \in Counting
    BY <1>0 DEF CountOK, Within, Counting
  <2> HIDE DEF j
  <2>9. NextCount(w, j)
    BY <2>1, <2>2 DEF NextCount, Counting
  <2> QED  BY <1>1, <2>9
<1>3. CASE \E caller \in Ids : CountFeedback(w, caller)
  <2> DEFINE j == [pc |-> "countRating", total |-> Len(feedback), distribution |-> << >>]
  <2>1. job' = [job EXCEPT ![w] = j]
    BY <1>3 DEF CountFeedback, Take
  <2>2. CountOK(j, Cardinality(Ids), Cardinality(Inactive), Cardinality(Admins), d)
    BY DEF CountOK
  <2>3. j.pc \in Counting
    BY DEF Counting
  <2> HIDE DEF j
  <2>9. NextCount(w, j)
    BY <2>1, <2>2, <2>3 DEF NextCount
  <2> QED  BY <1>1, <2>9
<1>4. CASE CountActive(w)
  <2> DEFINE j == Updated(job[w], [pc |-> "countAdmins", active |-> Cardinality(Active)])
  <2>1. job[w].pc = "countActive" /\ job' = [job EXCEPT ![w] = j] /\ d = drift[w]
    BY <1>4, <1>0 DEF CountActive, Counting, AccountInv
  <2>2. "total" \in DOMAIN job[w] /\ job[w].total \in Nat /\ Within(job[w].total, Cardinality(Ids), drift[w])
    BY <1>0, <2>1 DEF CountOK
  <2>3. /\ j.pc = "countAdmins" /\ j.active = Cardinality(Active) /\ j.total = job[w].total
        /\ {"total", "active"} \subseteq DOMAIN j
    BY <2>2 DEF Updated
  <2> HIDE DEF j
  <2>4. CountOK(j, Cardinality(Ids), Cardinality(Inactive), Cardinality(Admins), d)
    BY <1>0, <2>1, <2>2, <2>3 DEF CountOK, Within
  <2>9. NextCount(w, j)
    BY <2>1, <2>3, <2>4 DEF NextCount, Counting
  <2> QED  BY <1>1, <2>9
<1>5. CASE CountAdmins(w)
  <2> DEFINE j == Updated(job[w], [pc |-> "showUsers", admins |-> Cardinality(Admins)])
  <2>1. job[w].pc = "countAdmins" /\ job' = [job EXCEPT ![w] = j] /\ d = drift[w]
    BY <1>5, <1>0 DEF CountAdmins, Counting, AccountInv
  <2>2. /\ {"total", "active"} \subseteq DOMAIN job[w] /\ job[w].total \in Nat /\ job[w].active \in Nat
        /\ Within(job[w].total - job[w].active, Cardinality(Inactive), drift[w])
    BY <1>0, <2>1 DEF CountOK
  <2>3. /\ j.pc = "showUsers" /\ j.admins = Cardinality(Admins) /\ j.total = job[w].total
        /\ j.active = job[w].active
    BY <2>2 DEF Updated
  <2> HIDE DEF j
  <2>4. CountOK(j, Cardinality(Ids), Cardinality(Inactive), Cardinality(Admins), d)
    BY <1>0, <2>1, <2>2, <2>3 DEF CountOK, Within
  <2>9. NextCount(w, j)
    BY <2>1, <2>3, <2>4 DEF NextCount, Counting
  <2> QED  BY <1>1, <2>9
<1>6. CASE CountRating(w)
  <2>1. PICK total, counted :
          job[w] = [pc |-> "countRating", total |-> total, distribution |-> counted]
    BY <1>0, <1>6 DEF CountRating, CountOK
  <2>2. PICK more, pc : /\ job' = [job EXCEPT ![w].distribution = more, ![w].pc = pc]
                        /\ pc \in {"countRating", "showRatings"}
    <3> DEFINE added == Append(job[w].distribution, Cardinality(Rated(Ratings[Len(job[w].distribution) + 1])))
               next == IF Len(added) < Len(Ratings) THEN job[w].pc ELSE "showRatings"
    <3>1. job' = [job EXCEPT ![w].distribution = added, ![w].pc = next]
      BY <1>6 DEF CountRating
    <3>2. next \in {"countRating", "showRatings"}
      BY <1>6 DEF CountRating
    <3> HIDE DEF added, next
    <3> QED  BY <3>1, <3>2
  <2> DEFINE j == [pc |-> pc, total |-> total, distribution |-> more]
  <2>3. job' = [job EXCEPT ![w] = j]
    <3> DEFINE rated == [job[w] EXCEPT !.distribution = more]
    <3>0. rated = [pc |-> "countRating", total |-> total, distribution |-> more]
      BY <2>1
    <3> HIDE DEF rated
    <3>1. [rated EXCEPT !.pc = pc] = j
      BY <3>0
    <3>2. job' = [job EXCEPT ![w] = [rated EXCEPT !.pc = pc]]
      BY <1>0, <2>2 DEF AccountInv, rated
    <3> QED  BY <3>1, <3>2
  <2>4. CountOK(j, Cardinality(Ids), Cardinality(Inactive), Cardinality(Admins), d) /\ j.pc \in Counting \cup {"idle"}
    BY <2>2, <1>6 DEF CountOK, Counting, CountRating
  <2> HIDE DEF j
  <2>9. NextCount(w, j)
    BY <2>2, <2>3, <2>4 DEF NextCount, Counting
  <2> QED  BY <1>1, <2>9
<1>7. CASE Show(w)
  <2>1. job' = [job EXCEPT ![w] = Idle] /\ Idle.pc = "idle"
    BY <1>7 DEF Show, Idle
  <2>2. CountOK(Idle, Cardinality(Ids), Cardinality(Inactive), Cardinality(Admins), d)
    BY <2>1 DEF CountOK
  <2>9. NextCount(w, Idle)
    BY <2>1, <2>2 DEF NextCount
  <2> QED  BY <1>1, <2>9
<1> QED  BY <1>1, <1>2, <1>3, <1>4, <1>5, <1>6, <1>7 DEF AdminStep

\* A worker that goes on with another job of counting, or of none, carries
\* nothing that the tables depend on.
LEMMA AdminStepKeeps ==
  ASSUME AdminInv, NEW w \in Worker, AdminStep(w)
  PROVE  UserInv'
<1>1. PICK j : NextCount(w, j)
  BY AdminJob
<1>2. UNCHANGED <<accounts, data>> /\ received' \in 0..MAX_REQUESTS
  BY AdminJob
<1>3. job' = [job EXCEPT ![w] = j] /\ j.pc \notin Keeping \ {"idle"}
  BY <1>1 DEF NextCount, Keeping, Accounting, Counting
<1>4. AccountInv' /\ Ids' = Ids /\ \A v \in Worker : job'[v] = job[v] \/ job'[v] = j
  <2>1. UNCHANGED accounts /\ j.pc \notin {"create", "seed", "promote", "get", "save"}
    BY <1>2, <1>3 DEF Keeping, Accounting
  <2> QED  BY <1>2, <1>3, <2>1, AccountsRest DEF AdminInv, UserInv
<1>5. UNCHANGED data /\ Ids \subseteq Ids'
  BY <1>2, <1>4 DEF data
<1>6. \A v \in Worker : job'[v] = job[v] \/ DataJobOK(job'[v], Ids', rows', feedback', said')
  <2>1. DataJobOK(j, Ids', rows', feedback', said')
    BY <1>3, OtherJob DEF Keeping, Accounting
  <2> QED  BY <1>4, <2>1
<1> QED  BY <1>4, <1>5, <1>6, TablesRest DEF AdminInv, UserInv

\* What was counted is off by at most one more when a row is written, and the
\* drift grows with it.
LEMMA CountDrifts ==
  ASSUME NEW j, NEW n \in Nat, NEW i \in Nat, NEW s \in Nat, NEW d \in Nat, CountOK(j, n, i, s, d),
         NEW nN \in Nat, NEW iN \in Nat, NEW sN \in Nat, NEW e \in Nat,
         Within(n, nN, e), Within(i, iN, e), Within(s, sN, e)
  PROVE  CountOK(j, nN, iN, sN, d + e)
<1>1. ASSUME NEW a \in Int, NEW b \in Nat, NEW c \in Nat, Within(a, b, d), Within(b, c, e)
      PROVE  Within(a, c, d + e)
  BY <1>1 DEF Within
<1>2. CASE j.pc = "countActive"
  <2>1. Within(j.total, nN, d + e)
    BY <1>1, <1>2 DEF CountOK
  <2> QED  BY <1>2, <2>1 DEF CountOK
<1>3. CASE j.pc = "countAdmins"
  <2>1. j.total - j.active \in Int /\ Within(j.total - j.active, i, d)
    BY <1>3 DEF CountOK
  <2>2. Within(j.total - j.active, iN, d + e)
    BY <1>1, <2>1
  <2> QED  BY <1>3, <2>2 DEF CountOK
<1>4. CASE j.pc = "showUsers"
  <2>1. /\ j.total - j.active \in Int /\ Within(j.total - j.active, i, d)
        /\ j.admins \in Int /\ Within(j.admins, s, d)
    BY <1>4 DEF CountOK
  <2>2. Within(j.total - j.active, iN, d + e) /\ Within(j.admins, sN, d + e)
    BY <1>1, <2>1
  <2> QED  BY <1>4, <2>2 DEF CountOK
<1>5. CASE j.pc \notin {"countActive", "countAdmins", "showUsers"}
  BY <1>5 DEF CountOK
<1> QED  BY <1>2, <1>3, <1>4, <1>5

LEMMA CountsStep ==
  ASSUME AdminInv, UserInv', UNCHANGED users \/ OneRowWritten,
         drift' = [w \in Worker |->
                     IF {job[w].pc, job'[w].pc} \subseteq Counting THEN drift[w] + Changed ELSE 0],
         \A v \in Worker : \/ job'[v] = job[v]
                           \/ job'[v].pc \notin Counting
                           \/ UNCHANGED users /\ NextCount(v, job'[v])
  PROVE  CountsInv'
<1> SUFFICES ASSUME NEW v \in Worker
             PROVE  /\ drift'[v] \in Nat
                    /\ CountOK(job'[v], Cardinality(Ids'), Cardinality(Inactive'), Cardinality(Admins'),
                               drift'[v])
  BY DEF CountsInv
<1>1. AccountInv /\ AccountInv' /\ drift[v] \in Nat
      /\ CountOK(job[v], Cardinality(Ids), Cardinality(Inactive), Cardinality(Admins), drift[v])
  BY DEF AdminInv, UserInv, CountsInv
<1>2. /\ Changed \in {0, 1} /\ (Changed = 0 => UNCHANGED users)
      /\ drift'[v] = IF {job[v].pc, job'[v].pc} \subseteq Counting THEN drift[v] + Changed ELSE 0
  BY DEF Changed
<1>3. drift'[v] \in Nat
  BY <1>1, <1>2
<1>4. /\ Cardinality(Ids) \in Nat /\ Cardinality(Inactive) \in Nat /\ Cardinality(Admins) \in Nat
      /\ Cardinality(Ids') \in Nat /\ Cardinality(Inactive') \in Nat /\ Cardinality(Admins') \in Nat
  <2>1. Cardinality(Ids) \in Nat /\ Cardinality(Inactive) \in Nat /\ Cardinality(Admins) \in Nat
    BY <1>1, AccountsFinite
  <2>2. (Cardinality(Ids) \in Nat /\ Cardinality(Inactive) \in Nat /\ Cardinality(Admins) \in Nat)'
    BY <1>1, AccountsFinite, PTL
  <2> QED  BY <2>1, <2>2
<1>5. UNCHANGED users => Ids' = Ids /\ Inactive' = Inactive /\ Admins' = Admins
  BY DEF Ids, Inactive, Admins
<1>6. /\ Within(Cardinality(Ids), Cardinality(Ids'), Changed)
      /\ Within(Cardinality(Inactive), Cardinality(Inactive'), Changed)
      /\ Within(Cardinality(Admins), Cardinality(Admins'), Changed)
  <2>1. CASE UNCHANGED users
    BY <1>2, <1>4, <1>5, <2>1 DEF Within
  <2>2. CASE users' # users
    <3>1. Changed = 1 /\ OneRowWritten
      BY <1>2, <2>2
    <3> QED  BY <1>1, <3>1, NumbersMove
  <2> QED  BY <2>1, <2>2
<1>7. CASE job'[v].pc \notin Counting
  BY <1>3, <1>7 DEF CountOK, Counting
<1>8. CASE job'[v] = job[v] /\ job'[v].pc \in Counting
  <2>1. drift'[v] = drift[v] + Changed
    BY <1>2, <1>8
  <2>2. CountOK(job[v], Cardinality(Ids'), Cardinality(Inactive'), Cardinality(Admins'), drift[v] + Changed)
    BY <1>1, <1>2, <1>4, <1>6, CountDrifts
  <2> QED  BY <1>3, <1>8, <2>1, <2>2
<1>9. CASE UNCHANGED users /\ NextCount(v, job'[v]) /\ job'[v].pc \in Counting
  <2> DEFINE d == IF job[v].pc \in Counting THEN drift[v] ELSE 0
  <2>1. CountOK(job'[v], Cardinality(Ids), Cardinality(Inactive), Cardinality(Admins), d)
    BY <1>9 DEF NextCount
  <2>2. d \in Nat
    BY <1>1
  <2>3. CountOK(job'[v], Cardinality(Ids'), Cardinality(Inactive'), Cardinality(Admins'), d)
    BY <1>5, <1>9, <2>1
  <2>4. drift'[v] = IF job[v].pc \in Counting THEN d + Changed ELSE d
    BY <1>2, <1>9
  <2> HIDE DEF d
  <2>5. CountOK(job'[v], Cardinality(Ids'), Cardinality(Inactive'), Cardinality(Admins'), d + Changed)
    <3>1. /\ Within(Cardinality(Ids'), Cardinality(Ids'), Changed)
          /\ Within(Cardinality(Inactive'), Cardinality(Inactive'), Changed)
          /\ Within(Cardinality(Admins'), Cardinality(Admins'), Changed)
      BY <1>2, <1>4 DEF Within
    <3> QED  BY <1>2, <1>4, <2>2, <2>3, <3>1, CountDrifts
  <2> QED  BY <1>3, <2>3, <2>4, <2>5
<1> QED  BY <1>7, <1>8, <1>9

LEMMA AdminNextKeeps == AdminInv /\ [AdminNext]_reports => AdminInv'
<1> SUFFICES ASSUME AdminInv, [AdminNext]_reports PROVE AdminInv'
  OBVIOUS
<1>1. CASE AdminNext /\ UserNext
  <2>1. UserInv'
    BY <1>1, UserStep DEF AdminInv
  <2>2. /\ UNCHANGED users \/ OneRowWritten
        /\ \A v \in Worker : job'[v] = job[v] \/ job'[v].pc \in Keeping
    BY <1>1, UserStatements DEF AdminInv
  <2>3. \A v \in Worker : job'[v] = job[v] \/ job'[v].pc \notin Counting
    BY <2>2 DEF Keeping, Accounting, Counting
  <2>4. drift' = [w \in Worker |->
                    IF {job[w].pc, job'[w].pc} \subseteq Counting THEN drift[w] + Changed ELSE 0]
    BY <1>1 DEF AdminNext
  <2> QED  BY <2>1, <2>2, <2>3, <2>4, CountsStep DEF AdminInv
<1>2. ASSUME NEW w \in Worker, AdminNext, AdminStep(w) PROVE AdminInv'
  <2>1. UserInv'
    BY <1>2, AdminStepKeeps
  <2>2. PICK j : NextCount(w, j)
    BY <1>2, AdminJob
  <2>3. UNCHANGED users
    BY <1>2, AdminJob DEF accounts
  <2>4. \A v \in Worker : job'[v] = job[v] \/ (v = w /\ job'[v] = j)
    BY <2>2 DEF NextCount, AdminInv, UserInv, AccountInv
  <2>5. \A v \in Worker : job'[v] = job[v] \/ (UNCHANGED users /\ NextCount(v, job'[v]))
    BY <2>2, <2>3, <2>4
  <2>6. drift' = [v \in Worker |->
                    IF {job[v].pc, job'[v].pc} \subseteq Counting THEN drift[v] + Changed ELSE 0]
    BY <1>2 DEF AdminNext
  <2> QED  BY <2>1, <2>3, <2>5, <2>6, CountsStep DEF AdminInv
<1>3. CASE UNCHANGED reports
  BY <1>3 DEF reports, vars, data, AdminInv, UserInv, AccountInv, DataInv, CountsInv, Ids,
     Inactive, Admins
<1> QED  BY <1>1, <1>2, <1>3 DEF AdminNext

LEMMA AdminInitial == AdminInit => AdminInv
<1> SUFFICES ASSUME AdminInit PROVE AdminInv
  OBVIOUS
<1>1. UserInv
  BY UserInitial DEF AdminInit
<1>2. CountsInv
  BY DEF AdminInit, UserInit, Init, Idle, CountsInv, CountOK
<1> QED  BY <1>1, <1>2 DEF AdminInv

THEOREM AdminInvariant == AdminSpec => []AdminInv
  BY AdminInitial, AdminNextKeeps, PTL DEF AdminSpec

-----------------------------------------------------------------------------
(* The summary of ratings: what it has counted, what it has yet to count,  *)
(* and what has changed since.                                             *)

\* The rows whose rating is not one of the first n.
Uncounted(table, n) ==
  {k \in DOMAIN table : \E i \in DOMAIN Ratings : i > n /\ table[k].rating = Ratings[i]}

SummaryOK(j, table, d) ==
  /\ j.pc \in {"countRating", "showRatings"} =>
       /\ j.total \in Nat /\ j.distribution \in Seq(Nat)
       /\ Within(SumFunction(j.distribution) + Cardinality(Uncounted(table, Len(j.distribution))), j.total, d)
  /\ j.pc = "countRating" => Len(j.distribution) < Len(Ratings)
  /\ j.pc = "showRatings" => Len(j.distribution) = Len(Ratings)

SummariesInv == \A w \in Worker : SummaryOK(job[w], feedback, drift[w])

ReportsInv == AdminInv /\ SummariesInv

\* Every rating is listed, and once.
LEMMA RatingsListed ==
  /\ Ratings \in Seq(Label) /\ Len(Ratings) \in Nat /\ Len(Ratings) > 0
  /\ DOMAIN Ratings = 1..Len(Ratings)
  /\ \A rating \in Label : \E i \in DOMAIN Ratings : Ratings[i] = rating
  /\ \A i, k \in DOMAIN Ratings : Ratings[i] = Ratings[k] => i = k
<1> DEFINE n == Cardinality(Label)
<1>1. n \in Nat /\ ExistsBijection(1..n, Label)
  BY LabelAssumption, FS_CardinalityType
<1>2. n # 0
  BY LabelAssumption, FS_EmptySet
<1>3. \E f \in [1..n -> Label] : IsInjective(f)
  BY <1>1 DEF ExistsBijection, Bijection, Injection
<1>4. Ratings \in [1..n -> Label] /\ IsInjective(Ratings)
  BY <1>3, Zenon DEF Ratings, SetToSeq
<1>5. \A i, k \in DOMAIN Ratings : Ratings[i] = Ratings[k] => i = k
  BY <1>4 DEF IsInjective
<1> DEFINE R == {Ratings[i] : i \in 1..n}
<1>6. R \in SUBSET Label
  BY <1>4
<1>7. ExistsBijection(1..n, R)
  <2>1. Ratings \in [1..n -> R] /\ IsInjective(Ratings) /\ \A y \in R : \E i \in 1..n : Ratings[i] = y
    BY <1>4
  <2>2. Ratings \in Bijection(1..n, R)
    BY <2>1, Zenon DEF Bijection, Injection, Surjection
  <2> QED  BY <2>2 DEF ExistsBijection
<1>8. Cardinality(R) = n
  <2>1. 1 \in Int /\ n \in Int
    BY <1>1
  <2>2. IsFiniteSet(1..n) /\ Cardinality(1..n) = n
    BY <1>1, <2>1, FS_Interval
  <2> QED  BY <1>7, <2>2, FS_Bijection
<1> HIDE DEF R
<1>9. R = Label
  BY <1>6, <1>8, LabelAssumption, FS_Subset
<1>10. \A rating \in Label : \E i \in 1..n : Ratings[i] = rating
  BY <1>9 DEF R
<1> HIDE DEF n
<1>11. Ratings \in Seq(Label) /\ Len(Ratings) = n
  BY <1>1, <1>4
<1> QED  BY <1>1, <1>2, <1>4, <1>5, <1>10, <1>11

\* One more number in the distribution.
LEMMA SumAppend ==
  ASSUME NEW s \in Seq(Nat), NEW c \in Nat
  PROVE  SumFunction(s) \in Nat /\ SumFunction(Append(s, c)) = SumFunction(s) + c
<1> DEFINE n == Len(s)
           t == Append(s, c)
<1>1. /\ n \in Nat /\ DOMAIN s = 1..n /\ DOMAIN t = 1..(n + 1) /\ t \in Seq(Nat)
      /\ t[n + 1] = c /\ \A i \in 1..n : t[i] = s[i] /\ s[i] \in Nat
  OBVIOUS
<1>2. 1..(n + 1) = (1..n) \cup {n + 1} /\ n + 1 \notin 1..n
  BY <1>1
<1>3. Naturals(s, 1..n) /\ Naturals(t, (1..n) \cup {n + 1})
  BY <1>1, <1>2 DEF Naturals
<1>4. IsFiniteSet(1..n)
  <2>1. 1 \in Int /\ n \in Int
    BY <1>1
  <2> QED  BY <2>1, FS_Interval
<1> HIDE DEF t, n
<1> DEFINE x == n + 1
           S == 1..n
<1>5. SumFunctionOnSet(t, S \cup {x}) = SumFunctionOnSet(t, S) + t[x]
  <2>1. IsFiniteSet(S) /\ x \notin S /\ Naturals(t, S \cup {x})
    BY <1>2, <1>3, <1>4
  <2> HIDE DEF S, x
  <2> QED  BY <2>1, SumWith
<1>6. SumFunctionOnSet(t, 1..n) = SumFunctionOnSet(s, 1..n)
  BY <1>1, <1>3, <1>4, SumSame
<1>7. SumFunctionOnSet(s, 1..n) \in Nat
  BY <1>3, <1>4, SumNatural
<1>8. SumFunction(s) = SumFunctionOnSet(s, 1..n) /\ SumFunction(t) = SumFunctionOnSet(t, 1..(n + 1))
  BY <1>1 DEF SumFunction
<1> QED  BY <1>1, <1>2, <1>5, <1>6, <1>7, <1>8 DEF t

LEMMA UncountedFinite ==
  ASSUME NEW table, IsFiniteSet(DOMAIN table)
  PROVE  \A n : IsFiniteSet(Uncounted(table, n)) /\ Cardinality(Uncounted(table, n)) \in Nat
<1>1. \A n : Uncounted(table, n) \in SUBSET DOMAIN table
  BY DEF Uncounted
<1>2. \A n : IsFiniteSet(Uncounted(table, n))
  BY <1>1, FS_Subset
<1> QED  BY <1>2, FS_CardinalityType

\* What is left to count: every row at first, none in the end, and what one
\* count takes from it.
LEMMA UncountedRows ==
  ASSUME UserInv
  PROVE  /\ \A n : IsFiniteSet(Uncounted(feedback, n)) /\ Cardinality(Uncounted(feedback, n)) \in Nat
         /\ Uncounted(feedback, 0) = DOMAIN feedback
         /\ Uncounted(feedback, Len(Ratings)) = {}
         /\ \A n \in Nat : n < Len(Ratings) =>
              Cardinality(Uncounted(feedback, n))
                = Cardinality(Rated(Ratings[n + 1])) + Cardinality(Uncounted(feedback, n + 1))
<1>1. /\ \A k \in DOMAIN feedback : feedback[k].rating \in Label
      /\ DOMAIN feedback = 1..Len(feedback) /\ Len(feedback) \in Nat
  <2>1. feedback \in Seq(FeedbackRow(Ids))
    BY DEF UserInv, DataInv, FeedbackOK
  <2>2. \A k \in DOMAIN feedback : feedback[k] \in FeedbackRow(Ids)
    BY <2>1
  <2> QED  BY <2>1, <2>2 DEF FeedbackRow
<1>2. IsFiniteSet(DOMAIN feedback)
  <2>1. 1 \in Int /\ Len(feedback) \in Int
    BY <1>1
  <2> QED  BY <1>1, <2>1, FS_Interval
<1>3. \A n : IsFiniteSet(Uncounted(feedback, n)) /\ Cardinality(Uncounted(feedback, n)) \in Nat
  BY <1>2, UncountedFinite
<1>4. Uncounted(feedback, 0) = DOMAIN feedback
  <2>1. \A i \in DOMAIN Ratings : i > 0
    BY RatingsListed
  <2>2. \A k \in DOMAIN feedback : \E i \in DOMAIN Ratings : feedback[k].rating = Ratings[i]
    BY <1>1, RatingsListed, Zenon
  <2> QED  BY <2>1, <2>2 DEF Uncounted
<1>5. Uncounted(feedback, Len(Ratings)) = {}
  <2>1. \A i \in DOMAIN Ratings : ~(i > Len(Ratings))
    BY RatingsListed
  <2> QED  BY <2>1 DEF Uncounted
<1>6. ASSUME NEW n \in Nat, n < Len(Ratings)
      PROVE  Cardinality(Uncounted(feedback, n))
               = Cardinality(Rated(Ratings[n + 1])) + Cardinality(Uncounted(feedback, n + 1))
  <2>1. /\ n + 1 \in DOMAIN Ratings /\ n + 1 > n /\ ~(n + 1 > n + 1)
        /\ \A i \in DOMAIN Ratings : (i > n <=> i = n + 1 \/ i > n + 1)
    BY <1>6, RatingsListed
  <2>2. \A i \in DOMAIN Ratings : Ratings[i] = Ratings[n + 1] => i = n + 1
    BY <2>1, RatingsListed, Zenon
  <2> DEFINE A == Rated(Ratings[n + 1])
             B == Uncounted(feedback, n + 1)
  <2>3. Uncounted(feedback, n) = A \cup B /\ A \cap B = {}
    BY <2>1, <2>2, Zenon DEF Uncounted, Rated
  <2>4. A \subseteq DOMAIN feedback
    BY DEF Rated
  <2> HIDE DEF A
  <2>5. IsFiniteSet(A) /\ IsFiniteSet(B)
    BY <1>2, <1>3, <2>4, FS_Subset
  <2> HIDE DEF B
  <2>6. Cardinality(A \cup B) = Cardinality(A) + Cardinality(B)
    BY <2>3, <2>5, CountApart
  <2> QED  BY <2>3, <2>6 DEF A, B
<1> QED  BY <1>3, <1>4, <1>5, <1>6

\* The steps of the summary itself change no feedback.
LEMMA SummaryGoesOn ==
  ASSUME ReportsInv, NEW w \in Worker, AdminStep(w)
  PROVE  /\ UNCHANGED feedback
         /\ \E j : /\ job' = [job EXCEPT ![w] = j]
                   /\ SummaryOK(j, feedback, IF job[w].pc \in Counting THEN drift[w] ELSE 0)
<1> DEFINE d == IF job[w].pc \in Counting THEN drift[w] ELSE 0
<1>0. /\ UserInv /\ AccountInv /\ drift[w] \in Nat /\ d \in Nat /\ SummaryOK(job[w], feedback, drift[w])
      /\ Len(feedback) \in Nat
  BY DEF ReportsInv, SummariesInv, AdminInv, CountsInv, UserInv, DataInv, FeedbackOK
<1>1. UNCHANGED feedback
  BY AdminJob DEF ReportsInv, data
<1>2. CASE \E caller \in Ids : CountUsers(w, caller)
  <2>1. job' = [job EXCEPT ![w] = [pc |-> "countActive", total |-> Cardinality(Ids)]]
    BY <1>2 DEF CountUsers, Take
  <2>2. SummaryOK([pc |-> "countActive", total |-> Cardinality(Ids)], feedback, d)
    BY DEF SummaryOK
  <2> QED  BY <1>1, <2>1, <2>2
<1>3. CASE \E caller \in Ids : CountFeedback(w, caller)
  <2> DEFINE j == [pc |-> "countRating", total |-> Len(feedback), distribution |-> << >>]
  <2>1. job' = [job EXCEPT ![w] = j]
    BY <1>3 DEF CountFeedback, Take
  <2>2. SumFunction(<< >>) = 0
    BY SumOfNone DEF SumFunction
  <2>3. Cardinality(Uncounted(feedback, 0)) = Len(feedback)
    <3>1. Uncounted(feedback, 0) = 1..Len(feedback)
      BY <1>0, UncountedRows DEF UserInv, DataInv, FeedbackOK
    <3>2. 1 \in Int /\ Len(feedback) \in Int
      BY <1>0
    <3> QED  BY <1>0, <3>1, <3>2, FS_Interval
  <2>4. /\ j.pc = "countRating" /\ j.total = Len(feedback) /\ j.distribution = << >>
        /\ Len(<< >>) = 0 /\ << >> \in Seq(Nat)
    OBVIOUS
  <2> HIDE DEF j
  <2>5. SummaryOK(j, feedback, d)
    BY <1>0, <2>2, <2>3, <2>4, RatingsListed DEF SummaryOK, Within
  <2> QED  BY <1>1, <2>1, <2>5
<1>5. CASE CountActive(w)
  <2> DEFINE j == Updated(job[w], [pc |-> "countAdmins", active |-> Cardinality(Active)])
  <2>1. job' = [job EXCEPT ![w] = j]
    BY <1>0, <1>5 DEF CountActive, AccountInv
  <2>2. j.pc = "countAdmins"
    BY DEF Updated
  <2> HIDE DEF j
  <2>3. SummaryOK(j, feedback, d)
    BY <2>2 DEF SummaryOK
  <2> QED  BY <1>1, <2>1, <2>3
<1>6. CASE CountAdmins(w)
  <2> DEFINE j == Updated(job[w], [pc |-> "showUsers", admins |-> Cardinality(Admins)])
  <2>1. job' = [job EXCEPT ![w] = j]
    BY <1>0, <1>6 DEF CountAdmins, AccountInv
  <2>2. j.pc = "showUsers"
    BY DEF Updated
  <2> HIDE DEF j
  <2>3. SummaryOK(j, feedback, d)
    BY <2>2 DEF SummaryOK
  <2> QED  BY <1>1, <2>1, <2>3
<1>7. CASE CountRating(w)
  <2> DEFINE counted == job[w].distribution
             c == Cardinality(Rated(Ratings[Len(counted) + 1]))
             more == Append(counted, c)
             pc == IF Len(more) < Len(Ratings) THEN "countRating" ELSE "showRatings"
             rated == [job[w] EXCEPT !.distribution = more]
             j == [rated EXCEPT !.pc = pc]
  <2>1. /\ job[w].pc = "countRating"
        /\ job' = [job EXCEPT ![w].distribution = more, ![w].pc = pc]
    BY <1>7 DEF CountRating
  <2>2. job' = [job EXCEPT ![w] = j]
    BY <1>0, <2>1 DEF AccountInv
  <2>3. /\ job[w].total \in Nat /\ counted \in Seq(Nat) /\ Len(counted) \in Nat /\ Len(counted) < Len(Ratings)
        /\ Within(SumFunction(counted) + Cardinality(Uncounted(feedback, Len(counted))), job[w].total, drift[w])
    BY <1>0, <2>1 DEF SummaryOK
  <2>4. d = drift[w]
    BY <2>1 DEF Counting
  <2>5. j.pc = pc /\ j.total = job[w].total /\ j.distribution = more
    <3>1. PICK total, soFar : job[w] = [pc |-> "countRating", total |-> total, distribution |-> soFar]
      BY <2>1 DEF ReportsInv, AdminInv, CountsInv, CountOK
    <3> HIDE DEF more, counted, pc
    <3>2. rated = [pc |-> "countRating", total |-> total, distribution |-> more]
      BY <3>1
    <3> HIDE DEF rated
    <3>3. j = [pc |-> pc, total |-> total, distribution |-> more]
      BY <3>2
    <3> HIDE DEF j
    <3> QED  BY <3>1, <3>3
  <2>6. /\ Cardinality(Uncounted(feedback, Len(counted)))
             = c + Cardinality(Uncounted(feedback, Len(counted) + 1))
        /\ Cardinality(Uncounted(feedback, Len(counted) + 1)) \in Nat
    BY <1>0, <2>3, UncountedRows
  <2>7. c \in Nat
    <3>1. Rated(Ratings[Len(counted) + 1]) \in SUBSET DOMAIN feedback /\ DOMAIN feedback = 1..Len(feedback)
      BY <1>0 DEF Rated, UserInv, DataInv, FeedbackOK
    <3>2. 1 \in Int /\ Len(feedback) \in Int
      BY <1>0
    <3>3. IsFiniteSet(1..Len(feedback))
      BY <3>2, FS_Interval
    <3> QED  BY <3>1, <3>3, FS_Subset, FS_CardinalityType
  <2> HIDE DEF c, counted, j
  <2>8. /\ more \in Seq(Nat) /\ Len(more) = Len(counted) + 1
        /\ SumFunction(counted) \in Nat /\ SumFunction(more) = SumFunction(counted) + c
    BY <2>3, <2>7, SumAppend
  <2> HIDE DEF more
  <2>9. Within(SumFunction(more) + Cardinality(Uncounted(feedback, Len(more))), job[w].total, d)
    BY <1>0, <2>3, <2>4, <2>6, <2>7, <2>8 DEF Within
  <2>10. /\ pc \in {"countRating", "showRatings"}
         /\ pc = "countRating" => Len(more) < Len(Ratings)
         /\ pc = "showRatings" => Len(more) = Len(Ratings)
    <3>1. Len(Ratings) \in Nat /\ Len(counted) \in Nat /\ Len(counted) < Len(Ratings)
      BY <2>3, RatingsListed
    <3>2. ~(Len(more) < Len(Ratings)) => Len(more) = Len(Ratings)
      BY <2>8, <3>1
    <3> QED  BY <3>2, Zenon
  <2> HIDE DEF pc
  <2>11. SummaryOK(j, feedback, d)
    BY <2>3, <2>5, <2>8, <2>9, <2>10 DEF SummaryOK
  <2> QED  BY <1>1, <2>2, <2>11
<1>8. CASE Show(w)
  <2>1. job' = [job EXCEPT ![w] = Idle] /\ Idle.pc = "idle"
    BY <1>8 DEF Show, Idle
  <2>2. SummaryOK(Idle, feedback, d)
    BY <2>1 DEF SummaryOK
  <2> QED  BY <1>1, <2>1, <2>2
<1> QED  BY <1>2, <1>3, <1>5, <1>6, <1>7, <1>8 DEF AdminStep

\* A submission moves what is left to count by one row.
LEMMA SummaryDrifts ==
  ASSUME UserInv, UserInv', NEW j, NEW d \in Nat, NEW e \in Nat, SummaryOK(j, feedback, d),
         \/ UNCHANGED feedback
         \/ e > 0 /\ OneSubmission
  PROVE  SummaryOK(j, feedback', d + e)
<1> SUFFICES ASSUME j.pc \in {"countRating", "showRatings"}
             PROVE  SummaryOK(j, feedback', d + e)
  BY DEF SummaryOK
<1> DEFINE n == Len(j.distribution)
           before == Uncounted(feedback, n)
           after == Uncounted(feedback', n)
<1>1. /\ j.total \in Nat /\ j.distribution \in Seq(Nat)
      /\ Within(SumFunction(j.distribution) + Cardinality(before), j.total, d)
  BY DEF SummaryOK
<1>2. SumFunction(j.distribution) \in Nat
  BY <1>1, SumAppend
<1>3. IsFiniteSet(before) /\ Cardinality(before) \in Nat
  BY UncountedRows
<1>4. IsFiniteSet(after) /\ Cardinality(after) \in Nat
  <2>1. DOMAIN feedback' = 1..Len(feedback') /\ Len(feedback') \in Nat
    BY DEF UserInv, DataInv, FeedbackOK
  <2>2. 1 \in Int /\ Len(feedback') \in Int
    BY <2>1
  <2> QED  BY <2>1, <2>2, FS_Interval, UncountedFinite
<1>5. Within(Cardinality(before), Cardinality(after), e)
  <2>1. CASE UNCHANGED feedback
    <3>1. after = before
      BY <2>1
    <3> HIDE DEF after, before
    <3> QED  BY <1>3, <3>1 DEF Within
  <2>2. CASE e > 0 /\ OneSubmission
    <3>1. PICK x : \A k \in (DOMAIN feedback \cup DOMAIN feedback') \ {x} :
                     k \in DOMAIN feedback \cap DOMAIN feedback' /\ feedback'[k] = feedback[k]
      BY <2>2 DEF OneSubmission
    <3>2. before \ {x} = after \ {x}
      BY <3>1, Zenon DEF Uncounted
    <3> HIDE DEF after, before
    <3>3. Within(Cardinality(before), Cardinality(after), 1)
      BY <1>3, <1>4, <3>2, CloseSets
    <3> QED  BY <1>3, <1>4, <2>2, <3>3 DEF Within
  <2> QED  BY <2>1, <2>2
<1> HIDE DEF before, after
<1>6. Within(SumFunction(j.distribution) + Cardinality(after), j.total, d + e)
  BY <1>1, <1>2, <1>3, <1>4, <1>5 DEF Within
<1> QED  BY <1>1, <1>6 DEF SummaryOK, after

LEMMA SummariesStep == ReportsInv /\ AdminInv' /\ [AdminNext]_reports => SummariesInv'
<1> SUFFICES ASSUME ReportsInv, AdminInv', [AdminNext]_reports, NEW v \in Worker
             PROVE  SummaryOK(job'[v], feedback', drift'[v])
  BY DEF SummariesInv
<1>1. /\ AdminInv /\ UserInv /\ UserInv' /\ drift[v] \in Nat /\ SummaryOK(job[v], feedback, drift[v])
      /\ job = [w \in Worker |-> job[w]]
  BY DEF ReportsInv, SummariesInv, AdminInv, CountsInv, UserInv, AccountInv
<1>2. CASE UNCHANGED reports
  BY <1>1, <1>2 DEF reports, vars, data
<1>3. ASSUME AdminNext PROVE SummaryOK(job'[v], feedback', drift'[v])
  <2> DEFINE d == IF job[v].pc \in Counting THEN drift[v] ELSE 0
  <2>1. drift'[v] = IF {job[v].pc, job'[v].pc} \subseteq Counting THEN drift[v] + Changed ELSE 0
    BY <1>3 DEF AdminNext
  <2>2. Changed \in Nat /\ (UNCHANGED feedback \/ Changed > 0)
    BY DEF Changed
  <2>3. UNCHANGED feedback \/ OneSubmission
    <3>1. CASE UserNext
      BY <1>1, <3>1, FeedbackOneByOne
    <3>2. ASSUME NEW w \in Worker, AdminStep(w) PROVE UNCHANGED feedback
      BY <3>2, SummaryGoesOn
    <3> QED  BY <1>3, <3>1, <3>2 DEF AdminNext
  <2>4. CASE job'[v].pc \notin {"countRating", "showRatings"}
    BY <2>4 DEF SummaryOK
  <2>5. CASE job'[v] = job[v] /\ job'[v].pc \in {"countRating", "showRatings"}
    <3>1. drift'[v] = drift[v] + Changed
      BY <2>1, <2>5 DEF Counting
    <3>2. SummaryOK(job[v], feedback', drift[v] + Changed)
      BY <1>1, <2>2, <2>3, SummaryDrifts
    <3> QED  BY <2>5, <3>1, <3>2
  <2>6. CASE UNCHANGED feedback /\ SummaryOK(job'[v], feedback, d) /\ job'[v].pc \in {"countRating", "showRatings"}
    <3>1. d \in Nat /\ drift'[v] = IF job[v].pc \in Counting THEN d + Changed ELSE d
      BY <1>1, <2>1, <2>6 DEF Counting
    <3> HIDE DEF d
    <3>2. SummaryOK(job'[v], feedback', d) /\ SummaryOK(job'[v], feedback', d + Changed)
      BY <1>1, <2>2, <2>6, <3>1, SummaryDrifts
    <3> QED  BY <3>1, <3>2
  <2>7. CASE UserNext
    <3>1. job'[v] = job[v] \/ job'[v].pc \in Keeping
      BY <1>1, <2>7, UserStatements
    <3> QED  BY <2>4, <2>5, <3>1 DEF Keeping, Accounting
  <2>8. ASSUME NEW w \in Worker, AdminStep(w) PROVE SummaryOK(job'[v], feedback', drift'[v])
    <3>1. PICK j : /\ job' = [job EXCEPT ![w] = j]
                   /\ SummaryOK(j, feedback, IF job[w].pc \in Counting THEN drift[w] ELSE 0)
      BY <2>8, SummaryGoesOn
    <3>2. UNCHANGED feedback
      BY <2>8, SummaryGoesOn
    <3>3. job'[v] = job[v] \/ (v = w /\ job'[v] = j)
      BY <1>1, <3>1
    <3> QED  BY <2>4, <2>5, <2>6, <3>1, <3>2, <3>3
  <2> QED  BY <1>3, <2>7, <2>8 DEF AdminNext
<1> QED  BY <1>2, <1>3

THEOREM ReportsInvariant == AdminSpec => []ReportsInv
<1>1. AdminInit => ReportsInv
  BY AdminInitial DEF AdminInit, UserInit, Init, Idle, ReportsInv, SummariesInv, SummaryOK
<1>2. ReportsInv /\ [AdminNext]_reports => ReportsInv'
  BY AdminNextKeeps, SummariesStep DEF ReportsInv
<1> QED  BY <1>1, <1>2, PTL DEF AdminSpec

-----------------------------------------------------------------------------
(* The pages of feedback.                                                  *)

\* Rows are added behind the others, and keep their owners: no row is listed
\* before fewer rows than it was.
LEMMA PagesStay ==
  ASSUME UserInv, UserInv', KeysKept, NEW owners, NEW offset \in Int
  PROVE  Beyond(owners, offset) \subseteq Beyond(owners, offset)'
<1> DEFINE S == FeedbackOf(owners)
           T == FeedbackOf(owners)'
<1>1. DOMAIN feedback = 1..Len(feedback) /\ DOMAIN feedback' = 1..Len(feedback')
      /\ Len(feedback) \in Nat /\ Len(feedback') \in Nat
  BY DEF UserInv, DataInv, FeedbackOK
<1>2. S \subseteq T /\ T \in SUBSET (1..Len(feedback'))
  BY <1>1 DEF KeysKept, FeedbackOf
<1>3. IsFiniteSet(T)
  <2>1. 1 \in Int /\ Len(feedback') \in Int
    BY <1>1
  <2>2. IsFiniteSet(1..Len(feedback'))
    BY <2>1, FS_Interval
  <2> HIDE DEF T
  <2> QED  BY <1>2, <2>2, FS_Subset
<1> HIDE DEF S, T
<1>4. ASSUME NEW k PROVE /\ Ahead(S, k) \subseteq Ahead(T, k) /\ Ahead(T, k) \subseteq T
  BY <1>2, Zenon DEF Ahead
<1>5. ASSUME NEW k
      PROVE  /\ Cardinality(Ahead(S, k)) \in Nat /\ Cardinality(Ahead(T, k)) \in Nat
             /\ Cardinality(Ahead(S, k)) <= Cardinality(Ahead(T, k))
  <2>1. IsFiniteSet(Ahead(T, k))
    BY <1>3, <1>4, FS_Subset
  <2>2. IsFiniteSet(Ahead(S, k)) /\ Cardinality(Ahead(S, k)) <= Cardinality(Ahead(T, k))
    BY <1>4, <2>1, FS_Subset
  <2> QED  BY <2>1, <2>2, FS_CardinalityType
<1>6. ASSUME NEW k \in S, Cardinality(Ahead(S, k)) >= offset
      PROVE  k \in T /\ Cardinality(Ahead(T, k)) >= offset
  BY <1>2, <1>5, <1>6
<1>7. /\ Beyond(owners, offset) = {k \in S : Cardinality(Ahead(S, k)) >= offset}
      /\ Beyond(owners, offset)' = {k \in T : Cardinality(Ahead(T, k)) >= offset}
  BY DEF Beyond, Ahead, S, T
<1> QED  BY <1>6, <1>7

LEMMA PagesKept == AdminInv /\ AdminInv' /\ [AdminNext]_reports =>
                     [\A owners \in {Ids} \cup {{id} : id \in Ids}, offset \in 0..Len(feedback) :
                        Beyond(owners, offset) \subseteq Beyond(owners, offset)']_feedback
<1> SUFFICES ASSUME AdminInv, AdminInv', [AdminNext]_reports, feedback' # feedback,
                    NEW owners, NEW offset \in 0..Len(feedback)
             PROVE  Beyond(owners, offset) \subseteq Beyond(owners, offset)'
  OBVIOUS
<1>1. AdminNext
  BY DEF reports, data
<1>2. UserNext
  BY <1>1, AdminJob DEF AdminNext, AdminInv, data
<1>3. KeysKept
  BY <1>2, FeedbackWritten DEF AdminInv
<1> QED  BY <1>3, PagesStay DEF AdminInv

-----------------------------------------------------------------------------
(* The theorems.                                                           *)

LEMMA RowsImplied == UserInv => UserTypeOK /\ RowsAreTheOwners /\ FeedbackIsOneSubmission
<1> SUFFICES ASSUME UserInv PROVE UserTypeOK /\ RowsAreTheOwners /\ FeedbackIsOneSubmission
  OBVIOUS
<1>1. /\ AccountInv /\ RowsOK(rows, Ids, said) /\ PreferencesOK(preferences, Ids, said)
      /\ FeedbackOK(feedback, Ids, said)
  BY DEF UserInv, DataInv
<1>2. ASSUME NEW t \in Table, NEW key \in DOMAIN rows[t], rows[t][key] # Gone
      PROVE  /\ rows[t][key].owner \in Ids
             /\ [f \in DOMAIN rows[t][key] \ {"owner"} |-> rows[t][key][f]] \in Content(t)
             /\ \A f \in DOMAIN rows[t][key] \ {"owner"} :
                  <<<<t, key>>, rows[t][key].owner, f, rows[t][key][f]>> \in said
  <2> DEFINE row == rows[t][key]
  <2>1. OwnedRow(t, key, row, Ids, said)
    BY <1>1, <1>2 DEF RowsOK
  <2> HIDE DEF row
  <2>2. CASE t = "locations"
    <3>1. row \in [owner : Ids, name : Label, at : Label] /\ DOMAIN row = {"owner", "name", "at"}
      BY <2>1, <2>2 DEF OwnedRow, RowKind
    <3>2. [f \in DOMAIN row \ {"owner"} |-> row[f]] \in [name : Label, at : Label]
      BY <3>1
    <3> QED  BY <2>1, <2>2, <3>1, <3>2 DEF OwnedRow, Content, row
  <2>3. CASE t = "favourites"
    <3>1. row \in [owner : Ids, route : Label] /\ DOMAIN row = {"owner", "route"}
      BY <2>1, <2>3 DEF OwnedRow, RowKind
    <3>2. [f \in DOMAIN row \ {"owner"} |-> row[f]] \in [route : Label]
      BY <3>1
    <3> QED  BY <2>1, <2>3, <3>1, <3>2 DEF OwnedRow, Content, row
  <2> QED  BY <2>2, <2>3 DEF Table
<1>3. UserTypeOK
  BY <1>1, <1>2, AccountsImplied
  DEF UserTypeOK, PreferencesOK, OwnPreferences, PreferenceRow, FeedbackOK, FeedbackRow
<1>4. RowsAreTheOwners
  <2>1. ASSUME NEW t \in Table, NEW key \in DOMAIN rows[t], NEW f \in DOMAIN rows[t][key] \ {"owner"}
        PROVE  <<<<t, key>>, rows[t][key].owner, f, rows[t][key][f]>> \in said
    BY <1>2, <2>1 DEF Gone
  <2> QED  BY <1>1, <2>1 DEF RowsAreTheOwners, PreferencesOK, OwnPreferences
<1>5. FeedbackIsOneSubmission
  BY <1>1 DEF FeedbackOK, FeedbackIsOneSubmission, FeedbackAt
<1> QED  BY <1>3, <1>4, <1>5

LEMMA CountsImplied == AdminInv => UsersAddUp
<1> SUFFICES ASSUME AdminInv, NEW w \in Worker, job[w].pc = "showUsers"
             PROVE  /\ Apart(InactiveShown(job[w]), Cardinality(Inactive)) <= drift[w]
                    /\ Apart(job[w].admins, Cardinality(Admins)) <= drift[w]
  BY DEF UsersAddUp, Inactive, Admins
<1>1. /\ job[w].total \in Nat /\ job[w].active \in Nat /\ job[w].admins \in Nat /\ drift[w] \in Nat
      /\ Within(job[w].total - job[w].active, Cardinality(Inactive), drift[w])
      /\ Within(job[w].admins, Cardinality(Admins), drift[w])
  BY DEF AdminInv, CountsInv, CountOK
<1>2. Cardinality(Inactive) \in Nat /\ Cardinality(Admins) \in Nat
  BY AccountsFinite DEF AdminInv, UserInv
<1> QED  BY <1>1, <1>2 DEF Within, Apart, InactiveShown

\* The tables and the accounts are of their kinds, with all services at work.
THEOREM UserDataTyped == AdminSpec => []UserTypeOK
  BY AdminInvariant, RowsImplied, PTL DEF AdminInv

\* Locations, favourites and preferences hold what their owners were granted,
\* whichever copies are saved over one another or after a deletion.
\* (SavedLocationDetailView, UserPreferencesView)
THEOREM RowsStayTheOwners == AdminSpec => []RowsAreTheOwners
  BY AdminInvariant, RowsImplied, PTL DEF AdminInv

\* One row of feedback for an account and a request, and one submission in it.
\* (RouteFeedbackView.post)
THEOREM FeedbackStaysOne == AdminSpec => []FeedbackIsOneSubmission
  BY AdminInvariant, RowsImplied, PTL DEF AdminInv

\* No other view registers anyone, or writes a role.
LEMMA RegistrationBeside ==
  AdminInv /\ RegistrationInv /\ [AdminNext]_reports => RegistrationInv'
<1> SUFFICES ASSUME AdminInv, RegistrationInv, [AdminNext]_reports PROVE RegistrationInv'
  OBVIOUS
<1>1. ASSUME UNCHANGED accounts,
             \A v \in Worker : job'[v] = job[v] \/ job'[v].pc \in Serving \cup Counting
      PROVE  RegistrationInv'
  <2>1. \A v \in Worker : job'[v] = job[v] \/ RegistrationJob(job'[v], registered)
    BY <1>1 DEF RegistrationJob, Serving, Counting
  <2>2. AddressesKept /\ UNCHANGED <<users, registered>>
    BY <1>1 DEF AddressesKept, accounts, Ids
  <2> QED  BY <2>1, <2>2, NobodyRegistered
<1>2. CASE UserNext
  <2>1. CASE Next
    BY <2>1, RegistrationStep DEF AdminInv, UserInv
  <2>2. CASE UNCHANGED accounts /\ \A v \in Worker : job'[v] = job[v] \/ job'[v].pc \in Serving
    BY <1>1, <2>2
  <2> QED  BY <1>2, <2>1, <2>2, OtherViews DEF AdminInv
<1>3. ASSUME NEW w \in Worker, AdminStep(w) PROVE RegistrationInv'
  <2>1. UNCHANGED accounts /\ \E j : NextCount(w, j)
    BY <1>3, AdminJob
  <2>2. \A v \in Worker : job'[v] = job[v] \/ job'[v].pc \in Serving \cup Counting
    BY <2>1 DEF NextCount, Serving, AdminInv, UserInv, AccountInv
  <2> QED  BY <1>1, <2>1, <2>2
<1>4. CASE UNCHANGED reports
  BY <1>1, <1>4 DEF reports, vars, accounts
<1> QED  BY <1>2, <1>3, <1>4 DEF AdminNext

\* The views beside them leave the accounts as the first part says.
THEOREM AccountsStayRight == AdminSpec => [](ValuesAsked /\ StaffIsAdmin /\ OneAccountPerEmail)
<1>1. AdminInit => RegistrationInv
  BY NobodyRegisteredYet DEF AdminInit, UserInit
<1>2. AdminSpec => []RegistrationInv
  BY <1>1, AdminInvariant, RegistrationBeside, PTL DEF AdminSpec
<1>3. AdminInv => ValuesAsked /\ OneAccountPerEmail
  BY AccountsImplied DEF AdminInv, UserInv
<1> QED  BY <1>2, <1>3, AdminInvariant, RolesImplied, PTL

\* The numbers of the overview are off by no more than what changed since the
\* first count.  (UserAnalyticsOverviewView.get)
THEOREM OverviewOfUsers == AdminSpec => []UsersAddUp
  BY AdminInvariant, CountsImplied, PTL

\* Who reads feedback page after page misses no row, whatever is submitted
\* meanwhile.  (FeedbackAnalyticsView.get)
THEOREM NoRowIsMissed == AdminSpec => PagesMissNothing
<1>1. AdminSpec => []AdminInv
  BY AdminInvariant
<1> QED  BY <1>1, PagesKept, PTL DEF AdminSpec, PagesMissNothing
\* In the end nothing is left to count.
LEMMA SummaryImplied == ReportsInv => RatingsAddUp
<1> SUFFICES ASSUME ReportsInv, NEW w \in Worker, job[w].pc = "showRatings"
             PROVE  Apart(SumFunction(job[w].distribution), job[w].total) <= drift[w]
  BY DEF RatingsAddUp
<1>1. /\ UserInv /\ drift[w] \in Nat
      /\ job[w].total \in Nat /\ job[w].distribution \in Seq(Nat)
      /\ Within(SumFunction(job[w].distribution) + Cardinality(Uncounted(feedback, Len(Ratings))),
                job[w].total, drift[w])
  BY DEF ReportsInv, AdminInv, CountsInv, SummariesInv, SummaryOK
<1>2. Cardinality(Uncounted(feedback, Len(Ratings))) = 0
  BY <1>1, UncountedRows, FS_EmptySet
<1>3. SumFunction(job[w].distribution) \in Nat
  BY <1>1, SumAppend
<1> QED  BY <1>1, <1>2, <1>3 DEF Apart, Within

\* The ratings of a summary differ from its total by no more than what changed
\* since the first count.  (FeedbackSummaryView.get, RouteFeedbackView.post)
THEOREM SummaryOfRatings == AdminSpec => []RatingsAddUp
  BY ReportsInvariant, SummaryImplied, PTL

=============================================================================
