------------------------------ MODULE Accounts ------------------------------
(***************************************************************************)
(* Accounts: registration, logins, changes by their owners and by admins,  *)
(* and the command that seeds an admin when the server starts              *)
(* (Core/Application/Authentication/Commands, ChangeUserRoleCommand,       *)
(* auth_views.py, admin_management_views.py, seed_admin.py).               *)
(*                                                                         *)
(* The database commits every statement by itself, and a step of a worker  *)
(* is one statement: a change reads the row, changes its copy, and saves   *)
(* the whole copy.  A profile stands for the names, the number, the gender *)
(* and the address.  Passwords are all usable: get_or_create leaves an     *)
(* empty one, which Django counts as usable, and no row is made with none, *)
(* so seed_admin never has one to reset.                                   *)
(***************************************************************************)
EXTENDS Naturals, Sequences

CONSTANTS
  Worker,          \* the server's threads, and whoever runs seed_admin
  Email,           \* spellings of addresses
  Normal,          \* Normal[e]: e with its domain in lower case
  Password, Profile,
  SEED_EMAIL, SEED_PASSWORD, SEED_PROFILE,
  MAX_REQUESTS     \* bound: requests in a behaviour

NoPassword == ""   \* no password typed matches it
Role == {"Admin", "User"}

\* A registration may name any role; "other" stands for the strings that name none.
TypedRole == Role \cup {"other"}

ASSUME EmailAssumption == Normal \in [Email -> Email] /\ \A e \in Email : Normal[Normal[e]] = Normal[e]
ASSUME SeedAssumption == SEED_EMAIL \in Email /\ SEED_PASSWORD \in Password /\ SEED_PROFILE \in Profile
ASSUME PasswordAssumption == NoPassword \notin Password
ASSUME BoundAssumption == MAX_REQUESTS \in Nat

VARIABLES
  users,       \* the rows of User, in the order of their keys
  job,         \* what each worker is doing
  received,    \* requests taken
  registered,  \* accepted registrations: what was typed, and the key
  asked,       \* values accepted for a field of a row, by key
  dismissed    \* keys deactivated, since an admin last set them active

vars == <<users, job, received, registered, asked, dismissed>>

Ids == DOMAIN users

NewUser(e, p, n, role, staff) ==
  [email |-> e, password |-> p, profile |-> n, role |-> role, staff |-> staff, active |-> TRUE]
Idle == [pc |-> "idle"]

Asks(id, fields) == {<<id, f, fields[f]>> : f \in DOMAIN fields}
EmailTaken(e) == \E id \in Ids : users[id].email = e

SeedRow == NewUser(Normal[SEED_EMAIL], SEED_PASSWORD, SEED_PROFILE, "Admin", TRUE)

\* The server starts when seed_admin has run, which seeds nothing without a
\* password from the environment.
Init ==
  /\ \/ users = << >> /\ asked = {}
     \/ users = <<SeedRow>> /\ asked = Asks(1, SeedRow)
  /\ job = [w \in Worker |-> Idle]
  /\ received = 0
  /\ registered = {}
  /\ dismissed = {}

\* w takes a request and goes on with j.
Take(w, j) ==
  /\ job[w].pc = "idle" /\ received < MAX_REQUESTS
  /\ received' = received + 1
  /\ job' = [job EXCEPT ![w] = j]

Insert(row) ==
  /\ users' = Append(users, row)
  /\ asked' = asked \cup Asks(Len(users) + 1, row)

\* The spelling typed is looked for.  The role, User unless the request names
\* one, is stored as it is; the staff flag is not touched.
Register(w, e, p, n, role) ==
  /\ Take(w, IF EmailTaken(e) THEN Idle
             ELSE [pc |-> "create", typed |-> [email |-> e, password |-> p, role |-> role],
                   row |-> NewUser(Normal[e], p, n, role, FALSE)])
  /\ UNCHANGED <<users, registered, asked, dismissed>>

\* Mutant of Create: no index refuses the row.
CreateAnyway(w) ==
  /\ job[w].pc = "create"
  /\ job' = [job EXCEPT ![w] = Idle]
  /\ Insert(job[w].row)
  /\ registered' = registered \cup {<<Len(users) + 1, job[w].typed>>}
  /\ UNCHANGED <<received, dismissed>>

\* The spelling stored is another, and another worker may have been faster:
\* the unique index refuses it, and the answer is a 500.
Create(w) ==
  /\ job[w].pc = "create"
  /\ job' = [job EXCEPT ![w] = Idle]
  /\ IF EmailTaken(job[w].row.email) THEN UNCHANGED <<users, asked, registered>>
     ELSE /\ Insert(job[w].row)
          /\ registered' = registered \cup {<<Len(users) + 1, job[w].typed>>}
  /\ UNCHANGED <<received, dismissed>>

\* get_or_create: the row is there, or is inserted, or has been meanwhile.
GoogleLogin(w, e, n) ==
  /\ Take(w, Idle)
  /\ IF EmailTaken(e) THEN UNCHANGED <<users, asked>> ELSE Insert(NewUser(e, NoPassword, n, "User", FALSE))
  /\ UNCHANGED <<registered, dismissed>>

\* seed_admin, at another start of the server: the address is looked for as it is
\* given, and an account that is not an admin is made one.
SeedAdmin(w) ==
  /\ \/ /\ ~EmailTaken(SEED_EMAIL)
        /\ Take(w, [pc |-> "seed", row |-> SeedRow])
     \/ \E id \in Ids :
          /\ users[id].email = SEED_EMAIL /\ users[id].role # "Admin"
          /\ Take(w, [pc |-> "promote", id |-> id])
  /\ UNCHANGED <<users, registered, asked, dismissed>>

\* The unique index may refuse the row here too, and the command ends.
Seed(w) ==
  /\ job[w].pc = "seed"
  /\ job' = [job EXCEPT ![w] = Idle]
  /\ IF EmailTaken(job[w].row.email) THEN UNCHANGED <<users, asked>> ELSE Insert(job[w].row)
  /\ UNCHANGED <<received, registered, dismissed>>

\* Only the fields named are saved.
Promote(w) ==
  /\ job[w].pc = "promote"
  /\ job' = [job EXCEPT ![w] = Idle]
  /\ LET id == job[w].id IN
     /\ users' = [users EXCEPT ![id].role = "Admin", ![id].staff = TRUE]
     /\ asked' = asked \cup Asks(id, [role |-> "Admin", staff |-> TRUE])
  /\ UNCHANGED <<received, registered, dismissed>>

-----------------------------------------------------------------------------
(* Changes of a row.                                                       *)

\* Authentication reads the row of the caller, who must be active.
Authentic(id) == id \in Ids /\ users[id].active
Admin(id) == Authentic(id) /\ users[id].role = "Admin"

\* ProfileView.put saves the copy that authentication read.
UpdateProfile(w, id, n) ==
  /\ Authentic(id)
  /\ Take(w, [pc |-> "save", id |-> id, row |-> users[id], change |-> [profile |-> n]])
  /\ UNCHANGED <<users, registered, asked, dismissed>>

ChangePassword(w, id, current, new) ==
  /\ Authentic(id)
  /\ Take(w, [pc |-> "get", id |-> id, known |-> {current}, change |-> [password |-> new]])
  /\ UNCHANGED <<users, registered, asked, dismissed>>

\* Mutant of RoleChange: the staff flag is left.
RoleChangeAlone(role) == [role |-> role]

RoleChange(role) == [role |-> role, staff |-> (role = "Admin")]

\* ChangeUserRoleView, and AdminUserDetailView.put and .delete; the last not
\* of oneself.
ChangeByAdmin(w, caller, id, change) ==
  /\ Admin(caller) /\ id \in Ids
  /\ Take(w, [pc |-> "get", id |-> id, known |-> Password \cup {NoPassword}, change |-> change])
  /\ UNCHANGED <<users, registered, asked, dismissed>>

AdminChanges ==
  {[profile |-> n] : n \in Profile} \cup {RoleChange(role) : role \in Role}
  \cup {[active |-> b] : b \in BOOLEAN}

\* Own changes and changes by admins; a password is checked on this copy.
Get(w) ==
  /\ job[w].pc = "get"
  /\ LET row == users[job[w].id] IN
     job' = [job EXCEPT ![w] =
               IF row.password \notin job[w].known THEN Idle
               ELSE [pc |-> "save", id |-> job[w].id, row |-> row, change |-> job[w].change]]
  /\ UNCHANGED <<users, received, registered, asked, dismissed>>

\* row with what change sets.
Updated(row, change) ==
  [f \in DOMAIN row \cup DOMAIN change |-> IF f \in DOMAIN change THEN change[f] ELSE row[f]]

\* Mutant of Saved: the row is made anew of what was sent.
SavedAnew(j) == j.change

\* Mutant of Saved: the copy is of another row.
SavedElsewhere(j) == Updated([j.row EXCEPT !.password = users[1].password], j.change)

Saved(j) == Updated(j.row, j.change)

\* The whole copy is saved, over whatever was saved meanwhile.
Save(w) ==
  /\ job[w].pc = "save"
  /\ LET j == job[w] IN
     /\ users' = [users EXCEPT ![j.id] = Saved(j)]
     /\ asked' = asked \cup Asks(j.id, j.change)
     /\ dismissed' = IF "active" \notin DOMAIN j.change THEN dismissed
                     ELSE IF j.change.active THEN dismissed \ {j.id} ELSE dismissed \cup {j.id}
  /\ job' = [job EXCEPT ![w] = Idle]
  /\ UNCHANGED <<received, registered>>

Next ==
  \E w \in Worker :
    \/ SeedAdmin(w) \/ Seed(w) \/ Promote(w)
    \/ \E e \in Email, p \in Password, n \in Profile, role \in TypedRole : Register(w, e, p, n, role)
    \/ Create(w)
    \/ \E e \in Email, n \in Profile : GoogleLogin(w, e, n)
    \/ \E id \in Ids, n \in Profile : UpdateProfile(w, id, n)
    \/ \E id \in Ids, p, q \in Password : ChangePassword(w, id, p, q)
    \/ \E caller, id \in Ids, change \in AdminChanges : ChangeByAdmin(w, caller, id, change)
    \/ Get(w)
    \/ Save(w)

Spec == Init /\ [][Next]_vars

-----------------------------------------------------------------------------
(* Properties.                                                             *)

Row == [email : Email, password : Password \cup {NoPassword}, profile : Profile, role : TypedRole,
        staff : BOOLEAN, active : BOOLEAN]

TypeOK ==
  /\ users \in Seq(Row)
  /\ \A w \in Worker :
       /\ job[w].pc \in {"create", "seed"} => job[w].row \in Row
       /\ job[w].pc = "promote" => job[w].id \in Ids
       /\ job[w].pc = "get" => job[w].id \in Ids /\ job[w].known \subseteq Password \cup {NoPassword}
       /\ job[w].pc = "save" => job[w].id \in Ids /\ Saved(job[w]) \in Row
  /\ received \in 0..MAX_REQUESTS
  /\ dismissed \subseteq Ids

\* Whole rows are saved over one another, so values come back that had been
\* replaced; but a field of an account never holds a value that was not
\* accepted for that field of that very account.  (every user.save())
ValuesAsked == \A id \in Ids : Asks(id, users[id]) \subseteq asked

\* The role is one of the two and the staff flag follows it, through every
\* order of role changes, saves of stale copies and starts of the server; but
\* an account may have, without the flag, the role its registration named.
\* (RegisterCommandHandler, ChangeUserRoleCommand, AdminUserDetailView.put,
\* seed_admin)
StaffIsAdmin ==
  \A id \in Ids :
    LET row == users[id] IN
    \/ row.role \in Role /\ (row.staff <=> row.role = "Admin")
    \/ ~row.staff /\ \E r \in registered : r[1] = id /\ r[2].role = row.role

\* Registrations and first logins with Google that look for an address at the
\* same time, or under another spelling than it is stored in, never make two
\* accounts of one stored address.  (A login with Google stores its address as
\* it comes: a@X may stand beside a@x.)  (RegisterCommandHandler.handle)
OneAccountPerEmail == \A i, j \in Ids : users[i].email = users[j].email => i = j

\* The accounts that a login finds: LoginCommandHandler.handle.
LoginFinds(e, p) ==
  {id \in Ids : users[id].email = e /\ users[id].password = p /\ users[id].active}

\* Whoever registered logs in with the same address and password, as long as
\* no change of the password or of being active was accepted.
\* (docs/authentication.md:37-38)
RegisteredCanLogIn ==
  \A r \in registered :
    (\A v \in asked : v[1] = r[1] => /\ v[2] = "password" => v[3] = r[2].password
                                     /\ v[2] = "active" => v[3])
      => r[1] \in LoginFinds(r[2].email, r[2].password)

\* An account that an admin deactivated stays inactive until an admin sets it
\* active.  (docs/admin-analytics.md:72)
DeactivationHolds == \A id \in dismissed : ~users[id].active

=============================================================================
