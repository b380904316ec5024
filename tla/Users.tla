---- MODULE Users ----
(***************************************************************************)
(* The user table of user.cpp: an array of MAX_USERS slots of which the    *)
(* first user_count are in use, and the console session.  The slots past   *)
(* user_count keep what a deletion left in them.  A permission check reads *)
(* slot 0, whoever is logged in.                                           *)
(***************************************************************************)
EXTENDS Integers, FiniteSets

CONSTANTS Names,            \* user names shorter than MAX_USERNAME_LEN
          Passwords,        \* passwords shorter than MAX_PASSWORD_LEN
          LongNames,        \* names a caller may pass that are too long
          LongPasswords,    \* passwords that are too long
          MAX_USERS

ASSUME UsersAssumption ==
  /\ MAX_USERS \in Nat \ {0}
  /\ "root" \in Names /\ "" \notin Names \cup LongNames
  /\ "root" \in Passwords
  /\ Names \cap LongNames = {} /\ Passwords \cap LongPasswords = {}

VARIABLES users, user_count, current_user, is_logged_in, ret

table == <<users, user_count>>
login_state == <<current_user, is_logged_in>>
vars  == <<table, login_state, ret>>

Slots == 0 .. (MAX_USERS - 1)
Used  == 0 .. (user_count - 1)
User(n, p, active, admin) ==
  [username |-> n, password |-> p, is_active |-> active, is_admin |-> admin]
Blank == User("", "", FALSE, FALSE)

\* init() at boot; the session starts as root.
Init == /\ users = [i \in Slots |-> IF i = 0 THEN User("root", "root", TRUE, TRUE) ELSE Blank]
        /\ user_count = 1
        /\ current_user = "root" /\ is_logged_in = TRUE
        /\ ret = 0

Fail == ret' = -1 /\ UNCHANGED <<table, login_state>>

\* The permission check of create_user and delete_user
Permitted == is_logged_in /\ users[0].is_admin

Exists(n) == \E i \in Used : users[i].username = n
\* The slot a scan from 0 stops at
First(n) == CHOOSE i \in Used :
              users[i].username = n /\ \A j \in 0..(i - 1) : users[j].username # n

AddUser(username, password, admin) ==
  /\ users' = [users EXCEPT ![user_count] = User(username, password, TRUE, admin)]
  /\ user_count' = user_count + 1
  /\ ret' = 0
  /\ UNCHANGED login_state

\* Mutants of create_user: the limit, then the duplicate check is forgotten.
CreateWithoutLimit(username, password, admin) ==
  IF Permitted /\ username \notin LongNames /\ password \notin LongPasswords /\ ~Exists(username)
    THEN AddUser(username, password, admin)
    ELSE Fail
CreateDuplicate(username, password, admin) ==
  IF /\ Permitted /\ user_count < MAX_USERS
     /\ username \notin LongNames /\ password \notin LongPasswords
    THEN AddUser(username, password, admin)
    ELSE Fail

create_user(username, password, admin) ==
  IF /\ Permitted
     /\ user_count < MAX_USERS
     /\ username \notin LongNames /\ password \notin LongPasswords
     /\ ~Exists(username)
    THEN AddUser(username, password, admin)
    ELSE Fail

\* Mutants of delete_user: root is not refused; the shift starts one slot late.
DeleteRoot(username) ==
  IF Permitted /\ Exists(username)
    THEN /\ users' = [j \in Slots |->
                        IF First(username) <= j /\ j < user_count - 1 THEN users[j + 1]
                        ELSE users[j]]
         /\ user_count' = user_count - 1 /\ ret' = 0 /\ UNCHANGED login_state
    ELSE Fail
DeleteShiftsLate(username) ==
  IF Permitted /\ username # "root" /\ Exists(username)
    THEN /\ users' = [j \in Slots |->
                        IF First(username) < j /\ j < user_count - 1 THEN users[j + 1]
                        ELSE users[j]]
         /\ user_count' = user_count - 1 /\ ret' = 0 /\ UNCHANGED login_state
    ELSE Fail

\* The slots after the deleted one move down by one; the last keeps its contents.
delete_user(username) ==
  IF Permitted /\ username # "root" /\ Exists(username)
    THEN /\ users' = [j \in Slots |->
                        IF First(username) <= j /\ j < user_count - 1 THEN users[j + 1]
                        ELSE users[j]]
         /\ user_count' = user_count - 1
         /\ ret' = 0
         /\ UNCHANGED login_state
    ELSE Fail

login(username, password) ==
  IF /\ Exists(username) /\ users[First(username)].is_active
     /\ users[First(username)].password = password
    THEN current_user' = username /\ is_logged_in' = TRUE /\ ret' = 0 /\ UNCHANGED table
    ELSE Fail

logout == current_user' = "" /\ is_logged_in' = FALSE /\ UNCHANGED <<table, ret>>

change_password(username, old_password, new_password) ==
  IF /\ Exists(username)
     /\ is_logged_in
     /\ current_user = username \/ users[0].is_admin
     /\ users[First(username)].password = old_password
     /\ new_password \notin LongPasswords
    THEN /\ users' = [users EXCEPT ![First(username)].password = new_password]
         /\ ret' = 0
         /\ UNCHANGED <<user_count, login_state>>
    ELSE Fail

\* list_users() and is_admin() only read; is_admin() looks the session up by name.
is_admin == is_logged_in /\ Exists(current_user) /\ users[First(current_user)].is_admin

AnyName == Names \cup LongNames
AnyPassword == Passwords \cup LongPasswords

Next == \/ logout
        \/ \E n \in AnyName :
             \/ delete_user(n)
             \/ \E p \in AnyPassword :
                  \/ login(n, p)
                  \/ \E admin \in BOOLEAN : create_user(n, p, admin)
                  \/ \E q \in AnyPassword : change_password(n, p, q)

Spec == Init /\ [][Next]_vars

----------------------------------------------------------------------------
UserType == [username : Names, password : Passwords, is_active : {TRUE}, is_admin : BOOLEAN]
TypeOK == /\ user_count \in 1..MAX_USERS
          /\ users \in [Slots -> UserType \cup {Blank}]
          /\ \A i \in Used : users[i] \in UserType
          /\ is_logged_in \in BOOLEAN
          /\ current_user \in Names \cup {""}
          /\ ret \in {0, -1}

\* Slot 0, which every permission check reads, holds root with its
\* administrator flag whatever is created, deleted and shifted (user.cpp:25, :58).
RootFirst == users[0].username = "root" /\ users[0].is_active /\ users[0].is_admin

\* No two slots in use have the same name, so that the scans of login,
\* change_password and is_admin, which stop at the first match, miss no account
\* (user.cpp:40-45).
UniqueNames == \A i, j \in Used : users[i].username = users[j].username => i = j

\* The slots in use as a map from names to accounts.
UsedNames == {users[i].username : i \in Used}
AccountMap == [n \in UsedNames |-> [password |-> users[First(n)].password,
                                    is_admin |-> users[First(n)].is_admin]]
Directory == INSTANCE Accounts WITH account <- AccountMap, session <- current_user

\* Each call does to the map what the map's call with the same arguments does.
SameCall ==
  /\ logout => Directory!Logout
  /\ \A n \in AnyName :
       /\ delete_user(n) => Directory!Remove(n)
       /\ \A p \in AnyPassword :
            /\ login(n, p) => Directory!Login(n, p)
            /\ \A admin \in BOOLEAN : create_user(n, p, admin) => Directory!Add(n, p, admin)
            /\ \A q \in AnyPassword : change_password(n, p, q) => Directory!Passwd(n, p, q)

\* The table behaves as a map from names to accounts: an account appears, goes
\* and changes only by the call that names it, every other account keeps its
\* password and flag while the slots shift, and each call is refused exactly
\* when the map refuses it (user.cpp:24-139).
ImplementsAccounts == Directory!AccountSpec /\ [][SameCall]_vars
====
