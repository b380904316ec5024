---- MODULE UsersProofs ----
(***************************************************************************)
(* Proofs about Users for every table size and every set of names and      *)
(* passwords: root stays in slot 0, names stay unique, and the table       *)
(* implements the map of Accounts.                                         *)
(***************************************************************************)
EXTENDS Users, FiniteSetTheorems, FunctionTheorems, TLAPS

\* A session is open exactly while a name is recorded for it.
SessionNamed == is_logged_in <=> current_user # ""

IInv == TypeOK /\ RootFirst /\ UniqueNames /\ SessionNamed

----------------------------------------------------------------------------
\* The bounds of the slots in use.
LEMMA CountLemma ==
  ASSUME TypeOK
  PROVE  /\ MAX_USERS \in Nat /\ user_count \in Nat
         /\ 1 <= user_count /\ user_count <= MAX_USERS
         /\ Used \subseteq Slots /\ Used \subseteq Nat /\ 0 \in Used
<1>1. MAX_USERS \in Nat
  BY UsersAssumption
<1>2. user_count \in 1..MAX_USERS
  BY DEF TypeOK
<1> QED
  BY <1>1, <1>2 DEF Used, Slots

\* With unique names a scan stops at the one slot that holds the name.
LEMMA FirstLemma ==
  ASSUME TypeOK, UniqueNames, NEW i \in Used
  PROVE  First(users[i].username) = i
<1> DEFINE n == users[i].username
<1>1. Used \subseteq Nat /\ i \in Nat
  BY CountLemma
<1>2. \A j \in 0..(i - 1) : j \in Used /\ j # i
  BY <1>1, CountLemma DEF Used
<1>3. \A j \in 0..(i - 1) : users[j].username # n
  BY <1>2 DEF UniqueNames
<1>4. \A k \in Used : users[k].username = n => k = i
  BY DEF UniqueNames
<1> QED
  BY <1>3, <1>4 DEF First

\* A name that exists is in the slot First gives.
LEMMA ExistsLemma ==
  ASSUME TypeOK, UniqueNames, NEW n, Exists(n)
  PROVE  First(n) \in Used /\ users[First(n)].username = n
BY FirstLemma DEF Exists

----------------------------------------------------------------------------
LEMMA InitLemma == Init => IInv
<1> SUFFICES ASSUME Init PROVE IInv
  OBVIOUS
<1>0. MAX_USERS \in Nat \ {0} /\ "root" \in Names /\ "root" \in Passwords
  BY UsersAssumption
<1>1. Used = {0} /\ 0 \in Slots /\ user_count \in 1..MAX_USERS
  <2>1. user_count = 1
    BY DEF Init
  <2>2. Used = 0..0
    BY <2>1 DEF Used
  <2> QED
    BY <2>1, <2>2, <1>0 DEF Slots
<1>2. users[0] = User("root", "root", TRUE, TRUE)
  BY <1>1 DEF Init
<1>3. users \in [Slots -> UserType \cup {Blank}]
  BY <1>0 DEF Init, User, UserType
<1>4. \A i \in Used : users[i] \in UserType
  <2>1. User("root", "root", TRUE, TRUE) \in UserType
    BY <1>0 DEF User, UserType
  <2> QED
    BY <1>1, <1>2, <2>1
<1>5. TypeOK
  BY <1>0, <1>1, <1>3, <1>4 DEF TypeOK, Init
<1> QED
  BY <1>1, <1>2, <1>5 DEF Init, IInv, RootFirst, UniqueNames, SessionNamed, User

\* A refused call changes only what it returns.
LEMMA FailLemma == IInv /\ Fail => IInv'
<1> SUFFICES ASSUME IInv, Fail PROVE IInv'
  OBVIOUS
<1>1. UNCHANGED <<table, login_state>> /\ ret' = -1
  BY DEF Fail
<1>2. Used' = Used
  BY <1>1 DEF Used, table
<1> QED
  BY <1>1, <1>2 DEF IInv, TypeOK, RootFirst, UniqueNames, SessionNamed, table, login_state

LEMMA CreateLemma ==
  ASSUME IInv, NEW n \in AnyName, NEW p \in AnyPassword, NEW admin \in BOOLEAN,
         create_user(n, p, admin)
  PROVE  IInv'
<1>1. CASE Fail
  BY <1>1, FailLemma
<1>2. CASE ~Fail
  <2>1. /\ user_count < MAX_USERS /\ n \in Names /\ p \in Passwords /\ ~Exists(n)
        /\ users' = [users EXCEPT ![user_count] = User(n, p, TRUE, admin)]
        /\ user_count' = user_count + 1 /\ ret' = 0 /\ UNCHANGED login_state
    BY <1>2 DEF create_user, AddUser, AnyName, AnyPassword
  <2>2. user_count \in Slots /\ user_count # 0 /\ Used' = Used \cup {user_count}
        /\ user_count \notin Used /\ Used \subseteq Slots /\ 0 \in Used
    BY <2>1, CountLemma DEF Slots, Used, IInv
  <2>3. User(n, p, TRUE, admin) \in UserType
    BY <2>1 DEF User, UserType
  <2>4. /\ \A i \in Used : users'[i] = users[i]
        /\ users'[user_count] = User(n, p, TRUE, admin)
        /\ users'[user_count].username = n
        /\ users' \in [Slots -> UserType \cup {Blank}]
    BY <2>1, <2>2, <2>3 DEF IInv, TypeOK, User
  <2>5. TypeOK'
    <3>1. user_count' \in 1..MAX_USERS
      BY <2>1, CountLemma DEF IInv
    <3>2. \A i \in Used' : users'[i] \in UserType
      BY <2>2, <2>3, <2>4 DEF IInv, TypeOK
    <3> QED
      BY <2>1, <2>4, <3>1, <3>2 DEF IInv, TypeOK, login_state
  <2>6. UniqueNames'
    <3>1. \A i \in Used : users'[i].username = users[i].username /\ users[i].username # n
      BY <2>1, <2>4 DEF Exists
    <3> SUFFICES ASSUME NEW i \in Used', NEW j \in Used', users'[i].username = users'[j].username
                 PROVE  i = j
      BY DEF UniqueNames
    <3>2. CASE i \in Used /\ j \in Used
      BY <3>1, <3>2 DEF IInv, UniqueNames
    <3>3. CASE i = user_count \/ j = user_count
      BY <2>2, <2>4, <3>1, <3>3
    <3> QED
      BY <2>2, <3>2, <3>3
  <2> QED
    BY <2>1, <2>2, <2>4, <2>5, <2>6 DEF IInv, RootFirst, SessionNamed, login_state
<1> QED
  BY <1>1, <1>2

\* The slot a slot in use holds after the deletion of slot k.
Source(k, j) == IF k <= j THEN j + 1 ELSE j

\* A deletion moves the slots above the deleted one down, and no other.
LEMMA ShiftLemma ==
  ASSUME IInv, NEW n, delete_user(n), ~Fail
  PROVE  LET k == First(n) IN
           /\ k \in Used /\ k # 0 /\ users[k].username = n /\ n # "root"
           /\ user_count' = user_count - 1 /\ user_count' \in 1..MAX_USERS
           /\ Used' = 0..(user_count - 2)
           /\ users' \in [Slots -> UserType \cup {Blank}]
           /\ \A j \in Used' : /\ Source(k, j) \in Used /\ Source(k, j) # k
                               /\ users'[j] = users[Source(k, j)]
           /\ \A i \in Used \ {k} : \E j \in Used' : i = Source(k, j)
           /\ ret' = 0 /\ UNCHANGED login_state
<1> DEFINE k == First(n)
<1>1. /\ n # "root" /\ Exists(n)
      /\ users' = [j \in Slots |-> IF k <= j /\ j < user_count - 1 THEN users[j + 1] ELSE users[j]]
      /\ user_count' = user_count - 1 /\ ret' = 0 /\ UNCHANGED login_state
  BY DEF delete_user
<1>2. k \in Used /\ users[k].username = n
  BY <1>1, ExistsLemma DEF IInv
<1>3. k # 0
  BY <1>1, <1>2 DEF IInv, RootFirst
<1> HIDE DEF k
<1>4. k \in Nat /\ k < user_count /\ user_count \in Nat /\ user_count <= MAX_USERS /\ MAX_USERS \in Nat
  BY <1>2, CountLemma DEF Used, IInv
<1>5. Used' = 0..(user_count - 2) /\ user_count' \in 1..MAX_USERS
  BY <1>1, <1>3, <1>4 DEF Used
<1>6. \A j \in Slots : k <= j /\ j < user_count - 1 => j + 1 \in Slots
  BY <1>4 DEF Slots
<1>7. users' \in [Slots -> UserType \cup {Blank}]
  BY <1>1, <1>6 DEF IInv, TypeOK
<1>8. ASSUME NEW j \in Used'
      PROVE  /\ Source(k, j) \in Used /\ Source(k, j) # k /\ users'[j] = users[Source(k, j)]
  BY <1>1, <1>4, <1>5 DEF Source, Used, Slots
<1>9. ASSUME NEW i \in Used \ {k} PROVE \E j \in Used' : i = Source(k, j)
  <2>1. i \in 0..(user_count - 1) /\ i # k
    BY DEF Used
  <2>2. CASE i < k
    <3>1. i \in 0..(user_count - 2) /\ i = Source(k, i)
      BY <2>1, <2>2, <1>4 DEF Source
    <3> QED
      BY <3>1, <1>5
  <2>3. CASE k < i
    <3>1. i - 1 \in 0..(user_count - 2) /\ i = Source(k, i - 1)
      BY <2>1, <2>3, <1>4 DEF Source
    <3> QED
      BY <3>1, <1>5
  <2> QED
    BY <2>1, <2>2, <2>3, <1>4
<1> QED
  BY <1>1, <1>2, <1>3, <1>5, <1>7, <1>8, <1>9 DEF k

LEMMA DeleteLemma ==
  ASSUME IInv, NEW n, delete_user(n)
  PROVE  IInv'
<1>1. CASE Fail
  BY <1>1, FailLemma
<1>2. CASE ~Fail
  <2> DEFINE k == First(n)
  <2>1. /\ k \in Used /\ k # 0
        /\ user_count' \in 1..MAX_USERS
        /\ Used' = 0..(user_count - 2) /\ user_count' = user_count - 1
        /\ users' \in [Slots -> UserType \cup {Blank}]
        /\ \A j \in Used' : /\ Source(k, j) \in Used /\ users'[j] = users[Source(k, j)]
        /\ ret' = 0 /\ UNCHANGED login_state
    BY <1>2, ShiftLemma
  <2> HIDE DEF k
  <2>2. TypeOK'
    BY <2>1 DEF IInv, TypeOK, login_state
  <2>3. RootFirst'
    <3>1. 0 \in Used' /\ Source(k, 0) = 0
      BY <2>1, CountLemma DEF Source, IInv
    <3> QED
      BY <2>1, <3>1 DEF IInv, RootFirst
  <2>4. UniqueNames'
    <3> SUFFICES ASSUME NEW i \in Used', NEW j \in Used', users'[i].username = users'[j].username
                 PROVE  i = j
      BY DEF UniqueNames
    <3>1. Source(k, i) = Source(k, j)
      BY <2>1 DEF IInv, UniqueNames
    <3> QED
      BY <3>1, <2>1 DEF Source, Used
  <2> QED
    BY <2>1, <2>2, <2>3, <2>4 DEF IInv, SessionNamed, login_state
<1> QED
  BY <1>1, <1>2

LEMMA LoginLemma ==
  ASSUME IInv, NEW n \in AnyName, NEW p, login(n, p)
  PROVE  IInv'
<1>1. CASE Fail
  BY <1>1, FailLemma
<1>2. CASE ~Fail
  <2>1. Exists(n) /\ current_user' = n /\ is_logged_in' = TRUE /\ ret' = 0 /\ UNCHANGED table
    BY <1>2 DEF login
  <2>2. n \in Names /\ n # ""
    <3>1. First(n) \in Used /\ users[First(n)].username = n
      BY <2>1, ExistsLemma DEF IInv
    <3>2. users[First(n)] \in UserType
      BY <3>1 DEF IInv, TypeOK
    <3>3. n \in Names
      BY <3>1, <3>2 DEF UserType
    <3> QED
      BY <3>3, UsersAssumption
  <2>3. Used' = Used
    BY <2>1 DEF Used, table
  <2> QED
    BY <2>1, <2>2, <2>3 DEF IInv, TypeOK, RootFirst, UniqueNames, SessionNamed, table
<1> QED
  BY <1>1, <1>2

LEMMA PasswordLemma ==
  ASSUME IInv, NEW n, NEW p, NEW q \in AnyPassword, change_password(n, p, q)
  PROVE  IInv'
<1>1. CASE Fail
  BY <1>1, FailLemma
<1>2. CASE ~Fail
  <2> DEFINE k == First(n)
  <2>1. /\ Exists(n) /\ q \in Passwords
        /\ users' = [users EXCEPT ![k].password = q]
        /\ ret' = 0 /\ UNCHANGED <<user_count, login_state>>
    BY <1>2 DEF change_password, AnyPassword
  <2>2. k \in Used /\ Used \subseteq Slots
    BY <2>1, ExistsLemma, CountLemma DEF IInv
  <2> HIDE DEF k
  <2>3. /\ \A i \in Used : /\ users'[i].username = users[i].username
                           /\ users'[i].is_active = users[i].is_active
                           /\ users'[i].is_admin = users[i].is_admin
                           /\ users'[i] \in UserType
        /\ users' \in [Slots -> UserType \cup {Blank}]
    BY <2>1, <2>2 DEF IInv, TypeOK, UserType
  <2>4. Used' = Used /\ 0 \in Used
    BY <2>1, CountLemma DEF Used, IInv
  <2>5. RootFirst'
    BY <2>3, <2>4, Zenon DEF IInv, RootFirst
  <2>6. UniqueNames'
    BY <2>3, <2>4 DEF IInv, UniqueNames
  <2>7. TypeOK'
    BY <2>1, <2>3, <2>4 DEF IInv, TypeOK, login_state
  <2> QED
    BY <2>1, <2>5, <2>6, <2>7 DEF IInv, SessionNamed, login_state
<1> QED
  BY <1>1, <1>2

LEMMA NextLemma == IInv /\ [Next]_vars => IInv'
<1> SUFFICES ASSUME IInv, [Next]_vars PROVE IInv'
  OBVIOUS
<1>1. CASE logout
  BY <1>1 DEF IInv, TypeOK, RootFirst, UniqueNames, SessionNamed, logout, table, Used
<1>2. CASE UNCHANGED vars
  BY <1>2 DEF IInv, TypeOK, RootFirst, UniqueNames, SessionNamed, vars, table, login_state, Used
<1>3. ASSUME NEW n \in AnyName, delete_user(n) PROVE IInv'
  BY <1>3, DeleteLemma
<1>4. ASSUME NEW n \in AnyName, NEW p \in AnyPassword, login(n, p) PROVE IInv'
  BY <1>4, LoginLemma
<1>5. ASSUME NEW n \in AnyName, NEW p \in AnyPassword, NEW admin \in BOOLEAN,
             create_user(n, p, admin)
      PROVE  IInv'
  BY <1>5, CreateLemma
<1>6. ASSUME NEW n \in AnyName, NEW p \in AnyPassword, NEW q \in AnyPassword,
             change_password(n, p, q)
      PROVE  IInv'
  BY <1>6, PasswordLemma
<1> QED
  BY <1>1, <1>2, <1>3, <1>4, <1>5, <1>6 DEF Next

THEOREM Inductive == Spec => []IInv
BY InitLemma, NextLemma, PTL DEF Spec

\* The table keeps its type: user_count stays within the array.
THEOREM TypeCorrect == Spec => []TypeOK
BY Inductive, PTL DEF IInv

\* The slot every permission check reads is always root's (user.cpp:25, :58).
THEOREM RootKept == Spec => []RootFirst
BY Inductive, PTL DEF IInv

\* Names are unique (user.cpp:40-45).
THEOREM NamesUnique == Spec => []UniqueNames
BY Inductive, PTL DEF IInv

----------------------------------------------------------------------------
\* What the map of Accounts holds for the slots in use.
MapOK == /\ DOMAIN AccountMap = UsedNames
         /\ \A i \in Used :
              AccountMap[users[i].username] = [password |-> users[i].password,
                                               is_admin |-> users[i].is_admin]
         /\ Cardinality(UsedNames) = user_count

LEMMA MapLemma == IInv => MapOK
<1> SUFFICES ASSUME IInv PROVE MapOK
  OBVIOUS
<1>1. \A i \in Used : users[i].username \in UsedNames /\ First(users[i].username) = i
  BY FirstLemma DEF IInv, UsedNames
<1>2. \A i \in Used : AccountMap[users[i].username] = [password |-> users[i].password,
                                                      is_admin |-> users[i].is_admin]
  BY <1>1 DEF AccountMap
<1>3. Cardinality(UsedNames) = user_count
  <2> DEFINE name == [i \in Used |-> users[i].username]
  <2>1. name \in Bijection(Used, UsedNames)
    BY Fun_IsBij DEF UsedNames, IInv, UniqueNames
  <2>2. IsFiniteSet(Used) /\ Cardinality(Used) = user_count
    BY FS_Interval, CountLemma DEF Used, IInv
  <2> QED
    BY <2>1, <2>2, FS_Bijection DEF ExistsBijection
<1> QED
  BY <1>2, <1>3 DEF MapOK, AccountMap

\* The map is a function on the names in use, now and after a step.
LEMMA FcnLemma == AccountMap = [m \in UsedNames |-> AccountMap[m]]
BY DEF AccountMap

LEMMA MapInit == Init => Directory!AccountInit
<1> SUFFICES ASSUME Init PROVE Directory!AccountInit
  OBVIOUS
<1>1. MapOK /\ Used = {0} /\ users[0] = User("root", "root", TRUE, TRUE)
  <2>1. user_count = 1 /\ users = [i \in Slots |-> IF i = 0 THEN User("root", "root", TRUE, TRUE) ELSE Blank]
    BY DEF Init
  <2>2. 0 \in Slots /\ Used = 0..0
    <3>1. MAX_USERS \in Nat \ {0}
      BY UsersAssumption
    <3> QED
      BY <2>1, <3>1 DEF Slots, Used
  <2> QED
    BY <2>1, <2>2, InitLemma, MapLemma
<1>2. UsedNames = {"root"} /\ AccountMap["root"] = [password |-> "root", is_admin |-> TRUE]
  <2>1. /\ users[0].username = "root" /\ users[0].password = "root" /\ users[0].is_admin
        /\ AccountMap[users[0].username] = [password |-> users[0].password,
                                            is_admin |-> users[0].is_admin]
    <3>1. users[0] = [username |-> "root", password |-> "root", is_active |-> TRUE, is_admin |-> TRUE]
      BY <1>1 DEF User
    <3>2. users[0].username = "root" /\ users[0].password = "root" /\ users[0].is_admin
      BY <3>1
    <3>3. 0 \in Used
      BY <1>1
    <3> QED
      BY <1>1, <3>2, <3>3, Zenon DEF MapOK
  <2> QED
    BY <1>1, <2>1 DEF UsedNames
<1>3. AccountMap = [n \in {"root"} |-> [password |-> "root", is_admin |-> TRUE]]
  BY <1>2, FcnLemma
<1> QED
  BY <1>3 DEF Init, Directory!AccountInit

\* A refusal changes nothing the map shows.
LEMMA MapFail == Fail => Directory!Refuse
<1> SUFFICES ASSUME Fail PROVE Directory!Refuse
  OBVIOUS
<1>1. users' = users /\ user_count' = user_count /\ current_user' = current_user /\ ret' = -1
  BY DEF Fail, table, login_state
<1>2. AccountMap' = AccountMap
  BY <1>1 DEF AccountMap, UsedNames, Used, First
<1> QED
  BY <1>1, <1>2 DEF Directory!Refuse

LEMMA MapCreate ==
  ASSUME IInv, NEW n \in AnyName, NEW p \in AnyPassword, NEW admin \in BOOLEAN,
         create_user(n, p, admin)
  PROVE  Directory!Add(n, p, admin)
<1>1. MapOK /\ MapOK' /\ (AccountMap = [m \in UsedNames |-> AccountMap[m]])'
  <2>1. IInv'
    BY CreateLemma
  <2> QED
    BY <2>1, MapLemma, FcnLemma, PTL
<1>2. Directory!LoggedIn <=> Permitted
  BY DEF Directory!LoggedIn, Permitted, IInv, RootFirst, SessionNamed
<1>3. n \in Directory!Known <=> Exists(n)
  BY <1>1 DEF Directory!Known, MapOK, UsedNames, Exists
<1>4. Cardinality(Directory!Known) = user_count
  BY <1>1 DEF Directory!Known, MapOK
<1> DEFINE ok == /\ Permitted /\ user_count < MAX_USERS
                 /\ n \notin LongNames /\ p \notin LongPasswords /\ ~Exists(n)
<1> DEFINE allowed == /\ Directory!LoggedIn /\ n \notin Directory!Known \cup LongNames
                      /\ p \notin LongPasswords /\ Directory!Cardinality(Directory!Known) < MAX_USERS
<1>0. ok <=> allowed
  <2>1. \A S : Directory!Cardinality(S) = Cardinality(S)
    BY Zenon DEF Cardinality, Directory!Cardinality
  <2> QED
    BY <1>2, <1>3, <1>4, <2>1
<1>5. CASE /\ Permitted /\ user_count < MAX_USERS
           /\ n \notin LongNames /\ p \notin LongPasswords /\ ~Exists(n)
  <2>1. /\ users' = [users EXCEPT ![user_count] = User(n, p, TRUE, admin)]
        /\ user_count' = user_count + 1 /\ ret' = 0 /\ current_user' = current_user
    BY <1>5 DEF create_user, AddUser, login_state
  <2>2. user_count \in Slots /\ Used' = Used \cup {user_count} /\ user_count \notin Used
        /\ Used \subseteq Slots
    BY <2>1, <1>5, CountLemma DEF Slots, Used, IInv
  <2>3. users'[user_count] = User(n, p, TRUE, admin) /\ \A i \in Used : users'[i] = users[i]
    BY <2>1, <2>2 DEF IInv, TypeOK
  <2>4. UsedNames' = UsedNames \cup {n}
    BY <2>2, <2>3 DEF UsedNames, User
  <2>5. AccountMap'[n] = [password |-> p, is_admin |-> admin]
    BY <1>1, <2>2, <2>3 DEF MapOK, User
  <2>6. \A m \in UsedNames : AccountMap'[m] = AccountMap[m]
    <3> SUFFICES ASSUME NEW i \in Used
                 PROVE  AccountMap'[users[i].username] = AccountMap[users[i].username]
      BY DEF UsedNames
    <3>1. i \in Used' /\ users'[i] = users[i]
      BY <2>2, <2>3
    <3>2. AccountMap'[users'[i].username] = [password |-> users'[i].password,
                                             is_admin |-> users'[i].is_admin]
      BY <1>1, <3>1 DEF MapOK
    <3> QED
      BY <1>1, <3>1, <3>2 DEF MapOK
  <2>7. n \notin UsedNames
    BY <1>5 DEF Exists, UsedNames
  <2>8. AccountMap' = [m \in UsedNames \cup {n} |->
                         IF m = n THEN [password |-> p, is_admin |-> admin] ELSE AccountMap[m]]
    BY <1>1, <2>4, <2>5, <2>6, <2>7
  <2>9. allowed /\ Directory!Known = UsedNames
    BY <1>0, <1>1, <1>5 DEF Directory!Known, MapOK
  <2> HIDE DEF allowed
  <2>10. /\ AccountMap' = [m \in Directory!Known \cup {n} |->
                              IF m = n THEN [password |-> p, is_admin |-> admin]
                              ELSE AccountMap[m]]
         /\ ret' = 0 /\ UNCHANGED current_user
    BY <2>1, <2>8, <2>9, Zenon
  <2> QED
    BY <2>9, <2>10, Zenon DEF Directory!Add, allowed
<1>6. CASE ~(/\ Permitted /\ user_count < MAX_USERS
             /\ n \notin LongNames /\ p \notin LongPasswords /\ ~Exists(n))
  <2>1. Directory!Refuse
    BY <1>6, MapFail DEF create_user
  <2>2. ~allowed
    BY <1>0, <1>6
  <2> QED
    BY <2>1, <2>2, Zenon DEF Directory!Add
<1> QED
  BY <1>5, <1>6

LEMMA MapDelete ==
  ASSUME IInv, NEW n \in AnyName, delete_user(n)
  PROVE  Directory!Remove(n)
<1>1. MapOK /\ MapOK' /\ (AccountMap = [m \in UsedNames |-> AccountMap[m]])'
  <2>1. IInv'
    BY DeleteLemma
  <2> QED
    BY <2>1, MapLemma, FcnLemma, PTL
<1>2. Directory!LoggedIn <=> Permitted
  BY DEF Directory!LoggedIn, Permitted, IInv, RootFirst, SessionNamed
<1>3. n \in Directory!Known <=> Exists(n)
  BY <1>1 DEF Directory!Known, MapOK, UsedNames, Exists
<1>4. CASE Permitted /\ n # "root" /\ Exists(n)
  <2> DEFINE k == First(n)
  <2>1. ~Fail
    BY <1>4 DEF delete_user, Fail
  <2>2. /\ k \in Used /\ users[k].username = n
        /\ \A j \in Used' : /\ Source(k, j) \in Used /\ Source(k, j) # k
                            /\ users'[j] = users[Source(k, j)]
        /\ \A i \in Used \ {k} : \E j \in Used' : i = Source(k, j)
        /\ ret' = 0 /\ current_user' = current_user
    BY <2>1, ShiftLemma DEF login_state
  <2> HIDE DEF k
  <2>3. UsedNames' = UsedNames \ {n}
    <3>1. \A i \in Used \ {k} : users[i].username # n
      BY <2>2 DEF IInv, UniqueNames
    <3>2. ASSUME NEW m \in UsedNames' PROVE m \in UsedNames \ {n}
      BY <2>2, <3>1, <3>2 DEF UsedNames
    <3>3. ASSUME NEW m \in UsedNames \ {n} PROVE m \in UsedNames'
      <4>1. PICK i \in Used \ {k} : users[i].username = m
        BY <2>2 DEF UsedNames
      <4>2. PICK j \in Used' : i = Source(k, j)
        BY <2>2
      <4> QED
        BY <2>2, <4>1, <4>2 DEF UsedNames
    <3> QED
      BY <3>2, <3>3
  <2>4. \A m \in UsedNames' : AccountMap'[m] = AccountMap[m]
    <3> SUFFICES ASSUME NEW j \in Used'
                 PROVE  AccountMap'[users'[j].username] = AccountMap[users'[j].username]
      BY DEF UsedNames
    <3>1. Source(k, j) \in Used /\ users'[j] = users[Source(k, j)]
      BY <2>2
    <3>2. AccountMap'[users'[j].username] = [password |-> users'[j].password,
                                             is_admin |-> users'[j].is_admin]
      BY <1>1 DEF MapOK
    <3>3. AccountMap[users[Source(k, j)].username] =
            [password |-> users[Source(k, j)].password, is_admin |-> users[Source(k, j)].is_admin]
      BY <1>1, <3>1 DEF MapOK
    <3> QED
      BY <3>1, <3>2, <3>3
  <2>5. AccountMap' = [m \in UsedNames \ {n} |-> AccountMap[m]]
    BY <1>1, <2>3, <2>4
  <2> QED
    BY <1>1, <1>2, <1>3, <1>4, <2>2, <2>5 DEF Directory!Remove, Directory!Known, MapOK
<1>5. CASE ~(Permitted /\ n # "root" /\ Exists(n))
  <2>1. Directory!Refuse
    BY <1>5, MapFail DEF delete_user
  <2> QED
    BY <1>2, <1>3, <1>5, <2>1 DEF Directory!Remove
<1> QED
  BY <1>4, <1>5

LEMMA MapPassword ==
  ASSUME IInv, NEW n \in AnyName, NEW p, NEW q \in AnyPassword, change_password(n, p, q)
  PROVE  Directory!Passwd(n, p, q)
<1>1. MapOK /\ MapOK' /\ (AccountMap = [m \in UsedNames |-> AccountMap[m]])'
  <2>1. IInv'
    BY PasswordLemma
  <2> QED
    BY <2>1, MapLemma, FcnLemma, PTL
<1>2. Directory!LoggedIn <=> is_logged_in
  BY DEF Directory!LoggedIn, IInv, SessionNamed
<1>3. n \in Directory!Known <=> Exists(n)
  BY <1>1 DEF Directory!Known, MapOK, UsedNames, Exists
<1>4. Exists(n) => /\ First(n) \in Used /\ users[First(n)].username = n
                   /\ AccountMap[n] = [password |-> users[First(n)].password,
                                       is_admin |-> users[First(n)].is_admin]
  BY <1>1, ExistsLemma DEF IInv, MapOK
<1> DEFINE ok == /\ Exists(n) /\ is_logged_in /\ users[First(n)].password = p
                 /\ q \notin LongPasswords
<1>5. users[0].is_admin
  BY DEF IInv, RootFirst
<1>6. CASE ok
  <2> DEFINE k == First(n)
  <2>1. /\ users' = [users EXCEPT ![k].password = q]
        /\ user_count' = user_count /\ ret' = 0 /\ current_user' = current_user
    BY <1>5, <1>6 DEF change_password, login_state
  <2>2. k \in Used /\ users[k].username = n /\ Used \subseteq Slots /\ Used' = Used
    BY <1>4, <1>6, <2>1, CountLemma DEF Used, IInv
  <2> HIDE DEF k
  <2>3. /\ \A i \in Used : users'[i].username = users[i].username
        /\ \A i \in Used \ {k} : users'[i] = users[i]
        /\ users'[k].password = q
    <3>1. \A i \in Used : users[i] \in UserType
      BY DEF IInv, TypeOK
    <3> QED
      BY <2>1, <2>2, <3>1 DEF IInv, TypeOK, UserType
  <2>4. users'[k].is_admin = users[k].is_admin
    BY <2>1, <2>2 DEF IInv, TypeOK, UserType
  <2>5. UsedNames' = UsedNames
    BY <2>2, <2>3 DEF UsedNames
  <2>6. AccountMap'[n] = [password |-> q, is_admin |-> AccountMap[n].is_admin]
    <3>1. AccountMap'[users'[k].username] = [password |-> users'[k].password,
                                             is_admin |-> users'[k].is_admin]
      BY <1>1, <2>2 DEF MapOK
    <3>2. AccountMap[users[k].username] = [password |-> users[k].password,
                                           is_admin |-> users[k].is_admin]
      BY <1>1, <2>2 DEF MapOK
    <3>3. AccountMap[n].is_admin = users[k].is_admin
      BY <2>2, <3>2
    <3> QED
      BY <2>2, <2>3, <2>4, <3>1, <3>3
  <2>7. \A m \in UsedNames \ {n} : AccountMap'[m] = AccountMap[m]
    <3> SUFFICES ASSUME NEW i \in Used, users[i].username # n
                 PROVE  AccountMap'[users[i].username] = AccountMap[users[i].username]
      BY DEF UsedNames
    <3>1. users'[i] = users[i] /\ i \in Used'
      BY <2>2, <2>3
    <3>2. AccountMap'[users'[i].username] = [password |-> users'[i].password,
                                             is_admin |-> users'[i].is_admin]
      BY <1>1, <3>1 DEF MapOK
    <3> QED
      BY <1>1, <3>1, <3>2 DEF MapOK
  <2>8. AccountMap' = [AccountMap EXCEPT ![n].password = q]
    <3>1. n \in UsedNames /\ DOMAIN AccountMap = UsedNames
      BY <1>1, <2>2 DEF UsedNames, MapOK
    <3>2. AccountMap[n] = [password |-> users[k].password, is_admin |-> users[k].is_admin]
      BY <1>4, <1>6 DEF k
    <3>3. [AccountMap[n] EXCEPT !.password = q] = [password |-> q, is_admin |-> AccountMap[n].is_admin]
      BY <3>2
    <3> QED
      BY <1>1, <2>5, <2>6, <2>7, <3>1, <3>3
  <2> QED
    BY <1>2, <1>3, <1>4, <1>6, <2>1, <2>8 DEF Directory!Passwd
<1>7. CASE ~ok
  <2>1. Directory!Refuse
    BY <1>7, MapFail DEF change_password
  <2> QED
    BY <1>2, <1>3, <1>4, <1>7, <2>1 DEF Directory!Passwd
<1> QED
  BY <1>6, <1>7

LEMMA MapLogin ==
  ASSUME IInv, NEW n \in AnyName, NEW p, login(n, p)
  PROVE  Directory!Login(n, p)
<1>1. MapOK
  BY MapLemma
<1>2. n \in Directory!Known <=> Exists(n)
  BY <1>1 DEF Directory!Known, MapOK, UsedNames, Exists
<1>3. Exists(n) => /\ users[First(n)].is_active
                   /\ AccountMap[n].password = users[First(n)].password
  <2> SUFFICES ASSUME Exists(n)
               PROVE  /\ users[First(n)].is_active
                      /\ AccountMap[n].password = users[First(n)].password
    OBVIOUS
  <2>1. First(n) \in Used /\ users[First(n)].username = n
    BY ExistsLemma DEF IInv
  <2>2. users[First(n)].is_active = TRUE
    BY <2>1 DEF IInv, TypeOK, UserType
  <2>3. AccountMap[n] = [password |-> users[First(n)].password,
                         is_admin |-> users[First(n)].is_admin]
    BY <1>1, <2>1 DEF MapOK
  <2> QED
    BY <2>2, <2>3
<1>4. table' = table => AccountMap' = AccountMap
  BY DEF table, AccountMap, UsedNames, Used, First
<1>5. CASE Exists(n) /\ users[First(n)].password = p
  BY <1>2, <1>3, <1>4, <1>5 DEF login, Directory!Login
<1>6. CASE ~(Exists(n) /\ users[First(n)].password = p)
  BY <1>2, <1>3, <1>6, MapFail DEF login, Directory!Login
<1> QED
  BY <1>5, <1>6

\* Closing the session closes the map's.
LEMMA MapLogout == logout => Directory!Logout
<1> SUFFICES ASSUME logout PROVE Directory!Logout
  OBVIOUS
<1>1. AccountMap' = AccountMap /\ ret' = ret /\ current_user' = ""
  BY DEF logout, table, AccountMap, UsedNames, Used, First
<1> QED
  BY <1>1 DEF Directory!Logout

\* The user table implements the map of accounts: the array, its shifts and its
\* scans show nothing the map would not (user.cpp:24-139).
THEOREM ImplementsMap == Spec => ImplementsAccounts
<1>1. IInv => SameCall
  BY MapLogout, MapDelete, MapLogin, MapCreate, MapPassword DEF SameCall
<1>2. IInv /\ [Next]_vars => [Directory!AccountNext]_(Directory!accountVars)
  <2> SUFFICES ASSUME IInv, [Next]_vars
               PROVE  Directory!AccountNext \/ UNCHANGED Directory!accountVars
    OBVIOUS
  <2>1. CASE logout
    BY <2>1, MapLogout DEF Directory!AccountNext
  <2>2. CASE UNCHANGED vars
    <3>1. AccountMap' = AccountMap /\ ret' = ret /\ current_user' = current_user
      BY <2>2 DEF vars, table, login_state, AccountMap, UsedNames, Used, First
    <3> QED
      BY <3>1 DEF Directory!accountVars
  <2>3. ASSUME NEW n \in AnyName, delete_user(n) PROVE Directory!AccountNext
    BY <2>3, MapDelete DEF Directory!AccountNext, AnyName
  <2>4. ASSUME NEW n \in AnyName, NEW p \in AnyPassword, login(n, p)
        PROVE  Directory!AccountNext
    BY <2>4, MapLogin DEF Directory!AccountNext, AnyName, AnyPassword
  <2>5. ASSUME NEW n \in AnyName, NEW p \in AnyPassword, NEW admin \in BOOLEAN,
               create_user(n, p, admin)
        PROVE  Directory!AccountNext
    BY <2>5, MapCreate DEF Directory!AccountNext, AnyName, AnyPassword
  <2>6. ASSUME NEW n \in AnyName, NEW p \in AnyPassword, NEW q \in AnyPassword,
               change_password(n, p, q)
        PROVE  Directory!AccountNext
    BY <2>6, MapPassword DEF Directory!AccountNext, AnyName, AnyPassword
  <2> QED
    BY <2>1, <2>2, <2>3, <2>4, <2>5, <2>6 DEF Next
<1> QED
  BY <1>1, <1>2, MapInit, Inductive, PTL DEF Spec, ImplementsAccounts, Directory!AccountSpec
====
