---- MODULE Accounts ----
(***************************************************************************)
(* What the user table promises: a map from user names to their password   *)
(* and administrator flag, root always in it and always an administrator,  *)
(* and one session on the console.                                         *)
(***************************************************************************)
EXTENDS Integers, FiniteSets

CONSTANTS Names, Passwords, LongNames, LongPasswords, MAX_USERS

VARIABLES account,      \* the map: name -> [password, is_admin]
          session,      \* the name logged in, "" when nobody is
          ret           \* what the last call returned

accountVars == <<account, session, ret>>

Known == DOMAIN account
LoggedIn == session # ""
Refuse == ret' = -1 /\ UNCHANGED <<account, session>>

AccountInit == /\ account = [n \in {"root"} |-> [password |-> "root", is_admin |-> TRUE]]
               /\ session = "root"
               /\ ret = 0

Add(n, p, admin) ==
  IF /\ LoggedIn /\ n \notin Known \cup LongNames /\ p \notin LongPasswords
     /\ Cardinality(Known) < MAX_USERS
    THEN /\ account' = [m \in Known \cup {n} |->
                          IF m = n THEN [password |-> p, is_admin |-> admin] ELSE account[m]]
         /\ ret' = 0 /\ UNCHANGED session
    ELSE Refuse

Remove(n) == IF LoggedIn /\ n \in Known \ {"root"}
               THEN /\ account' = [m \in Known \ {n} |-> account[m]]
                    /\ ret' = 0 /\ UNCHANGED session
               ELSE Refuse

Login(n, p) == IF n \in Known /\ account[n].password = p
                 THEN session' = n /\ ret' = 0 /\ UNCHANGED account
                 ELSE Refuse

Logout == session' = "" /\ UNCHANGED <<account, ret>>

Passwd(n, old, new) ==
  IF LoggedIn /\ n \in Known /\ account[n].password = old /\ new \notin LongPasswords
    THEN account' = [account EXCEPT ![n].password = new] /\ ret' = 0 /\ UNCHANGED session
    ELSE Refuse

AccountNext ==
  \/ Logout
  \/ \E n \in Names \cup LongNames :
       \/ Remove(n)
       \/ \E p \in Passwords \cup LongPasswords :
            \/ Login(n, p)
            \/ \E admin \in BOOLEAN : Add(n, p, admin)
            \/ \E q \in Passwords \cup LongPasswords : Passwd(n, p, q)

AccountSpec == AccountInit /\ [][AccountNext]_accountVars
====
