----------------------------- MODULE MCAccounts -----------------------------
(***************************************************************************)
(* Parts of an account that share no state, in one run: the guard of its   *)
(* login, its sign-up, its passwords and its permissions.  A behaviour     *)
(* follows one of them.                                                    *)
(***************************************************************************)
EXTENDS LoginGuard

CONSTANTS Phones, Sids, NoMail, NoPhone, Member, MaxCodes, Simultaneous, MaxSignUps,
          Words, CheckCount, AtOnce, MaxChanges,
          Users, Roles, Menus, Scopes, Rules, Loads, Changes, MaxAlterations
VARIABLES part, code, users, socials, calls, sent, uses, begun, together,
          password, past, changes, asked, beside,
          db, change, cache, load, altered, mixed, missed

\* The first account's email is the member's; two share another one.
MailOf == [s1 |-> Member, s2 |-> "second", s3 |-> "second"]

\* Users, roles, menus, data scopes and rules are rows of different tables, and
\* none of their ids is null.
ASSUME KindsDiffer ==
    /\ Users \cap Roles = {} /\ Users \cap Menus = {} /\ Users \cap Scopes = {} /\ Users \cap Rules = {}
    /\ Roles \cap Menus = {} /\ Roles \cap Scopes = {} /\ Roles \cap Rules = {}
    /\ Menus \cap Scopes = {} /\ Menus \cap Rules = {} /\ Scopes \cap Rules = {}
    /\ {"dept", "null"} \cap (Users \cup Roles \cup Menus \cup Scopes \cup Rules) = {}

SignUps == INSTANCE SignUp
Passwords == INSTANCE PasswordHistory
Permits == INSTANCE Permissions WITH changes <- altered, MaxChanges <- MaxAlterations

guardVars == <<failures, lock, pc, seen, wrong, overtaken, deaths>>
signUpVars == <<code, users, socials, calls, sent, uses, begun, together>>
passwordVars == <<password, past, changes, asked, beside>>
permitVars == <<db, change, cache, load, altered, mixed, missed>>

AccountsInit ==
    /\ part \in {"guard", "signup", "password", "permits"}
    /\ Init /\ SignUps!Init /\ Passwords!Init /\ Permits!Init
    /\ password = CHOOSE w \in Words : TRUE    \* no word differs from another

AccountsNext ==
    /\ UNCHANGED part
    /\ \/ part = "guard" /\ Next /\ UNCHANGED <<signUpVars, passwordVars, permitVars>>
       \/ part = "signup" /\ SignUps!Next /\ UNCHANGED <<guardVars, passwordVars, permitVars>>
       \/ part = "password" /\ Passwords!Next /\ UNCHANGED <<guardVars, signUpVars, permitVars>>
       \/ part = "permits" /\ Permits!Next /\ UNCHANGED <<guardVars, signUpVars, passwordVars>>

AccountsSpec == AccountsInit /\ [][AccountsNext]_<<part, guardVars, signUpVars, passwordVars, permitVars>> /\ Fairness

\* The properties of the parts.
OwnersAreUsers == SignUps!OwnersAreUsers
NoRecentReuse == Passwords!NoRecentReuse
CopiesDecideAsRows == Permits!CopiesDecideAsRows
=============================================================================
