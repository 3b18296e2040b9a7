---------------------------- MODULE Registration ----------------------------
(***************************************************************************)
(* POST /auth/register (api/v1/auth.py) and POST /organizations            *)
(* (api/v1/organizations.py): the tables users, organizations and          *)
(* organization_members under concurrent transactions.                     *)
(*                                                                         *)
(* The name of a new account's organization is made of the part of the     *)
(* e-mail address before the @, and organization names are unique.  A      *)
(* flushed row is invisible to other transactions, but a second insert of  *)
(* its unique value waits until the first transaction ends.                *)
(***************************************************************************)
EXTENDS Naturals, FiniteSets

CONSTANTS
  SignUps,       \* register and create_organization requests
  Email,         \* Email[s]: the address s registers, or whose account it uses
  OrgName,       \* OrgName[s]: the name of the organization s creates
  Creating       \* the requests to create_organization

NoOwner == "nobody"

\* "nobody" is not an e-mail address.
ASSUME SignUpAssumption == Creating \subseteq SignUps /\ \A s \in SignUps : Email[s] # NoOwner

VARIABLES
  users,         \* e-mail addresses of the committed users
  owner,         \* owner[n]: the owner of the committed organization n, by address
  signup         \* signup[s]: how far s is, or its response status

signUpVars == <<users, owner, signup>>

-----------------------------------------------------------------------------
OrgNames == {OrgName[s] : s \in SignUps}

Proceed(s, to) == signup' = [signup EXCEPT ![s] = to]

\* Uncommitted rows of other transactions.
HoldsEmail(s) == \E t \in SignUps \ ({s} \cup Creating) :
                   Email[t] = Email[s] /\ signup[t] \in {"user", "organization"}
HoldsName(s) == \E t \in SignUps \ {s} :
                  OrgName[t] = OrgName[s] /\ signup[t] = "organization"

\* select(User): an address that is taken is refused.
CheckEmail(s) ==
  /\ s \notin Creating
  /\ signup[s] = "idle"
  /\ Proceed(s, IF Email[s] \in users THEN "400" ELSE "checked")
  /\ UNCHANGED <<users, owner>>

InsertUser_Committed(s) ==
  /\ signup[s] = "checked"
  /\ ~HoldsEmail(s)
  /\ IF Email[s] \in users
       THEN Proceed(s, "500") /\ UNCHANGED users
       ELSE Proceed(s, "user") /\ users' = users \cup {Email[s]}
  /\ UNCHANGED owner

\* db.flush of the user; a duplicate raises IntegrityError, which is not handled.
InsertUser(s) ==
  /\ signup[s] = "checked"
  /\ ~HoldsEmail(s)
  /\ Proceed(s, IF Email[s] \in users THEN "500" ELSE "user")
  /\ UNCHANGED <<users, owner>>

\* db.flush of the organization.  create_organization begins here, with a token
\* of its user.
InsertOrganization(s) ==
  /\ \/ signup[s] = "user"
     \/ s \in Creating /\ signup[s] = "idle" /\ Email[s] \in users
  /\ ~HoldsName(s)
  /\ Proceed(s, IF owner[OrgName[s]] # NoOwner THEN "500" ELSE "organization")
  /\ UNCHANGED <<users, owner>>

\* The membership is inserted and everything is committed; the refresh that
\* follows may fail, and then the client is told 500.
CommitSignUp(s) ==
  /\ signup[s] = "organization"
  /\ users' = users \cup {Email[s]}
  /\ owner' = [owner EXCEPT ![OrgName[s]] = Email[s]]
  /\ \E a \in {"201", "500"} : Proceed(s, a)

\* A database error; the transaction is rolled back.
SignUpFails(s) ==
  /\ signup[s] \in {"checked", "user", "organization"}
  /\ Proceed(s, "500")
  /\ UNCHANGED <<users, owner>>

\* The client tries again.
SignUpAgain(s) ==
  /\ signup[s] = "500"
  /\ Proceed(s, "idle")
  /\ UNCHANGED <<users, owner>>

-----------------------------------------------------------------------------
SignUpInit ==
  /\ users = {}
  /\ owner = [n \in OrgNames |-> NoOwner]
  /\ signup = [s \in SignUps |-> "idle"]

SignUpStep(s) ==
  \/ CheckEmail(s) \/ InsertUser(s) \/ InsertOrganization(s)
  \/ CommitSignUp(s) \/ SignUpFails(s) \/ SignUpAgain(s)

-----------------------------------------------------------------------------
(* Properties                                                              *)

\* No account is left half made: whichever of concurrent registrations of one
\* address, or of addresses that lead to one organization name, is refused where,
\* every committed user owns an organization and every organization has its owner.
AccountIsWhole ==
  /\ \A e \in users : \E n \in OrgNames : owner[n] = e
  /\ \A n \in OrgNames : owner[n] # NoOwner => owner[n] \in users
  /\ \A s \in SignUps : signup[s] = "201" => owner[OrgName[s]] = Email[s]

=============================================================================
