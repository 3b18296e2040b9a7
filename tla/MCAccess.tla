------------------------------ MODULE MCAccess ------------------------------
(* Instances of ChatAdmission. *)
EXTENDS ChatAdmission, TLC

CONSTANTS s1, s2, s3

\* Two registrations lead to one organization name; the third request creates
\* another organization for the first user.
Emails3 == [s \in SignUps |-> IF s = s2 THEN "b@x" ELSE "a@x"]
Names3 == [s \in SignUps |-> IF s = s3 THEN "c" ELSE "a"]

OwnBot == [org |-> Own, public |-> FALSE, scope |-> "standard", credential |-> "organization",
           model |-> "allowed", secret |-> "configured"]
OtherBot == [OwnBot EXCEPT !.org = "other", !.public = TRUE, !.credential = "platform"]

Rows ==
  [b \in Bots |->
     IF b = 1
       THEN {OwnBot, [OwnBot EXCEPT !.credential = "platform", !.secret = "missing"],
             [OwnBot EXCEPT !.model = "denied"], [OwnBot EXCEPT !.scope = "unknown"]}
       ELSE {OtherBot, [OtherBot EXCEPT !.public = FALSE],
             [OtherBot EXCEPT !.credential = "organization"]}]
First == [b \in Bots |-> IF b = 1 THEN OwnBot ELSE OtherBot]

Symmetric == Permutations(Deleters)

\* What sign-ups left behind, and the locals of a request that is over, have no
\* influence any more; of the answers to DELETE only 204 is in a property.
View ==
  <<conv, [d \in Deleters |-> IF pc[d] \in {"loaded", "204"} THEN <<pc[d], loaded[d]>> ELSE <<>>],
    account, bots, token, seen, changes,
    IF SigningUp THEN signUpVars ELSE <<>>,
    IF Running THEN req ELSE NoRequest>>
=============================================================================
