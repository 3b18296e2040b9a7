------------------------------ MODULE MCMemory ------------------------------
(* Three sessions: alice, an admin, and bob, a member, in org1, and alice    *)
(* again as a member of org2.  Message m1 is bob's, in org1.  Every caller   *)
(* declares digests of its own.                                              *)
EXTENDS MemoryLineage, TLC

CONSTANTS aliceIn1, bobIn1, aliceIn2, m1, m2

UserOf(s) == IF s = bobIn1 THEN "bob" ELSE "alice"
OrgOf(s) == IF s = aliceIn2 THEN "org2" ELSE "org1"
AdminOf(s) == s = aliceIn1
OrgOfMessage(m) == IF m = m1 THEN "org1" ELSE "org2"
UserOfMessage(m) == IF m = m1 THEN "bob" ELSE "alice"

\* Bob's traces may reach the third record of a lineage, alice's are cut short.
DepthOf(s) == CASE s = bobIn1 -> 3 [] s = aliceIn1 -> 2 [] OTHER -> 1

ForgedClaims == {[note |-> "declared", content |-> Forged, source |-> Forged]}

MemorySymmetry == Permutations(Items)
=============================================================================
