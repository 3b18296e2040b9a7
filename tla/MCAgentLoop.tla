---------------------------- MODULE MCAgentLoop ----------------------------
(* Model values of AgentLoop for TLC.                                      *)
EXTENDS AgentLoop, TLC

MCTools == {"search"}

MCDeclares == [t \in MCTools |-> {"read", "write"}]

MCGranted == {"read"}

\* An allowed step and one whose capability is declared but not granted.
MCProposals ==
  {[tool |-> "search", capability |-> "read"], [tool |-> "search", capability |-> "write"]}

\* One proposal for each decision of the policy.
MCAllProposals ==
  MCProposals \cup
  {[tool |-> "ghost", capability |-> "read"], [tool |-> "search", capability |-> "admin"],
   [tool |-> "search", capability |-> ""]}

=============================================================================
