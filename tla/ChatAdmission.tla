--------------------------- MODULE ChatAdmission ---------------------------
(***************************************************************************)
(* From a token to a provider: what a request to POST /chat/completions or *)
(* POST /bots has to pass before it takes effect.  The dependencies        *)
(* require_permission and get_current_active_organization (api/v1/auth.py) *)
(* read the membership and the identity, authorize (api/v1/chat.py) reads  *)
(* conversation and bot and records the decision, _provider_for_bot and    *)
(* _find_verifier_bot use it.  Each read is a statement of its own, and    *)
(* between two of them roles, identities, bots and the conversation change.*)
(*                                                                         *)
(* The user is the owner of the organization that Registration made, the   *)
(* conversation is the one of ConversationState.  Role changes, disabling, *)
(* revocation and bot edits have no route: they are made on the database.  *)
(*                                                                         *)
(* The session keeps the objects it loaded (expire_on_commit=False), so    *)
(* the bot is read once.  Tokens that do not decode or are over their time *)
(* are refused by the JWT library and left out.                            *)
(***************************************************************************)
EXTENDS ConversationState, Registration

CONSTANTS
  Bots,          \* ids of bots, numbers: candidates are taken in their order
  BotRows,       \* BotRows[b]: the rows an operator may give bot b
  FirstRow,      \* FirstRow[b]: the row it may have at the beginning
  AccountRoles,  \* the roles a membership may be given; "none": it is deleted
  MaxChanges     \* bound: changes made on the database

ASSUME AdmissionAssumption == Bots \subseteq Nat /\ MaxChanges \in Nat

VARIABLES
  account,       \* the membership's role, is_enabled and token_version of the user
  bots,          \* bots[b]: the row of bot b
  token,         \* the claims of the token the user holds
  req,           \* the request: where it is, and the locals of its handler
  seen,          \* history: what has been true at some moment of the request
  changes

admissionVars == <<account, bots, token, req, seen, changes>>

-----------------------------------------------------------------------------
(* Roles, scopes and the provider policy                                   *)

\* ROLE_CAPABILITIES, for the capabilities these requests need.
RoleCapabilities(role) ==
  CASE role \in {"owner", "admin"} -> {"bot:create", "conversation:create", "provider:execute"}
    [] role = "member" -> {"conversation:create", "provider:execute"}
    [] OTHER -> {}

\* BOT_SCOPE_CAPABILITIES: an unknown scope grants nothing.
BotScopeCapabilities(scope) ==
  IF scope \in {"restricted", "standard", "elevated"} THEN {"provider:execute"} ELSE {}

Needs == [chat |-> "conversation:create", bot |-> "bot:create"]

Own == "own"   \* the caller's organization

\* _bot_accessible, and the same test of the policy.
Accessible(row) == row.org = Own \/ row.public

\* authorize_provider_execution with derive_execution_capabilities.
PermitGranted(row, role) ==
  /\ Accessible(row)
  /\ row.credential \in {"organization", "platform"}
  /\ row.org # Own => row.credential = "platform"
  /\ "provider:execute" \in RoleCapabilities(role) \cap BotScopeCapabilities(row.scope)
  /\ row.model = "allowed"

\* SecretService.resolve: the key that is used, none when the set is empty.  A
\* reference that is not configured falls back to the platform's key only in
\* platform scope.
Resolve(row) ==
  IF row.credential = "organization" /\ row.org # Own THEN {}
  ELSE IF row.secret = "configured" THEN {"reference"}
  ELSE IF row.credential = "platform" THEN {"platform"} ELSE {}

-----------------------------------------------------------------------------
NoToken == [role |-> "none", version |-> 0]

NoBot == [org |-> "none", public |-> FALSE, scope |-> "none", credential |-> "none",
          model |-> "none", secret |-> "null"]

NoCall == [row |-> NoBot, key |-> "none"]

NoRequest == [at |-> "200", kind |-> "chat", bot |-> 0, token |-> NoToken, role |-> "none",
              row |-> NoBot, decision |-> NoBot, primary |-> NoCall, verifier |-> NoCall]

\* The responses.
Responses == {"200", "201", "401", "403", "404", "409", "500"}

Running == req.at \notin Responses

\* What the request needs, as far as it is true now.
Holding ==
  {a \in {"role", "identity", "conversation"} :
     /\ Running
     /\ CASE a = "role" -> Needs[req.kind] \in RoleCapabilities(account.role)
          [] a = "identity" -> account.enabled /\ account.version = req.token.version
          [] OTHER -> conv.lifecycle = "active"}

\* Bound: sign-ups write no row that is used later, so everything else begins when
\* they are over.
SignedUp == users # {} /\ \A s \in SignUps : signup[s] \in {"idle", "201", "400", "500"}

SigningUp == conv = Absent /\ token = NoToken /\ changes = 0

\* The request goes on to its next statement, or returns its response.
Moves(to) == req' = [req EXCEPT !.at = to]

Observed == seen' = IF Running' THEN seen \cup Holding' ELSE {}

\* A statement that only reads.
Reads == UNCHANGED <<account, bots, token, changes>> /\ Observed

-----------------------------------------------------------------------------
\* login: the claims are the first membership's role and the token version.
Login ==
  /\ SignedUp
  /\ account.enabled /\ account.role # "none"
  /\ token' = [role |-> account.role, version |-> account.version]
  /\ UNCHANGED <<account, bots, req, changes>>
  /\ Observed

\* get_current_user: the identity is what the token says.
Arrive(kind, b) ==
  /\ ~Running
  /\ token # NoToken
  /\ kind = "bot" => bots[b] = NoBot
  /\ req' = [NoRequest EXCEPT !.at = "permission", !.kind = kind, !.bot = b, !.token = token]
  /\ Reads

RequirePermission_TokenRole ==
  /\ req.at = "permission"
  /\ IF Needs[req.kind] \in RoleCapabilities(req.token.role)
       THEN req' = [req EXCEPT !.at = "membership", !.role = req.token.role]
       ELSE Moves("403")
  /\ Reads

\* require_permission: the current membership decides, not the token's role.
RequirePermission ==
  /\ req.at = "permission"
  /\ IF Needs[req.kind] \in RoleCapabilities(account.role)
       THEN req' = [req EXCEPT !.at = "membership", !.role = account.role]
       ELSE Moves("403")
  /\ Reads

\* get_current_active_organization reads the membership again, then the identity.
CheckMembership ==
  /\ req.at = "membership"
  /\ Moves(IF account.role = "none" THEN "403" ELSE "identity")
  /\ Reads

CheckIdentity ==
  /\ req.at = "identity"
  /\ Moves(IF ~account.enabled \/ account.version # req.token.version THEN "401"
           ELSE IF req.kind = "chat" THEN "conversation" ELSE "create")
  /\ Reads

\* create_bot: the columns that the schema does not have take their defaults.
CreateBot ==
  /\ req.at = "create"
  /\ \E public \in BOOLEAN, model \in {"allowed", "denied"}, answer \in {"201", "500"} :
       /\ bots' = [bots EXCEPT ![req.bot] =
            [org |-> Own, public |-> public, scope |-> "standard",
             credential |-> "organization", model |-> model, secret |-> "null"]]
       /\ Moves(answer)
  /\ UNCHANGED <<account, token, changes>>
  /\ Observed

-----------------------------------------------------------------------------
(* authorize                                                               *)

\* assert_accepts_execution; nothing looks at the conversation again later.
LoadConversation ==
  /\ req.at = "conversation"
  /\ Moves(CASE conv.lifecycle = "absent" -> "404"
             [] conv.lifecycle = "archived" -> "409"
             [] OTHER -> "bot")
  /\ Reads

LoadBot ==
  /\ req.at = "bot"
  /\ LET row == bots[req.bot] IN
     IF row # NoBot /\ Accessible(row)
       THEN req' = [req EXCEPT !.at = "decide", !.row = row]
       ELSE Moves("404")
  /\ Reads

\* The permit is made of the loaded bot; the decision is committed either way.
Decide ==
  /\ req.at = "decide"
  /\ IF PermitGranted(req.row, req.role)
       THEN req' = [req EXCEPT !.at = "provider", !.decision = req.row]
       ELSE Moves("403")
  /\ Reads

-----------------------------------------------------------------------------
(* The provider and the verifier                                           *)

ProviderForBot_Reread ==
  /\ req.at = "provider"
  /\ LET row == bots[req.bot] IN
     \/ /\ Resolve(row) = {}
        /\ Moves("500")
     \/ \E key \in Resolve(row) :
          req' = [req EXCEPT !.at = "verify", !.primary = [row |-> row, key |-> key]]
  /\ Reads

\* _provider_for_bot: the permit is compared with the bot the session holds.
ProviderForBot ==
  /\ req.at = "provider"
  /\ req.decision = req.row
  /\ \/ /\ Resolve(req.row) = {}
        /\ Moves("500")
     \/ \E key \in Resolve(req.row) :
          req' = [req EXCEPT !.at = "verify", !.primary = [row |-> req.row, key |-> key]]
  /\ Reads

\* _find_verifier_bot: the first other bot of the organization that is permitted,
\* as it is now, else the primary bot as it was loaded.
Candidates ==
  {b \in Bots \ {req.bot} : bots[b].org = Own /\ PermitGranted(bots[b], req.role)}

VerifierRow ==
  IF Candidates # {}
    THEN bots[CHOOSE b \in Candidates : \A c \in Candidates : b <= c]
    ELSE req.row

\* payload.verify; a verifier that is refused or has no key leaves the answer
\* unverified.
Verify ==
  /\ req.at = "verify"
  /\ \/ \E key \in Resolve(VerifierRow) :
          /\ VerifierRow.org = Own
          /\ req' = [req EXCEPT !.at = "called",
                                !.verifier = [row |-> VerifierRow, key |-> key]]
     \/ Moves("called")
  /\ Reads

Respond ==
  /\ req.at = "called"
  /\ Moves("200")
  /\ Reads

\* A statement or the provider fails.
RequestFails ==
  /\ Running
  /\ Moves("500")
  /\ Reads

-----------------------------------------------------------------------------
(* Changes made on the database                                            *)

Changes ==
  /\ SignedUp
  /\ changes < MaxChanges
  /\ changes' = changes + 1
  /\ UNCHANGED <<token, req>>

ChangeAccount ==
  /\ Changes
  /\ \/ \E role \in AccountRoles \ {account.role} : account' = [account EXCEPT !.role = role]
     \/ account' = [account EXCEPT !.enabled = ~@]
     \/ account' = [account EXCEPT !.version = @ + 1]
  /\ UNCHANGED bots
  /\ Observed

EditBot(b) ==
  /\ Changes
  /\ bots[b] # NoBot
  /\ \E row \in BotRows[b] \ {bots[b]} : bots' = [bots EXCEPT ![b] = row]
  /\ UNCHANGED account
  /\ Observed

-----------------------------------------------------------------------------
AdmissionInit ==
  /\ ConvInit
  /\ SignUpInit
  /\ account = [role |-> "owner", enabled |-> TRUE, version |-> 1]
  /\ \E B \in SUBSET Bots : bots = [b \in Bots |-> IF b \in B THEN FirstRow[b] ELSE NoBot]
  /\ token = NoToken
  /\ req = NoRequest
  /\ seen = {}
  /\ changes = 0

RequestStep ==
  \/ RequirePermission \/ CheckMembership \/ CheckIdentity \/ CreateBot
  \/ LoadConversation \/ LoadBot \/ Decide \/ ProviderForBot \/ Verify \/ Respond
  \/ RequestFails

AdmissionNext ==
  \/ /\ UNCHANGED <<convVars, signUpVars>>
     /\ \/ Login
        \/ \E b \in Bots : (\E kind \in DOMAIN Needs : Arrive(kind, b)) \/ EditBot(b)
        \/ RequestStep
        \/ ChangeAccount
  \/ /\ SignedUp /\ ConvNext
     /\ UNCHANGED <<signUpVars, account, bots, token, req, changes>>
     /\ Observed
  \/ SigningUp /\ (\E s \in SignUps : SignUpStep(s)) /\ UNCHANGED <<convVars, admissionVars>>

AdmissionSpec == AdmissionInit /\ [][AdmissionNext]_<<convVars, signUpVars, admissionVars>>

-----------------------------------------------------------------------------
(* Properties                                                              *)

\* A request takes effect only on authority that existed while it ran: a role
\* that was taken away, an identity that was disabled, a token that was revoked or
\* a conversation that was archived before it arrived lets nothing through,
\* whatever the token says and however the changes fall between its reads.
AuthorityIsCurrent ==
  /\ req.at \in {"provider", "verify", "called"} => seen = {"role", "identity", "conversation"}
  /\ req.at = "create" => {"role", "identity"} \subseteq seen

\* What is called is what the recorded decision allowed, also when the bot is
\* edited between decision and call; a key of an organization serves its own
\* members only, and no bot of another organization verifies.
AuditedIsExecuted ==
  /\ req.primary # NoCall => req.primary.row = req.decision
  /\ \A call \in {req.primary, req.verifier} \ {NoCall} :
       call.row.org # Own => call = req.primary /\ call.row.credential = "platform"

=============================================================================
