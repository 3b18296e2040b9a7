-------------------------- MODULE AdmissionProofs --------------------------
(***************************************************************************)
(* From sign-up to provider call, for any number of sign-ups, bots and     *)
(* changes on the database.                                                *)
(*                                                                         *)
(* The three parts share one state but each is governed by its own steps:  *)
(* a step of the whole is a step of the conversation or leaves it alone,   *)
(* and the same for the sign-ups, so that each part is proved by itself.   *)
(* A request is followed by its place: each place says what the statements *)
(* before it have found true and what has been recorded.                   *)
(***************************************************************************)
EXTENDS ChatAdmission, TLAPS, WellFoundedInduction

-----------------------------------------------------------------------------
(* Concurrent archiving of one conversation, for any number of requests.   *)
(*                                                                         *)
(* The row takes three shapes only, and the version tells them apart.  A   *)
(* session that loaded the active row therefore finds its version changed  *)
(* as soon as somebody else has archived.                                  *)

\* The shapes of the row, one for each version.
Shape(c) ==
  \/ c = Absent
  \/ c.lifecycle = "active" /\ c.version = 1 /\ c.archivedAt = Nobody
  \/ c.lifecycle = "archived" /\ c.version = 2 /\ c.archivedAt # Nobody

\* What a session holds is the row or an earlier shape of it.
LoadedShape ==
  \A d \in Deleters :
    /\ Shape(loaded[d])
    /\ loaded[d].lifecycle = "archived" => conv = loaded[d]
    /\ loaded[d].lifecycle = "active" => conv.lifecycle # "absent"
    /\ pc[d] = "loaded" => loaded[d].lifecycle # "absent"
    /\ pc[d] = "204" => loaded[d].lifecycle # "absent"

ConvInv == ConvTypeOK /\ Shape(conv) /\ LoadedShape /\ AcceptedArchived

-----------------------------------------------------------------------------
\* A request whose aggregate is flushed loaded the active row, and it commits only
\* while the row is still that one.
LEMMA FlushedIsActive ==
  ASSUME ConvInv, NEW d \in Deleters, Commit(d), Flushed(d)
  PROVE  /\ conv.lifecycle = "active" /\ conv.version = 1
         /\ loaded[d].lifecycle = "active" /\ loaded[d].version = 1
         /\ conv' = [lifecycle |-> "archived", version |-> 2, archivedAt |-> d]
  <1>1. loaded[d].lifecycle = "active" /\ loaded[d].version = 1
    BY DEF ConvInv, LoadedShape, Shape, Absent, Flushed, Archived, Commit
  <1>2. conv.version = 1
    BY <1>1 DEF Commit, Current
  <1>3. conv.lifecycle = "active"
    BY <1>2 DEF ConvInv, Shape, Absent
  <1>4. conv' = [lifecycle |-> "archived", version |-> 2, archivedAt |-> d]
    BY <1>1 DEF Commit, Archived
  <1> QED BY <1>1, <1>2, <1>3, <1>4

LEMMA ConvInitial == ConvInit => ConvInv
  BY NobodyAssumption DEF ConvInit, ConvInv, ConvTypeOK, Conversations, Shape, LoadedShape,
         AcceptedArchived, Absent, Answers

LEMMA ConvStep == ConvInv /\ [ConvNext]_convVars => ConvInv'
  <1> SUFFICES ASSUME ConvInv, [ConvNext]_convVars PROVE ConvInv'
    OBVIOUS
  <1> USE NobodyAssumption DEF ConvInv, ConvTypeOK, Conversations, LoadedShape, AcceptedArchived,
              Shape, Absent, Answers
  <1>1. CASE CreateConversation
    BY <1>1 DEF CreateConversation
  <1>2. ASSUME NEW d \in Deleters, Load(d) PROVE ConvInv'
    BY <1>2 DEF Load
  <1>3. ASSUME NEW d \in Deleters, Commit(d) PROVE ConvInv'
    <2>1. CASE Flushed(d)
      <3>1. /\ conv.lifecycle = "active" /\ loaded[d].lifecycle = "active"
            /\ conv' = [lifecycle |-> "archived", version |-> 2, archivedAt |-> d]
        BY <1>3, <2>1, FlushedIsActive
      <3>2. ConvTypeOK' /\ Shape(conv)'
        BY <1>3, <3>1 DEF Commit
      <3>3. LoadedShape'
        BY <1>3, <3>1 DEF Commit
      <3>4. AcceptedArchived'
        <4>1. \A e \in Deleters : pc[e] # "204"
          BY <3>1
        <4> QED BY <1>3, <3>1, <4>1 DEF Commit
      <3> QED BY <3>2, <3>3, <3>4
    <2>2. CASE ~Flushed(d)
      <3>1. loaded[d].lifecycle = "archived"
        BY <1>3, <2>2 DEF Commit, Flushed, Archived
      <3> QED BY <1>3, <2>2, <3>1 DEF Commit
    <2> QED BY <2>1, <2>2
  <1>4. ASSUME NEW d \in Deleters, CommitStale(d) PROVE ConvInv'
    BY <1>4 DEF CommitStale
  <1>5. ASSUME NEW d \in Deleters, CommitFails(d) PROVE ConvInv'
    BY <1>5 DEF CommitFails
  <1>6. CASE UNCHANGED convVars
    BY <1>6 DEF convVars
  <1> QED BY <1>1, <1>2, <1>3, <1>4, <1>5, <1>6 DEF ConvNext

-----------------------------------------------------------------------------
\* Row, sessions and answers stay consistent, however many requests archive at once.
THEOREM ConvInvariance == ConvSpec => []ConvInv
  BY ConvInitial, ConvStep, PTL DEF ConvSpec

\* Of the requests that saw the conversation active only the one that archived it is
\* answered 204 (archive_conversation, version_id_col).
THEOREM OneArchiverAccepted == ConvSpec => []AcceptedArchived
  <1>1. ConvInv => AcceptedArchived
    BY DEF ConvInv
  <1> QED BY <1>1, ConvInvariance, PTL

\* An archived row is never written again: neither its version nor its archive time
\* moves.
THEOREM ArchivedStays == ConvSpec => ArchivedOnce
  <1>1. ConvInv /\ [ConvNext]_convVars
          => [conv.lifecycle = "archived" => UNCHANGED conv]_convVars
    <2> SUFFICES ASSUME ConvInv, ConvNext, conv.lifecycle = "archived"
                 PROVE  UNCHANGED conv
      BY DEF convVars
    <2>1. ~CreateConversation
      BY DEF CreateConversation, Absent
    <2>2. ASSUME NEW d \in Deleters, Commit(d) PROVE UNCHANGED conv
      <3>1. ~Flushed(d)
        BY <2>2, FlushedIsActive
      <3> QED BY <2>2, <3>1 DEF Commit
    <2> QED BY <2>1, <2>2 DEF ConvNext, Load, CommitStale, CommitFails
  <1> QED BY <1>1, ConvInvariance, PTL DEF ConvSpec, ArchivedOnce

-----------------------------------------------------------------------------
(* The whole.                                                              *)

AllVars == <<convVars, signUpVars, admissionVars>>

-----------------------------------------------------------------------------
(* Sign-ups                                                                *)

Progress == {"idle", "checked", "user", "organization", "201", "400", "500"}

SignUpTypeOK ==
  /\ users \subseteq {Email[s] : s \in SignUps}
  /\ owner \in [OrgNames -> {Email[s] : s \in SignUps} \cup {NoOwner}]
  /\ signup \in [SignUps -> Progress]

\* A flushed organization holds its name: no committed organization has it and no
\* other transaction has flushed it.
NameIsHeld ==
  \A s \in SignUps : signup[s] = "organization" =>
    /\ owner[OrgName[s]] = NoOwner
    /\ \A t \in SignUps \ {s} : OrgName[t] = OrgName[s] => signup[t] # "organization"

SignUpInv == SignUpTypeOK /\ NameIsHeld /\ AccountIsWhole

SomeSignUp == \E s \in SignUps : SignUpStep(s)

LEMMA SignUpInitial == SignUpInit => SignUpInv
  BY DEF SignUpInit, SignUpInv, SignUpTypeOK, NameIsHeld, AccountIsWhole, Progress, OrgNames

\* A step that only moves one request to a place outside a held name or success.
LEMMA SignUpMoves ==
  ASSUME SignUpInv, NEW s \in SignUps, NEW to \in Progress, Proceed(s, to),
         UNCHANGED <<users, owner>>, to # "201",
         to = "organization" => ~HoldsName(s) /\ owner[OrgName[s]] = NoOwner
  PROVE  SignUpInv'
  <1> USE DEF SignUpInv
  <1>1. SignUpTypeOK'
    BY DEF SignUpTypeOK, Proceed
  <1>2. NameIsHeld'
    <2> SUFFICES ASSUME NEW t \in SignUps, signup'[t] = "organization"
                 PROVE  /\ owner'[OrgName[t]] = NoOwner
                        /\ \A u \in SignUps \ {t} :
                             OrgName[u] = OrgName[t] => signup'[u] # "organization"
      BY DEF NameIsHeld
    <2>1. CASE t = s
      <3>1. to = "organization"
        BY <2>1 DEF Proceed, SignUpTypeOK
      <3> QED BY <2>1, <3>1 DEF Proceed, SignUpTypeOK, HoldsName
    <2>2. CASE t # s
      <3>1. signup[t] = "organization"
        BY <2>2 DEF Proceed, SignUpTypeOK
      <3>2. OrgName[s] = OrgName[t] => to # "organization"
        BY <2>2, <3>1 DEF HoldsName
      <3> QED BY <2>2, <3>1, <3>2 DEF Proceed, SignUpTypeOK, NameIsHeld
    <2> QED BY <2>1, <2>2
  <1>3. AccountIsWhole'
    BY DEF AccountIsWhole, Proceed, SignUpTypeOK
  <1> QED BY <1>1, <1>2, <1>3

\* The commit makes user, organization and membership visible together, under a
\* name that nobody else has.
LEMMA SignUpCommits ==
  ASSUME SignUpInv, NEW s \in SignUps, CommitSignUp(s)
  PROVE  SignUpInv'
  <1> USE DEF SignUpInv
  <1> PICK a \in {"201", "500"} : Proceed(s, a)
    BY DEF CommitSignUp
  <1>0. /\ signup[s] = "organization" /\ OrgName[s] \in OrgNames
        /\ owner[OrgName[s]] = NoOwner
        /\ signup' = [signup EXCEPT ![s] = a]
        /\ owner' = [owner EXCEPT ![OrgName[s]] = Email[s]]
        /\ users' = users \cup {Email[s]}
        /\ Email[s] # NoOwner
    BY SignUpAssumption DEF CommitSignUp, NameIsHeld, OrgNames, Proceed
  <1>1. SignUpTypeOK'
    BY <1>0 DEF SignUpTypeOK, Progress
  <1>2. NameIsHeld'
    <2> SUFFICES ASSUME NEW t \in SignUps, signup'[t] = "organization"
                 PROVE  /\ owner'[OrgName[t]] = NoOwner
                        /\ \A u \in SignUps \ {t} :
                             OrgName[u] = OrgName[t] => signup'[u] # "organization"
      BY DEF NameIsHeld
    <2>1. t # s /\ signup[t] = "organization"
      BY <1>0 DEF SignUpTypeOK
    <2>2. OrgName[t] # OrgName[s]
      BY <1>0, <2>1 DEF NameIsHeld
    <2>3. owner'[OrgName[t]] = owner[OrgName[t]] /\ OrgName[t] \in OrgNames
      BY <1>0, <2>2 DEF OrgNames, SignUpTypeOK
    <2>4. \A u \in SignUps : signup'[u] = "organization" => signup[u] = "organization"
      BY <1>0 DEF SignUpTypeOK
    <2> QED BY <2>1, <2>3, <2>4 DEF NameIsHeld
  <1>3. AccountIsWhole'
    <2>1. ASSUME NEW e \in users' PROVE \E n \in OrgNames : owner'[n] = e
      <3>1. CASE e = Email[s]
        BY <1>0, <3>1 DEF SignUpTypeOK
      <3>2. CASE e # Email[s]
        <4>1. PICK n \in OrgNames : owner[n] = e
          BY <1>0, <2>1, <3>2 DEF AccountIsWhole
        <4>2. e # NoOwner
          BY <1>0, <2>1, <3>2, SignUpAssumption DEF SignUpTypeOK
        <4> QED BY <1>0, <4>1, <4>2 DEF SignUpTypeOK
      <3> QED BY <3>1, <3>2
    <2>2. ASSUME NEW n \in OrgNames, owner'[n] # NoOwner PROVE owner'[n] \in users'
      BY <1>0, <2>2 DEF SignUpTypeOK, AccountIsWhole
    <2>3. ASSUME NEW t \in SignUps, signup'[t] = "201"
          PROVE  owner'[OrgName[t]] = Email[t]
      <3>1. CASE t = s
        BY <1>0, <3>1 DEF SignUpTypeOK
      <3>2. CASE t # s
        <4>1. owner[OrgName[t]] = Email[t] /\ OrgName[t] \in OrgNames
          BY <1>0, <2>3, <3>2 DEF SignUpTypeOK, AccountIsWhole, OrgNames
        <4>2. OrgName[t] # OrgName[s]
          BY <1>0, <4>1, SignUpAssumption
        <4> QED BY <1>0, <4>1, <4>2 DEF SignUpTypeOK
      <3> QED BY <3>1, <3>2
    <2> QED BY <2>1, <2>2, <2>3 DEF AccountIsWhole
  <1> QED BY <1>1, <1>2, <1>3

LEMMA SignUpPreserved == SignUpInv /\ [SomeSignUp]_signUpVars => SignUpInv'
  <1> SUFFICES ASSUME SignUpInv, [SomeSignUp]_signUpVars PROVE SignUpInv'
    OBVIOUS
  <1>1. CASE UNCHANGED signUpVars
    BY <1>1 DEF signUpVars, SignUpInv, SignUpTypeOK, NameIsHeld, AccountIsWhole
  <1>2. ASSUME NEW s \in SignUps, SignUpStep(s) PROVE SignUpInv'
    <2>1. CASE CheckEmail(s)
      BY <2>1, SignUpMoves DEF CheckEmail, Progress
    <2>2. CASE InsertUser(s)
      BY <2>2, SignUpMoves DEF InsertUser, Progress
    <2>3. CASE InsertOrganization(s)
      BY <2>3, SignUpMoves DEF InsertOrganization, Progress
    <2>4. CASE CommitSignUp(s)
      BY <2>4, SignUpCommits
    <2>5. CASE SignUpFails(s)
      BY <2>5, SignUpMoves DEF SignUpFails, Progress
    <2>6. CASE SignUpAgain(s)
      BY <2>6, SignUpMoves DEF SignUpAgain, Progress
    <2> QED BY <1>2, <2>1, <2>2, <2>3, <2>4, <2>5, <2>6 DEF SignUpStep
  <1> QED BY <1>1, <1>2 DEF SomeSignUp

-----------------------------------------------------------------------------
(* The request                                                             *)

\* The rows a bot may have: those an operator gives it and those create_bot makes.
CreatedRows ==
  [org : {Own}, public : BOOLEAN, scope : {"standard"}, credential : {"organization"},
   model : {"allowed", "denied"}, secret : {"null"}]
GivenRows == {FirstRow[b] : b \in Bots} \cup UNION {BotRows[b] : b \in Bots}
BotTable == {NoBot} \cup CreatedRows \cup GivenRows

Roles == AccountRoles \cup {"owner", "none"}
Tokens == [role : Roles, version : Nat]
Calls == [row : BotTable, key : {"none", "reference", "platform"}]

\* The places of a request, in the order of its statements.
Decided == {"provider", "verify", "called"}
Accepted == {"bot", "decide"} \cup Decided
Identified == {"conversation", "create"} \cup Accepted
Permitted == {"membership", "identity"} \cup Identified
Places == {"permission"} \cup Permitted \cup Responses

\* Every variable of the request stays in its type.
AdmissionTypeOK ==
  /\ account \in [role : Roles, enabled : BOOLEAN, version : Nat]
  /\ bots \in [Bots -> BotTable]
  /\ token \in Tokens
  /\ req \in [at : Places, kind : {"chat", "bot"}, bot : Bots \cup {0}, token : Tokens,
              role : Roles, row : BotTable, decision : BotTable, primary : Calls,
              verifier : Calls]
  /\ seen \subseteq {"role", "identity", "conversation"}
  /\ changes \in Nat

\* What the statements before a place have found true.
SeenShape ==
  /\ req.at \in Permitted => "role" \in seen
  /\ req.at \in Identified => "identity" \in seen
  /\ req.at \in Accepted => "conversation" \in seen

\* What has been decided and called before a place.
CallShape ==
  /\ req.at \notin Responses => req.bot \in Bots
  /\ req.at \in Places \ (Decided \cup Responses) => req.primary = NoCall
  /\ req.at \in Places \ ({"called"} \cup Responses) => req.verifier = NoCall
  /\ req.at \in Decided => PermitGranted(req.decision, req.role)
  /\ req.at \in {"provider"} => req.primary = NoCall
  /\ req.primary # NoCall =>
       /\ req.primary.row = req.decision
       /\ PermitGranted(req.decision, req.role)
  /\ req.verifier # NoCall => req.verifier.row.org = Own

RequestInv == AdmissionTypeOK /\ SeenShape /\ CallShape

\* A request that is still running has seen what is true now.
LEMMA SeenGrows ==
  ASSUME Observed, req'.at \notin Responses
  PROVE  /\ seen \subseteq seen'
         /\ Needs[req'.kind] \in RoleCapabilities(account'.role) => "role" \in seen'
         /\ account'.enabled /\ account'.version = req'.token.version => "identity" \in seen'
         /\ conv'.lifecycle = "active" => "conversation" \in seen'
  <1>1. Running'
    BY DEF Running, Responses
  <1>2. /\ Needs[req'.kind] \in RoleCapabilities(account'.role) => "role" \in Holding'
        /\ account'.enabled /\ account'.version = req'.token.version => "identity" \in Holding'
        /\ conv'.lifecycle = "active" => "conversation" \in Holding'
    BY <1>1 DEF Holding
  <1> QED BY <1>1, <1>2 DEF Observed

LEMMA SeenTyped ==
  ASSUME RequestInv, Observed
  PROVE  seen' \subseteq {"role", "identity", "conversation"}
  <1>1. Holding' \subseteq {"role", "identity", "conversation"}
    BY DEF Holding
  <1> QED BY <1>1 DEF Observed, RequestInv, AdmissionTypeOK

\* A statement that only moves the request forward.
LEMMA RequestMoves ==
  ASSUME RequestInv, Reads, UNCHANGED conv, NEW to \in Places, Moves(to),
         to \in Permitted => req.at \in Permitted,
         to \in Identified => \/ req.at \in Identified
                              \/ account.enabled /\ account.version = req.token.version,
         to \in Accepted => req.at \in Accepted \/ conv.lifecycle = "active",
         to \in Decided => req.at \in Decided /\ to # "provider",
         to \notin Responses => req.at \notin Responses,
         to \notin Decided \cup Responses => req.at \notin Decided \cup Responses,
         to \notin {"called"} \cup Responses => req.at \notin {"called"} \cup Responses
  PROVE  RequestInv'
  <1> USE DEF RequestInv
  <1>1. /\ req' = [req EXCEPT !.at = to]
        /\ UNCHANGED <<account, bots, token, changes>>
        /\ Observed
    BY DEF Moves, Reads
  <1>2. /\ req'.bot = req.bot /\ req'.at = to /\ req'.kind = req.kind /\ req'.token = req.token
        /\ req'.role = req.role /\ req'.row = req.row /\ req'.decision = req.decision
        /\ req'.primary = req.primary /\ req'.verifier = req.verifier
    BY <1>1 DEF AdmissionTypeOK
  <1>3. AdmissionTypeOK'
    BY <1>1, SeenTyped DEF AdmissionTypeOK
  <1>4. SeenShape'
    <2>1. CASE to \in Responses
      BY <1>2, <2>1 DEF SeenShape, Permitted, Identified, Accepted, Decided, Responses
    <2>2. CASE to \notin Responses
      BY <1>1, <1>2, <2>2, SeenGrows DEF SeenShape
    <2> QED BY <2>1, <2>2
  <1>5. CallShape'
    <2>1. to = req.at \/ to # "provider"
      BY DEF Decided
    <2>2. req.at \in Places
      BY DEF AdmissionTypeOK
    <2> QED BY <1>2, <2>1, <2>2 DEF CallShape, Decided, Places, Responses, Permitted, Identified, Accepted
  <1> QED BY <1>3, <1>4, <1>5

LEMMA ArriveStep ==
  ASSUME RequestInv, NEW kind \in DOMAIN Needs, NEW b \in Bots, Arrive(kind, b)
  PROVE  RequestInv'
  <1> USE DEF RequestInv
  <1>1. /\ req' = [NoRequest EXCEPT !.at = "permission", !.kind = kind, !.bot = b,
                                    !.token = token]
        /\ UNCHANGED <<account, bots, token, changes>> /\ Observed
        /\ kind \in {"chat", "bot"}
    BY DEF Arrive, Reads, Needs
  <1>2. NoBot \in BotTable /\ NoCall \in Calls /\ NoToken \in Tokens
    BY DEF BotTable, NoCall, Calls, NoToken, Tokens, Roles
  <1>3. /\ req'.at = "permission" /\ req'.kind = kind /\ req'.bot = b /\ req'.token = token
        /\ req'.role = "none" /\ req'.row = NoBot /\ req'.decision = NoBot
        /\ req'.primary = NoCall /\ req'.verifier = NoCall
    BY <1>1 DEF NoRequest
  <1>4. AdmissionTypeOK'
    <2>1. req' = [at |-> "permission", kind |-> kind, bot |-> b, token |-> token,
                  role |-> "none", row |-> NoBot, decision |-> NoBot, primary |-> NoCall,
                  verifier |-> NoCall]
      BY <1>1 DEF NoRequest
    <2> QED BY <1>1, <1>2, <2>1, SeenTyped DEF AdmissionTypeOK, Places, Roles
  <1>5. SeenShape'
    BY <1>3 DEF SeenShape, Permitted, Identified, Accepted, Decided
  <1>6. CallShape'
    BY <1>3 DEF CallShape, Decided
  <1> QED BY <1>4, <1>5, <1>6

LEMMA PermissionStep ==
  ASSUME RequestInv, RequirePermission, UNCHANGED conv
  PROVE  RequestInv'
  <1> USE DEF RequestInv
  <1>1. CASE Moves("403")
    BY <1>1, RequestMoves
       DEF RequirePermission, Places, Responses, Decided, Permitted, Identified, Accepted
  <1>2. CASE /\ Needs[req.kind] \in RoleCapabilities(account.role)
             /\ req' = [req EXCEPT !.at = "membership", !.role = account.role]
    <2>1. /\ req'.bot = req.bot /\ req'.at = "membership" /\ req'.kind = req.kind /\ req'.token = req.token
          /\ req'.role = account.role /\ req'.decision = req.decision
          /\ req'.primary = req.primary /\ req'.verifier = req.verifier
          /\ UNCHANGED <<account, bots, token, changes>> /\ Observed
          /\ req.at = "permission"
      BY <1>2 DEF AdmissionTypeOK, RequirePermission, Reads
    <2>2. AdmissionTypeOK'
      BY <1>2, <2>1, SeenTyped DEF AdmissionTypeOK, Places, Permitted
    <2>3. SeenShape'
      BY <1>2, <2>1, SeenGrows
         DEF SeenShape, Permitted, Identified, Accepted, Decided, Responses
    <2>4. CallShape'
      BY <2>1 DEF CallShape, Decided, Places, Permitted, Responses
    <2> QED BY <2>2, <2>3, <2>4
  <1> QED BY <1>1, <1>2 DEF RequirePermission

LEMMA CreateStep ==
  ASSUME RequestInv, CreateBot
  PROVE  RequestInv'
  <1> USE DEF RequestInv
  <1>1. PICK public \in BOOLEAN, model \in {"allowed", "denied"}, answer \in {"201", "500"} :
          /\ bots' = [bots EXCEPT ![req.bot] =
               [org |-> Own, public |-> public, scope |-> "standard",
                credential |-> "organization", model |-> model, secret |-> "null"]]
          /\ Moves(answer)
    BY DEF CreateBot
  <1>2. /\ req'.at = answer /\ req'.decision = req.decision /\ req'.role = req.role
        /\ req'.primary = req.primary /\ req'.verifier = req.verifier
        /\ UNCHANGED <<account, token, changes>> /\ Observed
    BY <1>1 DEF CreateBot, Moves, AdmissionTypeOK
  <1>3. AdmissionTypeOK'
    <2> DEFINE made == [org |-> Own, public |-> public, scope |-> "standard",
                        credential |-> "organization", model |-> model, secret |-> "null"]
    <2>0. made \in CreatedRows
      BY DEF CreatedRows
    <2> HIDE DEF made
    <2>1. made \in BotTable
      BY <2>0 DEF BotTable
    <2>2. bots' \in [Bots -> BotTable]
      BY <1>1, <2>1 DEF AdmissionTypeOK, made
    <2> QED BY <1>1, <1>2, <2>2, SeenTyped DEF AdmissionTypeOK, Moves, Places, Responses
  <1>4. SeenShape'
    BY <1>2 DEF SeenShape, Permitted, Identified, Accepted, Decided
  <1>5. CallShape'
    BY <1>2 DEF CallShape, Decided, Responses
  <1> QED BY <1>3, <1>4, <1>5

LEMMA ConversationRead ==
  ASSUME RequestInv, ConvInv, LoadConversation, UNCHANGED conv
  PROVE  RequestInv'
  <1>1. conv.lifecycle \in {"absent", "active", "archived"}
    BY DEF ConvInv, ConvTypeOK, Conversations
  <1>2. PICK to \in {"404", "409", "bot"} :
          Moves(to) /\ (to = "bot" => conv.lifecycle = "active")
    <2>1. CASE conv.lifecycle = "absent"
      BY <2>1 DEF LoadConversation
    <2>2. CASE conv.lifecycle = "archived"
      BY <2>2 DEF LoadConversation
    <2>3. CASE conv.lifecycle = "active"
      BY <2>3 DEF LoadConversation
    <2> QED BY <1>1, <2>1, <2>2, <2>3
  <1> QED BY <1>2, RequestMoves
          DEF LoadConversation, Places, Responses, Decided, Permitted, Identified, Accepted

LEMMA BotRead ==
  ASSUME RequestInv, LoadBot, UNCHANGED conv
  PROVE  RequestInv'
  <1> USE DEF RequestInv
  <1>1. CASE Moves("404")
    BY <1>1, RequestMoves
       DEF LoadBot, Places, Responses, Decided, Permitted, Identified, Accepted
  <1>2. CASE req' = [req EXCEPT !.at = "decide", !.row = bots[req.bot]]
    <2>1. /\ req'.bot = req.bot /\ req'.at = "decide" /\ req'.role = req.role /\ req'.decision = req.decision
          /\ req'.primary = req.primary /\ req'.verifier = req.verifier
          /\ UNCHANGED <<account, bots, token, changes>> /\ Observed
          /\ req.at = "bot"
      BY <1>2 DEF AdmissionTypeOK, LoadBot, Reads
    <2>2. AdmissionTypeOK'
      <3>1. bots[req.bot] \in BotTable
        BY <2>1 DEF AdmissionTypeOK, CallShape, Responses
      <3> QED BY <1>2, <2>1, <3>1, SeenTyped
              DEF AdmissionTypeOK, Places, Permitted, Identified, Accepted
    <2>3. SeenShape'
      BY <2>1, SeenGrows DEF SeenShape, Permitted, Identified, Accepted, Decided, Responses
    <2>4. CallShape'
      BY <2>1 DEF CallShape, Decided, Places, Permitted, Identified, Accepted, Responses
    <2> QED BY <2>2, <2>3, <2>4
  <1> QED BY <1>1, <1>2 DEF LoadBot

LEMMA DecideStep ==
  ASSUME RequestInv, Decide, UNCHANGED conv
  PROVE  RequestInv'
  <1> USE DEF RequestInv
  <1>1. CASE Moves("403")
    BY <1>1, RequestMoves
       DEF Decide, Places, Responses, Decided, Permitted, Identified, Accepted
  <1>2. CASE /\ PermitGranted(req.row, req.role)
             /\ req' = [req EXCEPT !.at = "provider", !.decision = req.row]
    <2>1. /\ req'.bot = req.bot /\ req'.at = "provider" /\ req'.role = req.role /\ req'.decision = req.row
          /\ req'.primary = req.primary /\ req'.verifier = req.verifier
          /\ UNCHANGED <<account, bots, token, changes>> /\ Observed
          /\ req.at = "decide"
      BY <1>2 DEF AdmissionTypeOK, Decide, Reads
    <2>2. AdmissionTypeOK'
      BY <1>2, <2>1, SeenTyped
         DEF AdmissionTypeOK, Places, Permitted, Identified, Accepted, Decided
    <2>3. SeenShape'
      BY <2>1, SeenGrows DEF SeenShape, Permitted, Identified, Accepted, Decided, Responses
    <2>4. req.primary = NoCall /\ req.verifier = NoCall
      BY <2>1 DEF CallShape, Decided, Places, Permitted, Identified, Accepted, Responses
    <2>5. CallShape'
      BY <1>2, <2>1, <2>4 DEF CallShape, Responses
    <2> QED BY <2>2, <2>3, <2>5
  <1> QED BY <1>1, <1>2 DEF Decide

\* A set of numbers that is not empty has a least one: the candidate that is taken.
LEMMA LeastNumber ==
  ASSUME NEW S, S \subseteq Nat, S # {}
  PROVE  \E b \in S : \A c \in S : b <= c
  <1>1. PICK x \in S : \A y \in S : ~(<<y, x>> \in OpToRel(<, Nat))
    BY NatLessThanWellFounded, WFMin
  <1>2. \A y \in S : ~(y < x)
    BY <1>1 DEF OpToRel
  <1> QED BY <1>2

LEMMA ResolveTyped ==
  ASSUME NEW row
  PROVE  Resolve(row) \subseteq {"reference", "platform"}
  BY DEF Resolve

LEMMA ProviderStep ==
  ASSUME RequestInv, ProviderForBot, UNCHANGED conv
  PROVE  RequestInv'
  <1> USE DEF RequestInv
  <1>1. CASE Moves("500")
    BY <1>1, RequestMoves
       DEF ProviderForBot, Places, Responses, Decided, Permitted, Identified, Accepted
  <1>2. ASSUME NEW key \in Resolve(req.row),
               req' = [req EXCEPT !.at = "verify", !.primary = [row |-> req.row, key |-> key]]
        PROVE  RequestInv'
    <2>1. /\ req'.bot = req.bot /\ req'.at = "verify" /\ req'.role = req.role /\ req'.decision = req.decision
          /\ req'.primary = [row |-> req.row, key |-> key] /\ req'.verifier = req.verifier
          /\ UNCHANGED <<account, bots, token, changes>> /\ Observed
          /\ req.at = "provider" /\ req.decision = req.row
      BY <1>2 DEF AdmissionTypeOK, ProviderForBot, Reads
    <2>2. AdmissionTypeOK'
      <3>1. [row |-> req.row, key |-> key] \in Calls
        BY <1>2, ResolveTyped DEF AdmissionTypeOK, Calls
      <3> QED BY <1>2, <2>1, <3>1, SeenTyped
              DEF AdmissionTypeOK, Places, Permitted, Identified, Accepted, Decided
    <2>3. SeenShape'
      BY <2>1, SeenGrows DEF SeenShape, Permitted, Identified, Accepted, Decided, Responses
    <2>4. PermitGranted(req.decision, req.role)
      BY <2>1 DEF CallShape, Decided
    <2>5. req.verifier = NoCall
      BY <2>1 DEF CallShape, Decided, Places, Permitted, Identified, Accepted, Responses
    <2>6. CallShape'
      BY <2>1, <2>4, <2>5 DEF CallShape, Decided, Responses
    <2> QED BY <2>2, <2>3, <2>6
  <1> QED BY <1>1, <1>2 DEF ProviderForBot

LEMMA VerifyStep ==
  ASSUME RequestInv, Verify, UNCHANGED conv
  PROVE  RequestInv'
  <1> USE DEF RequestInv
  <1>1. CASE Moves("called")
    BY <1>1, RequestMoves
       DEF Verify, Places, Responses, Decided, Permitted, Identified, Accepted
  <1>2. ASSUME NEW key \in Resolve(VerifierRow), VerifierRow.org = Own,
               req' = [req EXCEPT !.at = "called",
                                  !.verifier = [row |-> VerifierRow, key |-> key]]
        PROVE  RequestInv'
    <2>1. /\ req'.bot = req.bot /\ req'.at = "called" /\ req'.role = req.role /\ req'.decision = req.decision
          /\ req'.primary = req.primary
          /\ req'.verifier = [row |-> VerifierRow, key |-> key]
          /\ UNCHANGED <<account, bots, token, changes>> /\ Observed
          /\ req.at = "verify"
      BY <1>2 DEF AdmissionTypeOK, Verify, Reads
    <2>2. VerifierRow \in BotTable
      <3>1. CASE Candidates = {}
        BY <3>1 DEF VerifierRow, AdmissionTypeOK
      <3>2. CASE Candidates # {}
        <4> DEFINE first == CHOOSE b \in Candidates : \A c \in Candidates : b <= c
        <4>1. first \in Candidates
          <5>1. Candidates \subseteq Nat
            BY AdmissionAssumption DEF Candidates
          <5>2. \E b \in Candidates : \A c \in Candidates : b <= c
            BY <3>2, <5>1, LeastNumber
          <5> QED BY <5>2
        <4>2. first \in Bots
          BY <4>1 DEF Candidates
        <4> HIDE DEF first
        <4>3. bots[first] \in BotTable
          BY <4>2 DEF AdmissionTypeOK
        <4> QED BY <3>2, <4>3 DEF VerifierRow, first
      <3> QED BY <3>1, <3>2
    <2>3. AdmissionTypeOK'
      <3>1. [row |-> VerifierRow, key |-> key] \in Calls
        BY <1>2, <2>2, ResolveTyped DEF Calls
      <3> QED BY <1>2, <2>1, <3>1, SeenTyped
              DEF AdmissionTypeOK, Places, Permitted, Identified, Accepted, Decided
    <2>4. SeenShape'
      BY <2>1, SeenGrows DEF SeenShape, Permitted, Identified, Accepted, Decided, Responses
    <2>5. CallShape'
      BY <1>2, <2>1 DEF CallShape, Decided, Responses
    <2> QED BY <2>3, <2>4, <2>5
  <1> QED BY <1>1, <1>2 DEF Verify

\* The statements that only read and go on, or fail.
LEMMA ReadStep ==
  ASSUME RequestInv, UNCHANGED conv,
         CheckMembership \/ CheckIdentity \/ Respond \/ RequestFails
  PROVE  RequestInv'
  <1> USE DEF Places, Responses, Decided, Permitted, Identified, Accepted
  <1>1. CASE CheckMembership
    BY <1>1, RequestMoves DEF CheckMembership
  <1>2. CASE CheckIdentity
    <2>1. CASE ~account.enabled \/ account.version # req.token.version
      BY <1>2, <2>1, RequestMoves DEF CheckIdentity
    <2>2. CASE account.enabled /\ account.version = req.token.version
      <3>1. Moves("conversation") \/ Moves("create")
        BY <1>2, <2>2 DEF CheckIdentity
      <3> QED BY <1>2, <2>2, <3>1, RequestMoves DEF CheckIdentity
    <2> QED BY <2>1, <2>2
  <1>3. CASE Respond
    BY <1>3, RequestMoves DEF Respond
  <1>4. CASE RequestFails
    BY <1>4, RequestMoves DEF RequestFails
  <1> QED BY <1>1, <1>2, <1>3, <1>4

\* Whatever happens beside the request: what it has seen and recorded stays.
LEMMA BesideRequest ==
  ASSUME RequestInv, UNCHANGED req, Observed,
         account' \in [role : Roles, enabled : BOOLEAN, version : Nat],
         bots' \in [Bots -> BotTable], token' \in Tokens, changes' \in Nat
  PROVE  RequestInv'
  <1> USE DEF RequestInv
  <1>1. AdmissionTypeOK'
    BY SeenTyped DEF AdmissionTypeOK
  <1>2. SeenShape'
    <2>1. CASE req.at \in Responses
      BY <2>1 DEF SeenShape, Permitted, Identified, Accepted, Decided, Responses
    <2>2. CASE req.at \notin Responses
      BY <2>2, SeenGrows DEF SeenShape
    <2> QED BY <2>1, <2>2
  <1>3. CallShape'
    BY DEF CallShape
  <1> QED BY <1>1, <1>2, <1>3

LEMMA LoginStep ==
  ASSUME RequestInv, Login
  PROVE  RequestInv'
  <1>1. token' \in Tokens
    BY DEF Login, RequestInv, AdmissionTypeOK, Tokens
  <1> QED BY <1>1, BesideRequest DEF Login, RequestInv, AdmissionTypeOK

LEMMA AccountStep ==
  ASSUME RequestInv, ChangeAccount
  PROVE  RequestInv'
  <1>1. account' \in [role : Roles, enabled : BOOLEAN, version : Nat]
    <2>0. account \in [role : Roles, enabled : BOOLEAN, version : Nat]
      BY DEF RequestInv, AdmissionTypeOK
    <2>1. ASSUME NEW role \in AccountRoles \ {account.role},
                 account' = [account EXCEPT !.role = role]
          PROVE  account' \in [role : Roles, enabled : BOOLEAN, version : Nat]
      BY <2>0, <2>1 DEF Roles
    <2>2. CASE account' = [account EXCEPT !.enabled = ~@]
      BY <2>0, <2>2
    <2>3. CASE account' = [account EXCEPT !.version = @ + 1]
      BY <2>0, <2>3
    <2> QED BY <2>1, <2>2, <2>3 DEF ChangeAccount
  <1> QED BY <1>1, BesideRequest DEF ChangeAccount, Changes, RequestInv, AdmissionTypeOK

LEMMA EditStep ==
  ASSUME RequestInv, NEW b \in Bots, EditBot(b)
  PROVE  RequestInv'
  <1>1. PICK row \in BotRows[b] : bots' = [bots EXCEPT ![b] = row]
    BY DEF EditBot
  <1>2. row \in BotTable
    <2>1. row \in GivenRows
      BY DEF GivenRows
    <2> QED BY <2>1 DEF BotTable
  <1>3. bots' \in [Bots -> BotTable]
    BY <1>1, <1>2 DEF RequestInv, AdmissionTypeOK
  <1> QED BY <1>3, BesideRequest DEF EditBot, Changes, RequestInv, AdmissionTypeOK

-----------------------------------------------------------------------------
(* The whole                                                               *)

AdmissionInv == ConvInv /\ SignUpInv /\ RequestInv

LEMMA AdmissionInitial == AdmissionInit => AdmissionInv
  <1> SUFFICES ASSUME AdmissionInit PROVE AdmissionInv
    OBVIOUS
  <1>1. ConvInv /\ SignUpInv
    BY ConvInitial, SignUpInitial DEF AdmissionInit
  <1>2. NoBot \in BotTable /\ NoCall \in Calls /\ NoToken \in Tokens
    BY DEF BotTable, NoCall, Calls, NoToken, Tokens, Roles
  <1>3. /\ req.at = "200" /\ req.primary = NoCall /\ req.verifier = NoCall
    BY DEF AdmissionInit, NoRequest
  <1>4. AdmissionTypeOK
    <2>1. req \in [at : Places, kind : {"chat", "bot"}, bot : Bots \cup {0}, token : Tokens,
              role : Roles, row : BotTable, decision : BotTable, primary : Calls,
              verifier : Calls]
      BY <1>2 DEF AdmissionInit, NoRequest, Places, Responses, Roles
    <2>2. bots \in [Bots -> BotTable]
      <3>1. \A b \in Bots : FirstRow[b] \in GivenRows
        BY DEF GivenRows
      <3>2. \A b \in Bots : FirstRow[b] \in BotTable
        BY <3>1 DEF BotTable
      <3> QED BY <1>2, <3>2 DEF AdmissionInit
    <2> QED BY <1>2, <2>1, <2>2 DEF AdmissionInit, AdmissionTypeOK, Roles
  <1>5. SeenShape
    BY <1>3 DEF SeenShape, Permitted, Identified, Accepted, Decided
  <1>6. CallShape
    BY <1>3 DEF CallShape, Responses, Decided
  <1> QED BY <1>1, <1>4, <1>5, <1>6 DEF AdmissionInv, RequestInv

\* A step of the whole is a step of each part, or leaves it alone.
LEMMA StepsOfParts ==
  ASSUME [AdmissionNext]_AllVars
  PROVE  [ConvNext]_convVars /\ [SomeSignUp]_signUpVars
  BY DEF AdmissionNext, AllVars, SomeSignUp

LEMMA AdmissionStep == AdmissionInv /\ [AdmissionNext]_AllVars => AdmissionInv'
  <1> SUFFICES ASSUME AdmissionInv, [AdmissionNext]_AllVars PROVE AdmissionInv'
    OBVIOUS
  <1> USE DEF AdmissionInv
  <1>1. ConvInv' /\ SignUpInv'
    BY StepsOfParts, ConvStep, SignUpPreserved
  <1>2. RequestInv'
    <2>1. CASE UNCHANGED admissionVars
      BY <2>1 DEF admissionVars, RequestInv, AdmissionTypeOK, SeenShape, CallShape
    <2>2. CASE ConvNext /\ UNCHANGED <<account, bots, token, req, changes>> /\ Observed
      BY <2>2, BesideRequest DEF RequestInv, AdmissionTypeOK
    <2>3. CASE UNCHANGED convVars /\ Login
      BY <2>3, LoginStep
    <2>4. ASSUME NEW b \in Bots, NEW kind \in DOMAIN Needs, Arrive(kind, b) PROVE RequestInv'
      BY <2>4, ArriveStep
    <2>5. ASSUME NEW b \in Bots, EditBot(b) PROVE RequestInv'
      BY <2>5, EditStep
    <2>6. CASE ChangeAccount
      BY <2>6, AccountStep
    <2>7. CASE UNCHANGED convVars /\ RequestStep
      <3>1. UNCHANGED conv
        BY <2>7 DEF convVars
      <3> QED BY <2>7, <3>1, PermissionStep, CreateStep, ConversationRead, BotRead,
                 DecideStep, ProviderStep, VerifyStep, ReadStep DEF RequestStep
    <2> QED BY <2>1, <2>2, <2>3, <2>4, <2>5, <2>6, <2>7 DEF AdmissionNext, AllVars
  <1> QED BY <1>1, <1>2

-----------------------------------------------------------------------------
(* Theorems                                                                *)

\* Accounts, conversation and request keep the invariant of all three parts.
THEOREM AdmissionInvariance == AdmissionSpec => []AdmissionInv
  BY AdmissionInitial, AdmissionStep, PTL DEF AdmissionSpec, AllVars

\* Seen from the conversation, everything that sign-ups and requests do is stuttering:
\* the composition implements ConversationState and has its properties.
THEOREM AdmissionKeepsConversation ==
  AdmissionSpec => ConvSpec /\ []AcceptedArchived /\ ArchivedOnce
  <1>1. AdmissionSpec => ConvSpec
    <2>1. AdmissionInit => ConvInit
      BY DEF AdmissionInit
    <2>2. [AdmissionNext]_AllVars => [ConvNext]_convVars
      BY StepsOfParts
    <2> QED BY <2>1, <2>2, PTL DEF AdmissionSpec, ConvSpec, AllVars
  <1> QED BY <1>1, OneArchiverAccepted, ArchivedStays, PTL

\* No account is left half made, for any set of concurrent registrations and
\* create_organization requests (register, create_organization).
THEOREM AccountsAreWhole == AdmissionSpec => []AccountIsWhole
  <1>1. AdmissionInv => AccountIsWhole
    BY DEF AdmissionInv, SignUpInv
  <1> QED BY <1>1, AdmissionInvariance, PTL

\* A request takes effect only on a role, an identity and a conversation that were
\* good at some moment while it ran, however many changes fall between its reads
\* (require_permission, get_current_active_organization, authorize).
THEOREM AuthorityStaysCurrent == AdmissionSpec => []AuthorityIsCurrent
  <1>1. RequestInv => AuthorityIsCurrent
    BY DEF RequestInv, AdmissionTypeOK, SeenShape, AuthorityIsCurrent, Permitted, Identified,
           Accepted, Decided
  <1>2. AdmissionInv => RequestInv
    BY DEF AdmissionInv
  <1> QED BY <1>1, <1>2, AdmissionInvariance, PTL

\* The provider is called with the bot the recorded decision allowed, for any set of
\* bots and edits (authorize, _provider_for_bot, _find_verifier_bot).
THEOREM DecisionIsExecuted == AdmissionSpec => []AuditedIsExecuted
  <1>1. AdmissionInv => AuditedIsExecuted
    BY DEF AdmissionInv, RequestInv, CallShape, AuditedIsExecuted, PermitGranted
  <1> QED BY <1>1, AdmissionInvariance, PTL

=============================================================================
