SPECIFICATION AdmissionSpec
CONSTANTS
  s1 = s1
  s2 = s2
  s3 = s3
  SignUps = {s1, s2, s3}
  Email <- Emails3
  OrgName <- Names3
  Creating = {s3}
  Deleters = {d1, d2}
  Nobody = Nobody
  Bots = {1, 2}
  BotRows <- Rows
  FirstRow <- First
  AccountRoles = {"owner", "member", "viewer", "none"}
  MaxChanges = 2
INVARIANTS
  AuthorityIsCurrent
  AuditedIsExecuted
  AccountIsWhole
  AcceptedArchived
VIEW View
SYMMETRY Symmetric
CHECK_DEADLOCK FALSE
