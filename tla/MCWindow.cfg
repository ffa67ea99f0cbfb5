SPECIFICATION SignUpSpec
CONSTANTS
  Forms = {f1, f2}
  OtpMax = 1
  MailLimit = 1
  MaxCodes = 2
CHECK_DEADLOCK FALSE
INVARIANTS
  WindowAlwaysCloses
