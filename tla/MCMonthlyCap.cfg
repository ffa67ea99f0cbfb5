SPECIFICATION QuotaSpec
CONSTANTS
  Calls = {c1}
  Daily = 1
  Monthly = 1
  Firsts = {0}
  MaxDate = 3
  MaxAdmin = 0
CHECK_DEADLOCK FALSE
INVARIANTS
  MonthlyCapHeld
