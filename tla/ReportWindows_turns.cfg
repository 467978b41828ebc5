SPECIFICATION Spec
CONSTANTS
  Owners = {ann, bob}
  Starts <- MCStarts
  MaxTicks = 16
  MaxExpenses = 2
  Amounts = {1, 3}
CHECK_DEADLOCK FALSE
INVARIANTS
  TypeOK
  
  TotalsMatchReports
