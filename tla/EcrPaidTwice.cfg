SPECIFICATION Spec
CONSTANTS
  N = 4
  Uans = {"uan-1", "uan-2", "uan-aarav"}
  NoUan = ""
  Members = {"aarav", "aarav-unlinked", "payroll-1", "payroll-3", "payroll-4"}
  Roster = {"payroll-1", "payroll-3", "payroll-4"}
  SharedMember = "aarav"
  SharedUan = "uan-aarav"
  Wages <- MCWages
  Expected <- MCExpected
  Payroll <- MCPayroll
  History <- MCHistory
  FilingMonth = 8
INVARIANTS
  NobodyPaidTwice
CHECK_DEADLOCK FALSE
