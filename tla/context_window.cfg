SPECIFICATION Spec
CONSTANTS
  MaxInputTokens = 100
  IncrementalRefresh = TRUE
  IncrementalMinPriorEmails = 2
  Bodies = {0, 40, 160, 400}
  MaxEmails = 5
  MaxLate = 2
INVARIANTS
  BudgetLoopIsLargestFit
  NoEmailBetweenPriorAndPrompt
  IncrementalSendsNewPartOfFullPass
  LateEmailsCostOneEach
CHECK_DEADLOCK FALSE
