\* Three flows of the page.
SPECIFICATION FairSpec
CONSTANTS
  p1 = p1
  p2 = p2
  n1 = n1
  None = None
  Payments = {p1, p2}
  AmountOf <- MCAmountOf
  Notes = {n1}
  Flows <- MCFlows
  Kinds = {"deposit", "withdraw", "preload", "dispose"}
  MaxViews = 2
  InitialBalance = 3
INVARIANTS CompletedNeverOffered ReportsAreTrue PaidOnceUnlessUnseen NoApprovalLeft ProverReadyMeansLoaded
PROPERTIES PageUnlocks
CHECK_DEADLOCK FALSE
