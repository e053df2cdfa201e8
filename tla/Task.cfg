SPECIFICATION Spec
CONSTANTS
  p1 = p1
  p2 = p2
  Procs <- MCProcs
  Councils <- MCCouncils
  Plans <- MCPlans
  Verified <- MCVerified
  MinRounds = 2
  MaxRounds = 2
  MaxNumber = 3
  MaxExtra = 1
  Setups <- MCSetups
CHECK_DEADLOCK FALSE
INVARIANTS TypeOK  AgreementEarned ReviewedIsCleared DoneVerified
PROPERTIES KeptAnswerNotAskedAgain
