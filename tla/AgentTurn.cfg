CONSTANTS
  Queries = {"q1", "q2"}
  Tasks = {"t1", "t2"}
  Bad = {"bad"}
  LeadReplies <- LeadDef
  ChildReplies <- ChildDef
  MaxRounds = 2
  ChildRounds = 2
  ChildCalls = 2
  MaxToolCalls = 4
  MaxOutput = 2
  MaxDelegations = 2
  MaxPerRound = 2
  Sizes = {1, 2}
  MayFail = TRUE
SPECIFICATION FairSpec
INVARIANTS TurnIsBounded TurnIsAccounted
PROPERTIES TurnEnds
CHECK_DEADLOCK FALSE
