\* One user, two calls under way, fairness of the answers.
SPECIFICATION FairSpec
CONSTANTS
  Users = {u1}
  None = None
  Slots = {c1, c2}
  MaxTokens = 2
  MaxLoads = 1
PROPERTIES CallsSettle SignedInIsUsable
\* The bounds exhaust.
CHECK_DEADLOCK FALSE
