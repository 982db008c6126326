\* Two users on one tab, two calls under way: a login, a refresh and a second
\* login, or three logins.
SPECIFICATION Spec
CONSTANTS
  Users = {u1, u2}
  None = None
  Slots = {c1, c2}
  MaxTokens = 3
  MaxLoads = 1
INVARIANTS Coherent TabIsOfLastLogin KeyWasAskedFor
SYMMETRY CallSymmetry
\* The bounds exhaust.
CHECK_DEADLOCK FALSE
