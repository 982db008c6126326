SPECIFICATION Spec
CONSTANTS
  owner = owner
  bob = bob
  tab1 = tab1
  tab2 = tab2
  guest = guest
  Others = {bob}
  OwnerTabs = {tab1, tab2}
  MaxUploads = 3
  MaxRestores = 1
  MaxFlows = 3
SYMMETRY Interchangeable
INVARIANTS KeyIsTheFiles
CHECK_DEADLOCK FALSE
