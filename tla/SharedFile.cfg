SPECIFICATION Spec
CONSTANTS
  owner = owner
  bob = bob
  tab1 = tab1
  tab2 = tab2
  guest = guest
  Others = {bob}
  OwnerTabs = {tab1, tab2}
  MaxUploads = 2
  MaxRestores = 1
  MaxFlows = 3
SYMMETRY Interchangeable
INVARIANTS IInv DownloadsOpen LinksOpen NamesOpen SignaturesFit
PROPERTIES RevokedStays
CHECK_DEADLOCK FALSE
