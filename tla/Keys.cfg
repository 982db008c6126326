\* Two devices and a peer, three changes of keys.
SPECIFICATION Spec
CONSTANTS
  Devices = {d1, d2}
  Peer = peer
  MaxChanges = 3
INVARIANTS TypeOK HalvesMatch UploadsOpen SessionIsCurrent
SYMMETRY DeviceSymmetry
\* The bounds exhaust.
CHECK_DEADLOCK FALSE
