\* Two requests interleave at every statement.
SPECIFICATION Spec
CONSTANTS
  Req = {r1, r2}
  root = root
  leaf1 = leaf1
  leaf2 = leaf2
  oldRoot = oldRoot
  oldLeaf = oldLeaf
  Cert = {root, leaf1, leaf2}
  CA = {root}
  CanSign = {root}
  Parent <- MCParent
  None = None
  MaxNumber = 3
SYMMETRY Symmetry
INVARIANT TypeOK
INVARIANT SentIsStored
INVARIANT ConfirmedIsListed
PROPERTY LogSpec
