\* One request at a time, with failures, locks and restarts between its steps.
SPECIFICATION FairSpec
CONSTANTS
  Req = {r1}
  root = root
  leaf1 = leaf1
  leaf2 = leaf2
  oldRoot = oldRoot
  oldLeaf = oldLeaf
  Cert = {root, leaf1, oldRoot, oldLeaf}
  CA = {root, oldRoot}
  CanSign = {root}
  Parent <- MCParent
  None = None
  MaxNumber = 3
PROPERTY EventuallyListed
