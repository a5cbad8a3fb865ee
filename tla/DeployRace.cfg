\* Two requests over two targets that share their files.
SPECIFICATION Spec
CONSTANTS
  Req = {r1, r2}
  Cert = {c1, c2}
  Target = {t1, t2}
  pem1 = pem1
  pem2 = pem2
  Path = {pem1, pem2}
  Config <- Shared
  None = None
SYMMETRY Symmetry
INVARIANT TypeOK
INVARIANT OkMeansOnDisk
PROPERTY EveryTargetTried
PROPERTY BoardSpec
