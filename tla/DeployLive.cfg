\* One request at a time; two ways to name two files, failures that end.
SPECIFICATION FairSpec
CONSTANTS
  Req = {r1}
  Cert = {c1, c2}
  Target = {t1, t2}
  pem1 = pem1
  pem2 = pem2
  Path = {pem1, pem2}
  Config <- Crossed
  None = None
INVARIANT OkMeansOnDisk
PROPERTY RetryDeploys
