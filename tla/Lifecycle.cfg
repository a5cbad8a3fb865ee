\* Two requests at once, forms submitted twice, tokens expiring and swept.
SPECIFICATION Spec
CONSTANTS
  Req = {r1, r2}
  Cert = {c1, c2, c3}
  Token = {t1, t2, t3}
  Foreign = {x1}
  None = None
SYMMETRY Symmetry
INVARIANT TypeOK
INVARIANT OnePerForm
INVARIANT ReplayFindsResult
INVARIANT Lineage
INVARIANT ChainComplete
INVARIANT ImportsBounded
PROPERTY RegistrySpec
