\* The parent is revoked between the page and its submission.
SPECIFICATION Spec
CONSTANTS
  Req = {r1, r2}
  Cert = {c1, c2}
  Token = {t1, t2}
  Foreign = {x1}
  None = None
SYMMETRY Symmetry
PROPERTY IssuersInService
