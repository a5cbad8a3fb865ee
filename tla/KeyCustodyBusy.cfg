\* Everything overlaps everything: setups, passphrase changes, issuance.
SPECIFICATION Spec
CONSTANTS
  Req = {r1, r2}
  KEK = {k1, k2, k3}
  Cert = {c1, c2}
  Token = {t1, t2, t3}
  None = None
  EnvPassphrase = FALSE
SYMMETRY Symmetry
INVARIANT KeysWereStored
PROPERTY RotationCarriesEveryKey
