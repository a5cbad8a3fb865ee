\* A certificate is issued while the passphrase changes.
SPECIFICATION FirstSetupSpec
CONSTANTS
  Req = {r1, r2}
  KEK = {k1, k2}
  Cert = {c1, c2}
  Token = {t1, t2}
  None = None
  EnvPassphrase = TRUE
SYMMETRY Symmetry
INVARIANT NoKeyStranded
