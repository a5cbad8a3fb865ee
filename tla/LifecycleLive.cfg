\* One request at a time: lost answers, failures and restarts, forms submitted again.
SPECIFICATION FairSpec
CONSTANTS
  Req = {r1}
  Cert = {c1, c2}
  Token = {t1, t2}
  Foreign = {x1}
  None = None
PROPERTY RetrySucceeds
