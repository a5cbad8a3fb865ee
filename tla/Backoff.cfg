\* Guesses at once and one after the other, some of them right.
SPECIFICATION FairSpec
CONSTANTS
  Req = {r1, r2}
  Window = 4
  Threshold = 3
  Step = 2
  Max = 3
INVARIANT TypeOK
INVARIANT QuickFailuresBounded
INVARIANT GuessesBounded
PROPERTY NeverLockedOut
