-------------------------- MODULE MCCertLifecycle --------------------------
(* Model-checking instance of CertLifecycle: symmetric model values.       *)
EXTENDS CertLifecycle, TLC

Symmetry == Permutations(Req) \cup Permutations(Cert) \cup Permutations(Token)
=============================================================================
