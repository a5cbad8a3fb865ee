------------------------------ MODULE MCDeploy ------------------------------
(***************************************************************************)
(* Small instances of Deploy.                                              *)
(***************************************************************************)
EXTENDS Deploy, TLC

CONSTANTS pem1, pem2

(* One choice of files, which every target then shares with its copies;    *)
(* the chain, which starts with the certificate, takes the place of it.    *)
Shared == {[cert |-> pem1, key |-> pem2, chain |-> pem1, auto |-> TRUE]}

(* Two, each the other with its files exchanged.                           *)
Crossed == {[cert |-> pem1, key |-> pem2, chain |-> None, auto |-> TRUE],
            [cert |-> pem2, key |-> pem1, chain |-> None, auto |-> FALSE]}

Symmetry == Permutations(Req) \cup Permutations(Cert) \cup Permutations(Target)
=============================================================================
