---------------------------- MODULE MCKeyCustody ----------------------------
(* Model-checking instance of KeyCustody: symmetric model values, and the  *)
(* behaviours of Spec that keep one of the two conditions.                 *)
EXTENDS KeyCustody, TLC

Symmetry == Permutations(Req) \cup Permutations(KEK) \cup Permutations(Cert)
              \cup Permutations(Token)

(* Spec /\ []Undisturbed as TLC can generate it.                           *)
UndisturbedSpec == Init /\ [][Next /\ Undisturbed']_vars

(* Spec /\ []SetupIsFirst, likewise: no second setup form is submitted     *)
(* while the first one is at work.                                         *)
FirstSetupSpec == Init /\ [][Next /\ SetupIsFirst']_vars
=============================================================================
