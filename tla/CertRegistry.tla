---------------------------- MODULE CertRegistry ----------------------------
(***************************************************************************)
(* What homepki promises about its certificates, without forms, requests   *)
(* and statements: each form makes at most one certificate, a certificate  *)
(* is replaced at most once and only while active, and a revoked one stays *)
(* revoked.                                                                *)
(***************************************************************************)
CONSTANTS Cert,   (* identities of certificates                            *)
          Form,   (* forms, each filled in once                            *)
          None    (* no certificate, no form                               *)

VARIABLES status, (* absent, active, superseded or revoked                 *)
          next,   (* the certificate that took each one's place            *)
          made    (* the form that made each certificate                   *)

vars == <<status, next, made>>

Init == /\ status = [c \in Cert |-> "absent"]
        /\ next = [c \in Cert |-> None]
        /\ made = [c \in Cert |-> None]

Add(c, f) == /\ status[c] = "absent"
             /\ \A d \in Cert : made[d] # f
             /\ made' = [made EXCEPT ![c] = f]

Issue == \E c \in Cert, f \in Form :
           /\ Add(c, f)
           /\ status' = [status EXCEPT ![c] = "active"]
           /\ UNCHANGED next

Replace == \E old, new \in Cert, f \in Form :
             /\ Add(new, f)
             /\ status[old] = "active"
             /\ status' = [status EXCEPT ![old] = "superseded", ![new] = "active"]
             /\ next' = [next EXCEPT ![old] = new]

Revoke == \E c \in Cert :
            /\ status[c] \in {"active", "superseded"}
            /\ status' = [status EXCEPT ![c] = "revoked"]
            /\ UNCHANGED <<next, made>>

Next == Issue \/ Replace \/ Revoke

Spec == Init /\ [][Next]_vars
=============================================================================
