------------------------------- MODULE CrlLog -------------------------------
(***************************************************************************)
(* What homepki promises about certificate revocation lists, without its   *)
(* statements, its concurrent requests and its failures: revocation is     *)
(* final, and every issuer has an append-only log of lists, numbered 1, 2, *)
(* 3..., that name only its own revoked certificates.                      *)
(***************************************************************************)
EXTENDS Naturals

CONSTANTS Cert,    (* certificates                                         *)
          CA,      (* those that issue                                     *)
          Parent   (* the issuer of each certificate                       *)

VARIABLES revoked, (* the revoked certificates                             *)
          log,     (* the published lists                                  *)
          top      (* the number of each issuer's last list                *)

vars == <<revoked, log, top>>

Init == /\ revoked = {}
        /\ log = {}
        /\ top = [i \in CA |-> 0]

Revoke == \E c \in Cert : /\ revoked' = revoked \cup {c}
                          /\ UNCHANGED <<log, top>>

Publish ==
  \E i \in CA : \E es \in SUBSET {c \in revoked : Parent[c] = i} :
    /\ top' = [top EXCEPT ![i] = @ + 1]
    /\ log' = log \cup {[issuer |-> i, number |-> top[i] + 1, entries |-> es]}
    /\ UNCHANGED revoked

Next == Revoke \/ Publish

Spec == Init /\ [][Next]_vars
=============================================================================
