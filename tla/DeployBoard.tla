----------------------------- MODULE DeployBoard -----------------------------
(***************************************************************************)
(* What the page of a certificate promises about its deploy targets,       *)
(* without files, forms, and concurrent runs: a target is shown as never   *)
(* deployed until it has been run, as ok or failed only after a run of its *)
(* own, and a rotation shows the successor's targets as not yet up to      *)
(* date, whatever it inherits.                                             *)
(***************************************************************************)
CONSTANTS Cert,   (* leaf certificates                                     *)
          Target, (* identities of target rows, each used once             *)
          None    (* no certificate                                        *)

VARIABLES certId, (* the certificate of each target, None if there is no   *)
                  (* such row                                              *)
          shown   (* what its page shows: unused before the row exists,    *)
                  (* deleted after                                         *)

vars == <<certId, shown>>

Init == /\ certId = [t \in Target |-> None]
        /\ shown = [t \in Target |-> "unused"]

Add == \E t \in Target, c \in Cert :
         /\ shown[t] = "unused"
         /\ certId' = [certId EXCEPT ![t] = c]
         /\ shown' = [shown EXCEPT ![t] = "never"]

Remove == \E t \in Target :
            /\ certId[t] # None
            /\ certId' = [certId EXCEPT ![t] = None]
            /\ shown' = [shown EXCEPT ![t] = "deleted"]

(* A run of the target ended.                                              *)
Report == \E t \in Target, s \in {"ok", "failed"} :
            /\ certId[t] # None
            /\ shown' = [shown EXCEPT ![t] = s]
            /\ UNCHANGED certId

(* Nothing has been deployed of a new certificate.                         *)
Inherit(s) == IF s = "ok" THEN "stale" ELSE s

(* d takes the place of c: from says which row each new one is a copy of.  *)
Rotate ==
  \E c, d \in Cert, new \in SUBSET Target :
    \E from \in [new -> {t \in Target : certId[t] = c}] :
      /\ \A t \in Target : certId[t] # d
      /\ \A t \in new : shown[t] = "unused"
      /\ certId' = [t \in Target |-> IF t \in new THEN d ELSE certId[t]]
      /\ shown' = [t \in Target |-> IF t \in new THEN Inherit(shown[from[t]])
                                                 ELSE shown[t]]

Next == Add \/ Remove \/ Report \/ Rotate

Spec == Init /\ [][Next]_vars
=============================================================================
