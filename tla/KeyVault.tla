------------------------------ MODULE KeyVault ------------------------------
(***************************************************************************)
(* What the key store of homepki promises, without its two levels of       *)
(* encryption, its statements and its concurrent requests: one passphrase  *)
(* generation guards a set of private keys, the vault is open or shut, and *)
(* a key that was put in can be read for ever after, whatever passphrase   *)
(* changes, restarts and locks happen.                                     *)
(***************************************************************************)
CONSTANTS Cert,  (* identities of certificates                             *)
          KEK,   (* key-encryption keys, one per passphrase generation      *)
          None   (* no key                                                 *)

VARIABLES guard,    (* the generation that opens the vault, None at first   *)
          readable, (* the certificates whose key that generation opens     *)
          open      (* the operator can use the keys now                   *)

vars == <<guard, readable, open>>

Init == /\ guard = None
        /\ readable = {}
        /\ open = FALSE

(* The first passphrase is chosen: only an empty vault has none.           *)
Setup == /\ guard = None
         /\ guard' \in KEK
         /\ UNCHANGED <<readable, open>>

(* A new passphrase takes over: every key goes on being readable.          *)
ChangePassphrase == /\ guard # None
                    /\ guard' \in KEK
                    /\ UNCHANGED <<readable, open>>

Unlock == /\ guard # None
          /\ open' = TRUE
          /\ UNCHANGED <<guard, readable>>

Lock == /\ open' = FALSE
        /\ UNCHANGED <<guard, readable>>

AddKey == \E c \in Cert \ readable :
            /\ guard # None
            /\ readable' = readable \cup {c}
            /\ UNCHANGED <<guard, open>>

Next == Setup \/ ChangePassphrase \/ Unlock \/ Lock \/ AddKey

Spec == Init /\ [][Next]_vars
=============================================================================
