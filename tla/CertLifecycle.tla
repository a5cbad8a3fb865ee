---------------------------- MODULE CertLifecycle ----------------------------
(***************************************************************************)
(* The certificates table and the forms that fill it.                      *)
(*                                                                         *)
(* Every page that issues, rotates or imports a certificate carries a form *)
(* token with a row in idempotency_tokens.  The POST handler looks the     *)
(* token up, reads what it needs in further statements, and only then      *)
(* opens the transaction that inserts the certificate and marks the token: *)
(* the same form may be submitted again meanwhile, other forms may change  *)
(* the certificates it read, and the token may expire and be swept.        *)
(*                                                                         *)
(* The handlers take whatever is submitted: a token is not bound to the    *)
(* page it was rendered with, and what a page offers binds nobody.  The    *)
(* contents of a form are chosen when it is first submitted, among all the *)
(* handler accepts; a later submission of its token repeats them.          *)
(***************************************************************************)
EXTENDS Naturals, Sequences, FiniteSets

CONSTANTS
  Req,      (* slots for requests in flight                                *)
  Cert,     (* certificate ids                                             *)
  Token,    (* form tokens                                                 *)
  Foreign,  (* fingerprints of the root certificates there are to import   *)
  None      (* no certificate, token, form or fingerprint                  *)

Kind == {"root", "intermediate", "leaf"}

IssueForm(k, p) ==
  [op |-> "issue", kind |-> k, parent |-> p, old |-> None, upload |-> None]

RotateForm(k, p, c) ==
  [op |-> "rotate", kind |-> k, parent |-> p, old |-> c, upload |-> None]

ImportForm(x) ==
  [op |-> "import", kind |-> "root", parent |-> None, old |-> None,
   upload |-> x]

Forms == {IssueForm(k, p) : k \in Kind, p \in Cert \cup {None}}
           \cup {RotateForm(k, p, c) : k \in Kind, p \in Cert \cup {None},
                                       c \in Cert}
           \cup {ImportForm(x) : x \in Foreign}

ASSUME LifecycleAssumption ==
  /\ None \notin Cert \cup Token \cup Foreign \cup Forms
  /\ IsFiniteSet(Req)

VARIABLES
  (* the certificates table                                                *)
  status,     (* "absent" before the row is inserted                       *)
  kind,       (* the type column                                           *)
  parent,     (* parent_id                                                 *)
  replaces,   (* replaces_id                                               *)
  replacedBy, (* replaced_by_id                                            *)
  fingerprint, (* of an imported certificate; None for one minted here,    *)
              (* which no import of the model brings back                  *)
  (* the idempotency_tokens table                                          *)
  rows,       (* tokens with a row                                         *)
  result,     (* the certificate result_url names, None while used_at is   *)
              (* NULL; kept, as history, once the row is deleted           *)
  late,       (* tokens past expires_at                                    *)
  (* process memory                                                        *)
  pc,         (* the next step of each request                             *)
  tok,        (* the form token it carries                                 *)
  (* browsers and history                                                  *)
  form,       (* what each form said when it was first submitted           *)
  made,       (* the token whose submission inserted each certificate      *)
  answers     (* redirects given: token and certificate                    *)

certs   == <<status, kind, parent, replaces, replacedBy, fingerprint, made>>
tokens  == <<rows, result, late>>
reqs    == <<pc, tok>>
vars    == <<status, kind, parent, replaces, replacedBy, fingerprint, rows,
             result, late, pc, tok, form, made, answers>>

Init ==
  /\ status = [c \in Cert |-> "absent"]
  /\ kind = [c \in Cert |-> None]
  /\ parent = [c \in Cert |-> None]
  /\ replaces = [c \in Cert |-> None]
  /\ replacedBy = [c \in Cert |-> None]
  /\ fingerprint = [c \in Cert |-> None]
  /\ rows = {}
  /\ result = [t \in Token |-> None]
  /\ late = {}
  /\ pc = [r \in Req |-> "idle"]
  /\ tok = [r \in Req |-> None]
  /\ form = [t \in Token |-> None]
  /\ made = [c \in Cert |-> None]
  /\ answers = {}

-----------------------------------------------------------------------------
(* GET of any page with a form: a new token, and a row for it.             *)
Render(t) ==
  /\ t \notin rows \cup late /\ result[t] = None
  /\ rows' = rows \cup {t}
  /\ UNCHANGED <<certs, result, late, reqs, form, answers>>

(* What the POST handlers read and do not refuse outright.  The issuer of  *)
(* an intermediate has to be a CA; that of a leaf is only looked up, and   *)
(* no handler asks for its status.  A rotation takes type and issuer from  *)
(* the old certificate.                                                    *)
Present == {c \in Cert : status[c] # "absent"}

Submissions ==
  {IssueForm("root", None)}
    \cup {IssueForm("intermediate", p) : p \in {c \in Present : kind[c] # "leaf"}}
    \cup {IssueForm("leaf", p) : p \in Present}
    \cup {RotateForm(kind[c], parent[c], c) : c \in Present}
    \cup {ImportForm(x) : x \in Foreign}

Contents(t) == IF form[t] = None THEN Submissions ELSE {form[t]}

-----------------------------------------------------------------------------
(* GetChain: a certificate and its ancestors, which the loop adds one by   *)
(* one until there is no parent or one it has seen; and what is downloaded *)
(* of them, without the certificate itself and the root.                   *)
Climb[s \in Seq(Cert) \ {<< >>}] ==
  LET p == parent[s[Len(s)]]
  IN IF p = None \/ p \in {s[i] : i \in DOMAIN s} THEN s
                                                    ELSE Climb[Append(s, p)]

GetChain(c) == Climb[<<c>>]

ChainAboveWithRoot(c) == Tail(GetChain(c))

ChainAbove(c) ==
  LET above == Tail(GetChain(c))
      last == above[Len(above)]
  IN IF above # << >> /\ parent[last] = None
     THEN SubSeq(above, 1, Len(above) - 1) ELSE above

-----------------------------------------------------------------------------
(* POST.  validateFormToken: no row or an expired one is answered "stale   *)
(* form" (nothing happens), a used one by a redirect to its result.        *)
Live(t) == t \in rows \ late

ReplayableRotating(t) ==
  /\ Live(t) /\ result[t] # None
  /\ form[t].op = "rotate" => status[form[t].old] = "active"

Replayable(t) == Live(t) /\ result[t] # None

Replay(r, t) ==
  /\ pc[r] = "idle"
  /\ Replayable(t)
  /\ answers' = answers \cup {<<t, result[t]>>}
  /\ UNCHANGED <<certs, tokens, reqs, form>>

FirstStep(f) == CASE f.op = "issue"  -> "persist"
                  [] f.op = "rotate" -> "check"
                  [] f.op = "import" -> "lookup"

Begin(r, t) ==
  /\ pc[r] = "idle"
  /\ Live(t) /\ result[t] = None
  /\ \E f \in Contents(t) :
       /\ form' = [form EXCEPT ![t] = f]
       /\ pc' = [pc EXCEPT ![r] = FirstStep(f)]
  /\ tok' = [tok EXCEPT ![r] = t]
  /\ UNCHANGED <<certs, tokens, answers>>

FinishLeaky(r) ==
  /\ pc' = [pc EXCEPT ![r] = "idle"]
  /\ UNCHANGED tok

Finish(r) ==
  /\ pc' = [pc EXCEPT ![r] = "idle"]
  /\ tok' = [tok EXCEPT ![r] = None]

(* The redirect after a commit reaches the browser, or it does not.        *)
Redirect(r, c) ==
  /\ Finish(r)
  /\ answers' \in {answers, answers \cup {<<tok[r], c>>}}

(* Rotation reads the old certificate and answers 409 unless it is active. *)
CheckOld(r) ==
  /\ pc[r] = "check"
  /\ status[form[tok[r]].old] = "active"
  /\ pc' = [pc EXCEPT ![r] = "persist"]
  /\ UNCHANGED <<certs, tokens, tok, form, answers>>

(* The import looks for a certificate with the same fingerprint, outside   *)
(* the transaction that will insert one.                                   *)
SameActive(x) == {c \in Cert : status[c] = "active" /\ fingerprint[c] = x}

Same(x) == {c \in Cert : status[c] # "absent" /\ fingerprint[c] = x}

NotImported(r) ==
  /\ pc[r] = "lookup"
  /\ Same(form[tok[r]].upload) = {}
  /\ pc' = [pc EXCEPT ![r] = "persist"]
  /\ UNCHANGED <<certs, tokens, tok, form, answers>>

(* MarkIdemTokenUsed finds a row, expired or not, that was not used.       *)
MarkableAgain(t) == t \in rows

Markable(t) == t \in rows /\ result[t] = None

(* Found: the token is marked if it can be and the database answers; what  *)
(* comes of it is ignored, the redirect is sent anyway.                    *)
AlreadyImported(r) ==
  LET t == tok[r] IN
  /\ pc[r] = "lookup"
  /\ \E c \in Same(form[t].upload) :
       /\ \/ UNCHANGED result
          \/ Markable(t) /\ result' = [result EXCEPT ![t] = c]
       /\ Redirect(r, c)
  /\ UNCHANGED <<certs, rows, late, form>>

MarkedImport(r) ==
  AlreadyImported(r) /\ (Markable(tok[r]) => result'[tok[r]] # None)

-----------------------------------------------------------------------------
(* The transactions: insert the row, mark the token, and for a rotation    *)
(* supersede the old row, which must still be active.                      *)
InsertRow(c, t) ==
  LET f == form[t] IN
  /\ status[c] = "absent"
  /\ kind' = [kind EXCEPT ![c] = f.kind]
  /\ parent' = [parent EXCEPT ![c] = f.parent]
  /\ fingerprint' = [fingerprint EXCEPT ![c] = f.upload]
  /\ made' = [made EXCEPT ![c] = t]
  /\ result' = [result EXCEPT ![t] = c]

Persist(r) ==
  /\ pc[r] = "persist"
  /\ form[tok[r]].op # "rotate"
  /\ Markable(tok[r])
  /\ \E c \in Cert : /\ InsertRow(c, tok[r])
                     /\ status' = [status EXCEPT ![c] = "active"]
                     /\ Redirect(r, c)
  /\ UNCHANGED <<replaces, replacedBy, rows, late, form>>

SupersedableTwice(c) == status[c] \in {"active", "superseded"}

SupersedableAny(c) == status[c] # "absent"

Supersedable(c) == status[c] = "active"

PersistRotation(r) ==
  LET old == form[tok[r]].old IN
  /\ pc[r] = "persist"
  /\ form[tok[r]].op = "rotate"
  /\ Supersedable(old)
  /\ Markable(tok[r])
  /\ \E c \in Cert :
       /\ InsertRow(c, tok[r])
       /\ status' = [status EXCEPT ![c] = "active", ![old] = "superseded"]
       /\ replaces' = [replaces EXCEPT ![c] = old]
       /\ replacedBy' = [replacedBy EXCEPT ![old] = c]
       /\ Redirect(r, c)
  /\ UNCHANGED <<rows, late, form>>

(* The transaction rolls back because the token cannot be marked: 500.     *)
Refused(r) ==
  /\ pc[r] = "persist"
  /\ ~Markable(tok[r])
  /\ Finish(r)
  /\ UNCHANGED <<certs, tokens, form, answers>>

(* Any other error: 409 for a certificate no longer active, 400 for a form *)
(* error, 500 for a busy database or a locked keystore.                    *)
Fail(r) ==
  /\ pc[r] # "idle"
  /\ Finish(r)
  /\ UNCHANGED <<certs, tokens, form, answers>>

-----------------------------------------------------------------------------
(* Revocation is one UPDATE, guarded by the status it finds.               *)
Revoke(c) ==
  /\ status[c] \in {"active", "superseded"}
  /\ status' = [status EXCEPT ![c] = "revoked"]
  /\ UNCHANGED <<kind, parent, replaces, replacedBy, fingerprint, made, tokens,
                 reqs, form, answers>>

(* Tokens grow old, and the hourly sweep deletes the old ones.             *)
Age(t) ==
  /\ t \in rows \ late
  /\ late' = late \cup {t}
  /\ UNCHANGED <<certs, rows, result, reqs, form, answers>>

Sweep ==
  /\ rows \cap late # {}
  /\ rows' = rows \ late
  /\ UNCHANGED <<certs, result, late, reqs, form, answers>>

Restart ==
  /\ pc' = [r \in Req |-> "idle"]
  /\ tok' = [r \in Req |-> None]
  /\ UNCHANGED <<certs, tokens, form, answers>>

-----------------------------------------------------------------------------
Step(r) ==
  \/ CheckOld(r) \/ NotImported(r) \/ AlreadyImported(r)
  \/ Persist(r) \/ PersistRotation(r) \/ Refused(r) \/ Fail(r)

Handler(r) == Step(r) \/ \E t \in Token : Replay(r, t) \/ Begin(r, t)

Next ==
  \/ \E r \in Req : Handler(r)
  \/ \E t \in Token : Render(t) \/ Age(t)
  \/ \E c \in Cert : Revoke(c)
  \/ Sweep \/ Restart

Spec == Init /\ [][Next]_vars

(* A form that was submitted and whose answer got lost is submitted again  *)
(* until there is one, a request in flight goes on, and a step that could  *)
(* succeed again and again does not fail for ever.                         *)
Fairness ==
  /\ \A t \in Token : /\ SF_vars(form[t] # None /\ \E r \in Req : Begin(r, t))
                      /\ SF_vars(\E r \in Req : Replay(r, t))
  /\ \A r \in Req : /\ WF_vars(Step(r))
                    /\ SF_vars(CheckOld(r))
                    /\ SF_vars(NotImported(r) \/ MarkedImport(r))
                    /\ SF_vars(Persist(r) \/ PersistRotation(r))

FairSpec == Spec /\ Fairness

-----------------------------------------------------------------------------
(* Type invariant; a request that has returned carries no token.           *)
TypeOK ==
  /\ status \in [Cert -> {"absent", "active", "superseded", "revoked"}]
  /\ kind \in [Cert -> Kind \cup {None}]
  /\ parent \in [Cert -> Cert \cup {None}]
  /\ replaces \in [Cert -> Cert \cup {None}]
  /\ replacedBy \in [Cert -> Cert \cup {None}]
  /\ fingerprint \in [Cert -> Foreign \cup {None}]
  /\ rows \subseteq Token
  /\ result \in [Token -> Cert \cup {None}]
  /\ late \subseteq Token
  /\ pc \in [Req -> {"idle", "check", "lookup", "persist"}]
  /\ tok \in [Req -> Token \cup {None}]
  /\ form \in [Token -> Forms \cup {None}]
  /\ made \in [Cert -> Token \cup {None}]
  /\ answers \subseteq Token \X Cert
  /\ \A r \in Req : pc[r] = "idle" <=> tok[r] = None

(* A form makes one certificate at most, however often and concurrently it *)
(* is submitted, and whatever is lost or swept in between: the insertion   *)
(* and the marking of the token are one transaction.                       *)
OnePerForm ==
  \A c, d \in Cert : made[c] # None /\ made[c] = made[d] => c = d

(* Every submission of a form that is answered by a redirect is sent to    *)
(* the same certificate: the one it made, or for an import one with the    *)
(* fingerprint that was submitted.                                         *)
ReplayFindsResult ==
  \A a, b \in answers : a[1] = b[1] =>
    \/ a[2] = b[2]
    \/ form[a[1]].op = "import" /\ fingerprint[a[2]] = fingerprint[b[2]]

(* Rotation makes chains: a certificate has one successor at most, the     *)
(* links of both agree, type and issuer stay, and only the last of a chain *)
(* can be active.  Rotations and revocations of one certificate race.      *)
Lineage ==
  /\ \A c \in Cert : replacedBy[c] # None =>
       LET d == replacedBy[c] IN
       /\ status[c] \in {"superseded", "revoked"}
       /\ replaces[d] = c
       /\ kind[d] = kind[c] /\ parent[d] = parent[c]
  /\ \A d \in Cert : replaces[d] # None => replacedBy[replaces[d]] = d
  /\ \A c \in Cert : status[c] = "superseded" => replacedBy[c] # None

(* Submitting a form again is safe and enough, even when the answer of the *)
(* submission that succeeded was lost: once it was submitted there is, in  *)
(* the end, a redirect to its certificate, unless the form expires or the  *)
(* certificate it rotates is no longer active for another reason than this *)
(* very form.                                                              *)
RetrySucceeds ==
  \A t \in Token :
    form[t] # None ~>
      \/ \E c \in Cert : <<t, c>> \in answers
      \/ t \in late
      \/ /\ form[t] # None /\ form[t].op = "rotate"
         /\ status[form[t].old] # "active"
         /\ \A c \in Cert : made[c] # t

(* "Idempotent on the cert's SHA-256 fingerprint" (persist.go) goes as far *)
(* as this: the look-up and the insert are not one transaction, so imports *)
(* of one root that run at the same time make a row each, but never more   *)
(* rows than there are requests, however often the root is submitted       *)
(* later, whatever became of its rows and whichever mark was lost.         *)
ImportsBounded ==
  \A x \in Foreign :
    Cardinality({c \in Cert : fingerprint[c] = x}) <= Cardinality(Req)

(* chain.pem of any certificate, and what the deploy runner writes next to *)
(* it, lets a client that has the top build the path: from the certificate *)
(* on each entry is the issuer of the one before, no self-issued           *)
(* certificate is among them, and the last one's issuer is.  Any           *)
(* certificate can be an issuer, so the path has any length; the stop at   *)
(* an ancestor already seen never cuts it short.                           *)
ChainComplete ==
  \A c \in Present :
    LET above == ChainAbove(c)
        path == <<c>> \o above
        top == path[Len(path)]
    IN /\ \A i \in DOMAIN above : above[i] = parent[path[i]] /\ parent[above[i]] # None
       /\ parent[top] # None => parent[parent[top]] = None

(* A certificate is issued only under a CA that may still issue: an active *)
(* one, or for an intermediate a superseded one.                           *)
IssuersInService ==
  [][\A c \in Cert :
       (status[c] = "absent" /\ status'[c] # "absent" /\ replaces'[c] = None
          /\ parent'[c] # None)
         => status[parent'[c]] \in
              IF kind'[c] = "leaf" THEN {"active"}
                                   ELSE {"active", "superseded"}]_vars

(* The registry this implements: its forms are the tokens.                 *)
Registry == INSTANCE CertRegistry WITH Form <- Token, next <- replacedBy

RegistrySpec == Registry!Spec
=============================================================================
