------------------------ MODULE CertLifecycleProofs ------------------------
(***************************************************************************)
(* Proofs about CertLifecycle, for any number of certificates, forms and   *)
(* concurrent requests: a form makes one certificate and is always         *)
(* redirected to it, rotations make chains, what is read as a chain is the *)
(* complete path, a root has a row per concurrent import at most, and the  *)
(* tables implement CertRegistry.                                          *)
(***************************************************************************)
EXTENDS CertLifecycle, SequenceTheorems, FiniteSetTheorems, WellFoundedInduction,
        TLAPS

(* A certificate is in the table when a form made it, and that form's      *)
(* token is marked with it.                                                *)
Minted ==
  \A c \in Cert :
    /\ status[c] = "absent" <=> made[c] = None
    /\ made[c] # None => result[made[c]] = c
    /\ status[c] # "absent" => kind[c] \in Kind
    /\ status[c] = "absent" => replaces[c] = None /\ replacedBy[c] = None

(* A marked token names a certificate its form accounts for.               *)
Fits(t, c) ==
  /\ form[t] # None
  /\ status[c] # "absent"
  /\ form[t].op = "import" => fingerprint[c] = form[t].upload

Marked ==
  \A t \in Token : result[t] # None => Fits(t, result[t])

(* An answer is the certificate the token is marked with, or for an import *)
(* another one with its fingerprint.                                       *)
Answered ==
  \A a \in answers : /\ Fits(a[1], a[2])
                     /\ form[a[1]].op # "import" => result[a[1]] = a[2]

InFlight ==
  \A r \in Req :
    /\ pc[r] # "idle" => form[tok[r]] # None
    /\ pc[r] = "check" => form[tok[r]].op = "rotate"
    /\ pc[r] = "lookup" => form[tok[r]].op = "import"

(* A rotation takes the type and the issuer of the old row.                *)
FormsAgree ==
  \A t \in Token :
    form[t] # None /\ form[t].op = "rotate" =>
      /\ status[form[t].old] # "absent"
      /\ form[t].kind = kind[form[t].old]
      /\ form[t].parent = parent[form[t].old]

IInv ==
  TypeOK /\ Minted /\ Marked /\ Answered /\ InFlight /\ FormsAgree /\ Lineage

-----------------------------------------------------------------------------
(* What a form says.                                                       *)
LEMMA FormFields ==
  ASSUME NEW f \in Forms
  PROVE  /\ f # None
         /\ f.op \in {"issue", "rotate", "import"}
         /\ f.kind \in Kind
         /\ f.parent \in Cert \cup {None}
         /\ f.upload \in Foreign \cup {None}
         /\ f.op = "rotate" => f.old \in Cert
<1>1. f # None
  BY LifecycleAssumption
<1>2. CASE \E k \in Kind, p \in Cert \cup {None} : f = IssueForm(k, p)
  BY <1>1, <1>2 DEF IssueForm
<1>3. CASE \E k \in Kind, p \in Cert \cup {None}, c \in Cert : f = RotateForm(k, p, c)
  BY <1>1, <1>3 DEF RotateForm
<1>4. CASE \E x \in Foreign : f = ImportForm(x)
  BY <1>1, <1>4 DEF ImportForm, Kind
<1> QED
  BY <1>2, <1>3, <1>4 DEF Forms

(* What is submitted is a form; that of a rotation agrees with the         *)
(* certificate.                                                            *)
LEMMA SubmissionsAreForms ==
  ASSUME TypeOK, Minted, NEW f \in Submissions
  PROVE  /\ f \in Forms
         /\ f.op = "rotate" => /\ status[f.old] # "absent"
                               /\ f.kind = kind[f.old]
                               /\ f.parent = parent[f.old]
<1>1. CASE f = IssueForm("root", None)
  BY <1>1 DEF Forms, Kind, IssueForm
<1>2. CASE \E p \in Present : f = IssueForm("intermediate", p)
  BY <1>2 DEF Forms, Kind, IssueForm, Present
<1>3. CASE \E p \in Present : f = IssueForm("leaf", p)
  BY <1>3 DEF Forms, Kind, IssueForm, Present
<1>4. CASE \E c \in Present : f = RotateForm(kind[c], parent[c], c)
  <2>1. PICK c \in Cert : status[c] # "absent" /\ f = RotateForm(kind[c], parent[c], c)
    BY <1>4 DEF Present
  <2>2. kind[c] \in Kind /\ parent[c] \in Cert \cup {None}
    BY <2>1 DEF TypeOK, Minted
  <2>3. f \in Forms
    BY <2>1, <2>2 DEF Forms
  <2> QED
    BY <2>1, <2>3 DEF RotateForm
<1>5. CASE \E x \in Foreign : f = ImportForm(x)
  BY <1>5 DEF Forms, ImportForm
<1> QED
  BY <1>1, <1>2, <1>3, <1>4, <1>5 DEF Submissions

LEMMA NothingIsNoForm == ASSUME TypeOK, NEW t \in Token, form[t] # None
                         PROVE  form[t] \in Forms
  BY DEF TypeOK

(* A request in flight carries a form.                                     *)
LEMMA Carries ==
  ASSUME IInv, NEW r \in Req, pc[r] # "idle"
  PROVE  /\ tok[r] \in Token
         /\ form[tok[r]] # None
         /\ form[tok[r]] \in Forms
  BY DEF IInv, TypeOK, InFlight

(* A request begins with a form, and it is the one its token will keep.    *)
LEMMA BeginsWith ==
  ASSUME IInv, NEW r \in Req, NEW t \in Token, Begin(r, t)
  PROVE  \E f \in Forms :
           /\ form' = [form EXCEPT ![t] = f]
           /\ form'[t] = f
           /\ form[t] # None => f = form[t]
           /\ form[t] = None => f \in Submissions
           /\ pc' = [pc EXCEPT ![r] = FirstStep(f)]
           /\ tok' = [tok EXCEPT ![r] = t]
           /\ UNCHANGED <<certs, tokens>>
<1>0. TypeOK /\ Minted
  BY DEF IInv
<1>1. PICK f \in Contents(t) : /\ form' = [form EXCEPT ![t] = f]
                               /\ pc' = [pc EXCEPT ![r] = FirstStep(f)]
  BY DEF Begin
<1>2. f \in Forms
  BY <1>0, <1>1, SubmissionsAreForms, NothingIsNoForm DEF Contents
<1>3. form'[t] = f
  BY <1>0, <1>1 DEF TypeOK
<1> QED
  BY <1>1, <1>2, <1>3 DEF Begin, Contents

-----------------------------------------------------------------------------
(* What a step does to the certificates and to the marks: nothing, or one  *)
(* of four things.                                                         *)
LEMMA WhoWrites ==
  ASSUME [Next]_vars
  PROVE  \/ UNCHANGED <<certs, result>>
         \/ \E r \in Req : AlreadyImported(r)
         \/ \E r \in Req : Persist(r)
         \/ \E r \in Req : PersistRotation(r)
         \/ \E c \in Cert : Revoke(c)
  BY DEF Next, Handler, Step, Replay, Begin, CheckOld, NotImported, Refused,
     Fail, Render, Age, Sweep, Restart, vars, certs, tokens

(* Rows and forms are only ever added to, marks are made once.             *)
Grown ==
  /\ \A c \in Cert : status[c] # "absent" =>
       /\ status'[c] # "absent"
       /\ kind'[c] = kind[c] /\ parent'[c] = parent[c]
       /\ fingerprint'[c] = fingerprint[c] /\ made'[c] = made[c]
  /\ \A t \in Token : form[t] # None => form'[t] = form[t]
  /\ \A t \in Token : result[t] # None => result'[t] = result[t]

(* An insertion: the row is new, and so is the mark.                       *)
Inserted(r, c) ==
  /\ c \in Cert /\ tok[r] \in Token
  /\ pc[r] = "persist"
  /\ status[c] = "absent" /\ result[tok[r]] = None
  /\ kind' = [kind EXCEPT ![c] = form[tok[r]].kind]
  /\ parent' = [parent EXCEPT ![c] = form[tok[r]].parent]
  /\ fingerprint' = [fingerprint EXCEPT ![c] = form[tok[r]].upload]
  /\ made' = [made EXCEPT ![c] = tok[r]]
  /\ result' = [result EXCEPT ![tok[r]] = c]
  /\ status'[c] = "active"
  /\ \A d \in Cert \ {c} : \/ status'[d] = status[d]
                           \/ status[d] = "active" /\ status'[d] = "superseded"
  /\ answers' \in {answers, answers \cup {<<tok[r], c>>}}
  /\ Finish(r)
  /\ UNCHANGED <<rows, late, form>>

LEMMA PersistInserts ==
  ASSUME IInv, NEW r \in Req, Persist(r)
  PROVE  \E c \in Cert : /\ Inserted(r, c)
                         /\ status' = [status EXCEPT ![c] = "active"]
                         /\ UNCHANGED <<replaces, replacedBy>>
<1>1. tok[r] \in Token
  BY Carries DEF Persist
<1>2. TypeOK
  BY DEF IInv
<1> QED
  BY <1>1, <1>2 DEF Persist, InsertRow, Markable, Redirect, Inserted, TypeOK

LEMMA RotationInserts ==
  ASSUME IInv, NEW r \in Req, PersistRotation(r)
  PROVE  \E old, c \in Cert :
           /\ Inserted(r, c)
           /\ form[tok[r]].op = "rotate" /\ form[tok[r]].old = old
           /\ old # c /\ status[old] = "active"
           /\ status' = [status EXCEPT ![c] = "active", ![old] = "superseded"]
           /\ replaces' = [replaces EXCEPT ![c] = old]
           /\ replacedBy' = [replacedBy EXCEPT ![old] = c]
<1>1. tok[r] \in Token /\ form[tok[r]] \in Forms
  BY Carries DEF PersistRotation
<1>2. TypeOK
  BY DEF IInv
<1>3. PICK old \in Cert : form[tok[r]].old = old /\ status[old] = "active"
  BY <1>1, FormFields DEF PersistRotation, Supersedable
<1>4. PICK c \in Cert :
        /\ InsertRow(c, tok[r])
        /\ status' = [status EXCEPT ![c] = "active", ![old] = "superseded"]
        /\ replaces' = [replaces EXCEPT ![c] = old]
        /\ replacedBy' = [replacedBy EXCEPT ![old] = c]
        /\ Redirect(r, c)
  BY <1>3 DEF PersistRotation
<1>5. old # c
  BY <1>3, <1>4 DEF InsertRow
<1>6. Inserted(r, c)
  BY <1>1, <1>2, <1>3, <1>4, <1>5
  DEF PersistRotation, InsertRow, Markable, Redirect, Inserted, TypeOK
<1> QED
  BY <1>3, <1>4, <1>5, <1>6 DEF PersistRotation

LEMMA InsertionGrows ==
  ASSUME IInv, NEW r \in Req, NEW c, Inserted(r, c)
  PROVE  Grown
  BY DEF IInv, TypeOK, Inserted, Grown

LEMMA GrownStep == IInv /\ [Next]_vars => Grown
<1> SUFFICES ASSUME IInv, [Next]_vars PROVE Grown
  OBVIOUS
<1>0. TypeOK
  BY DEF IInv
<1>1. ASSUME NEW r \in Req, NEW t \in Token, Begin(r, t) PROVE Grown
  BY <1>1, <1>0, BeginsWith DEF Grown, certs, tokens, TypeOK
<1>2. CASE form' = form /\ UNCHANGED <<certs, result>>
  BY <1>2 DEF certs, Grown
<1>3. ASSUME NEW r \in Req, AlreadyImported(r) PROVE Grown
  BY <1>3, <1>0 DEF AlreadyImported, Grown, certs, Markable, TypeOK
<1>4. ASSUME NEW r \in Req, Persist(r) PROVE Grown
  BY <1>4, PersistInserts, InsertionGrows
<1>5. ASSUME NEW r \in Req, PersistRotation(r) PROVE Grown
  BY <1>5, RotationInserts, InsertionGrows
<1>6. ASSUME NEW c \in Cert, Revoke(c) PROVE Grown
  BY <1>6, <1>0 DEF Revoke, Grown, TypeOK, tokens
<1>7. form' = form \/ \E r \in Req, t \in Token : Begin(r, t)
  BY DEF Next, Handler, Step, Replay, Render, CheckOld, NotImported, Refused,
     Fail, Age, Sweep, Restart, AlreadyImported, Persist, PersistRotation,
     Revoke, vars
<1> QED
  BY <1>1, <1>2, <1>3, <1>4, <1>5, <1>6, <1>7, WhoWrites

-----------------------------------------------------------------------------
(* Types.                                                                  *)
LEMMA FinishTyped ==
  ASSUME TypeOK, NEW r \in Req, Finish(r)
  PROVE  /\ pc' \in [Req -> {"idle", "check", "lookup", "persist"}]
         /\ tok' \in [Req -> Token \cup {None}]
         /\ \A q \in Req : pc'[q] = "idle" <=> tok'[q] = None
  BY DEF TypeOK, Finish

LEMMA InsertionTyped ==
  ASSUME IInv, NEW r \in Req, NEW c, Inserted(r, c)
  PROVE  /\ kind' \in [Cert -> Kind \cup {None}]
         /\ parent' \in [Cert -> Cert \cup {None}]
         /\ fingerprint' \in [Cert -> Foreign \cup {None}]
         /\ made' \in [Cert -> Token \cup {None}]
         /\ result' \in [Token -> Cert \cup {None}]
         /\ answers' \subseteq Token \X Cert
         /\ pc' \in [Req -> {"idle", "check", "lookup", "persist"}]
         /\ tok' \in [Req -> Token \cup {None}]
         /\ \A q \in Req : pc'[q] = "idle" <=> tok'[q] = None
         /\ rows' \subseteq Token /\ late' \subseteq Token
         /\ form' \in [Token -> Forms \cup {None}]
<1>1. TypeOK
  BY DEF IInv
<1>2. form[tok[r]] \in Forms
  BY Carries DEF Inserted
<1>3. /\ form[tok[r]].kind \in Kind
      /\ form[tok[r]].parent \in Cert \cup {None}
      /\ form[tok[r]].upload \in Foreign \cup {None}
  BY <1>2, FormFields
<1>4. /\ kind' \in [Cert -> Kind \cup {None}]
      /\ parent' \in [Cert -> Cert \cup {None}]
      /\ fingerprint' \in [Cert -> Foreign \cup {None}]
  BY <1>1, <1>3 DEF TypeOK, Inserted
<1>5. /\ made' \in [Cert -> Token \cup {None}]
      /\ result' \in [Token -> Cert \cup {None}]
      /\ answers' \subseteq Token \X Cert
  BY <1>1 DEF TypeOK, Inserted
<1>6. /\ rows' \subseteq Token /\ late' \subseteq Token
      /\ form' \in [Token -> Forms \cup {None}]
  BY <1>1 DEF TypeOK, Inserted
<1> QED
  BY <1>1, <1>4, <1>5, <1>6, FinishTyped DEF Inserted

LEMMA TypedStep == IInv /\ [Next]_vars => TypeOK'
<1> SUFFICES ASSUME IInv, [Next]_vars PROVE TypeOK'
  OBVIOUS
<1> USE DEF certs, tokens, reqs
<1>0. TypeOK /\ Minted
  BY DEF IInv
<1>1. ASSUME NEW t \in Token, Render(t) PROVE TypeOK'
  BY <1>1, <1>0 DEF Render, TypeOK
<1>2. ASSUME NEW r \in Req, NEW t \in Token, Replay(r, t) PROVE TypeOK'
  BY <1>2, <1>0 DEF Replay, Replayable, TypeOK
<1>3. ASSUME NEW r \in Req, NEW t \in Token, Begin(r, t) PROVE TypeOK'
  <2>1. PICK f \in Forms : /\ form' = [form EXCEPT ![t] = f]
                           /\ pc' = [pc EXCEPT ![r] = FirstStep(f)]
    BY <1>3, BeginsWith
  <2>2. FirstStep(f) \in {"check", "lookup", "persist"}
    BY <2>1, FormFields DEF FirstStep
  <2> QED
    BY <1>3, <1>0, <2>1, <2>2, LifecycleAssumption DEF Begin, TypeOK
<1>4. ASSUME NEW r \in Req, CheckOld(r) \/ NotImported(r) PROVE TypeOK'
  BY <1>4, <1>0 DEF CheckOld, NotImported, TypeOK
<1>5. ASSUME NEW r \in Req, AlreadyImported(r) PROVE TypeOK'
  <2>1. tok[r] \in Token
    BY <1>5, Carries DEF AlreadyImported
  <2>2. /\ result' \in [Token -> Cert \cup {None}]
        /\ answers' \subseteq Token \X Cert
        /\ Finish(r)
    BY <1>5, <1>0, <2>1 DEF AlreadyImported, Same, Redirect, TypeOK
  <2> QED
    BY <1>5, <1>0, <2>2, FinishTyped DEF AlreadyImported, TypeOK
<1>6. ASSUME NEW r \in Req, Persist(r) PROVE TypeOK'
  <2>1. PICK c \in Cert : /\ Inserted(r, c)
                          /\ status' = [status EXCEPT ![c] = "active"]
                          /\ UNCHANGED <<replaces, replacedBy>>
    BY <1>6, PersistInserts
  <2> QED
    BY <2>1, <1>0, InsertionTyped DEF TypeOK
<1>7. ASSUME NEW r \in Req, PersistRotation(r) PROVE TypeOK'
  <2>1. PICK old, c \in Cert :
          /\ Inserted(r, c)
          /\ status' = [status EXCEPT ![c] = "active", ![old] = "superseded"]
          /\ replaces' = [replaces EXCEPT ![c] = old]
          /\ replacedBy' = [replacedBy EXCEPT ![old] = c]
    BY <1>7, RotationInserts
  <2> QED
    BY <2>1, <1>0, InsertionTyped DEF TypeOK
<1>8. ASSUME NEW r \in Req, Refused(r) \/ Fail(r) PROVE TypeOK'
  <2>1. Finish(r) /\ UNCHANGED <<certs, tokens, form, answers>>
    BY <1>8 DEF Refused, Fail
  <2> QED
    BY <2>1, <1>0, FinishTyped DEF TypeOK
<1>9. ASSUME NEW c \in Cert, Revoke(c) PROVE TypeOK'
  BY <1>9, <1>0 DEF Revoke, TypeOK
<1>10. ASSUME NEW t \in Token, Age(t) PROVE TypeOK'
  BY <1>10, <1>0 DEF Age, TypeOK
<1>11. CASE Sweep \/ Restart \/ UNCHANGED vars
  BY <1>11, <1>0 DEF Sweep, Restart, vars, TypeOK
<1> QED
  BY <1>1, <1>2, <1>3, <1>4, <1>5, <1>6, <1>7, <1>8, <1>9, <1>10, <1>11
  DEF Next, Handler, Step

-----------------------------------------------------------------------------
(* The invariant.                                                          *)
LEMMA MintedStep == IInv /\ [Next]_vars => Minted'
<1> SUFFICES ASSUME IInv, [Next]_vars PROVE Minted'
  OBVIOUS
<1>0. TypeOK /\ Minted /\ Grown
  BY GrownStep DEF IInv
<1>1. CASE UNCHANGED <<certs, result>>
  BY <1>1, <1>0 DEF Minted, certs
<1>2. ASSUME NEW r \in Req, AlreadyImported(r) PROVE Minted'
  <2>1. UNCHANGED certs
    BY <1>2 DEF AlreadyImported
  <2>2. \A c \in Cert : made[c] # None => result'[made[c]] = c
    BY <1>0, LifecycleAssumption DEF Minted, Grown, TypeOK
  <2> QED
    BY <2>1, <2>2, <1>0 DEF Minted, certs
<1>3. ASSUME NEW r \in Req, NEW c \in Cert, Inserted(r, c),
             \A d \in Cert : status'[d] = "absent" =>
               replaces'[d] = replaces[d] /\ replacedBy'[d] = replacedBy[d]
      PROVE  Minted'
  <2>1. form[tok[r]].kind \in Kind
    BY <1>3, Carries, FormFields DEF Inserted
  <2>2. made'[c] = tok[r] /\ tok[r] # None /\ result'[tok[r]] = c /\ kind'[c] \in Kind
    BY <1>3, <1>0, <2>1, LifecycleAssumption DEF Inserted, TypeOK
  <2>3. \A d \in Cert \ {c} :
          /\ made'[d] = made[d] /\ kind'[d] = kind[d]
          /\ status'[d] = "absent" <=> status[d] = "absent"
    BY <1>3, <1>0 DEF Inserted, TypeOK
  <2>4. \A d \in Cert \ {c} : made[d] # None => result'[made[d]] = d
    BY <1>0, LifecycleAssumption DEF Minted, Grown, TypeOK
  <2>5. status'[c] = "active"
    BY <1>3 DEF Inserted
  <2> QED
    BY <1>3, <1>0, <2>2, <2>3, <2>4, <2>5 DEF Minted
<1>4. ASSUME NEW r \in Req, Persist(r) PROVE Minted'
  BY <1>4, <1>3, PersistInserts
<1>5. ASSUME NEW r \in Req, PersistRotation(r) PROVE Minted'
  <2>1. PICK old, c \in Cert :
          /\ Inserted(r, c) /\ status'[old] = "superseded" /\ status'[c] = "active"
          /\ replaces' = [replaces EXCEPT ![c] = old]
          /\ replacedBy' = [replacedBy EXCEPT ![old] = c]
    BY <1>5, <1>0, RotationInserts DEF TypeOK
  <2> QED
    BY <2>1, <1>3, <1>0 DEF TypeOK
<1>6. ASSUME NEW c \in Cert, Revoke(c) PROVE Minted'
  BY <1>6, <1>0 DEF Revoke, Minted, TypeOK, tokens
<1> QED
  BY <1>1, <1>2, <1>4, <1>5, <1>6, WhoWrites

(* A certificate keeps fitting its form.  (Fits in the next state, of a    *)
(* token and a certificate as they are now.)                               *)
FitsNext(t, c) ==
  /\ form'[t] # None
  /\ status'[c] # "absent"
  /\ form'[t].op = "import" => fingerprint'[c] = form'[t].upload

LEMMA FitsGrown ==
  ASSUME Grown, NEW t \in Token, NEW c \in Cert, Fits(t, c)
  PROVE  FitsNext(t, c)
  BY DEF Grown, Fits, FitsNext

LEMMA InsertedFits ==
  ASSUME IInv, NEW r \in Req, NEW c, Inserted(r, c)
  PROVE  FitsNext(tok[r], c) /\ result'[tok[r]] = c
  BY Carries DEF IInv, TypeOK, Inserted, FitsNext

LEMMA MarkedStep == IInv /\ [Next]_vars => Marked'
<1> SUFFICES ASSUME IInv, [Next]_vars PROVE Marked'
  OBVIOUS
<1>0. TypeOK /\ Marked /\ Grown /\ TypeOK'
  BY GrownStep, TypedStep DEF IInv
<1>1. \A t \in Token : result[t] # None => FitsNext(t, result[t]) /\ result'[t] = result[t]
  BY <1>0, FitsGrown DEF Marked, Grown, TypeOK
<1>2. \A t \in Token : result[t] = None /\ result'[t] # None => FitsNext(t, result'[t])
  <2>1. ASSUME NEW r \in Req, AlreadyImported(r), NEW t \in Token,
               result[t] = None, result'[t] # None
        PROVE  FitsNext(t, result'[t])
    <3>1. tok[r] = t /\ form[t] # None
      BY <2>1, Carries DEF AlreadyImported, IInv, TypeOK
    <3>2. result'[t] \in Same(form[t].upload)
      BY <2>1, <3>1, <1>0 DEF AlreadyImported, TypeOK
    <3>3. Fits(t, result'[t])
      BY <3>1, <3>2 DEF Same, Fits
    <3> QED
      BY <2>1, <3>1, <3>3 DEF AlreadyImported, Fits, FitsNext, certs
  <2>2. ASSUME NEW r \in Req, NEW c, Inserted(r, c), NEW t \in Token,
               result[t] = None, result'[t] # None
        PROVE  FitsNext(t, result'[t])
    <3>1. t = tok[r]
      BY <2>2, <1>0 DEF Inserted, TypeOK
    <3> QED
      BY <2>2, <3>1, InsertedFits
  <2>3. ASSUME NEW c \in Cert, Revoke(c) PROVE result' = result
    BY <2>3 DEF Revoke, tokens
  <2> QED
    BY <2>1, <2>2, <2>3, WhoWrites, PersistInserts, RotationInserts
<1> QED
  BY <1>1, <1>2 DEF Marked, Fits, FitsNext

LEMMA AnsweredStep == IInv /\ [Next]_vars => Answered'
<1> SUFFICES ASSUME IInv, [Next]_vars PROVE Answered'
  OBVIOUS
<1>0. TypeOK /\ Answered /\ Grown
  BY GrownStep DEF IInv
<1> DEFINE Good(t, c) == FitsNext(t, c) /\ (form'[t].op # "import" => result'[t] = c)
<1>1. \A a \in answers : Good(a[1], a[2])
  <2> SUFFICES ASSUME NEW t \in Token, NEW c \in Cert, <<t, c>> \in answers
               PROVE  Good(t, c)
    BY <1>0 DEF TypeOK
  <2>1. Fits(t, c) /\ (form[t].op # "import" => result[t] = c)
    BY DEF IInv, Answered
  <2>2. form'[t] = form[t]
    BY <2>1, <1>0 DEF Fits, Grown
  <2>3. c # None
    BY LifecycleAssumption
  <2> QED
    BY <2>1, <2>2, <2>3, <1>0, FitsGrown DEF Grown
<1>2. ASSUME NEW t, NEW c, Good(t, c), answers' \subseteq answers \cup {<<t, c>>}
      PROVE  Answered'
  BY <1>1, <1>2 DEF Answered, Fits, FitsNext
<1>3. ASSUME NEW r \in Req, NEW t \in Token, Replay(r, t) PROVE Answered'
  <2>1. result[t] # None /\ result[t] \in Cert
    BY <1>3, <1>0 DEF Replay, Replayable, TypeOK
  <2>2. Fits(t, result[t])
    BY <2>1 DEF IInv, Marked
  <2>3. Good(t, result[t])
    BY <2>1, <2>2, <1>0, FitsGrown DEF Grown
  <2> QED
    BY <1>3, <2>3, <1>2 DEF Replay
<1>4. ASSUME NEW r \in Req, AlreadyImported(r) PROVE Answered'
  <2>1. tok[r] \in Token /\ form[tok[r]] # None /\ form[tok[r]].op = "import"
    BY <1>4, Carries DEF AlreadyImported, IInv, InFlight
  <2>2. PICK c \in Same(form[tok[r]].upload) :
          answers' \in {answers, answers \cup {<<tok[r], c>>}}
    BY <1>4 DEF AlreadyImported, Redirect
  <2>3. Fits(tok[r], c) /\ c \in Cert
    BY <2>1, <2>2 DEF Same, Fits
  <2>4. Good(tok[r], c)
    BY <2>1, <2>3, <1>0, FitsGrown DEF Grown
  <2> QED
    BY <2>2, <2>4, <1>2
<1>5. ASSUME NEW r \in Req, NEW c, Inserted(r, c) PROVE Answered'
  <2>1. Good(tok[r], c)
    BY <1>5, InsertedFits
  <2> QED
    BY <1>5, <2>1, <1>2 DEF Inserted
<1>6. CASE answers' = answers
  BY <1>6, <1>1 DEF Answered, Fits, FitsNext
<1>7. \/ answers' = answers
      \/ \E r \in Req, t \in Token : Replay(r, t)
      \/ \E r \in Req : AlreadyImported(r) \/ Persist(r) \/ PersistRotation(r)
  BY DEF Next, Handler, Step, Begin, CheckOld, NotImported, Refused, Fail,
     Render, Revoke, Age, Sweep, Restart, vars
<1> QED
  BY <1>3, <1>4, <1>5, <1>6, <1>7, PersistInserts, RotationInserts

LEMMA InFlightStep == IInv /\ [Next]_vars => InFlight'
<1> SUFFICES ASSUME IInv, [Next]_vars PROVE InFlight'
  OBVIOUS
<1>0. TypeOK /\ InFlight /\ Grown
  BY GrownStep DEF IInv
<1> DEFINE Stays(q) == pc'[q] = pc[q] /\ tok'[q] = tok[q]
           Good(q) == /\ pc'[q] # "idle" => form'[tok'[q]] # None
                      /\ pc'[q] = "check" => form'[tok'[q]].op = "rotate"
                      /\ pc'[q] = "lookup" => form'[tok'[q]].op = "import"
<1>1. \A q \in Req : Stays(q) => Good(q)
  <2> SUFFICES ASSUME NEW q \in Req, Stays(q), pc[q] # "idle" PROVE Good(q)
    OBVIOUS
  <2>1. tok[q] \in Token /\ form[tok[q]] # None
    BY Carries
  <2> QED
    BY <2>1, <1>0 DEF InFlight, Grown
<1>2. \A q \in Req : pc'[q] = "idle" => Good(q)
  OBVIOUS
<1>3. ASSUME NEW r \in Req, Finish(r) PROVE InFlight'
  <2>1. \A q \in Req : Stays(q) \/ pc'[q] = "idle"
    BY <1>3, <1>0 DEF Finish, TypeOK
  <2> QED
    BY <2>1, <1>1, <1>2 DEF InFlight
<1>4. ASSUME NEW r \in Req, NEW t \in Token, Begin(r, t) PROVE InFlight'
  <2>1. PICK f \in Forms : /\ form'[t] = f
                           /\ pc' = [pc EXCEPT ![r] = FirstStep(f)]
                           /\ tok' = [tok EXCEPT ![r] = t]
    BY <1>4, BeginsWith
  <2>2. Good(r)
    BY <1>0, <2>1, FormFields DEF FirstStep, TypeOK
  <2>3. \A q \in Req \ {r} : Stays(q)
    BY <1>4, <1>0 DEF Begin, TypeOK
  <2> QED
    BY <2>2, <2>3, <1>1 DEF InFlight
<1>5. ASSUME NEW r \in Req, CheckOld(r) \/ NotImported(r) PROVE InFlight'
  <2>1. pc[r] # "idle" /\ pc'[r] = "persist" /\ tok' = tok /\ form' = form
    BY <1>5, <1>0 DEF CheckOld, NotImported, TypeOK
  <2>2. \A q \in Req \ {r} : Stays(q)
    BY <1>5, <1>0 DEF CheckOld, NotImported, TypeOK
  <2>3. Good(r)
    BY <2>1, Carries
  <2> QED
    BY <2>2, <2>3, <1>1 DEF InFlight
<1>6. CASE Restart
  BY <1>6, <1>2 DEF Restart, InFlight
<1>7. CASE UNCHANGED reqs
  BY <1>7, <1>1 DEF reqs, InFlight
<1>8. \/ UNCHANGED reqs \/ Restart
      \/ \E r \in Req : Finish(r) \/ CheckOld(r) \/ NotImported(r)
      \/ \E r \in Req, t \in Token : Begin(r, t)
  BY DEF Next, Handler, Step, Replay, Refused, Fail, Render, Revoke, Age,
     Sweep, AlreadyImported, Persist, PersistRotation, Redirect, vars, reqs
<1> QED
  BY <1>3, <1>4, <1>5, <1>6, <1>7, <1>8

LEMMA FormsAgreeStep == IInv /\ [Next]_vars => FormsAgree'
<1> SUFFICES ASSUME IInv, [Next]_vars PROVE FormsAgree'
  OBVIOUS
<1>0. TypeOK /\ Minted /\ FormsAgree /\ Grown
  BY GrownStep DEF IInv
<1> DEFINE Agrees(f) == f # None /\ f.op = "rotate" =>
                          /\ status'[f.old] # "absent"
                          /\ f.kind = kind'[f.old]
                          /\ f.parent = parent'[f.old]
<1>1. \A t \in Token : form[t] # None => Agrees(form'[t])
  <2> SUFFICES ASSUME NEW t \in Token, form[t] # None, form[t].op = "rotate"
               PROVE  Agrees(form[t])
    BY <1>0 DEF Grown
  <2>1. form[t].old \in Cert
    BY <1>0, NothingIsNoForm, FormFields
  <2> QED
    BY <2>1, <1>0 DEF FormsAgree, Grown
<1>2. CASE form' = form
  BY <1>1, <1>2 DEF FormsAgree
<1>3. ASSUME NEW r \in Req, NEW t \in Token, Begin(r, t) PROVE FormsAgree'
  <2>1. PICK f \in Forms :
          /\ form' = [form EXCEPT ![t] = f]
          /\ form'[t] = f
          /\ form[t] = None => f \in Submissions
          /\ UNCHANGED certs
    BY <1>3, BeginsWith
  <2>2. form[t] = None => Agrees(f)
    BY <2>1, <1>0, SubmissionsAreForms DEF certs
  <2>3. \A u \in Token \ {t} : form'[u] = form[u]
    BY <2>1, <1>0 DEF TypeOK
  <2> QED
    BY <2>1, <2>2, <2>3, <1>1 DEF FormsAgree
<1>4. form' = form \/ \E r \in Req, t \in Token : Begin(r, t)
  BY DEF Next, Handler, Step, Replay, Render, CheckOld, NotImported, Refused,
     Fail, Age, Sweep, Restart, AlreadyImported, Persist, PersistRotation,
     Revoke, vars
<1> QED
  BY <1>2, <1>3, <1>4

LEMMA LineageStep == IInv /\ [Next]_vars => Lineage'
<1> SUFFICES ASSUME IInv, [Next]_vars PROVE Lineage'
  OBVIOUS
<1>0. TypeOK /\ Minted /\ Lineage /\ Grown
  BY GrownStep DEF IInv
<1>1. \A c \in Cert : replacedBy[c] # None => /\ replacedBy[c] \in Cert
                                              /\ status[replacedBy[c]] # "absent"
                                              /\ status[c] # "absent"
  BY <1>0, LifecycleAssumption DEF TypeOK, Minted, Lineage
<1>2. CASE UNCHANGED certs
  BY <1>2, <1>0 DEF certs, Lineage
<1>3. ASSUME NEW r \in Req, Persist(r) PROVE Lineage'
  <2>1. PICK c \in Cert : /\ Inserted(r, c)
                          /\ status' = [status EXCEPT ![c] = "active"]
                          /\ UNCHANGED <<replaces, replacedBy>>
    BY <1>3, PersistInserts
  <2>2. \A d \in Cert : replacedBy[d] # None \/ replaces[d] # None => status'[d] = status[d]
    BY <2>1, <1>0 DEF Inserted, Minted, TypeOK
  <2>3. \A d \in Cert : status'[d] = "superseded" => status[d] = "superseded"
    BY <2>1, <1>0 DEF TypeOK
  <2> QED
    BY <2>1, <2>2, <2>3, <1>0, <1>1 DEF Lineage, Grown
<1>4. ASSUME NEW r \in Req, PersistRotation(r) PROVE Lineage'
  <2>1. PICK old, c \in Cert :
          /\ Inserted(r, c)
          /\ form[tok[r]].op = "rotate" /\ form[tok[r]].old = old
          /\ old # c /\ status[old] = "active"
          /\ status' = [status EXCEPT ![c] = "active", ![old] = "superseded"]
          /\ replaces' = [replaces EXCEPT ![c] = old]
          /\ replacedBy' = [replacedBy EXCEPT ![old] = c]
    BY <1>4, RotationInserts
  <2>2. /\ replacedBy[old] = None
        /\ replacedBy[c] = None /\ replaces[c] = None
        /\ status'[old] = "superseded" /\ status'[c] = "active"
        /\ replaces'[c] = old /\ replacedBy'[old] = c
        /\ \A d \in Cert \ {old} : replacedBy'[d] = replacedBy[d]
        /\ \A d \in Cert \ {c} : replaces'[d] = replaces[d]
        /\ \A d \in Cert \ {old, c} : status'[d] = status[d]
    BY <2>1, <1>0 DEF Inserted, Minted, Lineage, TypeOK
  <2>3. kind'[c] = kind'[old] /\ parent'[c] = parent'[old]
    <3>1. tok[r] \in Token /\ form[tok[r]] # None
      BY <2>1, Carries DEF Inserted
    <3>2. form[tok[r]].kind = kind[old] /\ form[tok[r]].parent = parent[old]
      BY <2>1, <3>1 DEF IInv, FormsAgree
    <3>3. kind'[c] = form[tok[r]].kind /\ parent'[c] = form[tok[r]].parent
      BY <2>1, <1>0 DEF Inserted, TypeOK
    <3> QED
      BY <2>1, <3>2, <3>3, <1>0 DEF Grown
  <2>4. \A d \in Cert \ {old} : replacedBy'[d] # None =>
          LET e == replacedBy'[d] IN
          /\ status'[d] \in {"superseded", "revoked"}
          /\ replaces'[e] = d
          /\ kind'[e] = kind'[d] /\ parent'[e] = parent'[d]
    <3> SUFFICES ASSUME NEW d \in Cert \ {old}, replacedBy[d] # None
                 PROVE  LET e == replacedBy[d] IN
                        /\ status'[d] \in {"superseded", "revoked"}
                        /\ replaces'[e] = d
                        /\ kind'[e] = kind'[d] /\ parent'[e] = parent'[d]
      BY <2>2
    <3>1. d # c /\ replacedBy[d] # c
      BY <2>2, <1>0, LifecycleAssumption DEF Lineage
    <3> QED
      BY <2>2, <3>1, <1>0, <1>1 DEF Lineage, Grown
  <2>5. \A d \in Cert \ {c} : replaces'[d] # None => replacedBy'[replaces'[d]] = d
    <3> SUFFICES ASSUME NEW d \in Cert \ {c}, replaces[d] # None
                 PROVE  replacedBy'[replaces[d]] = d
      BY <2>2
    <3>1. replaces[d] \in Cert /\ replacedBy[replaces[d]] = d
      BY <1>0 DEF TypeOK, Lineage
    <3>2. replaces[d] # old
      BY <2>2, <3>1, LifecycleAssumption
    <3> QED
      BY <2>2, <3>1, <3>2
  <2>6. c # None
    BY LifecycleAssumption
  <2>7. \A d \in Cert : status'[d] = "superseded" => replacedBy'[d] # None
    BY <2>2, <2>6, <1>0 DEF Lineage
  <2> QED
    BY <2>2, <2>3, <2>4, <2>5, <2>7 DEF Lineage
<1>5. ASSUME NEW c \in Cert, Revoke(c) PROVE Lineage'
  <2>1. /\ UNCHANGED <<kind, parent, replaces, replacedBy>>
        /\ \A d \in Cert : status'[d] = status[d] \/ status'[d] = "revoked"
    BY <1>5, <1>0 DEF Revoke, TypeOK
  <2> QED
    BY <2>1, <1>0 DEF Lineage
<1> QED
  BY <1>2, <1>3, <1>4, <1>5, WhoWrites DEF AlreadyImported

LEMMA Inductive == IInv /\ [Next]_vars => IInv'
  BY TypedStep, MintedStep, MarkedStep, AnsweredStep, InFlightStep,
     FormsAgreeStep, LineageStep
  DEF IInv

LEMMA InitInv == Init => IInv
  BY LifecycleAssumption
  DEF Init, IInv, TypeOK, Minted, Marked, Answered, InFlight, FormsAgree, Lineage

LEMMA Always == Spec => []IInv
  BY Inductive, InitInv, PTL DEF Spec

-----------------------------------------------------------------------------
(* Every variable keeps its type, whatever is submitted, swept or lost.    *)
THEOREM LifecycleTypeCorrect == Spec => []TypeOK
<1>1. IInv => TypeOK
  BY DEF IInv
<1> QED
  BY Always, <1>1, PTL

(* A form makes one certificate at most, with any number of submissions in *)
(* flight: the token that is marked names the certificate it made.         *)
THEOREM OneCertPerForm == Spec => []OnePerForm
<1>1. IInv => OnePerForm
  BY DEF IInv, Minted, OnePerForm
<1> QED
  BY Always, <1>1, PTL

(* All redirects given for one form lead to the same certificate, or, for  *)
(* an import, to the same fingerprint.                                     *)
THEOREM ReplaysAgree == Spec => []ReplayFindsResult
<1>1. IInv => ReplayFindsResult
  BY DEF IInv, Answered, Fits, ReplayFindsResult
<1> QED
  BY Always, <1>1, PTL

(* Rotations make chains, however they race with each other and with       *)
(* revocations.                                                            *)
THEOREM LineageHolds == Spec => []Lineage
<1>1. IInv => Lineage
  BY DEF IInv
<1> QED
  BY Always, <1>1, PTL

-----------------------------------------------------------------------------
(* Refinement.                                                             *)
LEMMA RegistryStep == IInv /\ [Next]_vars => [Registry!Next]_(Registry!vars)
<1> SUFFICES ASSUME IInv, [Next]_vars
             PROVE  Registry!Next \/ UNCHANGED Registry!vars
  OBVIOUS
<1>0. TypeOK /\ Minted
  BY DEF IInv
<1>1. CASE UNCHANGED certs
  BY <1>1 DEF certs, Registry!vars
<1>2. ASSUME NEW r \in Req, NEW c, Inserted(r, c) PROVE Registry!Add(c, tok[r])
  <2>1. \A d \in Cert : made[d] # tok[r]
    BY <1>2, <1>0, LifecycleAssumption DEF Inserted, Minted, TypeOK
  <2> QED
    BY <1>2, <2>1 DEF Inserted, Registry!Add
<1>3. ASSUME NEW r \in Req, Persist(r) PROVE Registry!Next
  <2>1. PICK c \in Cert : /\ Inserted(r, c)
                          /\ status' = [status EXCEPT ![c] = "active"]
                          /\ UNCHANGED <<replaces, replacedBy>>
    BY <1>3, PersistInserts
  <2>2. Registry!Add(c, tok[r]) /\ tok[r] \in Token
    BY <2>1, <1>2 DEF Inserted
  <2> QED
    BY <2>1, <2>2 DEF Registry!Next, Registry!Issue
<1>4. ASSUME NEW r \in Req, PersistRotation(r) PROVE Registry!Next
  <2>1. PICK old, c \in Cert :
          /\ Inserted(r, c) /\ old # c /\ status[old] = "active"
          /\ status' = [status EXCEPT ![c] = "active", ![old] = "superseded"]
          /\ replacedBy' = [replacedBy EXCEPT ![old] = c]
    BY <1>4, RotationInserts
  <2>2. status' = [status EXCEPT ![old] = "superseded", ![c] = "active"]
    BY <2>1, <1>0 DEF TypeOK
  <2>3. Registry!Add(c, tok[r]) /\ tok[r] \in Token
    BY <2>1, <1>2 DEF Inserted
  <2> QED
    BY <2>1, <2>2, <2>3 DEF Registry!Next, Registry!Replace
<1>5. ASSUME NEW c \in Cert, Revoke(c) PROVE Registry!Next
  BY <1>5 DEF Revoke, Registry!Next, Registry!Revoke
<1> QED
  BY <1>1, <1>3, <1>4, <1>5, WhoWrites DEF AlreadyImported

(* The certificates and idempotency_tokens tables, with every interleaving *)
(* of submissions, sweeps and restarts, implement CertRegistry.            *)
THEOREM LifecycleImplementsRegistry == Spec => RegistrySpec
<1>1. Init => Registry!Init
  BY DEF Init, Registry!Init
<1>2. Registry!Init /\ [][Registry!Next]_(Registry!vars) => RegistrySpec
  BY DEF RegistrySpec, Registry!Spec
<1> QED
  BY Always, RegistryStep, <1>1, <1>2, PTL DEF Spec

-----------------------------------------------------------------------------
(* Issuers.  A certificate's issuer is in the table before it, and so is   *)
(* the issuer a form names; rows never leave the table.  So issuers rank   *)
(* lower than what they issued, and the walk up comes to an end.           *)
Issuers ==
  /\ \A c \in Cert : parent[c] # None => /\ status[c] # "absent"
                                         /\ status[parent[c]] # "absent"
  /\ \A t \in Token : form[t] # None /\ form[t].parent # None =>
       status[form[t].parent] # "absent"

Descends(rank) ==
  /\ rank \in [Cert -> Nat]
  /\ \A c \in Cert : parent[c] # None => rank[parent[c]] < rank[c]

Ranked == Issuers /\ \E rank : Descends(rank)

LEMMA SubmittedIssuers ==
  ASSUME TypeOK, Minted, Issuers, NEW f \in Submissions, f.parent # None
  PROVE  status[f.parent] # "absent"
<1>1. CASE f = IssueForm("root", None)
  BY <1>1 DEF IssueForm
<1>2. CASE \E k \in Kind, p \in Present : f = IssueForm(k, p)
  BY <1>2 DEF IssueForm, Present
<1>3. CASE \E c \in Present : f = RotateForm(kind[c], parent[c], c)
  BY <1>3 DEF RotateForm, Issuers, Present
<1>4. CASE \E x \in Foreign : f = ImportForm(x)
  BY <1>4 DEF ImportForm
<1> QED
  BY <1>1, <1>2, <1>3, <1>4 DEF Submissions, Kind

(* What the table and the forms name stays there.                          *)
LEMMA IssuersStay ==
  ASSUME TypeOK, Grown, Issuers
  PROVE  /\ \A c \in Cert : parent[c] # None =>
              /\ parent'[c] = parent[c] /\ parent[c] \in Cert
              /\ status'[c] # "absent" /\ status'[parent[c]] # "absent"
         /\ \A t \in Token : form[t] # None =>
              /\ form'[t] = form[t]
              /\ form[t].parent # None => status'[form[t].parent] # "absent"
<1>1. \A c \in Cert : parent[c] # None => parent[c] \in Cert
  BY DEF TypeOK
<1>2. \A t \in Token : form[t] # None => form[t].parent \in Cert \cup {None}
  BY NothingIsNoForm, FormFields
<1> QED
  BY <1>1, <1>2 DEF Issuers, Grown

LEMMA InsertionRanked ==
  ASSUME IInv, Ranked, NEW r \in Req, NEW c, Inserted(r, c)
  PROVE  Ranked'
<1>0. TypeOK /\ Issuers /\ Grown
  BY InsertionGrows DEF IInv, Ranked
<1> DEFINE p == form[tok[r]].parent
<1>1. p \in Cert \cup {None} /\ tok[r] \in Token /\ form[tok[r]] # None
  BY Carries, FormFields DEF Inserted
<1>2. p # None => p # c /\ status'[p] # "absent"
  BY <1>0, <1>1, IssuersStay DEF Issuers, Inserted
<1>3. /\ c \in Cert /\ status'[c] # "absent" /\ parent'[c] = p
      /\ \A d \in Cert \ {c} : parent'[d] = parent[d]
      /\ form' = form
  BY <1>0 DEF Inserted, TypeOK
<1>4. \A d \in Cert : parent[d] # None => parent[d] # c /\ d # c
  BY <1>0 DEF Issuers, Inserted
<1>5. Issuers'
  BY <1>0, <1>1, <1>2, <1>3, IssuersStay DEF Issuers
<1>6. PICK rank : Descends(rank)
  BY DEF Ranked
<1>7. PICK higher :
        /\ higher \in [Cert -> Nat]
        /\ p # None => higher[c] = rank[p] + 1 /\ higher[p] = rank[p]
        /\ \A d \in Cert \ {c} : higher[d] = rank[d]
  <2> DEFINE h == [rank EXCEPT ![c] = IF p = None THEN 0 ELSE rank[p] + 1]
  <2>1. /\ h \in [Cert -> Nat]
        /\ p # None => h[c] = rank[p] + 1 /\ h[p] = rank[p]
        /\ \A d \in Cert \ {c} : h[d] = rank[d]
    BY <1>1, <1>2, <1>3, <1>6 DEF Descends
  <2> HIDE DEF h
  <2> QED
    BY <2>1
<1>8. \A d \in Cert : parent'[d] # None => higher[parent'[d]] < higher[d]
  <2>1. CASE p = None
    BY <2>1, <1>0, <1>3, <1>4, <1>6, <1>7 DEF Descends, TypeOK
  <2>2. CASE p # None
    <3>1. higher[parent'[c]] < higher[c]
      <4>1. rank[p] \in Nat
        BY <1>1, <1>6, <2>2 DEF Descends
      <4> QED
        BY <4>1, <1>3, <1>7, <2>2
    <3>2. \A d \in Cert \ {c} : parent'[d] # None => higher[parent'[d]] < higher[d]
      BY <1>0, <1>3, <1>4, <1>6, <1>7 DEF Descends, TypeOK
    <3> QED
      BY <3>1, <3>2
  <2> QED
    BY <2>1, <2>2
<1>9. Descends(higher)'
  BY <1>7, <1>8 DEF Descends
<1> QED
  BY <1>5, <1>9 DEF Ranked

LEMMA RankedStep == IInv /\ Ranked /\ [Next]_vars => Ranked'
<1> SUFFICES ASSUME IInv, Ranked, [Next]_vars PROVE Ranked'
  OBVIOUS
<1>0. TypeOK /\ Minted /\ Issuers /\ Grown
  BY GrownStep DEF IInv, Ranked
<1>1. ASSUME NEW r \in Req, Persist(r) \/ PersistRotation(r) PROVE Ranked'
  BY <1>1, PersistInserts, RotationInserts, InsertionRanked
<1>2. ASSUME parent' = parent, form' = form PROVE Ranked'
  BY <1>2, <1>0, IssuersStay DEF Ranked, Issuers, Descends
<1>3. ASSUME NEW r \in Req, NEW t \in Token, Begin(r, t) PROVE Ranked'
  <2>1. PICK f \in Forms :
          /\ form' = [form EXCEPT ![t] = f]
          /\ form'[t] = f
          /\ form[t] = None => f \in Submissions
          /\ UNCHANGED certs
    BY <1>3, BeginsWith
  <2>2. form[t] = None /\ f.parent # None => status'[f.parent] # "absent"
    BY <2>1, <1>0, SubmittedIssuers DEF certs
  <2>3. \A u \in Token \ {t} : form'[u] = form[u]
    BY <2>1, <1>0 DEF TypeOK
  <2>4. Issuers'
    BY <2>1, <2>2, <2>3, <1>0, IssuersStay DEF Issuers, certs
  <2> QED
    BY <2>1, <2>4 DEF Ranked, Descends, certs
<1>4. \/ parent' = parent /\ form' = form
      \/ \E r \in Req, t \in Token : Begin(r, t)
      \/ \E r \in Req : Persist(r) \/ PersistRotation(r)
  BY DEF Next, Handler, Step, Replay, Render, CheckOld, NotImported, Refused,
     Fail, Age, Sweep, Restart, AlreadyImported, Revoke, vars, certs
<1> QED
  BY <1>1, <1>2, <1>3, <1>4

LEMMA AlwaysRanked == Spec => []Ranked
<1>1. Init => Ranked
  <2> SUFFICES ASSUME Init PROVE Ranked
    OBVIOUS
  <2>1. Issuers
    BY DEF Init, Issuers
  <2>2. Descends([c \in Cert |-> 0])
    BY DEF Init, Descends
  <2> QED
    BY <2>1, <2>2 DEF Ranked
<1> QED
  BY Always, RankedStep, <1>1, PTL DEF Spec

-----------------------------------------------------------------------------
(* The walk up.  Ends(w) is where the loop may stop when it is started at  *)
(* w: in every set of walks that holds w and the next of each that goes    *)
(* on.  Choosing one of them satisfies the equation Climb is defined by.   *)
Walks == Seq(Cert) \ {<< >>}

Above(w) == parent[w[Len(w)]]

Stops(w) == Above(w) = None \/ Above(w) \in {w[i] : i \in DOMAIN w}

Up(w) == Append(w, Above(w))

GoesOn(X) == \A w \in X : ~Stops(w) => Up(w) \in X

Ends(w) == {e \in Walks : /\ Stops(e)
                          /\ \A X \in SUBSET Walks : w \in X /\ GoesOn(X) => e \in X}

End == [w \in Walks |-> CHOOSE e : e \in Ends(w)]

LEMMA UpWalks ==
  ASSUME TypeOK, NEW w \in Walks
  PROVE  /\ Len(w) \in Nat \ {0}
         /\ w[Len(w)] \in Cert
         /\ Above(w) \in Cert \cup {None}
         /\ Above(w) # None =>
              /\ Up(w) \in Walks
              /\ Len(Up(w)) = Len(w) + 1
              /\ \A i \in 1 .. Len(w) : Up(w)[i] = w[i]
              /\ Up(w)[Len(w) + 1] = Above(w)
<1>1. w \in Seq(Cert) /\ w # << >>
  BY DEF Walks
<1>2. Len(w) \in Nat \ {0} /\ w[Len(w)] \in Cert
  BY <1>1
<1>3. Above(w) \in Cert \cup {None}
  BY <1>2 DEF Above, TypeOK
<1>4. ASSUME Above(w) # None
      PROVE  /\ Up(w) \in Walks
             /\ Len(Up(w)) = Len(w) + 1
             /\ \A i \in 1 .. Len(w) : Up(w)[i] = w[i]
             /\ Up(w)[Len(w) + 1] = Above(w)
  BY <1>1, <1>3, <1>4, AppendProperties DEF Up, Walks
<1> QED
  BY <1>2, <1>3, <1>4

LEMMA EndIsTheLoop ==
  ASSUME TypeOK
  PROVE  End = [w \in Walks |-> IF Stops(w) THEN w ELSE End[Up(w)]]
<1>1. ASSUME NEW w \in Walks, Stops(w) PROVE End[w] = w
  <2>1. GoesOn({w})
    BY <1>1 DEF GoesOn
  <2>2. Ends(w) = {w}
    <3>1. \A e \in Ends(w) : e = w
      BY <2>1 DEF Ends
    <3>2. w \in Ends(w)
      BY <1>1 DEF Ends
    <3> QED
      BY <3>1, <3>2
  <2> QED
    BY <2>2 DEF End
<1>2. ASSUME NEW w \in Walks, ~Stops(w) PROVE End[w] = End[Up(w)]
  <2>1. Up(w) \in Walks
    BY <1>2, UpWalks DEF Stops
  <2>2. ASSUME NEW e \in Ends(w), NEW X \in SUBSET Walks, Up(w) \in X, GoesOn(X)
        PROVE  e \in X
    <3>1. GoesOn(X \cup {w})
      BY <1>2, <2>2 DEF GoesOn
    <3>2. e \in X \cup {w}
      BY <2>2, <3>1 DEF Ends
    <3>3. e # w
      BY <1>2 DEF Ends
    <3> QED
      BY <3>2, <3>3
  <2>3. ASSUME NEW e \in Ends(Up(w)), NEW X \in SUBSET Walks, w \in X, GoesOn(X)
        PROVE  e \in X
    <3>1. Up(w) \in X
      BY <1>2, <2>3 DEF GoesOn
    <3> QED
      BY <2>3, <3>1 DEF Ends
  <2>4. Ends(w) \subseteq Ends(Up(w))
    BY <2>2 DEF Ends
  <2>5. Ends(Up(w)) \subseteq Ends(w)
    BY <2>3 DEF Ends
  <2>6. Ends(w) = Ends(Up(w))
    BY <2>4, <2>5
  <2> QED
    BY <2>1, <2>6 DEF End
<1>3. \A w \in Walks : End[w] = IF Stops(w) THEN w ELSE End[Up(w)]
  BY <1>1, <1>2
<1>4. End = [w \in Walks |-> End[w]]
  BY DEF End
<1> HIDE DEF End
<1> QED
  BY <1>3, <1>4

LEMMA ClimbIsTheLoop ==
  ASSUME TypeOK
  PROVE  Climb = [w \in Walks |-> IF Stops(w) THEN w ELSE Climb[Up(w)]]
<1> DEFINE Loop(f) == f = [w \in Walks |-> IF Stops(w) THEN w ELSE f[Up(w)]]
<1>1. Loop(End)
  BY EndIsTheLoop
<1>2. Climb = CHOOSE f : Loop(f)
  BY Zenon DEF Climb, Walks, Stops, Above, Up
<1>3. \E f : Loop(f)
  BY <1>1, Zenon
<1>4. Loop(Climb)
  <2> HIDE DEF Loop
  <2> QED
    BY <1>2, <1>3, Zenon
<1> QED
  BY <1>4

(* A walk from c: each is the issuer of the one before, and ranks lowest.  *)
WalkFrom(c, w) ==
  /\ w \in Walks
  /\ w[1] = c
  /\ \A i \in 1 .. Len(w) - 1 : w[i + 1] = parent[w[i]]

Lowest(rank, w) == \A i \in 1 .. Len(w) : rank[w[Len(w)]] <= rank[w[i]]

LEMMA UpGoesOn ==
  ASSUME TypeOK, NEW rank, Descends(rank), NEW c \in Cert, NEW w,
         WalkFrom(c, w), Lowest(rank, w), Above(w) # None
  PROVE  /\ ~Stops(w)
         /\ WalkFrom(c, Up(w))
         /\ Lowest(rank, Up(w))
         /\ rank[Above(w)] < rank[w[Len(w)]]
         /\ Above(w) = Up(w)[Len(Up(w))]
<1> DEFINE u == Up(w)
           n == Len(w)
<1>1. /\ w \in Walks /\ n \in Nat \ {0} /\ w[n] \in Cert /\ Above(w) \in Cert
      /\ u \in Walks /\ Len(u) = n + 1
      /\ \A i \in 1 .. n : u[i] = w[i]
      /\ u[n + 1] = Above(w)
  BY UpWalks DEF WalkFrom
<1>2. rank[Above(w)] < rank[w[n]]
  BY <1>1 DEF Above, Descends
<1>3. \A i \in 1 .. n : w[i] \in Cert
  BY <1>1 DEF Walks
<1>4. \A d \in Cert : rank[d] \in Nat
  BY DEF Descends
<1>5. \A i \in 1 .. n : rank[Above(w)] < rank[w[i]]
  BY <1>1, <1>2, <1>3, <1>4 DEF Lowest
<1>6. ~Stops(w)
  <2>1. DOMAIN w = 1 .. n
    BY <1>1 DEF Walks
  <2> QED
    BY <1>1, <1>4, <1>5, <2>1 DEF Stops
<1>7. WalkFrom(c, u)
  <2>1. u[1] = c
    BY <1>1 DEF WalkFrom
  <2>2. ASSUME NEW i \in 1 .. Len(u) - 1 PROVE u[i + 1] = parent[u[i]]
    <3>1. CASE i = n
      BY <1>1, <3>1 DEF Above
    <3>2. CASE i \in 1 .. n - 1
      BY <1>1, <3>2 DEF WalkFrom
    <3> QED
      BY <1>1, <3>1, <3>2
  <2> QED
    BY <1>1, <2>1, <2>2 DEF WalkFrom
<1>8. Lowest(rank, u)
  <2> SUFFICES ASSUME NEW i \in 1 .. n + 1 PROVE rank[u[n + 1]] <= rank[u[i]]
    BY <1>1 DEF Lowest
  <2>1. CASE i = n + 1
    BY <1>1, <1>4, <2>1
  <2>2. CASE i \in 1 .. n
    BY <1>1, <1>3, <1>4, <1>5, <2>2
  <2> QED
    BY <1>1, <2>1, <2>2
<1> QED
  BY <1>1, <1>2, <1>6, <1>7, <1>8

(* The walk up from c goes from issuer to issuer until there is none: a    *)
(* walk of lowest rank from which it did not would have a next one.        *)
LEMMA ClimbsToTheTop ==
  ASSUME TypeOK, Ranked, NEW c \in Cert
  PROVE  WalkFrom(c, GetChain(c)) /\ Above(GetChain(c)) = None
<1>1. PICK rank : Descends(rank)
  BY DEF Ranked
<1>2. \A w \in Walks : Climb[w] = IF Stops(w) THEN w ELSE Climb[Up(w)]
  BY ClimbIsTheLoop
<1> DEFINE Fine(w) == WalkFrom(c, Climb[w]) /\ Above(Climb[w]) = None
           Bad == {w \in Walks : WalkFrom(c, w) /\ Lowest(rank, w) /\ ~Fine(w)}
           Ranks == {rank[w[Len(w)]] : w \in Bad}
<1>3. Bad = {}
  <2> SUFFICES ASSUME Bad # {} PROVE FALSE
    OBVIOUS
  <2>1. \A w \in Bad : rank[w[Len(w)]] \in Nat
    BY <1>1, UpWalks DEF Descends
  <2>2. Ranks \subseteq Nat /\ Ranks # {}
    BY <2>1
  <2>3. PICK n \in Ranks : \A m \in Ranks : ~(<<m, n>> \in OpToRel(<, Nat))
    <3> HIDE DEF Ranks
    <3> QED
      BY <2>2, NatLessThanWellFounded, WFMin
  <2>4. \A m \in Ranks : ~(m < n)
    BY <2>2, <2>3 DEF OpToRel
  <2>5. PICK w \in Bad : n = rank[w[Len(w)]]
    OBVIOUS
  <2>6. CASE Above(w) = None
    <3>1. Stops(w)
      BY <2>6 DEF Stops
    <3>2. Climb[w] = w
      BY <1>2, <2>5, <3>1
    <3> QED
      BY <2>5, <2>6, <3>2
  <2>7. CASE Above(w) # None
    <3>1. /\ ~Stops(w) /\ WalkFrom(c, Up(w)) /\ Lowest(rank, Up(w))
          /\ rank[Up(w)[Len(Up(w))]] < n
      BY <1>1, <2>5, <2>7, UpGoesOn
    <3>2. Climb[w] = Climb[Up(w)]
      BY <1>2, <2>5, <3>1
    <3>3. Up(w) \in Bad
      BY <2>5, <3>1, <3>2 DEF WalkFrom
    <3> QED
      BY <2>4, <3>1, <3>3
  <2> QED
    BY <2>6, <2>7
<1>4. <<c>> \in Walks /\ Len(<<c>>) = 1 /\ <<c>>[1] = c
  BY DEF Walks
<1>5. WalkFrom(c, <<c>>) /\ Lowest(rank, <<c>>)
  <2>1. rank[c] \in Nat
    BY <1>1 DEF Descends
  <2>2. WalkFrom(c, <<c>>)
    BY <1>4 DEF WalkFrom
  <2>3. \A i \in 1 .. 1 : rank[<<c>>[1]] <= rank[<<c>>[i]]
    BY <2>1
  <2> QED
    BY <1>4, <2>2, <2>3 DEF Lowest
<1> QED
  BY <1>3, <1>4, <1>5 DEF GetChain

(* What is served is the walk without its ends.                            *)
LEMMA ServedChain ==
  ASSUME NEW c \in Cert, WalkFrom(c, GetChain(c)), Above(GetChain(c)) = None,
         TypeOK
  PROVE  LET s == GetChain(c)
             above == ChainAbove(c)
         IN /\ above \in Seq(Cert)
            /\ Len(above) = IF Len(s) = 1 THEN 0 ELSE Len(s) - 2
            /\ \A i \in 1 .. Len(above) : above[i] = s[i + 1]
<1> DEFINE s == GetChain(c)
           rest == Tail(s)
<1>1. s \in Seq(Cert) /\ s # << >> /\ Len(s) \in Nat \ {0}
  BY DEF WalkFrom, Walks
<1>2. /\ rest \in Seq(Cert) /\ Len(rest) = Len(s) - 1
      /\ \A i \in 1 .. Len(rest) : rest[i] = s[i + 1]
  BY <1>1, HeadTailProperties
<1>3. CASE Len(s) = 1
  <2>1. rest = << >>
    <3>1. rest \in Seq(Cert) /\ Len(rest) = 0
      BY <1>2, <1>3
    <3> HIDE DEF rest
    <3> QED
      BY <3>1
  <2>2. ChainAbove(c) = << >>
    BY <2>1 DEF ChainAbove
  <2> QED
    BY <1>3, <2>2
<1>4. CASE Len(s) # 1
  <2>1. rest # << >> /\ Len(rest) \in Nat \ {0} /\ rest[Len(rest)] = s[Len(s)]
    <3> HIDE DEF s, rest
    <3>1. Len(rest) \in Nat \ {0} /\ Len(rest) + 1 = Len(s)
      BY <1>1, <1>2, <1>4
    <3>2. rest # << >>
      BY <3>1
    <3> QED
      BY <1>2, <3>1, <3>2
  <2>2. parent[rest[Len(rest)]] = None
    BY <2>1 DEF Above
  <2>3. ChainAbove(c) = SubSeq(rest, 1, Len(rest) - 1)
    BY <2>1, <2>2 DEF ChainAbove
  <2> DEFINE m == Len(rest) - 1
  <2>4. m \in Nat /\ \A i \in 1 .. m : rest[i] \in Cert
    BY <1>2, <2>1
  <2>5. /\ SubSeq(rest, 1, m) \in Seq(Cert)
        /\ Len(SubSeq(rest, 1, m)) = m
        /\ \A i \in 1 .. m : SubSeq(rest, 1, m)[i] = rest[i]
    BY <2>4, SubSeqProperties
  <2> QED
    BY <1>1, <1>2, <1>4, <2>3, <2>4, <2>5
<1> QED
  BY <1>3, <1>4

LEMMA PathsAreComplete ==
  ASSUME TypeOK, Ranked
  PROVE  ChainComplete
<1> SUFFICES ASSUME NEW c \in Present
             PROVE  LET above == ChainAbove(c)
                        path == <<c>> \o above
                        top == path[Len(path)]
                    IN /\ \A i \in DOMAIN above : /\ above[i] = parent[path[i]]
                                                  /\ parent[above[i]] # None
                       /\ parent[top] # None => parent[parent[top]] = None
  BY DEF ChainComplete
<1> DEFINE s == GetChain(c)
           n == Len(s)
           above == ChainAbove(c)
           path == <<c>> \o above
<1>0. c \in Cert
  BY DEF Present
<1>1. WalkFrom(c, s) /\ Above(s) = None
  BY <1>0, ClimbsToTheTop
<1>2. /\ s \in Seq(Cert) /\ n \in Nat \ {0} /\ s[1] = c
      /\ \A i \in 1 .. n - 1 : s[i + 1] = parent[s[i]]
      /\ parent[s[n]] = None
  BY <1>1 DEF WalkFrom, Walks, Above
<1>3. /\ above \in Seq(Cert)
      /\ Len(above) = IF n = 1 THEN 0 ELSE n - 2
      /\ \A i \in 1 .. Len(above) : above[i] = s[i + 1]
  BY <1>0, <1>1, ServedChain
<1> HIDE DEF s, above
<1>4. Len(above) \in Nat /\ DOMAIN above = 1 .. Len(above)
  BY <1>3
<1>5. /\ Len(path) = Len(above) + 1
      /\ \A i \in 1 .. Len(path) : path[i] = IF i <= 1 THEN c ELSE above[i - 1]
  <2>1. <<c>> \in Seq(Cert) /\ Len(<<c>>) = 1 /\ <<c>>[1] = c
    BY <1>0
  <2>2. /\ Len(path) = 1 + Len(above)
        /\ \A i \in 1 .. 1 + Len(above) :
             path[i] = IF i <= 1 THEN <<c>>[i] ELSE above[i - 1]
    BY <1>3, <2>1, ConcatProperties
  <2> QED
    BY <1>4, <2>1, <2>2
<1> HIDE DEF path
<1>6. \A i \in 1 .. Len(path) : path[i] = s[i]
  <2> SUFFICES ASSUME NEW i \in 1 .. Len(path) PROVE path[i] = s[i]
    OBVIOUS
  <2>1. CASE i = 1
    BY <1>2, <1>5, <2>1
  <2>2. CASE i # 1
    BY <1>3, <1>4, <1>5, <2>2
  <2> QED
    BY <2>1, <2>2
<1>7. None \notin Cert
  BY LifecycleAssumption
<1>8. \A i \in DOMAIN above : above[i] = parent[path[i]] /\ parent[above[i]] # None
  <2> SUFFICES ASSUME NEW i \in 1 .. Len(above)
               PROVE  above[i] = parent[path[i]] /\ parent[above[i]] # None
    BY <1>4
  <2>1. n # 1 /\ i \in 1 .. n - 2
    BY <1>2, <1>3
  <2>2. path[i] = s[i] /\ above[i] = s[i + 1]
    BY <1>3, <1>4, <1>5, <1>6
  <2>3. s[i + 1] = parent[s[i]] /\ s[i + 2] = parent[s[i + 1]] /\ s[i + 2] \in Cert
    <3>1. i \in 1 .. n - 1 /\ i + 1 \in 1 .. n - 1 /\ i + 2 \in 1 .. n
      BY <1>2, <2>1
    <3>2. s[i + 1] = parent[s[i]] /\ s[(i + 1) + 1] = parent[s[i + 1]]
      BY <1>2, <3>1
    <3>3. (i + 1) + 1 = i + 2
      BY <2>1
    <3> QED
      BY <1>2, <3>1, <3>2, <3>3
  <2> QED
    BY <1>7, <2>2, <2>3
<1>9. parent[path[Len(path)]] # None => parent[parent[path[Len(path)]]] = None
  <2>1. CASE n = 1
    BY <1>2, <1>3, <1>5, <1>6, <2>1
  <2>2. CASE n # 1
    <3>1. Len(path) = n - 1 /\ Len(path) \in 1 .. n - 1
      BY <1>2, <1>3, <1>5, <2>2
    <3>2. path[Len(path)] = s[n - 1] /\ s[n] = parent[s[n - 1]]
      <4>1. path[n - 1] = s[n - 1] /\ n - 1 \in 1 .. n - 1
        BY <1>6, <3>1
      <4>2. s[(n - 1) + 1] = parent[s[n - 1]] /\ (n - 1) + 1 = n
        BY <1>2, <4>1
      <4> QED
        BY <3>1, <4>1, <4>2
    <3> QED
      BY <1>2, <3>2
  <2> QED
    BY <2>1, <2>2
<1> QED
  BY <1>8, <1>9 DEF above, path

(* The path of every certificate is complete, for any number of them and   *)
(* any depth: whoever was chosen as issuer, whatever is rotated, revoked   *)
(* or imported and in whatever order, the walk up ends at a self-issued    *)
(* certificate, and what is served and deployed is all there is below it.  *)
THEOREM ChainsComplete == Spec => []ChainComplete
<1>1. IInv /\ Ranked => ChainComplete
  BY PathsAreComplete DEF IInv
<1> QED
  BY Always, AlwaysRanked, <1>1, PTL

-----------------------------------------------------------------------------
(* Imports.  A request that found no row of a root and goes on to insert   *)
(* one takes a place that every row it finds occupied: rows of a root, and *)
(* requests about to insert one, are never more than there are requests.   *)
RowsOf(x) == {c \in Cert : fingerprint[c] = x}

Inserting(x) == {r \in Req : pc[r] = "persist" /\ form[tok[r]].upload = x}

Places ==
  /\ \A c \in Cert : fingerprint[c] # None => status[c] # "absent"
  /\ \A x \in Foreign :
       /\ IsFiniteSet(RowsOf(x))
       /\ Cardinality(RowsOf(x)) + Cardinality(Inserting(x)) <= Cardinality(Req)

LEMMA UploadFields ==
  ASSUME NEW f \in Forms
  PROVE  IF f.op = "import" THEN f.upload # None ELSE f.upload = None
<1>1. CASE f.op = "import"
  BY <1>1, LifecycleAssumption DEF Forms, IssueForm, RotateForm, ImportForm
<1>2. CASE f.op # "import"
  BY <1>2 DEF Forms, IssueForm, RotateForm, ImportForm
<1> QED
  BY <1>1, <1>2

LEMMA FiniteReq ==
  /\ IsFiniteSet(Req) /\ Cardinality(Req) \in Nat
  /\ \A x : IsFiniteSet(Inserting(x)) /\ Cardinality(Inserting(x)) \in Nat
  /\ \A x : Cardinality(Inserting(x)) <= Cardinality(Req)
<1>1. IsFiniteSet(Req) /\ Cardinality(Req) \in Nat
  BY LifecycleAssumption, FS_CardinalityType
<1>2. ASSUME NEW x
      PROVE  /\ IsFiniteSet(Inserting(x)) /\ Cardinality(Inserting(x)) \in Nat
             /\ Cardinality(Inserting(x)) <= Cardinality(Req)
  <2>1. Inserting(x) \in SUBSET Req
    BY DEF Inserting
  <2> QED
    BY <1>1, <2>1, FS_Subset, FS_CardinalityType
<1> QED
  BY <1>1, <1>2

(* No place is taken by a step that inserts nothing and sends no request   *)
(* on to insert.                                                           *)
LEMMA PlacesStay ==
  ASSUME Places, UNCHANGED fingerprint,
         \A c \in Cert : status[c] # "absent" => status'[c] # "absent",
         NEW x \in Foreign,
         Inserting(x)' \subseteq Inserting(x)
  PROVE  /\ IsFiniteSet(RowsOf(x))'
         /\ (Cardinality(RowsOf(x)) + Cardinality(Inserting(x)) <= Cardinality(Req))'
<1> DEFINE new == Inserting(x)'
           rows0 == RowsOf(x)
<1>1. RowsOf(x)' = rows0
  BY DEF RowsOf
<1>2. new \in SUBSET Inserting(x)
  OBVIOUS
<1>3. /\ IsFiniteSet(new) /\ Cardinality(new) \in Nat
      /\ Cardinality(new) <= Cardinality(Inserting(x))
  <2> HIDE DEF new
  <2> QED
    BY <1>2, FiniteReq, FS_Subset, FS_CardinalityType
<1>4. /\ IsFiniteSet(rows0) /\ Cardinality(rows0) \in Nat
      /\ Cardinality(rows0) + Cardinality(Inserting(x)) <= Cardinality(Req)
  BY FS_CardinalityType DEF Places
<1>5. Cardinality(rows0) + Cardinality(new) <= Cardinality(Req)
  <2> HIDE DEF new, rows0
  <2> QED
    BY <1>3, <1>4, FiniteReq
<1> QED
  BY <1>1, <1>4, <1>5

LEMMA InsertionPlaces ==
  ASSUME IInv, Places, NEW r \in Req, NEW c, Inserted(r, c)
  PROVE  Places'
<1>0. TypeOK /\ Grown
  BY InsertionGrows DEF IInv
<1> DEFINE u == form[tok[r]].upload
<1>1. /\ c \in Cert /\ fingerprint[c] = None
      /\ fingerprint'[c] = u
      /\ \A d \in Cert \ {c} : fingerprint'[d] = fingerprint[d]
      /\ pc[r] = "persist" /\ pc'[r] = "idle" /\ status'[c] # "absent"
      /\ \A q \in Req \ {r} : pc'[q] = pc[q] /\ tok'[q] = tok[q]
      /\ form' = form
  BY <1>0 DEF Inserted, Finish, Places, TypeOK
<1>2. \A d \in Cert : fingerprint'[d] # None => status'[d] # "absent"
  BY <1>0, <1>1 DEF Places, Grown
<1>3. ASSUME NEW x \in Foreign
      PROVE  /\ IsFiniteSet(RowsOf(x)')
             /\ Cardinality(RowsOf(x)') + Cardinality(Inserting(x)') <= Cardinality(Req)
  <2> DEFINE rows0 == RowsOf(x)
             ins0 == Inserting(x)
  <2>1. /\ IsFiniteSet(rows0) /\ Cardinality(rows0) \in Nat
        /\ IsFiniteSet(ins0) /\ Cardinality(ins0) \in Nat
        /\ Cardinality(rows0) + Cardinality(ins0) <= Cardinality(Req)
        /\ Cardinality(Req) \in Nat
    BY FiniteReq, FS_CardinalityType DEF Places
  <2>2. Inserting(x)' = ins0 \ {r}
    BY <1>1 DEF Inserting
  <2>3. /\ IsFiniteSet(ins0 \ {r})
        /\ Cardinality(ins0 \ {r}) = IF r \in ins0 THEN Cardinality(ins0) - 1
                                                   ELSE Cardinality(ins0)
    BY <2>1, FS_RemoveElement
  <2>4. CASE u = x
    <3>1. r \in ins0
      BY <1>1, <2>4 DEF Inserting
    <3>2. x # None
      BY LifecycleAssumption
    <3>3. RowsOf(x)' = rows0 \cup {c} /\ c \notin rows0
      BY <1>1, <2>4, <3>2 DEF RowsOf
    <3>4. /\ IsFiniteSet(rows0 \cup {c})
          /\ Cardinality(rows0 \cup {c}) = Cardinality(rows0) + 1
      BY <2>1, <3>3, FS_AddElement
    <3> HIDE DEF rows0, ins0
    <3> QED
      BY <2>1, <2>2, <2>3, <3>1, <3>3, <3>4
  <2>5. CASE u # x
    <3>1. x # None
      BY LifecycleAssumption
    <3>2. RowsOf(x)' = rows0
      BY <1>1, <2>5, <3>1 DEF RowsOf
    <3> HIDE DEF rows0, ins0
    <3> QED
      BY <2>1, <2>2, <2>3, <3>2
  <2> QED
    BY <2>4, <2>5
<1> QED
  BY <1>2, <1>3 DEF Places

LEMMA PlacesStep == IInv /\ Places /\ [Next]_vars => Places'
<1> SUFFICES ASSUME IInv, Places, [Next]_vars PROVE Places'
  OBVIOUS
<1>0. TypeOK /\ Grown
  BY GrownStep DEF IInv
<1>1. ASSUME NEW r \in Req, Persist(r) \/ PersistRotation(r) PROVE Places'
  BY <1>1, PersistInserts, RotationInserts, InsertionPlaces
<1>2. ASSUME UNCHANGED fingerprint,
             \A x \in Foreign : Inserting(x)' \subseteq Inserting(x)
      PROVE  Places'
  <2>1. \A c \in Cert : status[c] # "absent" => status'[c] # "absent"
    BY <1>0 DEF Grown
  <2>2. \A x \in Foreign :
          /\ IsFiniteSet(RowsOf(x))'
          /\ (Cardinality(RowsOf(x)) + Cardinality(Inserting(x)) <= Cardinality(Req))'
    BY <1>2, <2>1, PlacesStay
  <2> QED
    BY <1>2, <2>1, <2>2 DEF Places
(* A request that is where it was counts as before.                        *)
<1>3. ASSUME NEW q \in Req, pc'[q] = pc[q], tok'[q] = tok[q],
             NEW x \in Foreign, q \in Inserting(x)'
      PROVE  q \in Inserting(x)
  <2>1. pc[q] = "persist" /\ tok[q] \in Token /\ form[tok[q]] # None
    BY <1>3, Carries DEF Inserting
  <2> QED
    BY <1>3, <2>1, <1>0 DEF Inserting, Grown
<1>4. ASSUME NEW r \in Req, NotImported(r) PROVE Places'
  <2> DEFINE u == form[tok[r]].upload
  <2>1. /\ UNCHANGED <<fingerprint, status, tok, form>>
        /\ \A q \in Req \ {r} : pc'[q] = pc[q]
    BY <1>4, <1>0 DEF NotImported, certs, TypeOK
  <2>2. ASSUME NEW x \in Foreign
        PROVE  /\ IsFiniteSet(RowsOf(x))'
               /\ (Cardinality(RowsOf(x)) + Cardinality(Inserting(x)) <= Cardinality(Req))'
    <3>1. CASE u # x
      <4>1. Inserting(x)' \subseteq Inserting(x)
        BY <2>1, <3>1 DEF Inserting
      <4> QED
        BY <2>1, <4>1, PlacesStay
    <3>2. CASE u = x
      <4>1. x # None
        BY LifecycleAssumption
      <4>2. RowsOf(x)' = {}
        BY <1>4, <2>1, <3>2, <4>1 DEF NotImported, Same, RowsOf, Places
      <4> DEFINE new == Inserting(x)'
      <4>3. new \in SUBSET Req
        BY DEF Inserting
      <4>4. Cardinality(new) \in Nat /\ Cardinality(new) <= Cardinality(Req)
        <5> HIDE DEF new
        <5> QED
          BY <4>3, FiniteReq, FS_Subset, FS_CardinalityType
      <4> QED
        BY <4>2, <4>4, FS_EmptySet
    <3> QED
      BY <3>1, <3>2
  <2> QED
    BY <2>1, <2>2 DEF Places
<1>5. ASSUME NEW r \in Req, CheckOld(r) PROVE Places'
  <2>1. /\ UNCHANGED <<fingerprint, tok, form>>
        /\ \A q \in Req \ {r} : pc'[q] = pc[q]
    BY <1>5, <1>0 DEF CheckOld, certs, TypeOK
  <2>2. form[tok[r]] \in Forms /\ form[tok[r]].op = "rotate"
    BY <1>5, Carries DEF CheckOld, IInv, InFlight
  <2>3. \A x \in Foreign : form[tok[r]].upload # x
    BY <2>2, UploadFields, LifecycleAssumption
  <2> QED
    BY <2>1, <2>3, <1>2 DEF Inserting
<1>6. ASSUME NEW r \in Req, NEW t \in Token, Begin(r, t) PROVE Places'
  <2>1. PICK f \in Forms : /\ form'[t] = f
                           /\ pc' = [pc EXCEPT ![r] = FirstStep(f)]
                           /\ tok' = [tok EXCEPT ![r] = t]
                           /\ UNCHANGED certs
    BY <1>6, BeginsWith
  <2>2. /\ pc'[r] = FirstStep(f) /\ tok'[r] = t
        /\ \A q \in Req \ {r} : pc'[q] = pc[q] /\ tok'[q] = tok[q]
    BY <2>1, <1>0 DEF TypeOK
  <2>3. FirstStep(f) = "persist" => \A x \in Foreign : f.upload # x
    BY <2>1, FormFields, UploadFields, LifecycleAssumption DEF FirstStep
  <2>4. \A x \in Foreign : Inserting(x)' \subseteq Inserting(x)
    <3> SUFFICES ASSUME NEW x \in Foreign, NEW q \in Inserting(x)'
                 PROVE  q \in Inserting(x)
      OBVIOUS
    <3>1. q \in Req /\ q # r
      BY <2>1, <2>2, <2>3 DEF Inserting
    <3> QED
      BY <3>1, <2>2, <1>3
  <2> QED
    BY <2>1, <2>4, <1>2 DEF certs
<1>7. ASSUME NEW r \in Req, Finish(r), UNCHANGED fingerprint PROVE Places'
  <2>1. \A q \in Req : pc'[q] = "idle" \/ (pc'[q] = pc[q] /\ tok'[q] = tok[q])
    BY <1>7, <1>0 DEF Finish, TypeOK
  <2>2. \A x \in Foreign : Inserting(x)' \subseteq Inserting(x)
    <3> SUFFICES ASSUME NEW x \in Foreign, NEW q \in Inserting(x)'
                 PROVE  q \in Inserting(x)
      OBVIOUS
    <3>1. q \in Req /\ pc'[q] # "idle"
      BY DEF Inserting
    <3> QED
      BY <2>1, <3>1, <1>3
  <2> QED
    BY <1>7, <2>2, <1>2
<1>8. CASE Restart
  <2>1. \A x \in Foreign : Inserting(x)' \subseteq Inserting(x)
    BY <1>8 DEF Restart, Inserting
  <2> QED
    BY <1>8, <2>1, <1>2 DEF Restart, certs
<1>9. CASE UNCHANGED <<fingerprint, reqs, form>>
  <2>1. \A x \in Foreign : Inserting(x)' \subseteq Inserting(x)
    BY <1>9 DEF reqs, Inserting
  <2> QED
    BY <1>9, <2>1, <1>2
<1>10. \/ \E r \in Req : \/ Persist(r) \/ PersistRotation(r) \/ NotImported(r)
                         \/ CheckOld(r)
                         \/ Finish(r) /\ UNCHANGED fingerprint
                         \/ \E t \in Token : Begin(r, t)
       \/ Restart \/ UNCHANGED <<fingerprint, reqs, form>>
  BY DEF Next, Handler, Step, Replay, Render, Refused, Fail, Revoke, Age,
     Sweep, AlreadyImported, Redirect, vars, certs, reqs
<1> QED
  BY <1>1, <1>4, <1>5, <1>6, <1>7, <1>8, <1>9, <1>10

(* A root has no more rows than there are requests at a time, for any      *)
(* number of uploads of it, failures, lost marks, revocations and          *)
(* restarts: only imports that overlap add rows.                           *)
THEOREM ImportsAreBounded == Spec => []ImportsBounded
<1>1. Init => Places
  <2> SUFFICES ASSUME Init PROVE Places
    OBVIOUS
  <2>1. ASSUME NEW x \in Foreign PROVE RowsOf(x) = {} /\ Inserting(x) = {}
    BY LifecycleAssumption DEF Init, RowsOf, Inserting
  <2>2. \A c \in Cert : fingerprint[c] = None
    BY DEF Init
  <2>3. \A x \in Foreign :
          /\ IsFiniteSet(RowsOf(x))
          /\ Cardinality(RowsOf(x)) = 0 /\ Cardinality(Inserting(x)) = 0
    BY <2>1, FS_EmptySet
  <2> QED
    BY <2>2, <2>3, FiniteReq DEF Places
<1>2. Places => ImportsBounded
  <2> SUFFICES ASSUME Places, NEW x \in Foreign
               PROVE  Cardinality(RowsOf(x)) <= Cardinality(Req)
    BY DEF ImportsBounded, RowsOf
  <2>1. /\ Cardinality(RowsOf(x)) \in Nat
        /\ Cardinality(RowsOf(x)) + Cardinality(Inserting(x)) <= Cardinality(Req)
    BY FS_CardinalityType DEF Places
  <2> QED
    BY <2>1, FiniteReq
<1> QED
  BY Always, PlacesStep, <1>1, <1>2, PTL DEF Spec
=============================================================================
