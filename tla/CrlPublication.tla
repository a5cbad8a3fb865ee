--------------------------- MODULE CrlPublication ---------------------------
(***************************************************************************)
(* Revocation and the publication of revocation lists (CRLs).              *)
(*                                                                         *)
(* POST /certs/{id}/revoke marks a certificate and then regenerates its    *)
(* parent's CRL; the public GET /crl/{id}.crl regenerates a CRL that is    *)
(* past its nextUpdate.  A regeneration is four calls outside any          *)
(* transaction: load the issuer's key, list the revoked children, read the *)
(* next number and sign, insert the row.  Requests interleave at each of   *)
(* them, any of them may fail, the keystore may be locked and the process  *)
(* may stop in between.                                                    *)
(***************************************************************************)
EXTENDS Naturals, FiniteSets

CONSTANTS
  Req,        (* slots for requests in flight                              *)
  Cert,       (* certificates that may come to exist                       *)
  CA,         (* those with is_ca set                                      *)
  CanSign,    (* those whose key usage includes cRLSign                    *)
  Parent,     (* the issuer of each certificate, None for a root.  It may  *)
              (* be a leaf: POST /certs/new/leaf looks at no more than the *)
              (* issuer's key                                              *)
  None,       (* no certificate, no list                                   *)
  MaxNumber   (* bound on CRL numbers                                      *)

ASSUME CrlAssumption == /\ CanSign \subseteq CA
                        /\ CA \subseteq Cert
                        /\ Parent \in [Cert -> Cert \cup {None}]
                        /\ \A c \in CA \ CanSign : Parent[c] = None
                        /\ None \notin Cert
                        /\ MaxNumber \in Nat

Row == [issuer : CA, number : Nat, entries : SUBSET Cert]

VARIABLES
  (* SQLite database                                                       *)
  status,   (* the status column, "absent" before the row is inserted      *)
  crls,     (* the rows of the crls table                                  *)
  (* the clock                                                             *)
  expired,  (* certificates past not_after                                 *)
  past,     (* for each issuer, the last number that is past nextUpdate    *)
  (* process memory                                                        *)
  unlocked, (* the keystore holds the KEK                                  *)
  op, pc,   (* what each request is doing, and its next step               *)
  cert,     (* the certificate it revokes                                  *)
  iss,      (* the issuer whose CRL it regenerates                         *)
  stale,    (* the stale CRL a fetch falls back on                         *)
  list,     (* the revoked children it has read                            *)
  num,      (* the number it has read                                      *)
  (* history                                                               *)
  confirmed,  (* certificates whose revocation was answered with a         *)
              (* redirect by the request that made it.  A redirect from    *)
              (* another request, which found the certificate revoked      *)
              (* already, confirms nothing                                 *)
  sent      (* the CRL last sent to a client                               *)

dbVars  == <<status, crls>>
clock   == <<expired, past>>
reqVars == <<op, pc, cert, iss, stale, list, num>>
history == <<confirmed, sent>>
vars    == <<status, crls, expired, past, unlocked, op, pc, cert, iss, stale,
             list, num, confirmed, sent>>

Init ==
  /\ status = [c \in Cert |-> "absent"]
  /\ crls = {}
  /\ expired = {}
  /\ past = [i \in CA |-> 0]
  /\ unlocked = FALSE
  /\ op = [r \in Req |-> "none"]
  /\ pc = [r \in Req |-> "idle"]
  /\ cert = [r \in Req |-> None]
  /\ iss = [r \in Req |-> None]
  /\ stale = [r \in Req |-> None]
  /\ list = [r \in Req |-> {}]
  /\ num = [r \in Req |-> 0]
  /\ confirmed = {}
  /\ sent = None

-----------------------------------------------------------------------------
(* Queries on the crls and certificates tables.                            *)
Numbers(i) == {x.number : x \in {y \in crls : y.issuer = i}}

(* MAX(crl_number), 0 when the issuer has no row.                          *)
Last(i) == CHOOSE n \in Numbers(i) \cup {0} : \A m \in Numbers(i) : m <= n

Latest(i) == {x \in crls : x.issuer = i /\ x.number = Last(i)}

StaleNever(i) == past[i] > Last(i)

Stale(i) == past[i] >= Last(i)

RevokedChildren(i) ==
  {c \in Cert : Parent[c] = i /\ status[c] = "revoked" /\ c \notin expired}

-----------------------------------------------------------------------------
(* The life of a request.                                                  *)
Goto(r, step) ==
  /\ pc' = [pc EXCEPT ![r] = step]
  /\ UNCHANGED op

FinishLeaky(r) ==
  /\ op' = [op EXCEPT ![r] = "none"]
  /\ pc' = [pc EXCEPT ![r] = "idle"]
  /\ cert' = [cert EXCEPT ![r] = None]
  /\ iss' = [iss EXCEPT ![r] = None]
  /\ stale' = [stale EXCEPT ![r] = None]
  /\ UNCHANGED <<list, num>>

Finish(r) ==
  /\ op' = [op EXCEPT ![r] = "none"]
  /\ pc' = [pc EXCEPT ![r] = "idle"]
  /\ cert' = [cert EXCEPT ![r] = None]
  /\ iss' = [iss EXCEPT ![r] = None]
  /\ stale' = [stale EXCEPT ![r] = None]
  /\ list' = [list EXCEPT ![r] = {}]
  /\ num' = [num EXCEPT ![r] = 0]

Signed(r) == [issuer |-> iss[r], number |-> num[r], entries |-> list[r]]

-----------------------------------------------------------------------------
(* POST /certs/{id}/revoke.                                                *)
RevokeBegin(r) ==
  /\ pc[r] = "idle"
  /\ unlocked
  /\ \E c \in Cert : /\ status[c] \in {"active", "superseded"}
                     /\ cert' = [cert EXCEPT ![r] = c]
  /\ op' = [op EXCEPT ![r] = "revoke"]
  /\ pc' = [pc EXCEPT ![r] = "mark"]
  /\ UNCHANGED <<dbVars, clock, unlocked, iss, stale, list, num, history>>

(* A certificate that is revoked already is answered with the redirect at  *)
(* once, also when the request that marked it is still at work or has      *)
(* failed and no CRL names the certificate.                                *)
RevokeAgain(r) ==
  /\ pc[r] = "idle"
  /\ unlocked
  /\ \E c \in Cert : status[c] = "revoked"
  /\ UNCHANGED vars

(* store.MarkRevoked commits on its own.  No row updated means another     *)
(* request was first: the answer is again the redirect, without a CRL.  A  *)
(* root has no parent whose CRL could name it.                             *)
Mark(r) ==
  LET c == cert[r] IN
  /\ pc[r] = "mark"
  /\ status' = [status EXCEPT ![c] = "revoked"]
  /\ IF status[c] = "revoked" \/ Parent[c] = None
       THEN /\ Finish(r)
            /\ confirmed' = IF status[c] = "revoked"
                              THEN confirmed ELSE confirmed \cup {c}
       ELSE /\ iss' = [iss EXCEPT ![r] = Parent[c]]
            /\ Goto(r, "load")
            /\ UNCHANGED <<cert, stale, list, num, confirmed>>
  /\ UNCHANGED <<crls, clock, unlocked, sent>>

-----------------------------------------------------------------------------
(* GET /crl/{id}.crl, public: the latest row is served as it is while it   *)
(* is fresh, or when it is stale and the keystore is locked.               *)
FetchServed(r, i) ==
  /\ pc[r] = "idle"
  /\ ~Stale(i) \/ ~unlocked
  /\ sent' \in Latest(i)
  /\ UNCHANGED <<dbVars, clock, unlocked, reqVars, confirmed>>

FetchStale(r, i) ==
  /\ pc[r] = "idle"
  /\ Stale(i) /\ unlocked
  /\ \E x \in Latest(i) : stale' = [stale EXCEPT ![r] = x]
  /\ iss' = [iss EXCEPT ![r] = i]
  /\ op' = [op EXCEPT ![r] = "fetch"]
  /\ pc' = [pc EXCEPT ![r] = "load"]
  /\ UNCHANGED <<dbVars, clock, unlocked, cert, list, num, history>>

(* GET /crl/{id}/{number}.crl, public: one stored row, the latest or an    *)
(* earlier one, whatever the keystore's state.                             *)
FetchNumbered(r) ==
  /\ pc[r] = "idle"
  /\ sent' \in crls
  /\ UNCHANGED <<dbVars, clock, unlocked, reqVars, confirmed>>

-----------------------------------------------------------------------------
(* regenerateCRL.                                                          *)
LoadSigner(r) ==
  /\ pc[r] = "load"
  /\ unlocked
  /\ iss[r] \in CanSign
  /\ Goto(r, "list")
  /\ UNCHANGED <<dbVars, clock, unlocked, cert, iss, stale, list, num, history>>

(* ErrIssuerCannotSignCRL: the revocation counts as done all the same.     *)
CannotSign(r) ==
  /\ pc[r] = "load"
  /\ unlocked
  /\ iss[r] \notin CanSign
  /\ confirmed' = IF op[r] = "revoke" THEN confirmed \cup {cert[r]} ELSE confirmed
  /\ sent' = IF op[r] = "fetch" THEN stale[r] ELSE sent
  /\ Finish(r)
  /\ UNCHANGED <<dbVars, clock, unlocked>>

ListRevoked(r) ==
  /\ pc[r] = "list"
  /\ list' = [list EXCEPT ![r] = RevokedChildren(iss[r])]
  /\ Goto(r, "number")
  /\ UNCHANGED <<dbVars, clock, unlocked, cert, iss, stale, num, history>>

NextNumber(r) ==
  /\ pc[r] = "number"
  /\ Last(iss[r]) < MaxNumber
  /\ num' = [num EXCEPT ![r] = Last(iss[r]) + 1]
  /\ Goto(r, "insert")
  /\ UNCHANGED <<dbVars, clock, unlocked, cert, iss, stale, list, history>>

(* The primary key (issuer_cert_id, crl_number) refuses a number taken     *)
(* since it was read.                                                      *)
Insert(r) ==
  /\ pc[r] = "insert"
  /\ num[r] \notin Numbers(iss[r])
  /\ crls' = crls \cup {Signed(r)}
  /\ confirmed' = IF op[r] = "revoke" THEN confirmed \cup {cert[r]} ELSE confirmed
  /\ sent' = IF op[r] = "fetch" THEN Signed(r) ELSE sent
  /\ Finish(r)
  /\ UNCHANGED <<status, clock, unlocked>>

FailQuiet(r) ==
  /\ pc[r] # "idle"
  /\ confirmed' = IF op[r] = "revoke" THEN confirmed \cup {cert[r]} ELSE confirmed
  /\ sent' = IF op[r] = "fetch" THEN stale[r] ELSE sent
  /\ Finish(r)
  /\ UNCHANGED <<dbVars, clock, unlocked>>

FailServing(r) ==
  /\ pc[r] # "idle"
  /\ sent' = IF op[r] = "fetch" /\ pc[r] = "insert" THEN Signed(r) ELSE sent
  /\ Finish(r)
  /\ UNCHANGED <<dbVars, clock, unlocked, confirmed>>

(* A step fails: the keystore was locked, the number was taken, a          *)
(* statement was refused.  A revocation answers 500 and leaves the mark; a *)
(* fetch serves the stale row it holds.                                    *)
Fail(r) ==
  /\ pc[r] # "idle"
  /\ sent' = IF op[r] = "fetch" THEN stale[r] ELSE sent
  /\ Finish(r)
  /\ UNCHANGED <<dbVars, clock, unlocked, confirmed>>

-----------------------------------------------------------------------------
(* Issuance, import and rotation each commit in one transaction; a CA able *)
(* to sign starts with an empty CRL number 1.                              *)
FirstCRL(c) == IF c \in CanSign
                 THEN {[issuer |-> c, number |-> 1, entries |-> {}]}
                 ELSE {}

Issue(c) ==
  /\ status[c] = "absent"
  /\ Parent[c] # None => status[Parent[c]] # "absent"
  /\ status' = [status EXCEPT ![c] = "active"]
  /\ crls' = crls \cup FirstCRL(c)
  /\ UNCHANGED <<clock, unlocked, reqVars, history>>

RotateAny(old, new) ==
  /\ status[new] = "absent" /\ status[old] # "absent"
  /\ Parent[new] = Parent[old]
  /\ IF old \in CA THEN new \in CanSign ELSE new \notin CA
  /\ status' = [status EXCEPT ![new] = "active", ![old] = "superseded"]
  /\ crls' = crls \cup FirstCRL(new)
  /\ UNCHANGED <<clock, unlocked, reqVars, history>>

(* The transaction rolls back unless the old row is still active.  A       *)
(* replacement CA is minted here, so it can sign.                          *)
Rotate(old, new) ==
  /\ status[new] = "absent" /\ status[old] = "active"
  /\ Parent[new] = Parent[old]
  /\ IF old \in CA THEN new \in CanSign ELSE new \notin CA
  /\ status' = [status EXCEPT ![new] = "active", ![old] = "superseded"]
  /\ crls' = crls \cup FirstCRL(new)
  /\ UNCHANGED <<clock, unlocked, reqVars, history>>

-----------------------------------------------------------------------------
(* The environment: the operator locks and unlocks, time passes, the       *)
(* process stops and starts.                                               *)
Unlock ==
  /\ ~unlocked
  /\ unlocked' = TRUE
  /\ UNCHANGED <<dbVars, clock, reqVars, history>>

Lock ==
  /\ unlocked
  /\ unlocked' = FALSE
  /\ UNCHANGED <<dbVars, clock, reqVars, history>>

(* Only the expiry of a child is looked at.                                *)
ExpireCert(c) ==
  /\ status[c] # "absent" /\ c \notin expired
  /\ Parent[c] # None
  /\ expired' = expired \cup {c}
  /\ UNCHANGED <<dbVars, past, unlocked, reqVars, history>>

PassNextUpdate(i) ==
  /\ past[i] < Last(i)
  /\ past' = [past EXCEPT ![i] = Last(i)]
  /\ UNCHANGED <<dbVars, expired, unlocked, reqVars, history>>

Restart ==
  /\ unlocked' = FALSE
  /\ op' = [r \in Req |-> "none"]
  /\ pc' = [r \in Req |-> "idle"]
  /\ cert' = [r \in Req |-> None]
  /\ iss' = [r \in Req |-> None]
  /\ stale' = [r \in Req |-> None]
  /\ list' = [r \in Req |-> {}]
  /\ num' = [r \in Req |-> 0]
  /\ UNCHANGED <<dbVars, clock, history>>

-----------------------------------------------------------------------------
Regenerate(r) ==
  LoadSigner(r) \/ CannotSign(r) \/ ListRevoked(r) \/ NextNumber(r) \/ Insert(r)

Handler(r) ==
  \/ RevokeBegin(r) \/ RevokeAgain(r) \/ Mark(r)
  \/ \E i \in CA : FetchServed(r, i) \/ FetchStale(r, i)
  \/ FetchNumbered(r)
  \/ Regenerate(r)
  \/ Fail(r)

Environment ==
  \/ Unlock \/ Lock \/ Restart
  \/ \E c \in Cert : Issue(c) \/ ExpireCert(c)
  \/ \E old, new \in Cert : Rotate(old, new)
  \/ \E i \in CA : PassNextUpdate(i)

Next == (\E r \in Req : Handler(r)) \/ Environment

Spec == Init /\ [][Next]_vars

(* A request in flight goes on; a step that could succeed again and again  *)
(* does not fail for ever.  Of the environment: clients go on asking for   *)
(* each CRL, the week of its validity passes, the operator unlocks again.  *)
Fairness ==
  /\ \A r \in Req : /\ WF_vars(Mark(r) \/ Regenerate(r) \/ Fail(r))
                    /\ SF_vars(LoadSigner(r))
                    /\ SF_vars(ListRevoked(r))
                    /\ SF_vars(NextNumber(r))
                    /\ SF_vars(Insert(r))
  /\ \A i \in CA : /\ SF_vars(\E r \in Req : FetchStale(r, i))
                   /\ WF_vars(PassNextUpdate(i))
  /\ WF_vars(Unlock)

FairSpec == Spec /\ Fairness

-----------------------------------------------------------------------------
(* Type invariant: among the types, a request that has returned holds      *)
(* nothing.                                                                *)
TypeOK ==
  /\ status \in [Cert -> {"absent", "active", "superseded", "revoked"}]
  /\ crls \subseteq Row
  /\ expired \subseteq Cert
  /\ past \in [CA -> Nat]
  /\ unlocked \in BOOLEAN
  /\ op \in [Req -> {"none", "revoke", "fetch"}]
  /\ pc \in [Req -> {"idle", "mark", "load", "list", "number", "insert"}]
  /\ cert \in [Req -> Cert \cup {None}]
  /\ iss \in [Req -> Cert \cup {None}]
  /\ stale \in [Req -> Row \cup {None}]
  /\ list \in [Req -> SUBSET Cert]
  /\ num \in [Req -> Nat]
  /\ confirmed \subseteq Cert
  /\ sent \in Row \cup {None}
  /\ \A r \in Req : pc[r] = "idle" => cert[r] = None /\ list[r] = {} /\ num[r] = 0

(* A CRL that reached a client is in the database, where GET               *)
(* /crl/{id}/{number}.crl finds it and no later CRL takes its number:      *)
(* handleCRL serves the fresh list only once InsertCRL has committed.      *)
SentIsStored == sent \in crls \cup {None}

(* A revocation confirmed by the request that made it is named in a CRL of *)
(* the certificate's issuer, unless the certificate expired first or the   *)
(* issuer cannot sign CRLs.  Of the redirect that answers a resubmission   *)
(* (RevokeAgain) this is not so.                                           *)
ConfirmedIsListed ==
  \A c \in confirmed : Parent[c] \in CanSign =>
    \/ c \in expired
    \/ \E x \in crls : x.issuer = Parent[c] /\ c \in x.entries

(* ... and it stays named: clients fetch the latest list only.             *)
ConfirmedInLatest ==
  \A c \in confirmed : Parent[c] \in CanSign =>
    \/ c \in expired
    \/ \E x \in Latest(Parent[c]) : c \in x.entries

(* Every issuer's numbers are 1, 2, ..., Last without a gap; no two rows    *)
(* share one.  NextCRLNumber and the primary key together see to it.       *)
Contiguous ==
  /\ \A i \in CA : Last(i) \in Nat /\ Numbers(i) = 1..Last(i)
  /\ \A x, y \in crls : x.issuer = y.issuer /\ x.number = y.number => x = y

(* Issuers come before what they issue and before their CRLs.              *)
IssuersExist ==
  /\ \A c \in Cert : status[c] # "absent" /\ Parent[c] # None
                        => status[Parent[c]] # "absent"
  /\ \A x \in crls : status[x.issuer] # "absent"

(* What a request holds at each step: above all, whatever it lists is      *)
(* revoked, and the number it has read is not beyond the next one.         *)
Holds(r) ==
  /\ pc[r] = "mark" => op[r] = "revoke" /\ status[cert[r]] # "absent"
  /\ pc[r] \notin {"idle", "mark"} =>
       /\ op[r] \in {"revoke", "fetch"}
       /\ iss[r] # None /\ status[iss[r]] # "absent"
  /\ pc[r] \in {"list", "number", "insert"} => iss[r] \in CanSign
  /\ op[r] = "none" => pc[r] = "idle"
  /\ op[r] = "revoke" => cert[r] # None
  /\ op[r] = "revoke" /\ pc[r] # "mark" =>
       status[cert[r]] = "revoked" /\ Parent[cert[r]] = iss[r]
  /\ op[r] = "fetch" => stale[r] \in crls
  /\ pc[r] \notin {"number", "insert"} => list[r] = {}
  /\ \A c \in list[r] : Parent[c] = iss[r] /\ status[c] = "revoked"
  /\ op[r] = "revoke" /\ pc[r] \in {"number", "insert"} =>
       cert[r] \in list[r] \cup expired
  /\ \A i \in CA : pc[r] = "insert" /\ iss[r] = i => num[r] \in 1..(Last(i) + 1)

RequestsHold == \A r \in Req : Holds(r)

ConfirmedIsRevoked == \A c \in confirmed : status[c] = "revoked"

(* The inductive strengthening of SentIsStored and ConfirmedIsListed, and  *)
(* what the refinement of CrlLog rests on.                                 *)
CrlInv ==
  /\ Contiguous
  /\ IssuersExist
  /\ RequestsHold
  /\ SentIsStored
  /\ ConfirmedIsRevoked
  /\ ConfirmedIsListed

(* No regeneration publishes while another one of the same CA is between   *)
(* its two reads, the list and the number.  Nothing in the code sees to    *)
(* it; it is what ConfirmedInLatest needs.                                 *)
NoOvertake ==
  \A q, r \in Req : pc[q] = "number" /\ pc[r] = "insert" => iss[q] # iss[r]

(* A request whose list can still be published knows every confirmed       *)
(* revocation.  One whose number was taken meanwhile need not: the primary *)
(* key will refuse it.                                                     *)
ListsConfirmed ==
  \A r \in Req, i \in CanSign :
    (/\ iss[r] = i
     /\ \/ pc[r] = "number"
        \/ pc[r] = "insert" /\ num[r] = Last(i) + 1)
      => \A c \in confirmed : Parent[c] = i => c \in list[r] \cup expired

Listed(c) == \E x \in Latest(Parent[c]) : c \in x.entries

(* A certificate marked revoked, even by a request that then failed or was *)
(* lost in a crash, is listed in the end (or expires), by the refresh of a *)
(* stale CRL if not at once.  The bound on numbers leaves room for it.     *)
EventuallyListed ==
  \A c \in Cert :
    (/\ status[c] = "revoked"
     /\ Parent[c] \in CanSign
     /\ Last(Parent[c]) < MaxNumber) ~> (Listed(c) \/ c \in expired)

(* The abstract log of revocation lists this implements.                   *)
Log == INSTANCE CrlLog WITH revoked <- {c \in Cert : status[c] = "revoked"},
                            log     <- crls,
                            top     <- [i \in CA |-> Last(i)]

LogSpec == Log!Spec
=============================================================================
