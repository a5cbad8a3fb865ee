------------------------ MODULE CrlPublicationProofs ------------------------
(***************************************************************************)
(* Proofs about CrlPublication, for any number of certificates, issuers    *)
(* and concurrent requests: CRLs that were sent are stored, confirmed      *)
(* revocations are listed, the module implements CrlLog; and, unless one   *)
(* regeneration overtakes another between its two reads, confirmed         *)
(* revocations stay listed.                                                *)
(***************************************************************************)
EXTENDS CrlPublication, TLAPS

IInv == TypeOK /\ CrlInv

-----------------------------------------------------------------------------
(* Rows and numbers.                                                       *)

(* The query MAX(crl_number) over numbers without a gap.                   *)
LEMMA MaxOf ==
  ASSUME NEW S, NEW k \in Nat, S = 1..k
  PROVE  (CHOOSE n \in S \cup {0} : \A m \in S : m <= n) = k
<1>1. k \in S \cup {0} /\ \A m \in S : m <= k
  OBVIOUS
<1>2. \A n \in S \cup {0} : (\A m \in S : m <= n) => n = k
  <2>1. ASSUME k = 0 PROVE S = {}
    BY <2>1
  <2>2. ASSUME k # 0 PROVE k \in S
    BY <2>2
  <2> QED
    BY <2>1, <2>2
<1> QED
  BY <1>1, <1>2

LEMMA SameRows ==
  ASSUME crls' = crls
  PROVE  /\ \A i : Numbers(i)' = Numbers(i) /\ Last(i)' = Last(i)
                   /\ Latest(i)' = Latest(i)
         /\ Contiguous => Contiguous'
<1>1. \A i : Numbers(i)' = Numbers(i)
  BY DEF Numbers
<1>2. \A i : Last(i)' = Last(i)
  BY <1>1 DEF Last
<1>3. \A i : Latest(i)' = Latest(i)
  BY <1>2 DEF Latest
<1> QED
  BY <1>1, <1>2, <1>3 DEF Contiguous

(* A row with the next number becomes its issuer's latest.                 *)
LEMMA NextRow ==
  ASSUME Contiguous, crls \subseteq Row,
         NEW i \in CA, NEW es,
         crls' = crls \cup {[issuer |-> i, number |-> Last(i) + 1, entries |-> es]}
  PROVE  /\ Contiguous'
         /\ Last(i)' = Last(i) + 1
         /\ \A j \in CA \ {i} : Last(j)' = Last(j) /\ Latest(j)' = Latest(j)
         /\ [issuer |-> i, number |-> Last(i) + 1, entries |-> es] \in Latest(i)'
<1> DEFINE new == [issuer |-> i, number |-> Last(i) + 1, entries |-> es]
<1>1. Last(i) \in Nat /\ Numbers(i) = 1..Last(i)
  BY DEF Contiguous
<1>2. Numbers(i)' = Numbers(i) \cup {Last(i) + 1}
  <2>1. new.issuer = i /\ new.number = Last(i) + 1
    OBVIOUS
  <2>2. crls' = crls \cup {new}
    OBVIOUS
  <2> HIDE DEF new
  <2> QED
    BY <2>1, <2>2 DEF Numbers
<1>3. Numbers(i)' = 1..(Last(i) + 1)
  BY <1>1, <1>2
<1>4. Last(i)' = Last(i) + 1
  <2> DEFINE S == Numbers(i)'
             k == Last(i) + 1
  <2>1. k \in Nat /\ S = 1..k
    BY <1>1, <1>3
  <2>2. Last(i)' = CHOOSE n \in S \cup {0} : \A m \in S : m <= n
    BY DEF Last
  <2> HIDE DEF S, k
  <2>3. (CHOOSE n \in S \cup {0} : \A m \in S : m <= n) = k
    BY <2>1, MaxOf
  <2> QED
    BY <2>2, <2>3 DEF k
<1>5. \A j \in CA \ {i} : Numbers(j)' = Numbers(j)
  <2>1. new.issuer = i /\ crls' = crls \cup {new}
    OBVIOUS
  <2> HIDE DEF new
  <2> QED
    BY <2>1 DEF Numbers
<1>6. \A j \in CA \ {i} : Last(j)' = Last(j)
  BY <1>5 DEF Last
<1>7. \A j \in CA \ {i} : Latest(j)' = Latest(j)
  BY <1>6 DEF Latest
<1>8. new \in Latest(i)'
  BY <1>4 DEF Latest
<1>9. \A x \in crls : x.issuer = i => x.number # Last(i) + 1
  <2>1. \A x \in crls : x.issuer = i => x.number \in Numbers(i)
    BY DEF Numbers
  <2> QED
    BY <1>1, <2>1
<1>10. \A x, y \in crls' : x.issuer = y.issuer /\ x.number = y.number => x = y
  BY <1>9 DEF Contiguous
<1>11. \A j \in CA : Last(j)' \in Nat /\ Numbers(j)' = 1..Last(j)'
  BY <1>1, <1>3, <1>4, <1>5, <1>6 DEF Contiguous
<1> QED
  BY <1>4, <1>6, <1>7, <1>8, <1>10, <1>11 DEF Contiguous

-----------------------------------------------------------------------------
(* Types.                                                                  *)
LEMMA FinishTyped ==
  ASSUME TypeOK, NEW r \in Req, Finish(r)
  PROVE  /\ op' \in [Req -> {"none", "revoke", "fetch"}]
         /\ pc' \in [Req -> {"idle", "mark", "load", "list", "number", "insert"}]
         /\ cert' \in [Req -> Cert \cup {None}]
         /\ iss' \in [Req -> Cert \cup {None}]
         /\ stale' \in [Req -> Row \cup {None}]
         /\ list' \in [Req -> SUBSET Cert]
         /\ num' \in [Req -> Nat]
         /\ \A q \in Req : pc'[q] = "idle" =>
              cert'[q] = None /\ list'[q] = {} /\ num'[q] = 0
  BY DEF TypeOK, Finish

LEMMA FirstCRLTyped == ASSUME NEW c \in Cert PROVE FirstCRL(c) \subseteq Row
  BY CrlAssumption DEF FirstCRL, Row

(* What a request at its last step has signed is a row.                    *)
LEMMA SignedTyped ==
  ASSUME IInv, NEW r \in Req, pc[r] = "insert"
  PROVE  /\ iss[r] \in CA
         /\ Signed(r) \in Row
<1>1. iss[r] \in CA
  BY CrlAssumption DEF IInv, CrlInv, RequestsHold, Holds
<1> QED
  BY <1>1 DEF IInv, TypeOK, Signed, Row

LEMMA TypedStep == IInv /\ [Next]_vars => TypeOK'
<1> SUFFICES ASSUME IInv, [Next]_vars PROVE TypeOK'
  OBVIOUS
<1> USE DEF dbVars, clock, reqVars, history
<1>0. TypeOK
  BY DEF IInv
<1>1. ASSUME NEW r \in Req, RevokeBegin(r) PROVE TypeOK'
  BY <1>0, <1>1 DEF TypeOK, RevokeBegin
<1>2. ASSUME NEW r \in Req, Mark(r) PROVE TypeOK'
  <2>1. cert[r] \in Cert
    BY <1>2, <1>0 DEF Mark, IInv, CrlInv, RequestsHold, Holds, TypeOK
  <2>2. CASE status[cert[r]] = "revoked" \/ Parent[cert[r]] = None
    BY <1>2, <1>0, <2>1, <2>2, FinishTyped DEF Mark, TypeOK
  <2>3. CASE ~(status[cert[r]] = "revoked" \/ Parent[cert[r]] = None)
    BY <1>2, <1>0, <2>1, <2>3, CrlAssumption DEF Mark, TypeOK, Goto
  <2> QED
    BY <2>2, <2>3
<1>3. ASSUME NEW r \in Req, NEW i \in CA, FetchServed(r, i) PROVE TypeOK'
  BY <1>0, <1>3 DEF TypeOK, FetchServed, Latest
<1>4. ASSUME NEW r \in Req, NEW i \in CA, FetchStale(r, i) PROVE TypeOK'
  BY <1>0, <1>4, CrlAssumption DEF TypeOK, FetchStale, Latest
<1>5. ASSUME NEW r \in Req, LoadSigner(r) PROVE TypeOK'
  BY <1>0, <1>5 DEF TypeOK, LoadSigner, Goto
<1>6. ASSUME NEW r \in Req, CannotSign(r) PROVE TypeOK'
  <2>1. op[r] = "revoke" => cert[r] \in Cert
    BY <1>6, <1>0 DEF IInv, CrlInv, RequestsHold, Holds, TypeOK
  <2> QED
    BY <1>6, <1>0, <2>1, FinishTyped DEF CannotSign, TypeOK
<1>7. ASSUME NEW r \in Req, ListRevoked(r) PROVE TypeOK'
  BY <1>0, <1>7 DEF TypeOK, ListRevoked, RevokedChildren, Goto
<1>8. ASSUME NEW r \in Req, NextNumber(r) PROVE TypeOK'
  <2>1. iss[r] \in CA
    BY <1>8, CrlAssumption DEF NextNumber, IInv, CrlInv, RequestsHold, Holds
  <2>2. Last(iss[r]) + 1 \in Nat
    BY <2>1 DEF IInv, CrlInv, Contiguous
  <2> QED
    BY <1>0, <1>8, <2>2 DEF TypeOK, NextNumber, Goto
<1>9. ASSUME NEW r \in Req, Insert(r) PROVE TypeOK'
  <2>1. Signed(r) \in Row
    BY <1>9, SignedTyped DEF Insert
  <2>2. op[r] = "revoke" => cert[r] \in Cert
    BY <1>9, <1>0 DEF IInv, CrlInv, RequestsHold, Holds, TypeOK
  <2>3. crls' \subseteq Row /\ confirmed' \subseteq Cert /\ sent' \in Row \cup {None}
    BY <1>9, <1>0, <2>1, <2>2 DEF Insert, TypeOK
  <2> QED
    BY <1>9, <1>0, <2>3, FinishTyped DEF Insert, TypeOK
<1>10. ASSUME NEW r \in Req, Fail(r) PROVE TypeOK'
  <2>1. sent' \in Row \cup {None}
    BY <1>10, <1>0 DEF Fail, TypeOK
  <2> QED
    BY <1>10, <1>0, <2>1, FinishTyped DEF Fail, TypeOK
<1>11. ASSUME NEW c \in Cert, Issue(c) PROVE TypeOK'
  BY <1>0, <1>11, FirstCRLTyped DEF TypeOK, Issue
<1>12. ASSUME NEW old \in Cert, NEW new \in Cert, Rotate(old, new) PROVE TypeOK'
  BY <1>0, <1>12, FirstCRLTyped DEF TypeOK, Rotate
<1>13. CASE Unlock \/ Lock
  BY <1>0, <1>13 DEF TypeOK, Unlock, Lock
<1>14. ASSUME NEW c \in Cert, ExpireCert(c) PROVE TypeOK'
  BY <1>0, <1>14 DEF TypeOK, ExpireCert
<1>15. ASSUME NEW i \in CA, PassNextUpdate(i) PROVE TypeOK'
  <2>1. Last(i) \in Nat
    BY DEF IInv, CrlInv, Contiguous
  <2> QED
    BY <1>0, <1>15, <2>1 DEF TypeOK, PassNextUpdate
<1>16. CASE Restart
  BY <1>0, <1>16 DEF TypeOK, Restart
<1>17. CASE UNCHANGED vars \/ \E r \in Req : RevokeAgain(r)
  BY <1>0, <1>17 DEF TypeOK, RevokeAgain, vars
<1>18. ASSUME NEW r \in Req, FetchNumbered(r) PROVE TypeOK'
  BY <1>0, <1>18 DEF TypeOK, FetchNumbered
<1> QED
  BY <1>1, <1>2, <1>3, <1>4, <1>5, <1>6, <1>7, <1>8, <1>9, <1>10, <1>11,
     <1>12, <1>13, <1>14, <1>15, <1>16, <1>17, <1>18
  DEF Next, Handler, Regenerate, Environment

-----------------------------------------------------------------------------
(* The invariant.  A step leaves most requests where they are (Kept) and   *)
(* only adds to the database and to time (Grown); some requests return     *)
(* (Returned).                                                             *)
Kept(r) ==
  /\ op'[r] = op[r] /\ pc'[r] = pc[r] /\ cert'[r] = cert[r]
  /\ iss'[r] = iss[r] /\ stale'[r] = stale[r]
  /\ list'[r] = list[r] /\ num'[r] = num[r]

Returned(r) == op'[r] = "none" /\ pc'[r] = "idle" /\ list'[r] = {}

Grown ==
  /\ crls \subseteq crls' /\ expired \subseteq expired'
  /\ \A c \in Cert : status[c] # "absent" => status'[c] # "absent"
  /\ \A c \in Cert : status[c] = "revoked" => status'[c] = "revoked"
  /\ \A i \in CA : Last(i) \in Nat /\ Last(i)' \in Nat /\ Last(i) <= Last(i)'

LEMMA KeptHolds ==
  ASSUME IInv, Grown, NEW r \in Req, Kept(r)
  PROVE  Holds(r)'
<1>1. Holds(r) /\ TypeOK
  BY DEF IInv, CrlInv, RequestsHold
<1>2. /\ cert[r] \in Cert \cup {None} /\ iss[r] \in Cert \cup {None}
      /\ list[r] \subseteq Cert /\ num[r] \in Nat
      /\ CA \subseteq Cert
  BY <1>1, CrlAssumption DEF TypeOK
<1>3. (pc[r] = "mark" => op[r] = "revoke" /\ status[cert[r]] # "absent")'
  BY <1>1, <1>2 DEF Holds, Kept, Grown
<1>4. (pc[r] \notin {"idle", "mark"} =>
         /\ op[r] \in {"revoke", "fetch"}
         /\ iss[r] # None /\ status[iss[r]] # "absent")'
  BY <1>1, <1>2 DEF Holds, Kept, Grown
<1>5. (/\ pc[r] \in {"list", "number", "insert"} => iss[r] \in CanSign
       /\ op[r] = "none" => pc[r] = "idle"
       /\ op[r] = "revoke" => cert[r] # None
       /\ pc[r] \notin {"number", "insert"} => list[r] = {}
       /\ op[r] = "fetch" => stale[r] \in crls)'
  BY <1>1, <1>2 DEF Holds, Kept, Grown
<1>6. (op[r] = "revoke" /\ pc[r] # "mark" =>
         status[cert[r]] = "revoked" /\ Parent[cert[r]] = iss[r])'
  BY <1>1, <1>2 DEF Holds, Kept, Grown
<1>7. (\A c \in list[r] : Parent[c] = iss[r] /\ status[c] = "revoked")'
  BY <1>1, <1>2 DEF Holds, Kept, Grown
<1>8. (op[r] = "revoke" /\ pc[r] \in {"number", "insert"} =>
         cert[r] \in list[r] \cup expired)'
  BY <1>1, <1>2 DEF Holds, Kept, Grown
<1>9. \A i \in CA : (pc[r] = "insert" /\ iss[r] = i => num[r] \in 1..(Last(i) + 1))'
  <2> SUFFICES ASSUME NEW i \in CA, pc[r] = "insert", iss[r] = i
               PROVE  num[r] \in 1..(Last(i)' + 1)
    BY DEF Kept
  <2>1. num[r] \in 1..(Last(i) + 1)
    BY <1>1 DEF Holds
  <2> QED
    BY <2>1 DEF Grown
<1> QED
  BY <1>3, <1>4, <1>5, <1>6, <1>7, <1>8, <1>9 DEF Holds

LEMMA ReturnedHolds ==
  ASSUME NEW r \in Req, Returned(r)
  PROVE  Holds(r)'
  BY DEF Returned, Holds

(* Finish returns one request and keeps the others.                        *)
LEMMA FinishHolds ==
  ASSUME IInv, Grown, NEW r \in Req, Finish(r)
  PROVE  RequestsHold'
<1>1. Returned(r) /\ \A q \in Req \ {r} : Kept(q)
  BY DEF IInv, TypeOK, Finish, Returned, Kept
<1> QED
  BY <1>1, KeptHolds, ReturnedHolds DEF RequestsHold

LEMMA ConfirmedKept ==
  ASSUME IInv, Grown, confirmed' = confirmed
  PROVE  ConfirmedIsRevoked' /\ ConfirmedIsListed'
  BY DEF IInv, CrlInv, TypeOK, ConfirmedIsRevoked, ConfirmedIsListed, Grown

(* Steps that leave the database alone only let time pass.                 *)
LEMMA StillGrown ==
  ASSUME IInv, UNCHANGED dbVars, expired \subseteq expired'
  PROVE  Grown /\ Contiguous' /\ IssuersExist'
<1>1. Contiguous' /\ \A i : Last(i)' = Last(i)
  BY SameRows DEF dbVars, IInv, CrlInv
<1>2. \A i \in CA : Last(i) \in Nat
  BY DEF IInv, CrlInv, Contiguous
<1> QED
  BY <1>1, <1>2 DEF Grown, dbVars, IInv, CrlInv, IssuersExist

(* Issuing a certificate: a CA that can sign gets its row number 1.        *)
LEMMA IssueGrows ==
  ASSUME IInv, NEW c \in Cert, status[c] = "absent",
         Parent[c] # None => status[Parent[c]] # "absent",
         crls' = crls \cup FirstCRL(c), expired' = expired,
         status'[c] = "active",
         \A d \in Cert \ {c} : \/ status'[d] = status[d]
                               \/ status[d] = "active" /\ status'[d] = "superseded"
  PROVE  Grown /\ Contiguous' /\ IssuersExist'
<1>1. \A i \in CA : Last(i) \in Nat /\ Numbers(i) = 1..Last(i)
  BY DEF IInv, CrlInv, Contiguous
<1>2. c \in CA => Last(c) = 0
  <2> SUFFICES ASSUME c \in CA, Last(c) # 0 PROVE FALSE
    OBVIOUS
  <2>1. 1 \in Numbers(c)
    BY <1>1
  <2>2. PICK x \in crls : x.issuer = c
    BY <2>1 DEF Numbers
  <2> QED
    BY <2>2 DEF IInv, CrlInv, IssuersExist
<1>3. Contiguous' /\ \A i \in CA : Last(i)' \in Nat /\ Last(i) <= Last(i)'
  <2>1. CASE c \in CanSign
    <3>1. c \in CA /\ crls' = crls \cup
            {[issuer |-> c, number |-> Last(c) + 1, entries |-> {}]}
      BY <2>1, <1>2, CrlAssumption DEF FirstCRL
    <3>2. /\ Contiguous'
          /\ Last(c)' = Last(c) + 1
          /\ \A j \in CA \ {c} : Last(j)' = Last(j)
      BY <3>1, NextRow DEF IInv, CrlInv, TypeOK
    <3> QED
      BY <3>1, <3>2, <1>1
  <2>2. CASE c \notin CanSign
    <3>1. crls' = crls
      BY <2>2 DEF FirstCRL
    <3>2. Contiguous' /\ \A i : Last(i)' = Last(i)
      BY <3>1, SameRows DEF IInv, CrlInv
    <3> QED
      BY <3>2, <1>1
  <2> QED
    BY <2>1, <2>2
<1>4. Grown
  <2>1. crls \subseteq crls' /\ expired \subseteq expired'
    OBVIOUS
  <2>2. /\ \A d \in Cert : status[d] # "absent" => status'[d] # "absent"
        /\ \A d \in Cert : status[d] = "revoked" => status'[d] = "revoked"
    OBVIOUS
  <2> QED
    BY <2>1, <2>2, <1>1, <1>3 DEF Grown
<1>5. IssuersExist'
  <2>1. \A d \in Cert : status'[d] # "absent" /\ d # c => status[d] # "absent"
    BY DEF IInv, TypeOK
  <2>2. \A d \in Cert : Parent[d] # None => Parent[d] \in Cert
    BY CrlAssumption
  <2>3. \A d \in Cert : status'[d] # "absent" /\ Parent[d] # None
                          => status'[Parent[d]] # "absent"
    BY <2>1, <2>2, <1>4 DEF IInv, CrlInv, IssuersExist, Grown
  <2>4. \A x \in FirstCRL(c) : x.issuer = c
    BY DEF FirstCRL
  <2>5. \A x \in crls : x.issuer \in Cert
    BY CrlAssumption DEF IInv, TypeOK, Row
  <2>6. \A x \in crls' : status'[x.issuer] # "absent"
    BY <2>4, <2>5, <1>4 DEF IInv, CrlInv, IssuersExist, Grown
  <2> QED
    BY <2>3, <2>6 DEF IssuersExist
<1> QED
  BY <1>3, <1>4, <1>5

(* A step of a request that leaves the database and the history alone.     *)
LEMMA LocalStep ==
  ASSUME IInv, UNCHANGED dbVars, UNCHANGED expired, UNCHANGED history,
         NEW r \in Req, \A q \in Req \ {r} : Kept(q), Grown => Holds(r)'
  PROVE  CrlInv'
<1>1. Grown /\ Contiguous' /\ IssuersExist'
  BY StillGrown
<1>2. RequestsHold'
  BY <1>1, KeptHolds DEF RequestsHold
<1>3. SentIsStored' /\ ConfirmedIsRevoked' /\ ConfirmedIsListed'
  BY <1>1, ConfirmedKept DEF SentIsStored, history, dbVars, IInv, CrlInv
<1> QED
  BY <1>1, <1>2, <1>3 DEF CrlInv

LEMMA CrlStep == IInv /\ [Next]_vars => CrlInv'
<1> SUFFICES ASSUME IInv, [Next]_vars PROVE CrlInv'
  OBVIOUS
<1>0. TypeOK /\ RequestsHold /\ SentIsStored /\ ConfirmedIsListed
  BY DEF IInv, CrlInv
<1>1. ASSUME NEW r \in Req, RevokeBegin(r) PROVE CrlInv'
  <2>1. Holds(r)'
    BY <1>1, <1>0, CrlAssumption DEF RevokeBegin, RequestsHold, Holds, TypeOK, dbVars
  <2>2. \A q \in Req \ {r} : Kept(q)
    BY <1>1, <1>0 DEF RevokeBegin, TypeOK, Kept
  <2> QED
    BY <1>1, <2>1, <2>2, LocalStep DEF RevokeBegin, clock
<1>2. ASSUME NEW r \in Req, Mark(r) PROVE CrlInv'
  <2> DEFINE c == cert[r]
  <2>1. c \in Cert /\ status[c] # "absent" /\ op[r] = "revoke"
    BY <1>2, <1>0 DEF Mark, RequestsHold, Holds, TypeOK
  <2>2. /\ crls' = crls /\ sent' = sent /\ expired' = expired
        /\ status' = [status EXCEPT ![c] = "revoked"]
    BY <1>2 DEF Mark, clock
  <2>3. Contiguous' /\ \A i \in CA : Last(i)' = Last(i) /\ Last(i) \in Nat
    BY <2>2, SameRows DEF IInv, CrlInv, Contiguous
  <2>4. Grown
    BY <2>1, <2>2, <2>3, <1>0 DEF Grown, TypeOK
  <2>5. IssuersExist'
    <3>1. \A d \in Cert : status'[d] # "absent" <=> status[d] # "absent"
      BY <2>1, <2>2, <1>0 DEF TypeOK
    <3>2. \A d \in Cert : Parent[d] # None => Parent[d] \in Cert
      BY CrlAssumption
    <3>3. \A x \in crls : x.issuer \in Cert
      BY <1>0, CrlAssumption DEF TypeOK, Row
    <3> QED
      BY <3>1, <3>2, <3>3, <2>2 DEF IInv, CrlInv, IssuersExist
  <2>6. CASE status[c] = "revoked" \/ Parent[c] = None
    <3>1. RequestsHold'
      BY <1>2, <2>4, <2>6, FinishHolds DEF Mark
    <3>2. confirmed' \subseteq confirmed \cup {c} /\ status'[c] = "revoked"
      BY <1>2, <2>1, <2>2, <2>6, <1>0 DEF Mark, TypeOK
    <3>3. c \in confirmed' \ confirmed => Parent[c] = None
      BY <1>2, <2>6 DEF Mark
    <3>4. ConfirmedIsRevoked' /\ ConfirmedIsListed'
      BY <3>2, <3>3, <2>2, <2>4, <1>0, CrlAssumption
      DEF IInv, CrlInv, TypeOK, ConfirmedIsRevoked, ConfirmedIsListed, Grown
    <3> QED
      BY <2>2, <2>3, <2>5, <3>1, <3>4, <1>0 DEF CrlInv, SentIsStored
  <2>7. CASE ~(status[c] = "revoked" \/ Parent[c] = None)
    <3>1. /\ confirmed' = confirmed /\ \A q \in Req \ {r} : Kept(q)
          /\ op'[r] = op[r] /\ pc'[r] = "load" /\ cert'[r] = c
          /\ iss'[r] = Parent[c] /\ list'[r] = list[r]
      BY <1>2, <2>7, <1>0 DEF Mark, Goto, Kept, TypeOK
    <3>2. Parent[c] \in Cert /\ status[Parent[c]] # "absent"
      BY <2>1, <2>7, CrlAssumption DEF IInv, CrlInv, IssuersExist
    <3>3. status'[c] = "revoked" /\ status'[Parent[c]] # "absent"
      BY <2>1, <2>2, <2>4, <3>2, <1>0 DEF TypeOK, Grown
    <3>4. list[r] = {}
      BY <1>2, <1>0 DEF Mark, RequestsHold, Holds
    <3>5. Holds(r)'
      BY <3>1, <3>2, <3>3, <3>4, <2>1, <2>7, CrlAssumption DEF Holds
    <3>6. RequestsHold'
      BY <3>1, <3>5, <2>4, KeptHolds DEF RequestsHold
    <3> QED
      BY <2>2, <2>3, <2>4, <2>5, <3>1, <3>6, <1>0, ConfirmedKept DEF CrlInv, SentIsStored
  <2> QED
    BY <2>6, <2>7
<1>3. ASSUME NEW r \in Req, NEW i \in CA, FetchServed(r, i) PROVE CrlInv'
  <2>1. Grown /\ Contiguous' /\ IssuersExist'
    BY <1>3, StillGrown DEF FetchServed, clock
  <2>2. \A q \in Req : Kept(q)
    BY <1>3 DEF FetchServed, Kept, reqVars
  <2>3. SentIsStored'
    BY <1>3 DEF FetchServed, Latest, SentIsStored, dbVars
  <2> QED
    BY <1>3, <2>1, <2>2, <2>3, KeptHolds, ConfirmedKept
    DEF CrlInv, RequestsHold, FetchServed
<1>4. ASSUME NEW r \in Req, NEW i \in CA, FetchStale(r, i) PROVE CrlInv'
  <2>1. PICK x \in Latest(i) : stale' = [stale EXCEPT ![r] = x]
    BY <1>4 DEF FetchStale
  <2>2. x \in crls /\ x.issuer = i /\ status[i] # "absent" /\ i # None
    BY <2>1, CrlAssumption DEF Latest, IInv, CrlInv, IssuersExist
  <2>3. /\ op'[r] = "fetch" /\ pc'[r] = "load" /\ iss'[r] = i /\ stale'[r] = x
        /\ list'[r] = list[r] /\ list[r] = {}
    BY <1>4, <2>1, <1>0 DEF FetchStale, TypeOK
  <2>4. Holds(r)'
    BY <2>2, <2>3, <1>4 DEF FetchStale, Holds, dbVars
  <2>5. \A q \in Req \ {r} : Kept(q)
    BY <1>4, <2>1, <1>0 DEF FetchStale, TypeOK, Kept
  <2> QED
    BY <1>4, <2>4, <2>5, LocalStep DEF FetchStale, clock
<1>5. ASSUME NEW r \in Req, LoadSigner(r) PROVE CrlInv'
  <2>1. Holds(r)'
    BY <1>5, <1>0 DEF LoadSigner, Goto, RequestsHold, Holds, TypeOK, dbVars
  <2>2. \A q \in Req \ {r} : Kept(q)
    BY <1>5, <1>0 DEF LoadSigner, Goto, TypeOK, Kept
  <2> QED
    BY <1>5, <2>1, <2>2, LocalStep DEF LoadSigner, clock
<1>6. ASSUME NEW r \in Req, CannotSign(r) PROVE CrlInv'
  <2>1. Grown /\ Contiguous' /\ IssuersExist'
    BY <1>6, StillGrown DEF CannotSign, clock
  <2>2. RequestsHold'
    BY <1>6, <2>1, FinishHolds DEF CannotSign
  <2>3. op[r] = "revoke" => /\ cert[r] \in Cert /\ status[cert[r]] = "revoked"
                            /\ Parent[cert[r]] \notin CanSign
    BY <1>6, <1>0 DEF CannotSign, RequestsHold, Holds, TypeOK
  <2>4. op[r] = "fetch" => stale[r] \in crls
    BY <1>0 DEF RequestsHold, Holds
  <2>5. ConfirmedIsRevoked' /\ ConfirmedIsListed'
    BY <1>6, <2>3, <1>0 DEF CannotSign, IInv, CrlInv, ConfirmedIsRevoked,
       ConfirmedIsListed, dbVars, clock
  <2>6. SentIsStored'
    BY <1>6, <2>4, <1>0 DEF CannotSign, SentIsStored, dbVars
  <2> QED
    BY <2>1, <2>2, <2>5, <2>6 DEF CrlInv
<1>7. ASSUME NEW r \in Req, ListRevoked(r) PROVE CrlInv'
  <2>1. /\ op'[r] = op[r] /\ pc'[r] = "number" /\ cert'[r] = cert[r]
        /\ iss'[r] = iss[r] /\ stale'[r] = stale[r]
        /\ list'[r] = RevokedChildren(iss[r])
    BY <1>7, <1>0 DEF ListRevoked, Goto, TypeOK
  <2>2. /\ \A c \in RevokedChildren(iss[r]) :
             Parent[c] = iss[r] /\ status[c] = "revoked"
        /\ op[r] = "revoke" => cert[r] \in RevokedChildren(iss[r]) \cup expired
    BY <1>7, <1>0 DEF ListRevoked, RequestsHold, Holds, TypeOK, RevokedChildren
  <2>3. /\ op[r] \in {"revoke", "fetch"} /\ iss[r] \in CanSign
        /\ iss[r] # None /\ status[iss[r]] # "absent"
        /\ op[r] = "revoke" => cert[r] # None /\ status[cert[r]] = "revoked"
                               /\ Parent[cert[r]] = iss[r]
        /\ op[r] = "fetch" => stale[r] \in crls
    BY <1>7, <1>0 DEF ListRevoked, RequestsHold, Holds
  <2>4. status' = status /\ crls' = crls /\ expired' = expired
    BY <1>7 DEF ListRevoked, dbVars, clock
  <2> HIDE DEF RevokedChildren
  <2>5. Holds(r)'
    BY <2>1, <2>2, <2>3, <2>4 DEF Holds
  <2>6. \A q \in Req \ {r} : Kept(q)
    BY <1>7, <1>0 DEF ListRevoked, Goto, TypeOK, Kept
  <2> QED
    BY <1>7, <2>5, <2>6, LocalStep DEF ListRevoked, clock
<1>8. ASSUME NEW r \in Req, NextNumber(r) PROVE CrlInv'
  <2>0. PICK j \in CanSign : iss[r] = j /\ j \in CA
    BY <1>8, <1>0, CrlAssumption DEF NextNumber, RequestsHold, Holds
  <2>1. /\ op'[r] = op[r] /\ pc'[r] = "insert" /\ cert'[r] = cert[r]
        /\ iss'[r] = iss[r] /\ stale'[r] = stale[r] /\ list'[r] = list[r]
        /\ num'[r] = Last(j) + 1
    BY <1>8, <1>0, <2>0 DEF NextNumber, Goto, TypeOK
  <2>2. status' = status /\ crls' = crls /\ expired' = expired /\ pc[r] = "number"
    BY <1>8 DEF NextNumber, dbVars, clock
  <2>3. Last(j) \in Nat /\ \A i \in CA : Last(i)' = Last(i)
    BY <2>0, <2>2, SameRows DEF IInv, CrlInv, Contiguous
  <2>4. \A i \in CA : iss'[r] = i => num'[r] \in 1..(Last(i)' + 1)
    BY <2>0, <2>1, <2>3
  <2>5. Holds(r)'
    BY <2>1, <2>2, <2>4, <1>0 DEF RequestsHold, Holds
  <2>6. \A q \in Req \ {r} : Kept(q)
    BY <1>8, <1>0 DEF NextNumber, Goto, TypeOK, Kept
  <2> QED
    BY <1>8, <2>5, <2>6, LocalStep DEF NextNumber, clock
<1>9. ASSUME NEW r \in Req, Insert(r) PROVE CrlInv'
  <2>0. PICK i \in CA : iss[r] = i
    BY <1>9, SignedTyped DEF Insert
  <2>1. Last(i) \in Nat /\ Numbers(i) = 1..Last(i)
    BY <2>0 DEF IInv, CrlInv, Contiguous
  <2>2. num[r] = Last(i) + 1
    <3>1. num[r] \in 1..(Last(i) + 1) /\ num[r] \notin 1..Last(i)
      BY <1>9, <1>0, <2>0, <2>1 DEF Insert, RequestsHold, Holds
    <3> QED
      BY <3>1, <2>1
  <2>3. /\ crls' = crls \cup
             {[issuer |-> i, number |-> Last(i) + 1, entries |-> list[r]]}
        /\ status' = status /\ expired' = expired
    BY <1>9, <2>0, <2>2 DEF Insert, Signed, clock
  <2>4. /\ Contiguous' /\ Last(i)' = Last(i) + 1
        /\ \A j \in CA \ {i} : Last(j)' = Last(j)
    BY <2>1, <2>3, <1>0, NextRow DEF IInv, CrlInv, TypeOK
  <2>5. Grown
    BY <2>1, <2>3, <2>4 DEF Grown, IInv, CrlInv, Contiguous
  <2>6. IssuersExist'
    BY <1>9, <1>0, <2>0, <2>3 DEF Insert, IInv, CrlInv, IssuersExist, RequestsHold, Holds
  <2>7. RequestsHold'
    BY <1>9, <2>5, FinishHolds DEF Insert
  <2>8. SentIsStored'
    BY <1>9, <1>0 DEF Insert, SentIsStored
  <2>9. op[r] = "revoke" =>
          /\ cert[r] \in Cert /\ status[cert[r]] = "revoked"
          /\ Parent[cert[r]] = i /\ cert[r] \in list[r] \cup expired
    BY <1>9, <1>0, <2>0 DEF Insert, RequestsHold, Holds, TypeOK
  <2>10. confirmed' = IF op[r] = "revoke" THEN confirmed \cup {cert[r]} ELSE confirmed
    BY <1>9 DEF Insert
  <2>11. ConfirmedIsRevoked'
    BY <2>3, <2>9, <2>10 DEF IInv, CrlInv, ConfirmedIsRevoked
  <2>12. ConfirmedIsListed'
    <3> SUFFICES ASSUME NEW c \in confirmed', Parent[c] \in CanSign, c \notin expired
                 PROVE  \E x \in crls' : x.issuer = Parent[c] /\ c \in x.entries
      BY <2>3 DEF ConfirmedIsListed
    <3>1. CASE c \in confirmed
      BY <3>1, <2>3, <1>0 DEF ConfirmedIsListed
    <3>2. CASE c \notin confirmed
      <4>1. c = cert[r] /\ Parent[c] = i /\ c \in list[r]
        BY <3>2, <2>9, <2>10
      <4> DEFINE x == [issuer |-> i, number |-> Last(i) + 1, entries |-> list[r]]
      <4>2. x \in crls' /\ x.issuer = i /\ x.entries = list[r]
        BY <2>3
      <4> QED
        BY <4>1, <4>2
    <3> QED
      BY <3>1, <3>2
  <2> QED
    BY <2>4, <2>6, <2>7, <2>8, <2>11, <2>12 DEF CrlInv
<1>10. ASSUME NEW r \in Req, Fail(r) PROVE CrlInv'
  <2>1. Grown /\ Contiguous' /\ IssuersExist'
    BY <1>10, StillGrown DEF Fail, clock
  <2>2. RequestsHold'
    BY <1>10, <2>1, FinishHolds DEF Fail
  <2>3. SentIsStored'
    BY <1>10, <1>0 DEF Fail, SentIsStored, RequestsHold, Holds, dbVars
  <2> QED
    BY <1>10, <2>1, <2>2, <2>3, ConfirmedKept DEF CrlInv, Fail
<1>11. ASSUME NEW c \in Cert, Issue(c) PROVE CrlInv'
  <2>1. Grown /\ Contiguous' /\ IssuersExist'
    BY <1>11, <1>0, IssueGrows DEF Issue, TypeOK, clock
  <2>2. RequestsHold'
    BY <1>11, <2>1, KeptHolds DEF Issue, RequestsHold, Kept, reqVars
  <2>3. SentIsStored'
    BY <1>11, <1>0 DEF Issue, SentIsStored, history
  <2> QED
    BY <1>11, <2>1, <2>2, <2>3, ConfirmedKept DEF CrlInv, Issue, history
<1>12. ASSUME NEW old \in Cert, NEW new \in Cert, Rotate(old, new) PROVE CrlInv'
  <2>1. /\ status[new] = "absent" /\ status[old] = "active"
        /\ status' = [status EXCEPT ![new] = "active", ![old] = "superseded"]
        /\ Parent[new] # None => status[Parent[new]] # "absent"
    BY <1>12 DEF Rotate, IInv, CrlInv, IssuersExist
  <2>2. /\ status'[new] = "active"
        /\ \A d \in Cert \ {new} : \/ status'[d] = status[d]
                                   \/ status[d] = "active" /\ status'[d] = "superseded"
    BY <2>1, <1>0 DEF TypeOK
  <2>3. Grown /\ Contiguous' /\ IssuersExist'
    BY <1>12, <2>1, <2>2, IssueGrows DEF Rotate, clock
  <2>4. RequestsHold'
    BY <1>12, <2>3, KeptHolds DEF Rotate, RequestsHold, Kept, reqVars
  <2>5. SentIsStored'
    BY <1>12, <1>0 DEF Rotate, SentIsStored, history
  <2> QED
    BY <1>12, <2>3, <2>4, <2>5, ConfirmedKept DEF CrlInv, Rotate, history
<1>13. CASE Unlock \/ Lock \/ UNCHANGED vars \/ \E r \in Req : RevokeAgain(r)
  <2>1. Grown /\ Contiguous' /\ IssuersExist'
    BY <1>13, StillGrown DEF Unlock, Lock, RevokeAgain, vars, clock, dbVars
  <2>2. RequestsHold'
    BY <1>13, <2>1, KeptHolds DEF Unlock, Lock, RevokeAgain, vars, RequestsHold, Kept, reqVars
  <2> QED
    BY <1>13, <1>0, <2>1, <2>2, ConfirmedKept
    DEF CrlInv, SentIsStored, Unlock, Lock, RevokeAgain, vars, history, dbVars
<1>14. ASSUME NEW c \in Cert, ExpireCert(c) PROVE CrlInv'
  <2>1. Grown /\ Contiguous' /\ IssuersExist'
    BY <1>14, StillGrown DEF ExpireCert
  <2>2. RequestsHold'
    BY <1>14, <2>1, KeptHolds DEF ExpireCert, RequestsHold, Kept, reqVars
  <2> QED
    BY <1>14, <1>0, <2>1, <2>2, ConfirmedKept
    DEF CrlInv, SentIsStored, ExpireCert, history, dbVars
<1>15. ASSUME NEW i \in CA, PassNextUpdate(i) PROVE CrlInv'
  <2>1. Grown /\ Contiguous' /\ IssuersExist'
    BY <1>15, StillGrown DEF PassNextUpdate
  <2>2. RequestsHold'
    BY <1>15, <2>1, KeptHolds DEF PassNextUpdate, RequestsHold, Kept, reqVars
  <2> QED
    BY <1>15, <1>0, <2>1, <2>2, ConfirmedKept
    DEF CrlInv, SentIsStored, PassNextUpdate, history, dbVars
<1>16. CASE Restart
  <2>1. Grown /\ Contiguous' /\ IssuersExist'
    BY <1>16, StillGrown DEF Restart, clock
  <2>2. RequestsHold'
    BY <1>16, ReturnedHolds DEF Restart, RequestsHold, Returned
  <2> QED
    BY <1>16, <1>0, <2>1, <2>2, ConfirmedKept
    DEF CrlInv, SentIsStored, Restart, history, dbVars
<1>17. ASSUME NEW r \in Req, FetchNumbered(r) PROVE CrlInv'
  <2>1. Grown /\ Contiguous' /\ IssuersExist'
    BY <1>17, StillGrown DEF FetchNumbered, clock
  <2>2. \A q \in Req : Kept(q)
    BY <1>17 DEF FetchNumbered, Kept, reqVars
  <2>3. SentIsStored'
    BY <1>17 DEF FetchNumbered, SentIsStored, dbVars
  <2> QED
    BY <1>17, <2>1, <2>2, <2>3, KeptHolds, ConfirmedKept
    DEF CrlInv, RequestsHold, FetchNumbered
<1> QED
  BY <1>1, <1>2, <1>3, <1>4, <1>5, <1>6, <1>7, <1>8, <1>9, <1>10, <1>11,
     <1>12, <1>13, <1>14, <1>15, <1>16, <1>17
  DEF Next, Handler, Regenerate, Environment

LEMMA CrlInit == Init => IInv
<1> SUFFICES ASSUME Init PROVE IInv
  OBVIOUS
<1>1. TypeOK
  BY DEF Init, TypeOK
<1>2. \A i : Numbers(i) = 1..0
  BY DEF Init, Numbers
<1>3. \A i : Last(i) = 0
  BY <1>2, MaxOf DEF Last
<1>4. Contiguous
  <2>1. ASSUME NEW i \in CA PROVE Last(i) \in Nat /\ Numbers(i) = 1..Last(i)
    <3>1. Numbers(i) = 1..0 /\ Last(i) = 0
      BY <1>2, <1>3
    <3> QED
      BY <3>1
  <2>2. crls = {}
    BY DEF Init
  <2> QED
    BY <2>1, <2>2 DEF Contiguous
<1>5. IssuersExist /\ SentIsStored /\ ConfirmedIsRevoked /\ ConfirmedIsListed
  BY DEF Init, IssuersExist, SentIsStored, ConfirmedIsRevoked, ConfirmedIsListed
<1>6. RequestsHold
  BY DEF Init, RequestsHold, Holds
<1> QED
  BY <1>1, <1>4, <1>5, <1>6 DEF IInv, CrlInv

LEMMA CrlAlways == Spec => []IInv
<1>1. IInv /\ [Next]_vars => IInv'
  BY TypedStep, CrlStep DEF IInv
<1> QED
  BY CrlInit, <1>1, PTL DEF Spec

-----------------------------------------------------------------------------
(* Every state of the revocation handler and the CRL endpoint is typed.    *)
THEOREM CrlTypeCorrect == Spec => []TypeOK
<1>1. IInv => TypeOK
  BY DEF IInv
<1> QED
  BY CrlAlways, <1>1, PTL

(* However many requests interleave, a CRL that reached a client is a row  *)
(* of the database, and the rows of an issuer are numbered without gap or  *)
(* repetition: the CRL stays retrievable by its number.                    *)
THEOREM SentCrlsAreStored == Spec => [](SentIsStored /\ Contiguous)
<1>1. IInv => SentIsStored /\ Contiguous
  BY DEF IInv, CrlInv
<1> QED
  BY CrlAlways, <1>1, PTL

(* However many requests interleave, fail or are lost, a revocation that   *)
(* its own request has confirmed is named by some CRL of the issuer, if    *)
(* the issuer can sign one and the certificate has not expired.            *)
THEOREM ConfirmedRevocationsAreListed == Spec => []ConfirmedIsListed
<1>1. IInv => ConfirmedIsListed
  BY DEF IInv, CrlInv
<1> QED
  BY CrlAlways, <1>1, PTL

-----------------------------------------------------------------------------
(* Refinement of CrlLog.                                                   *)
RevokedSet == {c \in Cert : status[c] = "revoked"}

Top == [i \in CA |-> Last(i)]

LEMMA LogInit == Init => Log!Init
<1> SUFFICES ASSUME Init PROVE Log!Init
  OBVIOUS
<1>1. \A i : Numbers(i) = 1..0
  BY DEF Init, Numbers
<1>2. \A i : Last(i) = 0
  BY <1>1, MaxOf DEF Last
<1> QED
  BY <1>2 DEF Init, Log!Init

(* A row with the next number is a Publish of the abstract log.            *)
LEMMA NextRowPublishes ==
  ASSUME IInv, NEW i \in CA, NEW es \in SUBSET Cert,
         \A c \in es : Parent[c] = i /\ status[c] = "revoked",
         RevokedSet' = RevokedSet,
         crls' = crls \cup {[issuer |-> i, number |-> Last(i) + 1, entries |-> es]}
  PROVE  Log!Publish
<1>1. /\ Last(i)' = Last(i) + 1
      /\ \A j \in CA \ {i} : Last(j)' = Last(j)
  BY NextRow DEF IInv, CrlInv, TypeOK
<1>2. Top' = [Top EXCEPT ![i] = @ + 1]
  <2>1. \A j \in CA : Top'[j] = [Top EXCEPT ![i] = @ + 1][j]
    BY <1>1 DEF Top
  <2> QED
    BY <2>1 DEF Top
<1>3. es \in SUBSET {c \in RevokedSet : Parent[c] = i}
  BY DEF RevokedSet
<1>4. Top[i] = Last(i)
  BY DEF Top
<1> QED
  BY <1>2, <1>3, <1>4 DEF Log!Publish, Top, RevokedSet

LEMMA SameStutters ==
  ASSUME crls' = crls, RevokedSet' = RevokedSet
  PROVE  UNCHANGED Log!vars
<1>1. \A i \in CA : Last(i)' = Last(i)
  BY SameRows
<1>2. Top' = Top
  BY <1>1 DEF Top
<1> QED
  BY <1>2 DEF Log!vars, RevokedSet, Top

(* Issuing a CA publishes its first, empty list.                           *)
LEMMA IssuePublishes ==
  ASSUME IInv, NEW c \in Cert, status[c] = "absent",
         RevokedSet' = RevokedSet, crls' = crls \cup FirstCRL(c)
  PROVE  Log!Publish \/ UNCHANGED Log!vars
<1>1. CASE c \in CanSign
  <2>1. c \in CA
    BY <1>1, CrlAssumption
  <2>2. Last(c) = 0
    <3> SUFFICES ASSUME Last(c) # 0 PROVE FALSE
      OBVIOUS
    <3>1. 1 \in Numbers(c)
      BY <2>1 DEF IInv, CrlInv, Contiguous
    <3>2. PICK x \in crls : x.issuer = c
      BY <3>1 DEF Numbers
    <3> QED
      BY <3>2 DEF IInv, CrlInv, IssuersExist
  <2>3. crls' = crls \cup {[issuer |-> c, number |-> Last(c) + 1, entries |-> {}]}
    BY <1>1, <2>2 DEF FirstCRL
  <2> DEFINE es == {}
  <2>4. es \in SUBSET Cert /\ \A d \in es : Parent[d] = c /\ status[d] = "revoked"
    OBVIOUS
  <2>5. crls' = crls \cup {[issuer |-> c, number |-> Last(c) + 1, entries |-> es]}
    BY <2>3
  <2> HIDE DEF es
  <2> QED
    BY <2>1, <2>4, <2>5, NextRowPublishes
<1>2. CASE c \notin CanSign
  <2>1. crls' = crls
    BY <1>2 DEF FirstCRL
  <2> QED
    BY <2>1, SameStutters
<1> QED
  BY <1>1, <1>2

LEMMA LogStep == IInv /\ [Next]_vars => [Log!Next]_(Log!vars)
<1> SUFFICES ASSUME IInv, [Next]_vars PROVE Log!Next \/ UNCHANGED Log!vars
  OBVIOUS
<1>0. TypeOK /\ RequestsHold
  BY DEF IInv, CrlInv
<1>1. CASE UNCHANGED dbVars
  BY <1>1, SameStutters DEF dbVars, RevokedSet
<1>2. ASSUME NEW r \in Req, Mark(r) PROVE Log!Next \/ UNCHANGED Log!vars
  <2>1. cert[r] \in Cert
    BY <1>2, <1>0 DEF Mark, RequestsHold, Holds, TypeOK
  <2>2. crls' = crls /\ RevokedSet' = RevokedSet \cup {cert[r]}
    BY <1>2, <1>0, <2>1 DEF Mark, TypeOK, RevokedSet
  <2>3. Top' = Top
    BY <2>2, SameRows DEF Top
  <2> QED
    BY <2>1, <2>2, <2>3 DEF Log!Next, Log!Revoke, Top, RevokedSet
<1>3. ASSUME NEW r \in Req, Insert(r) PROVE Log!Next \/ UNCHANGED Log!vars
  <2>0. PICK i \in CA : iss[r] = i
    BY <1>3, SignedTyped DEF Insert
  <2>1. Last(i) \in Nat /\ Numbers(i) = 1..Last(i)
    BY DEF IInv, CrlInv, Contiguous
  <2>2. num[r] \in 1..(Last(i) + 1) /\ num[r] \notin 1..Last(i)
    BY <1>3, <1>0, <2>0, <2>1 DEF Insert, RequestsHold, Holds
  <2>3. num[r] = Last(i) + 1
    BY <2>1, <2>2
  <2>4. /\ crls' = crls \cup
             {[issuer |-> i, number |-> Last(i) + 1, entries |-> list[r]]}
        /\ RevokedSet' = RevokedSet
    BY <1>3, <2>0, <2>3 DEF Insert, Signed, RevokedSet
  <2>5. list[r] \in SUBSET Cert /\ \A c \in list[r] : Parent[c] = i /\ status[c] = "revoked"
    BY <1>0, <2>0 DEF RequestsHold, Holds, TypeOK
  <2> QED
    BY <2>4, <2>5, NextRowPublishes DEF Log!Next
<1>4. ASSUME NEW c \in Cert, Issue(c) PROVE Log!Next \/ UNCHANGED Log!vars
  <2>1. RevokedSet' = RevokedSet
    BY <1>4, <1>0 DEF Issue, RevokedSet, TypeOK
  <2> QED
    BY <1>4, <2>1, IssuePublishes DEF Issue, Log!Next
<1>5. ASSUME NEW old \in Cert, NEW new \in Cert, Rotate(old, new)
      PROVE  Log!Next \/ UNCHANGED Log!vars
  <2>1. RevokedSet' = RevokedSet
    BY <1>5, <1>0 DEF Rotate, RevokedSet, TypeOK
  <2> QED
    BY <1>5, <2>1, IssuePublishes DEF Rotate, Log!Next
<1>6. UNCHANGED dbVars \/ (\E r \in Req : Mark(r) \/ Insert(r))
        \/ (\E c \in Cert : Issue(c)) \/ (\E old, new \in Cert : Rotate(old, new))
  BY DEF Next, Handler, Regenerate, Environment, RevokeBegin, RevokeAgain, FetchServed,
     FetchStale, FetchNumbered, LoadSigner, CannotSign, ListRevoked, NextNumber, Fail, Unlock,
     Lock, ExpireCert, PassNextUpdate, Restart, vars, dbVars
<1> QED
  BY <1>1, <1>2, <1>3, <1>4, <1>5, <1>6

(* Revocation is final and each issuer's CRLs form an append-only log      *)
(* numbered 1, 2, 3... of lists of its own revoked certificates: the code, *)
(* with every interleaving and failure, implements CrlLog.                 *)
THEOREM PublicationImplementsLog == Spec => LogSpec
<1>1. Log!Init /\ [][Log!Next]_(Log!vars) => LogSpec
  BY DEF LogSpec, Log!Spec
<1> QED
  BY CrlAlways, LogInit, LogStep, <1>1, PTL DEF Spec

-----------------------------------------------------------------------------
(* Confirmed revocations stay in the latest list, unless a request is      *)
(* overtaken.                                                              *)
StayInv == ListsConfirmed /\ ConfirmedInLatest

(* A step that adds no row, confirms no revocation that a CRL should       *)
(* name, and gives no request a list or a number.                          *)
LEMMA QuietStep ==
  ASSUME IInv, StayInv,
         crls' = crls, expired \subseteq expired',
         \A c \in confirmed' \ confirmed : Parent[c] \notin CanSign,
         \A r \in Req : pc'[r] \in {"number", "insert"} =>
           pc'[r] = pc[r] /\ iss'[r] = iss[r] /\ list'[r] = list[r] /\ num'[r] = num[r]
  PROVE  StayInv'
<1>1. \A i : Last(i)' = Last(i) /\ Latest(i)' = Latest(i)
  BY SameRows
<1>2. ListsConfirmed'
  BY <1>1 DEF StayInv, ListsConfirmed
<1>3. ConfirmedInLatest'
  BY <1>1 DEF StayInv, ConfirmedInLatest
<1> QED
  BY <1>2, <1>3 DEF StayInv

(* Issuing a CA adds the first list of an issuer without children.         *)
LEMMA IssueLatest ==
  ASSUME IInv, StayInv, NEW n \in Cert, status[n] = "absent",
         crls' = crls \cup FirstCRL(n),
         UNCHANGED <<expired, confirmed, pc, iss, list, num>>
  PROVE  StayInv'
<1>1. CASE n \notin CanSign
  <2>1. crls' = crls
    BY <1>1 DEF FirstCRL
  <2> QED
    BY <2>1, QuietStep
<1>2. CASE n \in CanSign
  <2>1. n \in CA /\ n # None
    BY <1>2, CrlAssumption
  <2>2. Last(n) = 0
    <3> SUFFICES ASSUME Last(n) # 0 PROVE FALSE
      OBVIOUS
    <3>1. 1 \in Numbers(n)
      BY <2>1 DEF IInv, CrlInv, Contiguous
    <3>2. PICK x \in crls : x.issuer = n
      BY <3>1 DEF Numbers
    <3> QED
      BY <3>2 DEF IInv, CrlInv, IssuersExist
  <2>3. crls' = crls \cup {[issuer |-> n, number |-> Last(n) + 1, entries |-> {}]}
    BY <1>2, <2>2 DEF FirstCRL
  <2>4. \A i \in CA \ {n} : Last(i)' = Last(i) /\ Latest(i)' = Latest(i)
    BY <2>1, <2>3, NextRow DEF IInv, CrlInv, TypeOK
  <2>5. \A c \in confirmed : Parent[c] # n
    BY <2>1 DEF IInv, TypeOK, CrlInv, ConfirmedIsRevoked, IssuersExist
  <2>6. ConfirmedInLatest'
    BY <2>4, <2>5, CrlAssumption DEF StayInv, ConfirmedInLatest, IInv, TypeOK
  <2>7. ListsConfirmed'
    BY <2>4, <2>5, CrlAssumption DEF StayInv, ListsConfirmed
  <2> QED
    BY <2>6, <2>7 DEF StayInv
<1> QED
  BY <1>1, <1>2

LEMMA InsertStays ==
  ASSUME IInv, StayInv, NoOvertake, NEW r \in Req, Insert(r)
  PROVE  StayInv'
<1>0. TypeOK /\ RequestsHold /\ ListsConfirmed /\ ConfirmedInLatest
  BY DEF IInv, CrlInv, StayInv
<1>1. PICK i \in CA : iss[r] = i
  BY SignedTyped DEF Insert
<1>2. Last(i) \in Nat /\ Numbers(i) = 1..Last(i)
  BY DEF IInv, CrlInv, Contiguous
<1>3. \A q \in Req : pc[q] = "insert" /\ iss[q] = i => num[q] \in 1..(Last(i) + 1)
  BY <1>0 DEF RequestsHold, Holds
<1>4. num[r] = Last(i) + 1
  BY <1>1, <1>2, <1>3 DEF Insert
<1> DEFINE x == [issuer |-> i, number |-> Last(i) + 1, entries |-> list[r]]
<1>5. crls' = crls \cup {x}
  BY <1>1, <1>4 DEF Insert, Signed
<1>6. /\ x \in Latest(i)' /\ Last(i)' = Last(i) + 1
      /\ \A j \in CA \ {i} : Last(j)' = Last(j) /\ Latest(j)' = Latest(j)
  BY <1>5, <1>0, NextRow DEF IInv, CrlInv, TypeOK
<1>7. x.entries = list[r] /\ expired' = expired
  BY DEF Insert, clock
<1>8. /\ pc'[r] = "idle"
      /\ \A q \in Req \ {r} : pc'[q] = pc[q] /\ iss'[q] = iss[q]
                               /\ list'[q] = list[q] /\ num'[q] = num[q]
  BY <1>0 DEF Insert, Finish, TypeOK
<1>9. \A c \in confirmed' \ confirmed : Parent[c] = i /\ c \in list[r] \cup expired
  BY <1>0, <1>1 DEF Insert, RequestsHold, Holds
<1>10. i \in CanSign => \A c \in confirmed : Parent[c] = i => c \in list[r] \cup expired
  BY <1>0, <1>1, <1>4 DEF Insert, ListsConfirmed
<1> HIDE DEF x
<1>11. ConfirmedInLatest'
  <2> SUFFICES ASSUME NEW c \in confirmed', Parent[c] \in CanSign, c \notin expired
               PROVE  \E y \in Latest(Parent[c])' : c \in y.entries
    BY <1>7 DEF ConfirmedInLatest
  <2>1. CASE Parent[c] = i
    BY <2>1, <1>6, <1>7, <1>9, <1>10
  <2>2. CASE Parent[c] # i
    <3>1. PICK j \in CA \ {i} : Parent[c] = j
      BY <2>2, CrlAssumption
    <3>2. \E y \in Latest(j) : c \in y.entries
      BY <3>1, <1>0, <1>9 DEF ConfirmedInLatest
    <3> QED
      BY <3>1, <3>2, <1>6
  <2> QED
    BY <2>1, <2>2
(* Another list for this issuer is either not numbered yet, which would be *)
(* an overtaking, or bears a number that is taken now.                     *)
<1>12. ListsConfirmed'
  <2> SUFFICES ASSUME NEW q \in Req, NEW j \in CanSign, iss'[q] = j,
                      pc'[q] = "number" \/ (pc'[q] = "insert" /\ num'[q] = Last(j)' + 1),
                      NEW c \in confirmed', Parent[c] = j
               PROVE  c \in list'[q] \cup expired'
    BY DEF ListsConfirmed
  <2>1. /\ q # r /\ iss[q] = j /\ list'[q] = list[q] /\ j \in CA
        /\ pc[q] = "number" \/ (pc[q] = "insert" /\ num[q] = Last(j)' + 1)
    BY <1>8, CrlAssumption
  <2>2. j # i
    <3>1. CASE pc[q] = "number"
      BY <3>1, <2>1, <1>1 DEF NoOvertake, Insert
    <3>2. CASE pc[q] = "insert" /\ num[q] = Last(j)' + 1
      BY <3>2, <2>1, <1>2, <1>3, <1>6
    <3> QED
      BY <2>1, <3>1, <3>2
  <2>3. Last(j)' = Last(j) /\ c \in confirmed
    BY <2>1, <2>2, <1>6, <1>9
  <2> QED
    BY <2>1, <2>3, <1>0, <1>7 DEF ListsConfirmed
<1> QED
  BY <1>11, <1>12 DEF StayInv

LEMMA StayStep ==
  ASSUME NoOvertake, IInv, StayInv, [Next]_vars
  PROVE  StayInv'
<1>0. TypeOK /\ RequestsHold /\ ConfirmedIsRevoked /\ ListsConfirmed /\ ConfirmedInLatest
  BY DEF IInv, CrlInv, StayInv
<1>1. ASSUME NEW r \in Req,
             \/ RevokeBegin(r) \/ LoadSigner(r) \/ FetchNumbered(r) \/ Fail(r)
             \/ \E i \in CA : FetchServed(r, i) \/ FetchStale(r, i)
      PROVE  StayInv'
  <2>1. UNCHANGED <<crls, expired, confirmed>>
    BY <1>1 DEF RevokeBegin, LoadSigner, FetchNumbered, Fail, FetchServed,
       FetchStale, dbVars, clock, history
  <2>2. \A q \in Req : pc'[q] \in {"number", "insert"} =>
          pc'[q] = pc[q] /\ iss'[q] = iss[q] /\ list'[q] = list[q] /\ num'[q] = num[q]
    BY <1>1, <1>0 DEF RevokeBegin, LoadSigner, FetchNumbered, Fail, FetchServed,
       FetchStale, Goto, Finish, reqVars, TypeOK
  <2> QED
    BY <2>1, <2>2, QuietStep
<1>2. ASSUME NEW r \in Req, Mark(r) PROVE StayInv'
  <2>1. /\ crls' = crls /\ expired' = expired
        /\ \A c \in confirmed' \ confirmed : Parent[c] = None
    BY <1>2 DEF Mark, clock
  <2>2. \A q \in Req : pc'[q] \in {"number", "insert"} =>
          pc'[q] = pc[q] /\ iss'[q] = iss[q] /\ list'[q] = list[q] /\ num'[q] = num[q]
    BY <1>2, <1>0 DEF Mark, Goto, Finish, TypeOK
  <2> QED
    BY <2>1, <2>2, QuietStep, CrlAssumption
<1>3. ASSUME NEW r \in Req, CannotSign(r) PROVE StayInv'
  <2>1. op[r] = "revoke" => Parent[cert[r]] \notin CanSign
    BY <1>3, <1>0 DEF CannotSign, RequestsHold, Holds
  <2>2. /\ crls' = crls /\ expired' = expired
        /\ \A c \in confirmed' \ confirmed : Parent[c] \notin CanSign
    BY <1>3, <2>1 DEF CannotSign, dbVars, clock
  <2>3. \A q \in Req : pc'[q] \in {"number", "insert"} =>
          pc'[q] = pc[q] /\ iss'[q] = iss[q] /\ list'[q] = list[q] /\ num'[q] = num[q]
    BY <1>3, <1>0 DEF CannotSign, Finish, TypeOK
  <2> QED
    BY <2>2, <2>3, QuietStep
<1>4. ASSUME NEW r \in Req, ListRevoked(r) PROVE StayInv'
  <2>1. \A c \in confirmed : Parent[c] = iss[r] =>
          c \in RevokedChildren(iss[r]) \cup expired
    BY <1>0 DEF TypeOK, ConfirmedIsRevoked, RevokedChildren
  <2>2. /\ list'[r] = RevokedChildren(iss[r])
        /\ \A q \in Req \ {r} : list'[q] = list[q] /\ pc'[q] = pc[q]
        /\ UNCHANGED <<crls, confirmed, expired, iss, num>>
    BY <1>4, <1>0 DEF ListRevoked, Goto, TypeOK, dbVars, history, clock
  <2> HIDE DEF RevokedChildren
  <2>3. \A i : Last(i)' = Last(i) /\ Latest(i)' = Latest(i)
    BY <2>2, SameRows
  <2>4. ListsConfirmed'
    BY <2>1, <2>2, <2>3, <1>0 DEF ListsConfirmed
  <2>5. ConfirmedInLatest'
    BY <2>2, <2>3, <1>0 DEF ConfirmedInLatest
  <2> QED
    BY <2>4, <2>5 DEF StayInv
<1>5. ASSUME NEW r \in Req, NextNumber(r) PROVE StayInv'
  <2>1. /\ pc[r] = "number"
        /\ \A q \in Req \ {r} : num'[q] = num[q] /\ pc'[q] = pc[q]
        /\ UNCHANGED <<crls, confirmed, expired, iss, list>>
    BY <1>5, <1>0 DEF NextNumber, Goto, TypeOK, dbVars, history, clock
  <2>2. \A i : Last(i)' = Last(i) /\ Latest(i)' = Latest(i)
    BY <2>1, SameRows
  <2>3. ListsConfirmed'
    <3> SUFFICES ASSUME NEW q \in Req, NEW i \in CanSign, iss[q] = i,
                        pc'[q] = "number" \/ (pc'[q] = "insert" /\ num'[q] = Last(i) + 1),
                        NEW c \in confirmed, Parent[c] = i
                 PROVE  c \in list[q] \cup expired
      BY <2>1, <2>2 DEF ListsConfirmed
    <3>1. pc[q] = "number" \/ (pc[q] = "insert" /\ num[q] = Last(i) + 1)
      BY <2>1
    <3> QED
      BY <3>1, <1>0 DEF ListsConfirmed
  <2>4. ConfirmedInLatest'
    BY <2>1, <2>2, <1>0 DEF ConfirmedInLatest
  <2> QED
    BY <2>3, <2>4 DEF StayInv
<1>6. ASSUME NEW r \in Req, Insert(r) PROVE StayInv'
  BY <1>6, InsertStays
<1>7. ASSUME NEW c \in Cert, Issue(c) PROVE StayInv'
  BY <1>7, IssueLatest DEF Issue, clock, reqVars, history
<1>8. ASSUME NEW old \in Cert, NEW new \in Cert, Rotate(old, new) PROVE StayInv'
  BY <1>8, IssueLatest DEF Rotate, clock, reqVars, history
<1>9. CASE Restart
  <2>1. /\ UNCHANGED <<crls, expired, confirmed>>
        /\ \A q \in Req : pc'[q] = "idle"
    BY <1>9 DEF Restart, dbVars, clock, history
  <2> QED
    BY <2>1, QuietStep
<1>10. CASE \/ Unlock \/ Lock \/ UNCHANGED vars
            \/ \E r \in Req : RevokeAgain(r)
            \/ \E c \in Cert : ExpireCert(c)
            \/ \E i \in CA : PassNextUpdate(i)
  <2>1. /\ UNCHANGED <<crls, confirmed, pc, iss, list, num>>
        /\ expired \subseteq expired'
    BY <1>10 DEF Unlock, Lock, RevokeAgain, ExpireCert, PassNextUpdate, vars, dbVars, clock,
       reqVars, history
  <2> QED
    BY <2>1, QuietStep
<1> QED
  BY <1>1, <1>2, <1>3, <1>4, <1>5, <1>6, <1>7, <1>8, <1>9, <1>10
  DEF Next, Handler, Regenerate, Environment

(* A confirmed revocation is in the latest CRL of the issuer and stays     *)
(* there until the certificate expires, with any number of requests, locks *)
(* failures and restarts, in every behaviour in which no regeneration      *)
(* publishes between the two reads of another one of the same CA.          *)
THEOREM StaysListedUnlessOvertaken ==
  Spec /\ []NoOvertake => []ConfirmedInLatest
<1>1. Init => StayInv
  BY DEF Init, StayInv, ListsConfirmed, ConfirmedInLatest
<1>2. NoOvertake /\ IInv /\ StayInv /\ [Next]_vars => StayInv'
  BY StayStep
<1>3. StayInv => ConfirmedInLatest
  BY DEF StayInv
<1> QED
  BY CrlAlways, <1>1, <1>2, <1>3, PTL DEF Spec
=============================================================================
