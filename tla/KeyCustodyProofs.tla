-------------------------- MODULE KeyCustodyProofs --------------------------
(***************************************************************************)
(* Proofs about KeyCustody, for any number of requests, keys, certificates *)
(* and tokens.                                                             *)
(***************************************************************************)
EXTENDS KeyCustody, TLAPS

-----------------------------------------------------------------------------
(* Type correctness.                                                       *)

Typed == TypeOK /\ Coherent

(* What a request owns when it has finished: nothing.  No other request    *)
(* is disturbed.                                                           *)
LEMMA FinishTyped ==
  ASSUME Typed, NEW r \in Req, Finish(r)
  PROVE  /\ op' \in [Req -> Ops \cup {"none"}]
         /\ pc' \in [Req -> Steps]
         /\ kek' \in [Req -> KEK \cup {None}]
         /\ saw' \in [Req -> KEK \cup {None}]
         /\ row' \in [Req -> Cert \cup {None}]
         /\ tok' \in [Req -> Token \cup {None}]
         /\ \A q \in Req : pc'[q] = "idle" => op'[q] = "none" /\ kek'[q] = None
         /\ Coherent'
  BY DEF Typed, TypeOK, Coherent, Finish, Ops, Steps

(* Types and the shape of each request's progress, inductive together: a   *)
(* token is consumed, a KEK stored or a key sealed only by a request that  *)
(* holds one.                                                              *)
LEMMA TypedInit == Init => Typed
  BY CustodyAssumption DEF Init, Typed, TypeOK, Coherent, Ops, Steps

(* Every step of the server keeps them.                                    *)
LEMMA TypedStep == Typed /\ [Next]_vars => Typed'
<1> SUFFICES ASSUME Typed, [Next]_vars PROVE Typed'
  OBVIOUS
<1> USE CustodyAssumption DEF Typed, TypeOK, Coherent, Ops, Steps,
        dbVars, memVars, locals, reqVars, outside
<1>1. ASSUME NEW r \in Req, SetupBegin(r) PROVE Typed'
  BY <1>1 DEF SetupBegin, AfterDerive, Start
<1>2. ASSUME NEW r \in Req, SetupWrite(r) PROVE Typed'
  BY <1>2 DEF SetupWrite, Goto
<1>3. ASSUME NEW r \in Req, UnlockBegin(r) PROVE Typed'
  BY <1>3 DEF UnlockBegin, Start
<1>4. ASSUME NEW r \in Req, UnlockVerify(r) PROVE Typed'
  BY <1>4 DEF UnlockVerify, Goto
<1>5. ASSUME NEW r \in Req, Install(r) PROVE Typed'
  BY <1>5 DEF Install, Goto
<1>6. ASSUME NEW r \in Req, IssueCookie(r) PROVE Typed'
  <2>1. cookies' \subseteq KEK
    BY <1>6 DEF IssueCookie
  <2>2. armed' \in BOOLEAN
    BY <1>6 DEF IssueCookie, Touch
  <2>3. UNCHANGED <<stored, wrap, used, live, firing, minted, ever>>
    BY <1>6 DEF IssueCookie
  <2> QED
    BY <1>6, <2>1, <2>2, <2>3, FinishTyped DEF IssueCookie
<1>7. ASSUME NEW r \in Req, RotateBegin(r) PROVE Typed'
  BY <1>7 DEF RotateBegin, Authed, Touch, Start
<1>8. ASSUME NEW r \in Req, RotateReadSalt(r) PROVE Typed'
  BY <1>8 DEF RotateReadSalt, Goto
<1>9. ASSUME NEW r \in Req, RotateCheck(r) PROVE Typed'
  BY <1>9 DEF RotateCheck, Goto
<1>10. ASSUME NEW r \in Req, RotateRewrap(r) PROVE Typed'
  BY <1>10 DEF RotateRewrap, RewrapAll, CanOpenAll, Goto
<1>11. ASSUME NEW r \in Req, IssueBegin(r) PROVE Typed'
  BY <1>11 DEF IssueBegin, Authed, Touch, Start
<1>12. ASSUME NEW r \in Req, UseBegin(r) PROVE Typed'
  BY <1>12 DEF UseBegin, Touch, Start
<1>13. ASSUME NEW r \in Req, RefreshBegin(r) PROVE Typed'
  BY <1>13 DEF RefreshBegin, Start
<1>14. ASSUME NEW r \in Req, ReadKey(r) PROVE Typed'
  BY <1>14 DEF ReadKey, Goto
<1>15. ASSUME NEW r \in Req, OpenKey(r) PROVE Typed'
  BY <1>15 DEF OpenKey, Goto, Finish
<1>16. ASSUME NEW r \in Req, SealKey(r) PROVE Typed'
  BY <1>16 DEF SealKey, Goto
<1>17. ASSUME NEW r \in Req, InsertKey(r) PROVE Typed'
  <2>1. kek[r] \in KEK /\ tok[r] \in Token
    BY <1>17 DEF InsertKey
  <2>2. wrap' \in [Cert -> KEK \cup {None}] /\ used' \subseteq Token
    BY <1>17, <2>1 DEF InsertKey
  <2>3. UNCHANGED <<stored, live, armed, firing, cookies, minted, ever>>
    BY <1>17 DEF InsertKey
  <2> QED
    BY <1>17, <2>2, <2>3, FinishTyped DEF InsertKey
<1>18. ASSUME NEW r \in Req, Abort(r) PROVE Typed'
  BY <1>18 DEF Abort, Finish
<1>19. CASE Lock
  BY <1>19 DEF Lock
<1>20. CASE Expire
  BY <1>20 DEF Expire
<1>21. CASE Fire
  BY <1>21 DEF Fire
<1>22. CASE Restart
  BY <1>22 DEF Restart
<1>23. CASE UNCHANGED vars
  BY <1>23 DEF vars
<1> QED
  BY <1>1, <1>2, <1>3, <1>4, <1>5, <1>6, <1>7, <1>8, <1>9, <1>10, <1>11, <1>12, <1>13, <1>14, <1>15, <1>16, <1>17, <1>18, <1>19, <1>20, <1>21, <1>22, <1>23 DEF Next, Handler

(* Every state has its types, and a handler that has returned keeps no KEK *)
(* (the deferred calls of crypto.Zero).                                    *)
THEOREM TypeCorrect == Spec => []TypeOK
<1>1. Spec => []Typed
  BY TypedInit, TypedStep, PTL DEF Spec
<1> QED
  BY <1>1, PTL DEF Typed

LEMMA TypedAlways == Spec => []Typed
  BY TypedInit, TypedStep, PTL DEF Spec

-----------------------------------------------------------------------------
(* Every KEK in use is one settings have held.                             *)

LEMMA DurableInit == Init => Durable
  BY CustodyAssumption DEF Init, Durable, KeysWereStored

LEMMA DurableStep == Typed /\ Durable /\ [Next]_vars => Durable'
<1> SUFFICES ASSUME Typed, Durable, [Next]_vars PROVE Durable'
  OBVIOUS
<1> USE CustodyAssumption DEF Typed, TypeOK, Coherent, Ops, Steps, Durable,
        KeysWereStored, dbVars, memVars, locals, reqVars, outside
<1>1. ASSUME NEW r \in Req, SetupBegin(r) PROVE Durable'
  BY <1>1 DEF SetupBegin, AfterDerive, Start
<1>2. ASSUME NEW r \in Req, SetupWrite(r) PROVE Durable'
  BY <1>2 DEF SetupWrite, Goto
<1>3. ASSUME NEW r \in Req, UnlockBegin(r) PROVE Durable'
  BY <1>3 DEF UnlockBegin, Start
<1>4. ASSUME NEW r \in Req, UnlockVerify(r) PROVE Durable'
  BY <1>4 DEF UnlockVerify, Goto
<1>5. ASSUME NEW r \in Req, Install(r) PROVE Durable'
  BY <1>5 DEF Install, Goto
<1>6. ASSUME NEW r \in Req, IssueCookie(r) PROVE Durable'
  BY <1>6 DEF IssueCookie, Finish
<1>7. ASSUME NEW r \in Req, RotateBegin(r) PROVE Durable'
  BY <1>7 DEF RotateBegin, Authed, Start
<1>8. ASSUME NEW r \in Req, RotateReadSalt(r) PROVE Durable'
  BY <1>8 DEF RotateReadSalt, Goto
<1>9. ASSUME NEW r \in Req, RotateCheck(r) PROVE Durable'
  BY <1>9 DEF RotateCheck, Goto
<1>10. ASSUME NEW r \in Req, RotateRewrap(r) PROVE Durable'
  BY <1>10 DEF RotateRewrap, RewrapAll, CanOpenAll, Goto
<1>11. ASSUME NEW r \in Req, IssueBegin(r) PROVE Durable'
  BY <1>11 DEF IssueBegin, Authed, Start
<1>12. ASSUME NEW r \in Req, UseBegin(r) PROVE Durable'
  BY <1>12 DEF UseBegin, Authed, Start
<1>13. ASSUME NEW r \in Req, RefreshBegin(r) PROVE Durable'
  BY <1>13 DEF RefreshBegin, Start
<1>14. ASSUME NEW r \in Req, ReadKey(r) PROVE Durable'
  BY <1>14 DEF ReadKey, Goto
<1>15. ASSUME NEW r \in Req, OpenKey(r) PROVE Durable'
  BY <1>15 DEF OpenKey, Goto, Finish
<1>16. ASSUME NEW r \in Req, SealKey(r) PROVE Durable'
  BY <1>16 DEF SealKey, Goto
<1>17. ASSUME NEW r \in Req, InsertKey(r) PROVE Durable'
  BY <1>17 DEF InsertKey, Finish
<1>18. ASSUME NEW r \in Req, Abort(r) PROVE Durable'
  BY <1>18 DEF Abort, Finish
<1>19. CASE Lock
  BY <1>19 DEF Lock
<1>20. CASE Expire
  BY <1>20 DEF Expire
<1>21. CASE Fire
  BY <1>21 DEF Fire
<1>22. CASE Restart
  BY <1>22 DEF Restart
<1>23. CASE UNCHANGED vars
  BY <1>23 DEF vars
<1> QED
  BY <1>1, <1>2, <1>3, <1>4, <1>5, <1>6, <1>7, <1>8, <1>9, <1>10, <1>11,
     <1>12, <1>13, <1>14, <1>15, <1>16, <1>17, <1>18, <1>19, <1>20,
     <1>21, <1>22, <1>23 DEF Next, Handler

(* Nothing is ever live, wrapped or signed under a KEK that no commit of   *)
(* setup or rotation preceded, whatever runs concurrently and wherever the *)
(* process stops.                                                          *)
THEOREM CustodyDurable == Spec => []KeysWereStored
<1>1. Durable => KeysWereStored
  BY DEF Durable
<1> QED
  BY <1>1, TypedAlways, DurableInit, DurableStep, PTL DEF Spec

-----------------------------------------------------------------------------
(* The passphrase changes.                                                 *)

(* Only the transaction of a change takes its request from rewrap to       *)
(* install.                                                                *)
LEMMA OnlyRewrapCommits ==
  ASSUME Typed, Next, NEW r \in Req, pc[r] = "rewrap", pc'[r] = "install"
  PROVE  RotateRewrap(r)
<1> USE DEF Typed, TypeOK, Steps, reqVars
<1>1. PICK q \in Req : Handler(q)
  <2>1. ~Lock /\ ~Expire /\ ~Fire /\ ~Restart
    BY DEF Lock, Expire, Fire, Restart
  <2> QED
    BY <2>1 DEF Next
<1>2. q = r
  BY <1>1 DEF Handler, Start, Goto, Finish, SetupBegin, SetupWrite,
     UnlockBegin, UnlockVerify, Install, IssueCookie, RotateBegin,
     RotateReadSalt, RotateCheck, RotateRewrap, IssueBegin, UseBegin,
     RefreshBegin, ReadKey, OpenKey, SealKey, InsertKey, Abort
<1> QED
  BY <1>1, <1>2 DEF Handler, Start, Goto, Finish, SetupBegin, SetupWrite,
     UnlockBegin, UnlockVerify, Install, IssueCookie, RotateBegin,
     RotateReadSalt, RotateCheck, IssueBegin, UseBegin,
     RefreshBegin, ReadKey, OpenKey, SealKey, InsertKey, Abort

(* A change of the passphrase never commits without every wrapped key      *)
(* following it, even while changes race with each other, with setups and  *)
(* with issuance: what RotatePassphrase cannot open makes it roll back.    *)
THEOREM RotationCarries == Spec => RotationCarriesEveryKey
<1>1. Typed /\ [Next]_vars
        => [\A r \in Req : pc[r] = "rewrap" /\ pc'[r] = "install"
              => \A c \in Cert : wrap'[c] \in {None, stored'}]_vars
  <2> SUFFICES ASSUME Typed, [Next]_vars, vars' # vars, NEW r \in Req,
                      pc[r] = "rewrap", pc'[r] = "install"
               PROVE  \A c \in Cert : wrap'[c] \in {None, stored'}
    BY DEF vars
  <2>1. RotateRewrap(r)
    BY OnlyRewrapCommits
  <2> QED
    BY <2>1 DEF RotateRewrap, CanOpenAll, RewrapAll, Typed, TypeOK
<1> QED
  BY <1>1, TypedAlways, PTL DEF Spec, RotationCarriesEveryKey

-----------------------------------------------------------------------------
(* Before the first setup.                                                 *)

LEMMA BlankInit == Init => BlankUntilSetup
  BY DEF Init, BlankUntilSetup

LEMMA BlankStep == Typed /\ BlankUntilSetup /\ [Next]_vars => BlankUntilSetup'
<1> SUFFICES ASSUME Typed, BlankUntilSetup, [Next]_vars PROVE BlankUntilSetup'
  OBVIOUS
<1> USE CustodyAssumption DEF Typed, TypeOK, Coherent, BlankUntilSetup, Ops, Steps,
        dbVars, memVars, locals, reqVars, outside
<1>1. ASSUME NEW r \in Req, SetupBegin(r) PROVE BlankUntilSetup'
  BY <1>1 DEF SetupBegin, AfterDerive, Start
<1>2. ASSUME NEW r \in Req, SetupWrite(r) PROVE BlankUntilSetup'
  BY <1>2 DEF SetupWrite, Goto
<1>3. ASSUME NEW r \in Req, UnlockBegin(r) PROVE BlankUntilSetup'
  BY <1>3 DEF UnlockBegin, Start
<1>4. ASSUME NEW r \in Req, UnlockVerify(r) PROVE BlankUntilSetup'
  BY <1>4 DEF UnlockVerify, Goto
<1>5. ASSUME NEW r \in Req, Install(r) PROVE BlankUntilSetup'
  BY <1>5 DEF Install, Goto
<1>6. ASSUME NEW r \in Req, IssueCookie(r) PROVE BlankUntilSetup'
  BY <1>6 DEF IssueCookie, Finish
<1>7. ASSUME NEW r \in Req, RotateBegin(r) PROVE BlankUntilSetup'
  BY <1>7 DEF RotateBegin, Authed, Start
<1>8. ASSUME NEW r \in Req, RotateReadSalt(r) PROVE BlankUntilSetup'
  BY <1>8 DEF RotateReadSalt, Goto
<1>9. ASSUME NEW r \in Req, RotateCheck(r) PROVE BlankUntilSetup'
  BY <1>9 DEF RotateCheck, Goto
<1>10. ASSUME NEW r \in Req, RotateRewrap(r) PROVE BlankUntilSetup'
  BY <1>10 DEF RotateRewrap, RewrapAll, CanOpenAll, Goto
<1>11. ASSUME NEW r \in Req, IssueBegin(r) PROVE BlankUntilSetup'
  BY <1>11 DEF IssueBegin, Authed, Start
<1>12. ASSUME NEW r \in Req, UseBegin(r) PROVE BlankUntilSetup'
  BY <1>12 DEF UseBegin, Authed, Start
<1>13. ASSUME NEW r \in Req, RefreshBegin(r) PROVE BlankUntilSetup'
  BY <1>13 DEF RefreshBegin, Start
<1>14. ASSUME NEW r \in Req, ReadKey(r) PROVE BlankUntilSetup'
  BY <1>14 DEF ReadKey, Goto
<1>15. ASSUME NEW r \in Req, OpenKey(r) PROVE BlankUntilSetup'
  BY <1>15 DEF OpenKey, Goto, Finish
<1>16. ASSUME NEW r \in Req, SealKey(r) PROVE BlankUntilSetup'
  BY <1>16 DEF SealKey, Goto
<1>17. ASSUME NEW r \in Req, InsertKey(r) PROVE BlankUntilSetup'
  BY <1>17 DEF InsertKey, Finish
<1>18. ASSUME NEW r \in Req, Abort(r) PROVE BlankUntilSetup'
  BY <1>18 DEF Abort, Finish
<1>19. CASE Lock
  BY <1>19 DEF Lock
<1>20. CASE Expire
  BY <1>20 DEF Expire
<1>21. CASE Fire
  BY <1>21 DEF Fire
<1>22. CASE Restart
  BY <1>22 DEF Restart
<1>23. CASE UNCHANGED vars
  BY <1>23 DEF vars
<1> QED
  BY <1>1, <1>2, <1>3, <1>4, <1>5, <1>6, <1>7, <1>8, <1>9, <1>10, <1>11,
     <1>12, <1>13, <1>14, <1>15, <1>16, <1>17, <1>18, <1>19, <1>20,
     <1>21, <1>22, <1>23 DEF Next, Handler

-----------------------------------------------------------------------------
(* Undisturbed behaviours: everything may overlap a passphrase change but  *)
(* the insertion of a key sealed before it and the installation of a KEK   *)
(* verified before it.                                                     *)

LEMMA CalmInit == Init => CalmInv
  BY DEF Init, CalmInv, BlankUntilSetup, NoKeyStranded, LiveMatchesSettings,
     WritesAgree

Calm == NoKeyStranded /\ LiveMatchesSettings /\ WritesAgree

(* A step that leaves the settings, the wrapped keys and the keystore      *)
(* alone, and neither ends an installation nor begins one or an insertion. *)
LEMMA CalmFrame ==
  ASSUME Calm, UNCHANGED <<stored, wrap, live>>,
         \A q \in Req : pc[q] = "install" => pc'[q] = "install" /\ op'[q] = op[q],
         \A q \in Req : pc'[q] \in {"install", "insert"}
                         => pc[q] = pc'[q] /\ kek'[q] = kek[q]
  PROVE  Calm'
  BY DEF Calm, NoKeyStranded, LiveMatchesSettings, WritesAgree

LEMMA CalmStep ==
  ASSUME Typed, CalmInv, Undisturbed, Undisturbed', [Next]_vars
  PROVE  CalmInv'
<1> USE CustodyAssumption DEF Typed, TypeOK, Coherent, Ops, Steps,
        dbVars, memVars, locals, reqVars, outside
<1>0. Calm
  BY DEF CalmInv, Calm
<1>1. ASSUME NEW r \in Req, SetupBegin(r) PROVE Calm'
  BY <1>0, <1>1, CalmFrame DEF SetupBegin, AfterDerive, Start
<1>2. ASSUME NEW r \in Req, SetupWrite(r) PROVE Calm'
  <2>1. live = None /\ \A c \in Cert : wrap[c] = None
    BY <1>2 DEF SetupWrite, Undisturbed, SetupIsFirst, CalmInv, BlankUntilSetup
  <2>2. \A q \in Req : q # r => pc'[q] \notin {"install", "insert"}
    BY <1>2 DEF SetupWrite, Goto, Undisturbed, SetupIsFirst, CalmInv, BlankUntilSetup
  <2>3. NoKeyStranded' /\ LiveMatchesSettings'
    BY <1>2, <2>1 DEF SetupWrite, NoKeyStranded, LiveMatchesSettings
  <2>4. WritesAgree'
    BY <1>2, <2>2 DEF SetupWrite, Goto, WritesAgree
  <2> QED
    BY <2>3, <2>4 DEF Calm
<1>3. ASSUME NEW r \in Req, UnlockBegin(r) PROVE Calm'
  BY <1>0, <1>3, CalmFrame DEF UnlockBegin, Start
<1>4. ASSUME NEW r \in Req, UnlockVerify(r) PROVE Calm'
  <2>1. NoKeyStranded'
    BY <1>0, <1>4 DEF Calm, UnlockVerify, NoKeyStranded
  <2>2. LiveMatchesSettings'
    BY <1>0, <1>4 DEF Calm, UnlockVerify, Goto, LiveMatchesSettings
  <2>3. WritesAgree'
    BY <1>0, <1>4 DEF Calm, UnlockVerify, Goto, WritesAgree
  <2> QED
    BY <2>1, <2>2, <2>3 DEF Calm
<1>5. ASSUME NEW r \in Req, Install(r) PROVE Calm'
  <2>1. kek[r] = stored
    BY <1>0, <1>5 DEF Calm, Install, WritesAgree
  <2>2. NoKeyStranded' /\ LiveMatchesSettings'
    BY <1>0, <1>5, <2>1 DEF Calm, Install, NoKeyStranded, LiveMatchesSettings
  <2>3. WritesAgree'
    BY <1>0, <1>5 DEF Calm, Install, Goto, WritesAgree
  <2> QED
    BY <2>2, <2>3 DEF Calm
<1>6. ASSUME NEW r \in Req, IssueCookie(r) PROVE Calm'
  BY <1>0, <1>6, CalmFrame DEF IssueCookie, Finish
<1>7. ASSUME NEW r \in Req, RotateBegin(r) PROVE Calm'
  BY <1>0, <1>7, CalmFrame DEF RotateBegin, Authed, Start
<1>8. ASSUME NEW r \in Req, RotateReadSalt(r) PROVE Calm'
  BY <1>0, <1>8, CalmFrame DEF RotateReadSalt, Goto
<1>9. ASSUME NEW r \in Req, RotateCheck(r) PROVE Calm'
  BY <1>0, <1>9, CalmFrame DEF RotateCheck, Goto
<1>10. ASSUME NEW r \in Req, RotateRewrap(r) PROVE Calm'
  <2>1. \A q \in Req : q # r => pc'[q] \notin {"install", "insert"}
    BY <1>10 DEF RotateRewrap, Goto, Undisturbed
  <2>2. NoKeyStranded'
    BY <1>10 DEF RotateRewrap, CanOpenAll, RewrapAll, NoKeyStranded
  <2>3. LiveMatchesSettings'
    BY <1>10 DEF RotateRewrap, Goto, LiveMatchesSettings
  <2>4. WritesAgree'
    BY <1>10, <2>1 DEF RotateRewrap, Goto, WritesAgree
  <2> QED
    BY <2>2, <2>3, <2>4 DEF Calm
<1>11. ASSUME NEW r \in Req, IssueBegin(r) PROVE Calm'
  BY <1>0, <1>11, CalmFrame DEF IssueBegin, Authed, Start
<1>12. ASSUME NEW r \in Req, UseBegin(r) PROVE Calm'
  BY <1>0, <1>12, CalmFrame DEF UseBegin, Authed, Start
<1>13. ASSUME NEW r \in Req, RefreshBegin(r) PROVE Calm'
  BY <1>0, <1>13, CalmFrame DEF RefreshBegin, Start
<1>14. ASSUME NEW r \in Req, ReadKey(r) PROVE Calm'
  BY <1>0, <1>14, CalmFrame DEF ReadKey, Goto
<1>15. ASSUME NEW r \in Req, OpenKey(r) PROVE Calm'
  BY <1>0, <1>15, CalmFrame DEF OpenKey, Goto, Finish
<1>16. ASSUME NEW r \in Req, SealKey(r) PROVE Calm'
  <2>1. live = stored
    <3>1. SUFFICES ASSUME live # stored PROVE FALSE
      OBVIOUS
    <3>2. PICK q \in Req : op[q] = "rotate" /\ pc[q] = "install"
      BY <1>0, <1>16, <3>1 DEF Calm, SealKey, LiveMatchesSettings
    <3>3. q # r /\ op'[q] = "rotate" /\ pc'[q] = "install" /\ pc'[r] = "insert"
      BY <1>16, <3>2 DEF SealKey, Goto
    <3> QED
      BY <3>3 DEF Undisturbed
  <2>2. NoKeyStranded' /\ LiveMatchesSettings'
    BY <1>0, <1>16, <2>1 DEF Calm, SealKey, NoKeyStranded, LiveMatchesSettings
  <2>3. WritesAgree'
    BY <1>0, <1>16, <2>1 DEF Calm, SealKey, Goto, WritesAgree
  <2> QED
    BY <2>2, <2>3 DEF Calm
<1>17. ASSUME NEW r \in Req, InsertKey(r) PROVE Calm'
  <2>1. NoKeyStranded'
    BY <1>0, <1>17 DEF Calm, InsertKey, NoKeyStranded, WritesAgree
  <2>2. LiveMatchesSettings'
    BY <1>0, <1>17 DEF Calm, InsertKey, Finish, LiveMatchesSettings
  <2>3. WritesAgree'
    BY <1>0, <1>17 DEF Calm, InsertKey, Finish, WritesAgree
  <2> QED
    BY <2>1, <2>2, <2>3 DEF Calm
<1>18. ASSUME NEW r \in Req, Abort(r) PROVE Calm'
  BY <1>0, <1>18, CalmFrame DEF Abort, Finish
<1>19. ASSUME Lock PROVE Calm'
  BY <1>0, <1>19 DEF Calm, Lock, NoKeyStranded, LiveMatchesSettings, WritesAgree
<1>20. ASSUME Expire PROVE Calm'
  BY <1>0, <1>20 DEF Calm, Expire, NoKeyStranded, LiveMatchesSettings, WritesAgree
<1>21. ASSUME Fire PROVE Calm'
  BY <1>0, <1>21 DEF Calm, Fire, NoKeyStranded, LiveMatchesSettings, WritesAgree
<1>22. ASSUME Restart PROVE Calm'
  BY <1>0, <1>22 DEF Calm, Restart, NoKeyStranded, LiveMatchesSettings, WritesAgree
<1>23. ASSUME UNCHANGED vars PROVE Calm'
  BY <1>0, <1>23 DEF Calm, vars, NoKeyStranded, LiveMatchesSettings, WritesAgree
<1>24. Calm'
  BY <1>1, <1>2, <1>3, <1>4, <1>5, <1>6, <1>7, <1>8, <1>9, <1>10, <1>11,
     <1>12, <1>13, <1>14, <1>15, <1>16, <1>17, <1>18, <1>19, <1>20,
     <1>21, <1>22, <1>23 DEF Next, Handler
<1>25. BlankUntilSetup'
  BY BlankStep DEF CalmInv
<1> QED
  BY <1>24, <1>25 DEF Calm, CalmInv

LEMMA CalmAlways == Spec /\ []Undisturbed => []CalmInv
<1>1. Typed /\ CalmInv /\ Undisturbed /\ Undisturbed' /\ [Next]_vars => CalmInv'
  BY CalmStep
<1> QED
  BY <1>1, TypedAlways, CalmInit, PTL DEF Spec

(* No private key is lost, at any instant, however issuing, unlocking,     *)
(* locking and restarting overlap a passphrase change, save for the two    *)
(* overlaps that Undisturbed names.                                        *)
THEOREM NoKeyIsStranded == Spec /\ []Undisturbed => []NoKeyStranded
<1>1. CalmInv => NoKeyStranded
  BY DEF CalmInv
<1> QED
  BY <1>1, CalmAlways, PTL

(* The KEK in memory is the stored one, save between a rotation's commit   *)
(* and its Install: under the same condition.                              *)
THEOREM MemoryMatchesDisk == Spec /\ []Undisturbed => []LiveMatchesSettings
<1>1. CalmInv => LiveMatchesSettings
  BY DEF CalmInv
<1> QED
  BY <1>1, CalmAlways, PTL

-----------------------------------------------------------------------------
(* Refinement: The KEK in memory and the readable keys implement KeyVault. *)

Readable == {c \in Cert : wrap[c] # None /\ wrap[c] = stored}

LEMMA VaultInit == Init => Vault!Init
  BY DEF Init, Vault!Init

(* Each step of the server is a step of the vault or invisible to it.      *)
LEMMA VaultStep ==
  ASSUME Typed, CalmInv, Undisturbed, [Next]_vars
  PROVE  [Vault!Next]_(Vault!vars)
<1> USE CustodyAssumption DEF dbVars, memVars, locals, reqVars, outside
<1>1. \/ UNCHANGED <<stored, wrap, live>>
      \/ \E r \in Req : \/ SetupWrite(r) \/ Install(r)
                        \/ RotateRewrap(r) \/ InsertKey(r)
      \/ Lock \/ Fire \/ Restart
  BY DEF Next, Handler, vars, SetupBegin, UnlockBegin, UnlockVerify,
     IssueCookie, RotateBegin, RotateReadSalt, RotateCheck, IssueBegin,
     UseBegin, RefreshBegin, ReadKey, OpenKey, SealKey, Abort, Expire
<1>2. CASE UNCHANGED <<stored, wrap, live>>
  BY <1>2 DEF Vault!vars
<1>3. ASSUME NEW r \in Req, SetupWrite(r) PROVE Vault!Setup
  <2>1. stored = None /\ \A c \in Cert : wrap[c] = None
    BY <1>3 DEF SetupWrite, Undisturbed, SetupIsFirst, CalmInv,
       BlankUntilSetup
  <2>2. kek[r] \in KEK
    BY <1>3 DEF SetupWrite, Typed, TypeOK, Coherent
  <2> QED
    BY <1>3, <2>1, <2>2 DEF SetupWrite, Vault!Setup
<1>4. ASSUME NEW r \in Req, Install(r) PROVE Vault!Unlock
  <2>1. kek[r] = stored /\ kek[r] # None
    BY <1>4 DEF Install, CalmInv, WritesAgree, Typed, Coherent
  <2> QED
    BY <1>4, <2>1 DEF Install, Vault!Unlock
<1>5. ASSUME NEW r \in Req, RotateRewrap(r) PROVE Vault!ChangePassphrase
  <2>1. stored = live
    BY <1>5 DEF RotateRewrap, CanOpenAll, CalmInv, LiveMatchesSettings,
       Undisturbed
  <2>2. kek[r] \in KEK
    BY <1>5 DEF RotateRewrap, Typed, TypeOK, Coherent
  <2>3. \A c \in Cert : wrap'[c] = IF wrap[c] = live THEN kek[r] ELSE wrap[c]
    BY <1>5 DEF RotateRewrap, RewrapAll
  <2>4. \A c \in Cert : wrap[c] \in {None, live}
    BY <1>5 DEF RotateRewrap, CanOpenAll
  <2>5. stored # None /\ stored' = kek[r] /\ live' = live
    BY <1>5, <2>1 DEF RotateRewrap, CanOpenAll
  <2>6. {c \in Cert : wrap[c] # None /\ wrap[c] = stored}'
          = {c \in Cert : wrap[c] # None /\ wrap[c] = stored}
    BY <2>1, <2>2, <2>3, <2>4, <2>5
  <2> QED
    BY <2>2, <2>5, <2>6 DEF Vault!ChangePassphrase
<1>6. ASSUME NEW r \in Req, InsertKey(r) PROVE [Vault!Next]_(Vault!vars)
  <2>1. kek[r] = stored /\ kek[r] \in KEK /\ stored' = stored /\ live' = live
    BY <1>6 DEF InsertKey, CalmInv, WritesAgree, Typed, TypeOK, Coherent
  <2>2. wrap' = [wrap EXCEPT ![row[r]] = stored]
    BY <1>6, <2>1 DEF InsertKey
  <2>3. CASE row[r] \in Cert \ Readable
    <3>1. {c \in Cert : wrap[c] # None /\ wrap[c] = stored}'
            = {c \in Cert : wrap[c] # None /\ wrap[c] = stored} \cup {row[r]}
      BY <2>1, <2>2, <2>3 DEF Typed, TypeOK
    <3>2. Vault!AddKey
      BY <2>1, <2>3, <3>1 DEF Vault!AddKey, Readable
    <3> QED
      BY <3>2 DEF Vault!Next
  <2>4. CASE row[r] \notin Cert \ Readable
    <3>1. {c \in Cert : wrap[c] # None /\ wrap[c] = stored}'
            = {c \in Cert : wrap[c] # None /\ wrap[c] = stored}
      BY <2>1, <2>2, <2>4 DEF Typed, TypeOK, Readable
    <3> QED
      BY <2>1, <3>1 DEF Vault!vars
  <2> QED
    BY <2>3, <2>4
<1>7. CASE Lock
  BY <1>7 DEF Lock, Vault!Lock, Vault!Next
<1>8. CASE Fire
  BY <1>8 DEF Fire, Vault!Lock, Vault!Next
<1>9. CASE Restart
  <2>1. UNCHANGED <<stored, wrap>> /\ live' \in {None, stored}
    BY <1>9 DEF Restart
  <2>2. CASE live' = None
    BY <2>1, <2>2 DEF Vault!Lock, Vault!Next
  <2>3. CASE live' # None
    BY <2>1, <2>3 DEF Vault!Unlock, Vault!Next
  <2> QED
    BY <2>2, <2>3
<1> QED
  BY <1>1, <1>2, <1>3, <1>4, <1>5, <1>6, <1>7, <1>8, <1>9 DEF Vault!Next

(* The whole of KeyCustody implements the vault: passphrase changes,       *)
(* locks, crashes and restarts never make a stored key unreadable.         *)
THEOREM CustodyImplementsVault == Spec /\ []Undisturbed => VaultSpec
<1>1. Typed /\ CalmInv /\ Undisturbed /\ [Next]_vars => [Vault!Next]_(Vault!vars)
  BY VaultStep
<1> QED
  BY <1>1, VaultInit, TypedAlways, CalmAlways, PTL DEF Spec, VaultSpec, Vault!Spec

(* What the vault is for: a private key that opens under the stored        *)
(* passphrase opens, after any step, under the one that is stored then.    *)
THEOREM KeysStayReadable ==
  Spec /\ []Undisturbed => [][Readable \subseteq Readable']_vars
<1>1. [Vault!Next]_(Vault!vars) => Readable \subseteq Readable'
  BY DEF Vault!Next, Vault!vars, Vault!Setup, Vault!ChangePassphrase,
     Vault!Unlock, Vault!Lock, Vault!AddKey, Readable
<1>2. Typed /\ CalmInv /\ Undisturbed /\ [Next]_vars
        => [Readable \subseteq Readable']_vars
  BY <1>1, VaultStep
<1> QED
  BY <1>2, TypedAlways, CalmAlways, PTL DEF Spec
=============================================================================
