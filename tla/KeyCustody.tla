----------------------------- MODULE KeyCustody -----------------------------
(***************************************************************************)
(* Who holds the key-encryption key (KEK), and under which KEK the private *)
(* keys on disk are wrapped.                                               *)
(*                                                                         *)
(* Three places must agree: the settings table (salt, parameters and       *)
(* verifier of the current passphrase), the cert_keys table (one wrapped   *)
(* data key per certificate) and the KEK in memory.  Request handlers run  *)
(* concurrently, one action per database statement, transaction or         *)
(* keystore call; the process may stop between any two of them.            *)
(*                                                                         *)
(* Every setup and every passphrase change draws a fresh salt, so a KEK    *)
(* names one generation of the settings: its salt, its verifier and the    *)
(* passphrase that, with that salt, derives it.                            *)
(***************************************************************************)
EXTENDS Naturals, FiniteSets

CONSTANTS
  Req,           (* slots for requests in flight                           *)
  KEK,           (* key-encryption keys that can be derived                *)
  Cert,          (* certificate ids                                        *)
  Token,         (* form tokens rendered into pages                        *)
  None,          (* no KEK, no certificate, no token                       *)
  EnvPassphrase  (* CM_PASSPHRASE is set: unlock at startup, no auto-lock  *)

Ops == {"setup", "unlock", "rotate", "issue", "use"}

Steps == {"idle", "write", "verify", "salt", "check", "rewrap", "install",
          "cookie", "read", "open", "seal", "insert"}

ASSUME CustodyAssumption == /\ None \notin KEK \cup Cert \cup Token
                            /\ EnvPassphrase \in BOOLEAN

VARIABLES
  (* SQLite database: survives a restart                                   *)
  stored,   (* the KEK whose salt, parameters and verifier are in settings *)
  wrap,     (* the KEK each certificate's data key is wrapped under        *)
  used,     (* form tokens with used_at set                                *)
  (* process memory                                                        *)
  live,     (* the keystore's KEK, None while locked                       *)
  armed,    (* the idle timer is running                                   *)
  firing,   (* its callback has started but has not yet locked             *)
  op, pc,   (* what each request is doing, and its next step               *)
  kek,      (* a KEK the request derived, or sealed a key under            *)
  saw,      (* what the request read: settings' salt or a row's wrap       *)
  row,      (* the id of the certificate the request is creating           *)
  tok,      (* the form token it carries                                   *)
  (* the outside world and history                                         *)
  cookies,  (* KEKs under which some browser holds a signed session cookie *)
  minted,   (* KEKs derived so far from a fresh salt                       *)
  ever      (* history: KEKs that settings have held                       *)

dbVars   == <<stored, wrap, used>>
memVars  == <<live, armed, firing>>
locals   == <<kek, saw, row, tok>>
reqVars  == <<op, pc, kek, saw, row, tok>>
outside  == <<cookies, minted, ever>>
vars     == <<stored, wrap, used, live, armed, firing, op, pc, kek, saw, row,
              tok, cookies, minted, ever>>

-----------------------------------------------------------------------------
Init ==
  /\ stored = None
  /\ wrap = [c \in Cert |-> None]
  /\ used = {}
  /\ live = None
  /\ armed = FALSE
  /\ firing = FALSE
  /\ op = [r \in Req |-> "none"]
  /\ pc = [r \in Req |-> "idle"]
  /\ kek = [r \in Req |-> None]
  /\ saw = [r \in Req |-> None]
  /\ row = [r \in Req |-> None]
  /\ tok = [r \in Req |-> None]
  /\ cookies = {}
  /\ minted = {}
  /\ ever = {}

-----------------------------------------------------------------------------
(* Helpers.                                                                *)

Start(r, o, step) ==
  /\ pc[r] = "idle"
  /\ op' = [op EXCEPT ![r] = o]
  /\ pc' = [pc EXCEPT ![r] = step]

Goto(r, step) ==
  /\ pc' = [pc EXCEPT ![r] = step]
  /\ UNCHANGED op

FinishLeaky(r) ==
  /\ op' = [op EXCEPT ![r] = "none"]
  /\ pc' = [pc EXCEPT ![r] = "idle"]
  /\ saw' = [saw EXCEPT ![r] = None]
  /\ row' = [row EXCEPT ![r] = None]
  /\ tok' = [tok EXCEPT ![r] = None]
  /\ UNCHANGED kek

(* The handler returns; its deferred calls zero the KEK it derived.        *)
Finish(r) ==
  /\ op' = [op EXCEPT ![r] = "none"]
  /\ pc' = [pc EXCEPT ![r] = "idle"]
  /\ kek' = [kek EXCEPT ![r] = None]
  /\ saw' = [saw EXCEPT ![r] = None]
  /\ row' = [row EXCEPT ![r] = None]
  /\ tok' = [tok EXCEPT ![r] = None]

(* idleLocker.Touch: (re)arm the timer unless auto-lock is off.            *)
Touch == armed' = ~EnvPassphrase

(* requireUnlocked lets a request in: the app is set up, unlocked, and the *)
(* session cookie verifies under the secret derived from the live KEK.     *)
Authed == stored # None /\ live # None /\ live \in cookies

(* The rewrap callback opens every stored wrap with the keystore's KEK.    *)
CanOpenSome == live # None

CanOpenAll == live # None /\ \A c \in Cert : wrap[c] \in {None, live}

RewrapNone(k) == wrap

RewrapAll(k) == [c \in Cert |-> IF wrap[c] = live THEN k ELSE wrap[c]]

-----------------------------------------------------------------------------
(* First-run setup: check, derive, write settings, install, cookie.  The   *)
(* transaction does not look at settings again.                            *)
AfterDeriveUnsaved == "install"

AfterDerive == "write"

SetupBegin(r) ==
  /\ stored = None
  /\ Start(r, "setup", AfterDerive)
  /\ \E k \in KEK \ minted : /\ kek' = [kek EXCEPT ![r] = k]
                             /\ minted' = minted \cup {k}
  /\ UNCHANGED <<dbVars, memVars, saw, row, tok, cookies, ever>>

SetupWrite(r) ==
  /\ op[r] = "setup" /\ pc[r] = "write"
  /\ stored' = kek[r]
  /\ ever' = ever \cup {kek[r]}
  /\ Goto(r, "install")
  /\ UNCHANGED <<wrap, used, memVars, locals, cookies, minted>>

-----------------------------------------------------------------------------
(* Unlock: the salt and the verifier are read by separate statements; the  *)
(* KEK derived from the right passphrase and the salt that was read must   *)
(* match the verifier.                                                     *)
UnlockBegin(r) ==
  /\ stored # None
  /\ Start(r, "unlock", "verify")
  /\ saw' = [saw EXCEPT ![r] = stored]
  /\ UNCHANGED <<dbVars, memVars, kek, row, tok, outside>>

UnlockVerify(r) ==
  /\ op[r] = "unlock" /\ pc[r] = "verify"
  /\ saw[r] = stored
  /\ kek' = [kek EXCEPT ![r] = saw[r]]
  /\ Goto(r, "install")
  /\ UNCHANGED <<dbVars, memVars, saw, row, tok, outside>>

(* Keystore.Install replaces whatever KEK is in memory.                    *)
InstallUnlessRotating(r) ==
  /\ pc[r] = "install"
  /\ live' = IF op[r] = "rotate" THEN live ELSE kek[r]
  /\ Goto(r, "cookie")
  /\ UNCHANGED <<dbVars, armed, firing, locals, outside>>

Install(r) ==
  /\ pc[r] = "install"
  /\ live' = kek[r]
  /\ Goto(r, "cookie")
  /\ UNCHANGED <<dbVars, armed, firing, locals, outside>>

(* issueSessionCookie signs under the KEK that is live now, which need not *)
(* be the one just installed; it fails if the keystore has been locked.    *)
(* Setup and unlock then touch the idle timer, passphrase rotation does    *)
(* not.                                                                    *)
IssueCookie(r) ==
  /\ pc[r] = "cookie"
  /\ IF live = None
       THEN UNCHANGED <<cookies, armed>>
       ELSE /\ cookies' = cookies \cup {live}
            /\ IF op[r] = "rotate" THEN UNCHANGED armed ELSE Touch
  /\ Finish(r)
  /\ UNCHANGED <<dbVars, live, firing, minted, ever>>

-----------------------------------------------------------------------------
(* Passphrase rotation.                                                    *)
RotateBegin(r) ==
  /\ Authed
  /\ Touch
  /\ Start(r, "rotate", "salt")
  /\ \E t \in Token \ used : tok' = [tok EXCEPT ![r] = t]
  /\ UNCHANGED <<dbVars, live, firing, kek, saw, row, outside>>

RotateReadSalt(r) ==
  /\ op[r] = "rotate" /\ pc[r] = "salt"
  /\ saw' = [saw EXCEPT ![r] = stored]
  /\ Goto(r, "check")
  /\ UNCHANGED <<dbVars, memVars, kek, row, tok, outside>>

(* The current passphrase is checked against the live KEK, not against     *)
(* settings; then the new KEK is derived.                                  *)
RotateCheck(r) ==
  /\ op[r] = "rotate" /\ pc[r] = "check"
  /\ saw[r] = live
  /\ \E k \in KEK \ minted : /\ kek' = [kek EXCEPT ![r] = k]
                             /\ minted' = minted \cup {k}
  /\ Goto(r, "rewrap")
  /\ UNCHANGED <<dbVars, memVars, saw, row, tok, cookies, ever>>

(* One transaction under the keystore's read lock: rewrap every row from   *)
(* the KEK live at that moment, write settings, consume the token.         *)
RotateRewrap(r) ==
  /\ op[r] = "rotate" /\ pc[r] = "rewrap"
  /\ CanOpenAll
  /\ tok[r] \notin used
  /\ wrap' = RewrapAll(kek[r])
  /\ stored' = kek[r]
  /\ used' = used \cup {tok[r]}
  /\ ever' = ever \cup {kek[r]}
  /\ Goto(r, "install")
  /\ UNCHANGED <<memVars, locals, cookies, minted>>

-----------------------------------------------------------------------------
(* Using and creating private keys.  Issuing, rotating and importing a     *)
(* certificate share the same steps on keys: perhaps open the parent's     *)
(* key, seal the new key under the live KEK, and, later, insert the row in *)
(* one transaction with the form token.                                    *)
IssueBegin(r) ==
  /\ Authed
  /\ Touch
  /\ \/ Start(r, "issue", "read")
     \/ Start(r, "issue", "seal")
  /\ \E t \in Token \ used : tok' = [tok EXCEPT ![r] = t]
  /\ UNCHANGED <<dbVars, live, firing, kek, saw, row, outside>>

(* Revoking, deploying, downloading a key: behind the session gate.        *)
UseBegin(r) ==
  /\ Authed
  /\ Touch
  /\ Start(r, "use", "read")
  /\ UNCHANGED <<dbVars, live, firing, locals, outside>>

(* The public CRL endpoint signs a fresh CRL without a session and without *)
(* touching the idle timer.                                                *)
RefreshBegin(r) ==
  /\ live # None
  /\ Start(r, "use", "read")
  /\ UNCHANGED <<dbVars, memVars, locals, outside>>

ReadKey(r) ==
  /\ pc[r] = "read"
  /\ \E c \in Cert : /\ wrap[c] # None
                     /\ saw' = [saw EXCEPT ![r] = wrap[c]]
  /\ Goto(r, "open")
  /\ UNCHANGED <<dbVars, memVars, kek, row, tok, outside>>

(* Keystore.With around OpenPrivateKey: authenticated decryption succeeds  *)
(* only under the KEK the row was wrapped under.                           *)
OpenKey(r) ==
  /\ pc[r] = "open"
  /\ saw[r] = live
  /\ IF op[r] = "issue" THEN Goto(r, "seal") /\ UNCHANGED locals
                        ELSE Finish(r)
  /\ UNCHANGED <<dbVars, memVars, outside>>

SealKey(r) ==
  /\ pc[r] = "seal"
  /\ live # None
  /\ kek' = [kek EXCEPT ![r] = live]
  /\ \E c \in Cert : /\ wrap[c] = None
                     /\ \A q \in Req : row[q] # c
                     /\ row' = [row EXCEPT ![r] = c]
  /\ Goto(r, "insert")
  /\ UNCHANGED <<dbVars, memVars, saw, tok, outside>>

InsertKey(r) ==
  /\ pc[r] = "insert"
  /\ tok[r] \notin used
  /\ wrap' = [wrap EXCEPT ![row[r]] = kek[r]]
  /\ used' = used \cup {tok[r]}
  /\ Finish(r)
  /\ UNCHANGED <<stored, memVars, outside>>

-----------------------------------------------------------------------------
(* The error returns: a statement fails (busy, constraint), the passphrase *)
(* is wrong, or the guard of the step does not hold.                       *)
Abort(r) ==
  /\ pc[r] \notin {"idle", "install", "cookie"}
  /\ Finish(r)
  /\ UNCHANGED <<dbVars, memVars, outside>>

(* POST /lock asks for no session.                                         *)
Lock ==
  /\ live' = None
  /\ UNCHANGED <<dbVars, armed, firing, reqVars, outside>>

(* The idle timer expires, and some time later its callback locks whatever *)
(* happened in between.                                                    *)
Expire ==
  /\ armed /\ ~firing
  /\ armed' = FALSE
  /\ firing' = TRUE
  /\ UNCHANGED <<dbVars, live, reqVars, outside>>

Fire ==
  /\ firing
  /\ firing' = FALSE
  /\ live' = None
  /\ UNCHANGED <<dbVars, armed, reqVars, outside>>

(* The process stops, requests and memory are lost, an open transaction    *)
(* rolls back, and the process starts again.                               *)
Restart ==
  /\ live' = IF EnvPassphrase THEN stored ELSE None
  /\ armed' = FALSE
  /\ firing' = FALSE
  /\ op' = [r \in Req |-> "none"]
  /\ pc' = [r \in Req |-> "idle"]
  /\ kek' = [r \in Req |-> None]
  /\ saw' = [r \in Req |-> None]
  /\ row' = [r \in Req |-> None]
  /\ tok' = [r \in Req |-> None]
  /\ UNCHANGED <<dbVars, outside>>

Handler(r) ==
  \/ SetupBegin(r)  \/ SetupWrite(r)
  \/ UnlockBegin(r) \/ UnlockVerify(r)
  \/ Install(r)     \/ IssueCookie(r)
  \/ RotateBegin(r) \/ RotateReadSalt(r) \/ RotateCheck(r) \/ RotateRewrap(r)
  \/ IssueBegin(r)  \/ UseBegin(r) \/ RefreshBegin(r)
  \/ ReadKey(r) \/ OpenKey(r) \/ SealKey(r) \/ InsertKey(r)
  \/ Abort(r)

Next == (\E r \in Req : Handler(r)) \/ Lock \/ Expire \/ Fire \/ Restart

Spec == Init /\ [][Next]_vars

-----------------------------------------------------------------------------
(* Type invariant: among the types, a request that has returned keeps no   *)
(* KEK (the handlers' deferred Zero calls).                                *)
TypeOK ==
  /\ stored \in KEK \cup {None}
  /\ wrap \in [Cert -> KEK \cup {None}]
  /\ used \subseteq Token
  /\ live \in KEK \cup {None}
  /\ armed \in BOOLEAN /\ firing \in BOOLEAN
  /\ op \in [Req -> Ops \cup {"none"}]
  /\ pc \in [Req -> Steps]
  /\ kek \in [Req -> KEK \cup {None}]
  /\ saw \in [Req -> KEK \cup {None}]
  /\ row \in [Req -> Cert \cup {None}]
  /\ tok \in [Req -> Token \cup {None}]
  /\ cookies \subseteq KEK
  /\ minted \subseteq KEK
  /\ ever \subseteq KEK
  /\ \A r \in Req : pc[r] = "idle" => op[r] = "none" /\ kek[r] = None

(* What a request at each step is doing and already holds.  Part of the    *)
(* inductive invariants of KeyCustodyProofs.                               *)
Coherent ==
  \A r \in Req :
    /\ pc[r] = "idle" <=> op[r] = "none"
    /\ pc[r] = "write" => op[r] = "setup"
    /\ pc[r] = "verify" => op[r] = "unlock"
    /\ pc[r] \in {"salt", "check", "rewrap"} => op[r] = "rotate"
    /\ pc[r] \in {"install", "cookie"} => op[r] \in {"setup", "unlock", "rotate"}
    /\ pc[r] \in {"read", "open"} => op[r] \in {"issue", "use"}
    /\ pc[r] \in {"seal", "insert"} => op[r] = "issue"
    /\ pc[r] \in {"write", "rewrap", "install", "insert"} => kek[r] # None
    /\ pc[r] \in {"verify", "open"} => saw[r] # None
    /\ op[r] \in {"rotate", "issue"} => tok[r] # None

(* Every KEK in use, in memory, around a private key or behind a session   *)
(* cookie, is one that settings have durably held: the commit of setup and *)
(* of rotation comes before Install, whatever is interleaved or lost, so   *)
(* nothing is ever sealed under a KEK no passphrase was stored for.        *)
KeysWereStored ==
  /\ live \in ever \cup {None}
  /\ \A c \in Cert : wrap[c] \in ever \cup {None}
  /\ cookies \subseteq ever

(* The inductive strengthening of KeysWereStored: what a request has read  *)
(* from settings, or is about to install or seal under, was stored too.    *)
Durable ==
  /\ KeysWereStored
  /\ stored \in ever \cup {None}
  /\ ever \subseteq minted
  /\ \A r \in Req :
       /\ pc[r] \in {"install", "insert"} => kek[r] \in ever
       /\ pc[r] = "verify" => saw[r] \in ever
       /\ pc[r] \in {"write", "rewrap"} => kek[r] \in minted

(* The commit of a passphrase change leaves no key behind: in the state    *)
(* after it every wrapped key opens under the KEK the settings now verify  *)
(* (store.RotatePassphrase rolls back on a row it cannot open), whatever   *)
(* other changes, setups, unlocks and insertions came between the check of *)
(* the old passphrase and the transaction.                                 *)
RotationCarriesEveryKey ==
  [][\A r \in Req : pc[r] = "rewrap" /\ pc'[r] = "install"
                     => \A c \in Cert : wrap'[c] \in {None, stored'}]_vars

(* No private key is lost: every wrapped key opens under the KEK that the  *)
(* current passphrase derives, at every instant a crash could strike.      *)
NoKeyStranded == \A c \in Cert : wrap[c] \in {None, stored}

(* The KEK in memory is the one settings describe, save between the commit *)
(* of a passphrase rotation and its Install.                               *)
LiveMatchesSettings ==
  \/ live \in {None, stored}
  \/ \E r \in Req : op[r] = "rotate" /\ pc[r] = "install"

(* Until settings are first written nothing is unlocked, wrapped or read.  *)
BlankUntilSetup ==
  stored = None => /\ live = None
                   /\ \A c \in Cert : wrap[c] = None
                   /\ \A r \in Req : pc[r] \in {"idle", "write"}

(* Two conditions on a behaviour, not properties of the code.  The form of *)
(* the first-run setup is not still at work once settings exist:           *)
SetupIsFirst == \A r \in Req : pc[r] = "write" => stored = None

(* and no request is about to install a KEK when a passphrase change is    *)
(* about to commit, nor to insert a key it has sealed when a change has    *)
(* committed and not yet installed its KEK.                                *)
Undisturbed ==
  /\ SetupIsFirst
  /\ \A r, q \in Req : r # q /\ op[r] = "rotate" =>
       /\ pc[r] = "rewrap" => pc[q] # "install"
       /\ pc[r] = "install" => pc[q] # "insert"

(* What a request is about to install or to insert is the stored KEK or a  *)
(* key sealed under it.                                                    *)
WritesAgree ==
  \A r \in Req : pc[r] \in {"install", "insert"} => kek[r] = stored

(* The inductive strengthening of NoKeyStranded and LiveMatchesSettings in *)
(* undisturbed behaviours, whatever else overlaps.                         *)
CalmInv ==
  /\ BlankUntilSetup
  /\ NoKeyStranded
  /\ LiveMatchesSettings
  /\ WritesAgree

(* The abstract vault this implements in undisturbed behaviours.           *)
Vault == INSTANCE KeyVault
           WITH guard    <- stored,
                readable <- {c \in Cert : wrap[c] # None /\ wrap[c] = stored},
                open     <- live # None

VaultSpec == Vault!Spec
=============================================================================
