# A verification of homepki

homepki is a small certificate authority with a web interface: one Go process,
one SQLite file, one operator. This directory holds TLA+ models of the parts of
it that concurrency, failures and restarts make hard, the TLC configurations
that check them on small instances, and TLAPS proofs of their main properties
for every size of instance.

`PROJECT.json` lists, for machines, what this file explains: the components,
the runs, the lines each definition models, the hazards and where they bite,
the theorems.

## 1. Inventory

### The process

`src/cmd/homepki/main.go` opens the database, applies migrations, unlocks the
keystore if `CM_PASSPHRASE` is set, starts an hourly sweep of old form tokens
and serves HTTP. net/http runs each request in a goroutine of its own: *any two
handlers interleave at every database statement and keystore call*. SQLite (WAL,
5 s busy timeout) serialises write transactions; almost all reads and several
writes of the handlers are outside any transaction. Nothing else is durable, so
a restart loses the key in memory, the timers, and the requests in flight.

| Component | State | Operations | Talks to |
|---|---|---|---|
| Key custody (`crypto/keystore.go`, `store/passphrase.go`, handlers setup, unlock, settings, lock) | the KEK in memory; salt, parameters, verifier in `settings`; one wrapped data key per row of `cert_keys` | setup, unlock, passphrase change, lock; seal and open a private key | every operation that signs or exports a key |
| Idle lock (`web/autolock.go`) | a timer | touch, expire, fire | keystore |
| Automatic unlock (`cmd/homepki/main.go`) | none | at start | settings, keystore |
| CRL publication (`web/crl_regen.go`, `handlers_revoke.go`, `handlers_crl.go`, `store/crls.go`) | `status` of certificates, rows of `crls` | revoke, regenerate, public fetch of the latest or a numbered CRL, first CRL of a CA | keystore (signing), certificates |
| Certificate lifecycle (`store/certs.go`, `web/persist.go`, handlers issue, rotate, import) | rows of `certificates` and their links | issue root, intermediate, leaf; rotate; import; revoke | form tokens, key custody, CRLs, deploy |
| Form tokens (`store/idempotency.go`, `web/form_token.go`) | rows of `idempotency_tokens` | create with a page, look up, mark in the transaction of the form, sweep | every form that creates something |
| Deploy targets and runner (`deploy/runner.go`, `store/deploys.go`, `handlers_deploy.go`) | rows of `deploy_targets`; files on disk | add, edit, delete, run one, run all, run after rotation, record | certificates, key custody, the file system, a shell command |
| Unlock backoff (`web/unlock_backoff.go`) | a failure counter and time | delay, failure, reset | unlock |
| Sessions, CSRF (`web/session.go`, `csrf.go`) | cookies signed under a key derived from the KEK | sign, verify | key custody |
| Migrations (`store/migrate.go`) | the schema version | apply at start | the database |
| Pure functions (`GetChain`, chain without root, effective status, list filter, reason codes) | none | | |
| X.509 (`pki`), sealing and key derivation (`crypto/aead.go`, `kdf.go`) | none | sign, parse, seal, open | |
| Rendering, routing, generated queries, packaging | none | | |

### What is hard, and what makes each part correct

* **Key custody.** Three places must agree: settings, every wrapped key, memory.
  The passphrase change derives for a second, rewraps everything in one
  transaction and then, in a separate step, replaces the key in memory, while
  other requests seal and open keys under what they read before. Correct means:
  no private key ever becomes unreadable under the current passphrase; nothing
  is sealed under a key that no stored passphrase derives; memory agrees with
  disk; a change carries all keys or none.
* **CRL publication.** A revocation commits first and the CRL follows in four
  more steps, none in a transaction with another. Two regenerations may compute
  overlapping lists and race for a number; any step may fail; the keystore may
  lock. Correct means: a revocation that its own request confirmed is in a
  published CRL and stays in the latest; numbers have no gap and no duplicate; what a client
  received is what the database keeps; every revocation is published in the end.
* **Certificate lifecycle and form tokens.** Forms are submitted twice, at once
  or after a lost answer; certificates change between the page, the checks and
  the transaction. Correct means: one form makes at most one certificate, all
  its answers lead to it, submitting again is always enough; rotations make
  chains, however they race.
* **Deploy.** Files are replaced one by one, outside any lock, and the outcome is
  recorded by row id afterwards, while the row is edited, deleted or copied by a
  rotation and other targets name the same files. Correct means: a target shown
  as ok has its certificate's files on disk unless something touched them since;
  a run attempts every target it read; a successor's targets are not shown as up
  to date before they are; a failed target can be run again until it is ok.
* **Unlock backoff.** The delay is asked for before the attempt it should throttle
  is verified and counted. Correct means: few failures escape the delay however
  many are sent at once, and the right passphrase gets through all the same.
* **Chains.** What is served and deployed above a certificate is read through
  parents that rotate and are revoked. Correct means: it is the complete path.

## 2. The modules

| Module | Models | Extends |
|---|---|---|
| `KeyVault` | abstract: one passphrase generation guards keys that stay readable | |
| `KeyCustody` | key custody, idle lock, automatic unlock; implements `KeyVault` | |
| `KeyCustodyProofs` | its theorems | `KeyCustody`, TLAPS |
| `CrlLog` | abstract: revocation is final, CRLs form numbered append-only logs | |
| `CrlPublication` | revocation, regeneration, fetch; implements `CrlLog` | |
| `CrlPublicationProofs` | its theorems | `CrlPublication`, TLAPS |
| `CertRegistry` | abstract: a form makes one certificate, a certificate is replaced once | |
| `CertLifecycle` | issue, rotate, import and revoke forms with their tokens, and the chain read from the rows; implements `CertRegistry` | |
| `CertLifecycleProofs` | its theorems | `CertLifecycle`, TLAPS |
| `DeployBoard` | abstract: what the page promises about each target | |
| `Deploy` | targets, runs, files on disk, rotation's copies; implements `DeployBoard` | |
| `DeployProofs` | its theorems | `Deploy`, TLAPS |
| `UnlockBackoff` | the throttle of unlock attempts, in discrete time | |
| `UnlockBackoffProofs` | its theorems | `UnlockBackoff`, TLAPS |
| `MCKeyCustody`, `MCCrlPublication`, `MCCertLifecycle`, `MCDeploy`, `MCUnlockBackoff` | symmetry sets; the tree of issuers; the forms an operator fills in | the module and TLC |

`CertLifecycle`, `CrlPublication` and `Deploy` model the same transactions
(issue, rotate) for different tables; each keeps of the others' state only what
its own handlers read. `KeyCustody` is the keystore that all of them find locked
or open; where they use it, opening a key may fail.

Conventions shared by the detailed modules: `Req` is a set of slots for
requests in flight; `pc[r]` is the next step of the request in slot `r`, `"idle"`
when the slot is free; a step is one database statement outside a transaction, one
whole transaction, or one keystore call, since those are the points at which
requests interleave. `Finish(r)` is the return of the handler. A failing
statement, a guard that does not hold and a wrong passphrase all end in the
handler's error return (`Abort`, `Fail`, `Refused`). `Restart` is the end of the
process at any point and its next start. Operators named after a definition with
a suffix (`FinishLeaky`, `RewrapNone`, `MarkableAgain`, `StaleNever`...) are not
part of any specification: each is a variant of the definition that follows it,
as a plausible mistake in the code would have it, and `PROJECT.json` names the
property that notices it.

### KeyCustody

`stored`, `wrap`, `used` are the database: the settings, the KEK each data key is
wrapped under, the marked tokens. Setup and every passphrase change draw a new
salt, so a KEK value stands for one generation of the settings: with its salt, the
passphrase of that generation derives it and nothing else does. `live` is the
keystore, `armed` and `firing` the idle timer before and after its callback has
started. Handlers:

* setup: `SetupBegin` (check and derive), `SetupWrite` (transaction), `Install`,
  `IssueCookie`;
* unlock: `UnlockBegin` (read settings), `UnlockVerify`, `Install`, `IssueCookie`;
* passphrase change: `RotateBegin`, `RotateReadSalt`, `RotateCheck` (verify the
  old, derive the new), `RotateRewrap` (transaction over all rows, under the
  keystore's read lock), `Install`, `IssueCookie`;
* issuing: `IssueBegin`, then `ReadKey` and `OpenKey` for the issuer's key, then
  `SealKey` (under the KEK in memory) and `InsertKey` (transaction);
* other uses of a key (`UseBegin`, and without a session `RefreshBegin`):
  `ReadKey`, `OpenKey`;
* `Lock`, `Expire`, `Fire`, `Restart`.

`Undisturbed` is a condition on a behaviour, not on the code: it names the only
overlaps with a setup or a passphrase change that lose a key or leave an old KEK in
memory. `UndisturbedSpec` are the behaviours with it, `FirstSetupSpec` those in which
no setup is at work once settings exist. A key that was read before
a change and is opened after it is in all of them: opening it fails, which is an
error answer and no loss, so no property speaks of it. `EnvPassphrase` says whether
`CM_PASSPHRASE` is set (no idle lock, unlock at start). With it the operator is
taken to keep the variable current after a change; `main.go` verifies it and
refuses to start otherwise.

### CrlPublication

`status` and `crls` are the tables, `expired` and `past` the clock as far as it
matters (a certificate past `not_after`; the last CRL past `nextUpdate`),
`unlocked` the keystore. A revocation is `RevokeBegin`, `Mark`, and then the
regeneration `LoadSigner`/`CannotSign`, `ListRevoked`, `NextNumber`, `Insert`. A
fetch is `FetchServed` (the cached row, in one step) or `FetchStale` followed by
the same regeneration, falling back on the row it holds; `FetchNumbered` serves
any stored row. `Issue` and `Rotate` are the transactions that create
certificates, with the first CRL of a CA. A CA that cannot sign CRLs (an imported
root without that key usage) is in `CA \ CanSign`; only a root can be one.
An issuer may also be a leaf, as the certificate forms allow; it has no CRL.
Of the history variables, `confirmed` holds the certificates whose revocation was
answered with a redirect by the request that made it, `sent` the CRL a client
received last.

Two more answers look like that redirect and promise less. `RevokeAgain` is a request
for a certificate that it finds revoked: it changes nothing and redirects, also while
the request that marked the certificate is still at work, or after its regeneration has
failed. `Mark` redirects in the same way when another request's mark comes
between the check and its own. Neither regenerates anything, so neither adds to
`confirmed`; what a client can then rely on is `EventuallyListed`, which asks only for
the mark.

Between `ListRevoked` and `NextNumber` another regeneration may list, number and
publish: the one window in which a list can become older than its number says.
`NoOvertake` is the condition that nobody uses it. Nothing in the code sees to that; taking the number
before the list would.

### CertLifecycle

`status` ... `fingerprint` are the columns of `certificates`, `rows`, `result` and
`late` the table of tokens. `Render` shows a page: a token and its row, nothing else.
The handlers do not bind a token to a page, nor a form to what its page offered, so
`Begin`, a submission up to the first statement after the token check, takes any of
the `Submissions` that its handler does not refuse outright: an intermediate
under whatever is a CA, a leaf under *any* certificate, a leaf included, all of
any status. What a form says is chosen when it is first submitted, and submitting it again
repeats it (`form[t]`, `Contents`): that one assumption is about the browser, and an operator who
goes back, changes the fields and submits the old token again is left out.
`Replay` is the answer to a submission whose token is marked. `CheckOld` is the
rotation's check of the old row; `NotImported` and `AlreadyImported` the import's
look-up, the second with a mark that may fail and is then ignored; `Persist` and
`PersistRotation` the transactions; `Refused` a transaction
that finds the token marked or the old row not active. `Revoke`, `Age`, `Sweep` and
`Restart` happen at any time. `made` and `answers` are history. Subjects,
algorithms, alternative names and validity are abstracted, serials and ids are
distinct, and importing a root that was itself minted here is left out.

`GetChain` and `ChainAbove` are what the downloads and the deployments read of the
table; the loop of `GetChain` is the recursive function `Climb`. `ChainComplete` says of
them what a client needs: from the certificate on each entry is the issuer of the one
before, none is a root, and the issuer of the last is one. Since any certificate can be an issuer,
a chain has any length; the property rests on issuers existing before what they issue,
on rotations keeping the parent, and on rows never being deleted.

`ImportsBounded` is how far the import is idempotent. The look-up by fingerprint and the
insert are not one transaction, so two imports of one root that run at once make two
rows; but an import that starts after a row was inserted always finds it, revoked or
not, so there are never more rows of a root than requests that ran at once.

### Deploy

`certId` ... `lastSerial` are the columns of `deploy_targets`: `config` the paths and
`auto_on_rotate`, `lastSerial` the certificate that `last_deployed_serial` belongs to.
`file` is the file system: which part of which certificate each path holds. A
request that runs targets has read them (`plan`, by `Start`), takes them one by one
(`Pick`), replaces their files one by one (`Write`: one rename), runs the
command, and records the outcome (`Record`; `RecordFails` when the row is gone or
the database busy). `FailRun` is any failure of a run: an owner that does
not resolve, a write, the command or its timeout. `Rotate` is the rotation's
transaction, with the copies of all the old certificate's targets, last-run columns
included; `RunAuto` reads the copies afterwards, as they are by then. `Edit` leaves
the last-run columns alone, as the code does. The form token of new and edit, the
unique name, and the order in which targets are listed are left out.

What the page shows is `Shown`. It is *not* always true of the disk: an edit
to other paths keeps the last outcome; running a target of an old certificate puts
its files where the successor's are, while the successor's row still says ok; and
so do two runs that overlap. `OkMeansOnDisk` states what is true in spite of that.
Two history variables say when: `intact[r]` holds the targets of request `r` whose
paths no edit changed and no other run overwrote with something else since it read them,
`sound` those whose recorded run was intact and that nobody touched since. Failed
writes, crashes between two files, lost records, runs of one target at once with itself
and copies are all inside the property. So is a target that gives two of its own parts one
path, which `validateDeployForm` allows: `Wanted` is what a complete run leaves there, the part that
is written last. Outside it is what the code does not prevent: two
overlapping runs of different certificates over the same files may both record ok. `last_deployed_serial` is
recorded by failed runs too, which may have written nothing; the page then shows
failed and does not use it.

### UnlockBackoff

`failures` is the set of failures that count, each with its age in ticks and, as history,
its slot and a number that tells those of one tick apart; the code keeps instants and drops the ones that
are `Window` old just before it counts them, the model as soon as they are.
`Arrive` is the handler up to the wait, with `Delay()`;
`Leave` the client hanging up; `Reject`, `Accept`, `GiveUp` what comes of the
passphrase after the wait; `Reset` the end of a success, `NoSession` one whose cookie
cannot be made and that leaves the count alone. `Tick` advances time between any
two steps. The key derivation and the install are `KeyCustody`'s. `GuessesBounded` is the
throttle's effect: it grows with the number of requests in flight, which the code does
not limit, since delays run side by side.

## 3. Runs

### What each shows

| Run | Checks | Shows |
|---|---|---|
| `custody_quiet` | `TypeOK`, `NoKeyStranded`, `LiveMatchesSettings`, `VaultSpec` | everything overlaps everything, locked, timed out and restarted, except what `Undisturbed` excludes around a setup or a passphrase change: keys stay readable, memory agrees with disk, the abstract vault is implemented |
| `custody_busy` | `KeysWereStored`, `RotationCarriesEveryKey` | no condition at all: setups race with each other and with everything else, passphrase changes with each other, with unlocks and with issuing |
| `custody_stranded` | `NoKeyStranded` violated | see finding 1; with `FirstSetupSpec`, so that a second setup is not the cause |
| `crl_race` | `TypeOK`, `SentIsStored`, `ConfirmedIsListed`, `LogSpec` | two requests interleaved at every statement, failing at any |
| `crl_one_by_one` | `EventuallyListed` | one request at a time, with failures, locks, expiry and an issuer that cannot sign: under fairness what is marked is listed in the end, also if its regeneration failed |
| `crl_dropped` | `ConfirmedInLatest` violated | see finding 2 |
| `lifecycle` | `TypeOK`, `OnePerForm`, `ReplayFindsResult`, `Lineage`, `ChainComplete`, `ImportsBounded`, `RegistrySpec` | three forms, with any certificate as issuer, submitted any number of times by two requests at once, with revocations, expiry, sweeps and restarts |
| `lifecycle_live` | `RetrySucceeds` | one request at a time, under fairness: submitting again until there is an answer gets one |
| `lifecycle_issuer` | `IssuersInService` violated | see finding 3 |
| `deploy_race` | `TypeOK`, `OkMeansOnDisk`, `EveryTargetTried`, `BoardSpec` | two requests interleaved between any two renames over targets that share their files, one of them under two of its own names, with rotation, edits, failures and restarts |
| `deploy_live` | `OkMeansOnDisk`, `RetryDeploys` | one request at a time over targets that name each other's files: under fairness, running a target again ends with ok |
| `backoff` | `TypeOK`, `QuickFailuresBounded`, `GuessesBounded`, `NeverLockedOut` | two attempts at once while time passes |

### Where the code and its documents disagree

1. *A key issued during a passphrase change is lost.* `docs/STORAGE.md` says an
   issuance that meets the change completes after it or fails as busy. It does
   complete, but its key was sealed under the old KEK before its transaction
   began, and nothing rewraps it afterwards.
2. *A later CRL may drop a revocation.* Of two regenerations for one issuer, the
   one that listed first may take its number last, so the latest CRL lacks the other's
   revocation until something regenerates it. `docs/LIFECYCLE.md` says that
   regeneration is inside the revoke transaction and that the list is the revoked
   children. `ConfirmedIsListed` is what remains true: the
   revocation was published.
3. *A revoked CA may issue.* A leaf, when its issuer is revoked between the page and the
   submission, since only the page looks at the status; an intermediate at any time,
   since that page offers every root. `docs/API.md` requires the status of the submission.

Five smaller observations have no run of their own. A comment in `handlers_revoke.go`
says that the next fetch retries a failed regeneration; it does so only once the
cached CRL is past its `nextUpdate`, and `EventuallyListed` is what remains true.
A revocation that is sent again after its regeneration failed is answered like one that
succeeded, with no CRL naming the certificate yet (`RevokeAgain`).
`docs/LIFECYCLE.md` 7.2 and `docs/API.md` call the import idempotent; two imports of one root at
once give it two rows, and `ImportsBounded` is what remains true.
The leaf's POST does not ask whether its issuer is a CA, which `docs/API.md` requires.
`docs/API.md` calls `last_deployed_serial` the serial that was written; a run that
failed before its first write records it as well.

### Bounds, and why they are enough

* *Custody, quiet:* 2 requests, 3 KEKs, 2 certificates, 3 tokens. Three generations
  make two successive changes possible, with a key from before, between and
  inside them; two requests are a change and a use, an issue, an unlock or a second
  setup that overlaps it. *Busy:* the same without `Undisturbed`: two setups
  or two changes overlap, and the second change meets keys that the first has already rewrapped.
* *CRLs, race:* 2 requests, a root and two leaves, CRL numbers up to 3: the first CRL
  and one for each revocation, or a number that both want. *One by one:* a
  second tree whose root cannot sign. `MaxNumber` disables `NextNumber` beyond the bound, and
  `EventuallyListed` speaks of revocations made while a number is left.
* *Lifecycle:* 2 requests, 3 certificates, 3 forms, 1 foreign root: an issue and
  two rotations of it, two imports of one root at once, or a chain of a root and two
  below it, leaves under leaves included. *Live:* 1 request, 2 certificates, 2 forms.
* *Deploy, race:* 2 requests, 2 certificates, 2 targets, 2 paths, one way to fill the
  form, with certificate and chain at one path: two targets of one certificate, or a
  target and the copy a rotation made of it, that share all their files. *Live:* 1 request, 2 paths and no chain, two
  ways to fill the form with the paths exchanged, so an edit changes files and a
  target may overwrite another's certificate with a key.
* *Backoff:* 2 requests, and the 60 s window, 5 failures, 2 s and 30 s of the code scaled to
  4, 3, 2 and 3, which reaches every branch of the delay: none, one step, the cap, and
  failures leaving the window while a request waits.
* Symmetry is declared on model values that the module treats alike, and only in
  runs without liveness properties. No bound other than `MaxNumber` and the
  sizes of these sets limits the depth of a run.
* No run turns deadlock checking off: `Restart` is always possible.

### Fairness

Safety runs assume none. `crl_one_by_one` assumes: a request in flight goes on
(the Go scheduler; weak); each step of a regeneration that is tried again and again does not fail
for ever (strong, since a failure ends the request and disables the step); clients
keep fetching each CRL (strong, since slots are busy and the keystore locks in
between: relying parties poll the distribution point); the week of a CRL's
validity ends; the operator unlocks again. Nothing is assumed about revocation, new certificates or expiry. `lifecycle_live` assumes: the
operator submits a form, once it was submitted, again until it is answered, requests go on, and a step
that could succeed again and again, the mark of an import included, does not fail for ever. Neither assumes that the process
stays up: `Restart` may happen infinitely often, but not always first.

`deploy_live` assumes that a handler goes on, and that the operator runs each target
again and again (strong: slots are busy in between). That the cause of the failures is
repaired in the end, and the process then stays up, is not assumed of every behaviour but a
premise of `RetryDeploys` (`FailuresEnd`): `handlers_deploy.go` never retries
by itself. `backoff` assumes that time passes and that a handler that need not wait
any more goes on; nothing makes a client leave or a statement fail.

## 4. Proofs

All theorems hold for any constants that satisfy the named assumptions
(`CustodyAssumption`, `CrlAssumption`, `LifecycleAssumption`, `DeployAssumption`: `None` is not one of
the values, the tree of issuers and the forms are well formed; `BackoffAssumption`), in particular for any number of
concurrent requests. Each module first proves that its inductive invariant holds initially, then
that each action keeps it, one step per action.

**KeyCustodyProofs.** `TypeOK` alone is not inductive: `Typed` adds `Coherent`, what a
request at each step holds. `CustodyDurable` (*nothing is in use that was not
stored first*) needs `Durable`: a KEK about to be installed or to be stored
around a key has been in settings; one derived but not yet committed has only been
drawn.

* `CustodyDurable` and `RotationCarries` hold of every behaviour. The second follows from the
  transaction's shape: the step from `rewrap` to `install` is `RotateRewrap`
  (`OnlyRewrapCommits`), which has opened every row that is in the table by then.
* `NoKeyIsStranded`, `MemoryMatchesDisk` and `CustodyImplementsVault` hold of behaviours
  that are `Undisturbed`. No setup is at work once settings exist (a second one stores a new
  salt and rewraps nothing), and everything may overlap a passphrase change, with two
  exceptions: an unlock that verified the old KEK installs it after the commit, or a key sealed under
  the old KEK is inserted after the commit. The invariant is `CalmInv`: what is
  about to be installed or inserted agrees with the settings (`WritesAgree`), besides the two
  properties themselves. Finding 1 is the second exception. Each conjunct of
  `Undisturbed` is needed: without any one of them TLC finds a lost key.
  From the vault follows `KeysStayReadable`: what opened before a step opens after it.

**CrlPublicationProofs.** `CrlInv` joins what is published to what requests hold:
numbers are contiguous, a list read by a request names only revoked children, and the
certificate being revoked is in the list its request will sign, or has expired.
From it follow `CrlTypeCorrect`, `SentCrlsAreStored`, `ConfirmedRevocationsAreListed` and
`PublicationImplementsLog`, with any number of racing requests: the primary key
is what makes `Insert` safe. `StaysListedUnlessOvertaken` adds `StayInv`: a list that can still be
published, because its number is not taken or not yet drawn, names every confirmed revocation
(`ListsConfirmed`). That is inductive with any number of requests as long as no
regeneration holds an unused number while another of the same issuer
has its list and no number (`NoOvertake`); finding 2 is that overlap.

**CertLifecycleProofs.** The invariant is `TypeOK`, `Lineage` and: every row was
made by a form whose token is marked with it (`Minted`), a marked token and
every answer name a certificate that fits the form (`Marked`, `Answered`), a
request in flight carries a form that was submitted (`InFlight`), and a rotation's form has the
type and issuer of the certificate it rotates (`FormsAgree`). `OneCertPerForm` then is immediate:
two certificates of one form are both what its token names. `ReplaysAgree`,
`LineageHolds` and `LifecycleImplementsRegistry` complete it; the last shows
that the checks outside the transactions are not needed for safety, only the
conditions inside them.

`ChainsComplete` is about a recursive function and chains of any length. The invariant
`Ranked` says that every issuer has a row and that certificates have ranks, natural numbers
that grow from issuer to issued: a new certificate ranks above its issuer, and its own
rank is nobody else's concern yet. `Climb` needs no induction over data: `EndIsTheLoop` and
`ClimbIsTheLoop` exhibit a function that satisfies its recursive equation (where the walk
upwards stops), so that the one `Climb` chooses does too. Ranks are well founded, so
a walk of lowest rank among those that do not reach a root would have a next one
(`ClimbsToTheTop`); since ranks fall all the way, no certificate occurs twice and
the stop at one already seen never happens. `ServedChain` and `PathsAreComplete` read
the path off the walk.

`ImportsAreBounded` counts places: rows of one root, and requests that found none and have
yet to insert theirs. Each row keeps the place of the request that inserted it
(`Places`): a request takes a place only while there is no row, so while
rows grow nobody new joins, and there are never more places than requests.

**DeployProofs.** The invariant `IInv` is `TypeOK`, `PlanOwned` (a target
in a plan belongs to the certificate being deployed, or is gone), `RunsFaithful`,
`SoundLives` (a sound target still has its row) and `OkMeansOnDisk` itself.
`RunsFaithful` is the strengthening: of a target that
is still `intact`, the row names the paths that were read, and every part
that the run has already passed is on disk. When such a run is recorded as ok, all parts have been
passed, which is `OkMeansOnDisk`; any later rename that would break either
takes the target out of `intact` and `sound` (`Spoiled`), unless it writes
the very same block. A run's own later part may replace an earlier one at the same path:
only the last has to stay (`Wanted`). `OkIsOnDisk`, `NoRunSkipped` and `ImplementsBoard` follow for
any number of requests, targets and paths; in the last, a rotation's copies map to the
board's `Rotate` since no row yet belongs to the new certificate.

**UnlockBackoffProofs.** `QuickFailuresBounded` is not inductive: a request told not
to wait may still fail. `FewQuick` counts these requests on the same side as the
failures they may become: at an arrival without delay the failures are fewer than
`Threshold` and the prompt requests at most all, afterwards a prompt request that
fails moves from one count to the other, and nothing else makes the sum grow.
`GuessesAreBounded` adds the failures that waited: of one slot, two are at least `Step`
ticks apart, since the age of the last and what is left of the next wait always add up to
`Step` (`Spaced`); dividing ages by `Step` injects them into slots and multiples (`FewSlow`).
`BackoffAssumption` takes the four parameters as positive, with `Max >= Step`, and the
requests in flight as finitely many.

**Only model-checked.** The liveness properties (`EventuallyListed`,
`RetrySucceeds`, `RetryDeploys`, `NeverLockedOut`): fairness and ENABLED are beyond the
prover. Every safety property that a passing run checks has a theorem. The violations are TLC's;
so is the observation that no conjunct of `Undisturbed` and `NoOvertake` can be
dropped.

## 5. Not modelled

* *Migrations.* `Migrate` runs alone before the server listens, and each version is
  applied and recorded in one transaction; a model would assume what it shows.
* *Sessions and CSRF* keep no state of their own: a cookie is valid while the key
  that signed it is derived from the KEK in memory (`Authed` in `KeyCustody`).
* *Effective status, list filter, formatting* compute what one row looks like.
* *The rotation's form* copies fields of a row; only what decides the issuer is kept.
* *Time.* A cookie's 24 hours, the length of the idle timeout, the validity of
  certificates are events that may happen at any moment, or left out (cookie age).
* *Cryptography and X.509* are taken at their word: a sealed key opens under the KEK
  that sealed it and no other; a signature is made or fails.
* *Power loss.* SQLite runs with `synchronous=NORMAL`, so a power failure may undo
  the last commits; a crash of the process does not, and only that is modelled.
* *File modes, owners, the command's effect* are abstracted to success or failure;
  a crash inside the write of a temporary file leaves the target path as it was.
* *Rendering, routing, generated queries, packaging* keep no state; each query is
  modelled where it is called.

## 6. What could come next

1. A composition of `CertLifecycle` and `CrlPublication`, whose `Issue`, `Rotate`
   and `Mark` are the same transactions seen from two sides, with `Deploy`'s copies.
2. Issuing under `KeyCustody` joined with `CertLifecycle`, so that a locked keystore
   is a state and not a failure of the step.
3. The expiry of sessions together with the idle lock, if either gets a
   schedule of its own.
