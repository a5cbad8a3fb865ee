------------------------------- MODULE Deploy -------------------------------
(***************************************************************************)
(* Deploy targets and the runner.                                          *)
(*                                                                         *)
(* A target is a row of deploy_targets: the certificate it belongs to, the *)
(* paths to write, whether a rotation runs it, and the outcome of its last *)
(* run.  A run reads rows, then replaces the files one by one outside any  *)
(* lock, runs a command and records the outcome in the row with that id,   *)
(* while other requests edit, delete, run and rotate.  Nothing reserves a  *)
(* path: targets of one certificate or of several may name the same file,  *)
(* and a certificate and its successor do as a rule.                       *)
(***************************************************************************)
EXTENDS FiniteSets

CONSTANTS
  Req,     (* slots for requests in flight                                 *)
  Cert,    (* leaf certificates                                            *)
  Target,  (* ids of target rows; a new row gets a fresh one               *)
  Path,    (* files                                                        *)
  Config,  (* what an operator may fill in a target's form                 *)
  None     (* no certificate, target, path or configuration                *)

Part == {"cert", "key", "chain"}

Configs == [cert : Path, key : Path, chain : Path \cup {None}, auto : BOOLEAN]

ASSUME DeployAssumption == /\ None \notin Cert \cup Target \cup Path \cup Config
                           /\ Config \subseteq Configs

(* PEM blocks: one part of one certificate.                                *)
Block == Part \X Cert

VARIABLES
  (* the certificates table, as far as targets need it                     *)
  issued,     (* leaves with a row                                         *)
  active,     (* those that can be rotated                                 *)
  (* the deploy_targets table                                              *)
  drawn,      (* ids given to rows so far                                  *)
  certId,     (* cert_id, None if there is no such row                     *)
  config,     (* paths and auto_on_rotate                                  *)
  lastStatus, (* NULL before the first run                                 *)
  lastSerial, (* the certificate last_deployed_serial belongs to           *)
  (* the file system                                                       *)
  file,       (* what each path holds, None if nothing was written there   *)
  (* process memory                                                        *)
  pc,         (* the next step of each request                             *)
  cert,       (* the certificate it deploys                                *)
  plan,       (* the rows it read and has not yet run, with their          *)
              (* configuration at that time                                *)
  cur,        (* the target it is running                                  *)
  (* history                                                               *)
  intact,     (* targets whose paths no edit and no other request has      *)
              (* touched since each request read them                      *)
  sound       (* targets untouched since the run recorded in them started  *)

rows  == <<drawn, certId, config, lastStatus, lastSerial>>
reqs  == <<pc, cert, plan, cur>>
vars  == <<issued, active, drawn, certId, config, lastStatus, lastSerial, file,
           pc, cert, plan, cur, intact, sound>>

Nothing == [t \in Target |-> None]

Init ==
  /\ issued = {} /\ active = {}
  /\ drawn = {}
  /\ certId = Nothing
  /\ config = Nothing
  /\ lastStatus = [t \in Target |-> "NULL"]
  /\ lastSerial = Nothing
  /\ file = [p \in Path |-> None]
  /\ pc = [r \in Req |-> "idle"]
  /\ cert = [r \in Req |-> None]
  /\ plan = [r \in Req |-> Nothing]
  /\ cur = [r \in Req |-> None]
  /\ intact = [r \in Req |-> {}]
  /\ sound = {}

-----------------------------------------------------------------------------
(* The files a configuration names: chain_path may be left empty.          *)
Files(x) == {<<part, x[part]>> : part \in {q \in Part : x[q] # None}}

(* What a run leaves behind.  Nothing forbids to give two parts one path;  *)
(* then the part that is written last stays there.                         *)
Later(part) == CASE part = "cert"  -> {"key", "chain"}
                 [] part = "key"   -> {"chain"}
                 [] part = "chain" -> {}

Wanted(x) ==
  {w \in Files(x) : \A v \in Files(x) : v[2] = w[2] => v[1] \notin Later(w[1])}

TargetsOf(c) == {t \in Target : certId[t] = c}

(* effectiveStatus: what the page of the certificate shows.                *)
ShownAnySerial(t) == CASE lastStatus[t] = "NULL"   -> "never"
                       [] lastStatus[t] = "failed" -> "failed"
                       [] lastStatus[t] = "ok"     -> "ok"

Shown(t) == CASE lastStatus[t] = "NULL"   -> "never"
              [] lastStatus[t] = "failed" -> "failed"
              [] lastStatus[t] = "ok"     ->
                   IF lastSerial[t] \notin {None, certId[t]} THEN "stale"
                                                             ELSE "ok"

(* History: block b now is at path p, which targets want for another.  The *)
(* run that wrote it still has to go on to its own targets, this one       *)
(* included, and will put there what they want.                            *)
Spoiled(p, b) ==
  {t \in Target : /\ certId[t] # None
                  /\ \E w \in Wanted(config[t]) : /\ w[2] = p
                                                  /\ <<w[1], certId[t]>> # b}

Spoil(S, R) == /\ intact' = [r \in Req |-> IF r \in R THEN intact[r] \ S
                                                     ELSE intact[r]]
               /\ sound' = sound \ S

-----------------------------------------------------------------------------
(* The forms.  A POST changes the table in one transaction with its form   *)
(* token, which CertLifecycle models.                                      *)
NewTarget(t, c, x) ==
  /\ t \notin drawn
  /\ drawn' = drawn \cup {t}
  /\ certId' = [certId EXCEPT ![t] = c]
  /\ config' = [config EXCEPT ![t] = x]
  /\ UNCHANGED <<issued, active, lastStatus, lastSerial, file, reqs, intact,
                 sound>>

(* Every editable column is replaced; the last-run columns stay.           *)
Edit(t, x) ==
  /\ certId[t] # None
  /\ config' = [config EXCEPT ![t] = x]
  /\ Spoil(IF Files(x) = Files(config[t]) THEN {} ELSE {t}, Req)
  /\ UNCHANGED <<issued, active, drawn, certId, lastStatus, lastSerial, file,
                 reqs>>

Delete(t) ==
  /\ certId[t] # None
  /\ certId' = [certId EXCEPT ![t] = None]
  /\ config' = [config EXCEPT ![t] = None]
  /\ lastStatus' = [lastStatus EXCEPT ![t] = "NULL"]
  /\ lastSerial' = [lastSerial EXCEPT ![t] = None]
  /\ sound' = sound \ {t}
  /\ UNCHANGED <<issued, active, drawn, file, reqs, intact>>

-----------------------------------------------------------------------------
(* A request has read the rows S and the key and chain of c.               *)
Start(r, c, S) ==
  /\ pc' = [pc EXCEPT ![r] = "run"]
  /\ cert' = [cert EXCEPT ![r] = c]
  /\ plan' = [plan EXCEPT ![r] = [t \in Target |-> IF t \in S THEN config[t]
                                                              ELSE None]]
  /\ intact' = [intact EXCEPT ![r] = S]
  /\ UNCHANGED <<issued, active, rows, file, cur, sound>>

RunOneActive(r, t) == /\ pc[r] = "idle"
                      /\ certId[t] \in active
                      /\ Start(r, certId[t], {t})

RunOne(r, t) == /\ pc[r] = "idle"
                /\ certId[t] # None
                /\ Start(r, certId[t], {t})

RunAll(r, c) == /\ pc[r] = "idle"
                /\ TargetsOf(c) # {}
                /\ Start(r, c, TargetsOf(c))

(* The rotation's transaction: the successor gets a copy of every row,     *)
(* last-run columns included.  The automatic runs follow it.               *)
Rotate(r, c, d) ==
  /\ pc[r] = "idle"
  /\ c \in active /\ d \in Cert \ issued
  /\ issued' = issued \cup {d}
  /\ active' = (active \ {c}) \cup {d}
  /\ \E new \in SUBSET (Target \ drawn) : \E from \in [new -> TargetsOf(c)] :
       LET Copy(col) == [t \in Target |-> IF t \in new THEN col[from[t]]
                                                       ELSE col[t]]
       IN /\ \A t \in TargetsOf(c) : \E u \in new : from[u] = t
          /\ \A t, u \in new : from[t] = from[u] => t = u
          /\ drawn' = drawn \cup new
          /\ certId' = [t \in Target |-> IF t \in new THEN d ELSE certId[t]]
          /\ config' = Copy(config)
          /\ lastStatus' = Copy(lastStatus)
          /\ lastSerial' = Copy(lastSerial)
  /\ pc' = [pc EXCEPT ![r] = "auto"]
  /\ cert' = [cert EXCEPT ![r] = d]
  /\ UNCHANGED <<file, plan, cur, intact, sound>>

(* runAutoOnRotateTargets: the successor's targets, as they are by now.    *)
AutoTargets(c) == {t \in TargetsOf(c) : config[t].auto}

RunAuto(r) == /\ pc[r] = "auto"
              /\ AutoTargets(cert[r]) # {}
              /\ Start(r, cert[r], AutoTargets(cert[r]))

(* No automatic target, or the rows or the key cannot be read: logged.     *)
NoAuto(r) == /\ pc[r] = "auto"
             /\ pc' = [pc EXCEPT ![r] = "idle"]
             /\ cert' = [cert EXCEPT ![r] = None]
             /\ UNCHANGED <<issued, active, rows, file, plan, cur, intact,
                            sound>>

-----------------------------------------------------------------------------
(* runAndRecord and Run: the planned targets one after the other, and of   *)
(* each the files one after the other.                                     *)
Planned(r) == {t \in Target : plan[r][t] # None}

Pick(r, t) == /\ pc[r] = "run"
              /\ t \in Planned(r)
              /\ pc' = [pc EXCEPT ![r] = "cert"]
              /\ cur' = [cur EXCEPT ![r] = t]
              /\ UNCHANGED <<issued, active, rows, file, cert, plan, intact,
                             sound>>

AfterWrite(part, x) ==
  CASE part = "cert"                      -> "key"
    [] part = "key" /\ x["chain"] # None  -> "chain"
    [] part = "key" /\ x["chain"] = None  -> "post"
    [] part = "chain"                     -> "post"

(* One atomic rename.                                                      *)
Write(r) ==
  LET x == plan[r][cur[r]]
      p == x[pc[r]]
      b == <<pc[r], cert[r]>>
  IN /\ pc[r] \in Part
     /\ file' = [file EXCEPT ![p] = b]
     /\ Spoil(Spoiled(p, b), Req \ {r})
     /\ pc' = [pc EXCEPT ![r] = AfterWrite(pc[r], x)]
     /\ UNCHANGED <<issued, active, rows, cert, plan, cur>>

(* Mode or owner do not resolve, a file cannot be written, the command     *)
(* fails or is cut off: the rest of this target is skipped.                *)
FailRunOn(r) == /\ pc[r] \in {"key", "chain"}
                /\ pc' = [pc EXCEPT ![r] = "post"]
                /\ UNCHANGED <<issued, active, rows, file, cert, plan, cur,
                               intact, sound>>

FailRun(r) == /\ pc[r] \in Part \cup {"post"}
              /\ pc' = [pc EXCEPT ![r] = "failed"]
              /\ UNCHANGED <<issued, active, rows, file, cert, plan, cur,
                             intact, sound>>

(* The loop goes on with the next target, or the handler returns.          *)
ContinueLeaky(r) ==
  LET rest == Planned(r) \ {cur[r]}
  IN /\ plan' = [plan EXCEPT ![r][cur[r]] = None]
     /\ pc' = [pc EXCEPT ![r] = IF rest = {} THEN "idle" ELSE "run"]
     /\ intact' = [intact EXCEPT ![r] = @ \cap rest]
     /\ UNCHANGED <<cert, cur>>

ContinueIfOk(r) ==
  LET rest == IF pc[r] = "post" THEN Planned(r) \ {cur[r]} ELSE {}
  IN /\ plan' = [plan EXCEPT ![r] = [t \in Target |->
                                       IF t \in rest THEN @[t] ELSE None]]
     /\ cur' = [cur EXCEPT ![r] = None]
     /\ pc' = [pc EXCEPT ![r] = IF rest = {} THEN "idle" ELSE "run"]
     /\ cert' = [cert EXCEPT ![r] = IF rest = {} THEN None ELSE @]
     /\ intact' = [intact EXCEPT ![r] = @ \cap rest]

Continue(r) ==
  LET rest == Planned(r) \ {cur[r]}
  IN /\ plan' = [plan EXCEPT ![r][cur[r]] = None]
     /\ cur' = [cur EXCEPT ![r] = None]
     /\ pc' = [pc EXCEPT ![r] = IF rest = {} THEN "idle" ELSE "run"]
     /\ cert' = [cert EXCEPT ![r] = IF rest = {} THEN None ELSE @]
     /\ intact' = [intact EXCEPT ![r] = @ \cap rest]

(* RecordDeployRun finds the row by its id; it may be gone.                *)
Record(r) ==
  LET t == cur[r]
  IN /\ pc[r] \in {"post", "failed"}
     /\ certId[t] # None
     /\ lastStatus' = [lastStatus EXCEPT ![t] =
                         IF pc[r] = "post" THEN "ok" ELSE "failed"]
     /\ lastSerial' = [lastSerial EXCEPT ![t] = cert[r]]
     /\ sound' = IF t \in intact[r] THEN sound \cup {t} ELSE sound \ {t}
     /\ Continue(r)
     /\ UNCHANGED <<issued, active, drawn, certId, config, file>>

(* The row is gone or the database is busy: logged, and the loop goes on.  *)
RecordFails(r) == /\ pc[r] \in {"post", "failed"}
                  /\ Continue(r)
                  /\ UNCHANGED <<issued, active, rows, file, sound>>

-----------------------------------------------------------------------------
Issue(c) == /\ c \notin issued
            /\ issued' = issued \cup {c}
            /\ active' = active \cup {c}
            /\ UNCHANGED <<rows, file, reqs, intact, sound>>

(* Rows and files stay.                                                    *)
Restart == /\ pc' = [r \in Req |-> "idle"]
           /\ cert' = [r \in Req |-> None]
           /\ plan' = [r \in Req |-> Nothing]
           /\ cur' = [r \in Req |-> None]
           /\ intact' = [r \in Req |-> {}]
           /\ UNCHANGED <<issued, active, rows, file, sound>>

Operator ==
  \/ \E c \in Cert : Issue(c)
  \/ \E t \in Target, c \in issued, x \in Config : NewTarget(t, c, x)
  \/ \E t \in Target, x \in Config : Edit(t, x)
  \/ \E t \in Target : Delete(t)

Begin(r) ==
  \/ \E t \in Target : RunOne(r, t)
  \/ \E c \in Cert : RunAll(r, c)
  \/ \E c, d \in Cert : Rotate(r, c, d)

Step(r) ==
  \/ RunAuto(r) \/ NoAuto(r)
  \/ \E t \in Target : Pick(r, t)
  \/ Write(r) \/ FailRun(r)
  \/ Record(r) \/ RecordFails(r)

Next == Operator \/ Restart \/ \E r \in Req : Begin(r) \/ Step(r)

Spec == Init /\ [][Next]_vars

(* A handler goes on (the Go scheduler), and the operator runs a target    *)
(* again and again.                                                        *)
Fairness == /\ \A r \in Req : WF_vars(Step(r))
            /\ \A t \in Target : SF_vars(\E r \in Req : RunOne(r, t))

FairSpec == Spec /\ Fairness

-----------------------------------------------------------------------------
(* Type invariant; a request that has returned holds nothing, one that     *)
(* runs a target has read it, and a row that is gone has no columns.       *)
TypeOK ==
  /\ issued \subseteq Cert /\ active \subseteq issued
  /\ drawn \subseteq Target
  /\ certId \in [Target -> issued \cup {None}]
  /\ config \in [Target -> Config \cup {None}]
  /\ lastStatus \in [Target -> {"NULL", "ok", "failed"}]
  /\ lastSerial \in [Target -> issued \cup {None}]
  /\ file \in [Path -> Block \cup {None}]
  /\ pc \in [Req -> {"idle", "auto", "run", "post", "failed"} \cup Part]
  /\ cert \in [Req -> issued \cup {None}]
  /\ plan \in [Req -> [Target -> Config \cup {None}]]
  /\ cur \in [Req -> Target \cup {None}]
  /\ intact \in [Req -> SUBSET Target]
  /\ sound \subseteq Target
  /\ \A t \in Target : /\ certId[t] = None <=> config[t] = None
                       /\ certId[t] # None => t \in drawn
                       /\ certId[t] = None => lastStatus[t] = "NULL"
                       /\ lastStatus[t] = "NULL" <=> lastSerial[t] = None
  /\ \A r \in Req :
       /\ pc[r] = "idle" <=> cert[r] = None
       /\ Planned(r) = {} <=> pc[r] \in {"idle", "auto"}
       /\ IF pc[r] \in Part \cup {"post", "failed"} THEN cur[r] \in Planned(r)
                                                  ELSE cur[r] = None
       /\ pc[r] = "chain" => plan[r][cur[r]].chain # None
       /\ intact[r] \subseteq Planned(r)

(* A target shown as ok has on disk, at every path it names, the part of   *)
(* its certificate that belongs there (the last it names that path for),   *)
(* unless since the run that recorded it read the row the operator changed *)
(* its paths, or another run, or a later one, wrote something else to one  *)
(* of them.  Failed writes, a crash between two files, runs of one target  *)
(* at once, a lost record, the copies a rotation makes: none of them       *)
(* breaks it.  That two requests which write the same files for different  *)
(* certificates may both record ok is what the condition leaves out.       *)
OkMeansOnDisk ==
  \A t \in sound : Shown(t) = "ok" =>
    \A w \in Wanted(config[t]) : file[w[2]] = <<w[1], certId[t]>>

(* Every target a request has read is run and its outcome recorded, or at  *)
(* least tried to be, whatever became of the others; only a restart drops  *)
(* some.  "If any fails, the rest still run" (docs/API.md, 8.3).           *)
EveryTargetTried ==
  [][\A r \in Req, t \in Target :
       (plan[r][t] # None /\ plan'[r][t] = None) =>
         \/ cur[r] = t /\ pc[r] \in {"post", "failed"}
         \/ \A q \in Req : pc'[q] = "idle"]_vars

(* Once what made runs fail is repaired, running a target again ends with  *)
(* it shown as ok, unless it is deleted: whatever rotates and is edited    *)
(* meanwhile, and whether its certificate is active still or not.          *)
RecordLost(r) == /\ RecordFails(r)
                 /\ \E t \in Target : cur[r] = t /\ certId[t] # None

FailuresEnd ==
  <>[][~Restart /\ \A r \in Req : ~FailRun(r) /\ ~RecordLost(r)]_vars

RetryDeploys ==
  FailuresEnd => \A t \in Target :
    certId[t] # None ~> certId[t] = None \/ Shown(t) = "ok"

(* The board this implements.                                              *)
Board == INSTANCE DeployBoard WITH
           shown <- [t \in Target |->
                       IF certId[t] # None THEN Shown(t)
                       ELSE IF t \in drawn THEN "deleted" ELSE "unused"]

BoardSpec == Board!Spec
=============================================================================
