---------------------------- MODULE DeployProofs ----------------------------
(***************************************************************************)
(* Proofs about Deploy, for any number of targets, files, certificates and *)
(* concurrent requests: a target shown as ok is on disk unless somebody    *)
(* interfered, no run is skipped, and the table implements DeployBoard.    *)
(***************************************************************************)
EXTENDS Deploy, TLAPS

(* The two halves of the type invariant.                                   *)
TablesOK ==
  /\ issued \subseteq Cert /\ active \subseteq issued
  /\ drawn \subseteq Target
  /\ certId \in [Target -> issued \cup {None}]
  /\ config \in [Target -> Config \cup {None}]
  /\ lastStatus \in [Target -> {"NULL", "ok", "failed"}]
  /\ lastSerial \in [Target -> issued \cup {None}]
  /\ file \in [Path -> Block \cup {None}]
  /\ sound \subseteq Target
  /\ \A t \in Target : /\ certId[t] = None <=> config[t] = None
                       /\ certId[t] # None => t \in drawn
                       /\ certId[t] = None => lastStatus[t] = "NULL"
                       /\ lastStatus[t] = "NULL" <=> lastSerial[t] = None

ReqOK(r) ==
  /\ pc[r] = "idle" <=> cert[r] = None
  /\ Planned(r) = {} <=> pc[r] \in {"idle", "auto"}
  /\ IF pc[r] \in Part \cup {"post", "failed"} THEN cur[r] \in Planned(r)
                                             ELSE cur[r] = None
  /\ pc[r] = "chain" => plan[r][cur[r]].chain # None
  /\ intact[r] \subseteq Planned(r)

ReqsOK ==
  /\ pc \in [Req -> {"idle", "auto", "run", "post", "failed"} \cup Part]
  /\ cert \in [Req -> issued \cup {None}]
  /\ plan \in [Req -> [Target -> Config \cup {None}]]
  /\ cur \in [Req -> Target \cup {None}]
  /\ intact \in [Req -> SUBSET Target]
  /\ \A r \in Req : ReqOK(r)

LEMMA TwoHalves == /\ TypeOK <=> TablesOK /\ ReqsOK
                   /\ TypeOK' <=> TablesOK' /\ ReqsOK'
  BY DEF TypeOK, TablesOK, ReqsOK, ReqOK

(* A request runs rows of its own certificate; ids are not used again.     *)
PlanOwned ==
  \A r \in Req, t \in Target :
    plan[r][t] # None => t \in drawn /\ certId[t] \in {cert[r], None}

SoundLives == \A t \in sound : certId[t] # None

(* What a request has replaced when it is about to write pc.               *)
Written(at) == CASE at = "key"   -> {"cert"}
                 [] at = "chain" -> {"cert", "key"}
                 [] at = "post"  -> Part
                 [] OTHER        -> {}

(* Nobody else touched t since r read it: the row still says what r read,  *)
(* and what r has written of it so far, and will not replace, is on disk.  *)
Faithful(r, t) ==
  certId[t] # None =>
    /\ cert[r] = certId[t]
    /\ Files(config[t]) = Files(plan[r][t])
    /\ cur[r] = t =>
         \A w \in Wanted(plan[r][t]) : w[1] \in Written(pc[r]) =>
           file[w[2]] = <<w[1], cert[r]>>

RunsFaithful == \A r \in Req : \A t \in intact[r] : Faithful(r, t)

IInv == TypeOK /\ PlanOwned /\ SoundLives /\ RunsFaithful /\ OkMeansOnDisk

-----------------------------------------------------------------------------
(* Forms.                                                                  *)
LEMMA ConfigFields ==
  ASSUME NEW x \in Config
  PROVE  /\ x # None
         /\ x["cert"] \in Path /\ x["cert"] # None
         /\ x["key"] \in Path /\ x["key"] # None
         /\ x["chain"] \in Path \cup {None}
         /\ \A part \in Part : x[part] # None => x[part] \in Path
  BY DeployAssumption DEF Configs, Part

(* What is left behind depends on the files alone, and is a file of Path.  *)
LEMMA SameFiles == ASSUME NEW x, NEW y, Files(x) = Files(y)
                   PROVE  Wanted(x) = Wanted(y)
  BY DEF Wanted

LEMMA WantedFiles ==
  ASSUME NEW x \in Config, NEW w \in Wanted(x)
  PROVE  \E part \in Part : /\ w = <<part, x[part]>>
                            /\ x[part] \in Path
  BY ConfigFields DEF Wanted, Files

(* A file a target wants, after a write that did not spoil the target.     *)
LEMMA Unspoiled ==
  ASSUME TypeOK, NEW p \in Path, NEW b \in Block, file' = [file EXCEPT ![p] = b],
         NEW t \in Target, certId[t] # None, t \notin Spoiled(p, b),
         NEW w \in Wanted(config[t]),
         file[w[2]] = <<w[1], certId[t]>> \/ w[2] = p
  PROVE  file'[w[2]] = <<w[1], certId[t]>>
<1>1. CASE w[2] = p
  <2>1. <<w[1], certId[t]>> = b
    BY <1>1 DEF Spoiled
  <2> QED
    BY <1>1, <2>1 DEF TypeOK
<1>2. CASE w[2] # p
  BY <1>2 DEF TypeOK
<1> QED
  BY <1>1, <1>2

-----------------------------------------------------------------------------
(* Type correctness.                                                       *)
LEMMA TypeInit == Init => TypeOK
<1> SUFFICES ASSUME Init PROVE TypeOK
  OBVIOUS
<1>1. TablesOK
  BY DEF Init, TablesOK, Nothing
<1>2. \A r \in Req : Planned(r) = {}
  BY DEF Init, Planned, Nothing
<1>3. ReqsOK
  BY <1>2 DEF Init, ReqsOK, ReqOK, Nothing, Part
<1> QED
  BY <1>1, <1>3, TwoHalves

(* More certificates, and the requests as they were.                       *)
LEMMA SameReqs ==
  ASSUME ReqsOK, issued \subseteq issued', UNCHANGED <<reqs, intact>>
  PROVE  ReqsOK'
<1>1. ASSUME NEW r \in Req PROVE ReqOK(r)'
  BY <1>1 DEF ReqsOK, ReqOK, reqs, Planned
<1>2. cert' \in [Req -> issued' \cup {None}]
  BY DEF ReqsOK, reqs
<1> QED
  BY <1>1, <1>2 DEF ReqsOK, reqs

LEMMA SameTables ==
  ASSUME TablesOK, UNCHANGED <<issued, active, rows, file>>,
         sound' \subseteq Target
  PROVE  TablesOK'
  BY DEF TablesOK, rows

(* One request moves; the others lose at most some of what they hold       *)
(* intact.                                                                 *)
LEMMA OneMoves ==
  ASSUME ReqsOK, UNCHANGED issued, NEW r \in Req,
         NEW w, pc' = [pc EXCEPT ![r] = w],
         w \in {"idle", "auto", "run", "post", "failed"} \cup Part,
         NEW c \in issued \cup {None}, cert' = [cert EXCEPT ![r] = c],
         NEW x \in [Target -> Config \cup {None}], plan' = [plan EXCEPT ![r] = x],
         NEW t \in Target \cup {None}, cur' = [cur EXCEPT ![r] = t],
         intact' \in [Req -> SUBSET Target],
         \A q \in Req \ {r} : intact'[q] \subseteq intact[q],
         ReqOK(r)'
  PROVE  ReqsOK'
<1>1. ASSUME NEW q \in Req \ {r} PROVE ReqOK(q)'
  <2>1. /\ pc'[q] = pc[q] /\ cert'[q] = cert[q] /\ plan'[q] = plan[q]
        /\ cur'[q] = cur[q]
    BY DEF ReqsOK
  <2>2. Planned(q)' = Planned(q)
    BY <2>1 DEF Planned
  <2> QED
    BY <2>1, <2>2 DEF ReqsOK, ReqOK
<1> QED
  BY <1>1 DEF ReqsOK

LEMMA Ids ==
  ASSUME ReqsOK, NEW r \in Req
  PROVE  /\ cert' = cert => cert' = [cert EXCEPT ![r] = cert[r]]
         /\ plan' = plan => plan' = [plan EXCEPT ![r] = plan[r]]
         /\ cur' = cur => cur' = [cur EXCEPT ![r] = cur[r]]
         /\ pc[r] \in {"idle", "auto", "run", "post", "failed"} \cup Part
         /\ cert[r] \in issued \cup {None}
         /\ plan[r] \in [Target -> Config \cup {None}]
         /\ cur[r] \in Target \cup {None}
  BY DEF ReqsOK

LEMMA TypeStart ==
  ASSUME TypeOK, NEW r \in Req, NEW c \in issued, NEW S \in SUBSET TargetsOf(c),
         pc[r] \in {"idle", "auto"}, S # {}, Start(r, c, S)
  PROVE  TypeOK'
<1>1. TablesOK /\ ReqsOK
  BY TwoHalves
<1> DEFINE x == [t \in Target |-> IF t \in S THEN config[t] ELSE None]
<1>2. \A t \in S : t \in Target /\ config[t] # None
  BY <1>1, DeployAssumption DEF TablesOK, TargetsOf
<1>3. x \in [Target -> Config \cup {None}]
  BY <1>1 DEF TablesOK
<1>4. plan' = [plan EXCEPT ![r] = x]
  BY DEF Start
<1>5. plan'[r] = x
  BY <1>1, <1>4 DEF ReqsOK
<1>6. Planned(r)' = S
  BY <1>2, <1>5 DEF Planned
<1>7. cur[r] = None /\ c # None
  BY <1>1, DeployAssumption DEF ReqsOK, ReqOK, Part, TablesOK
<1>8. ReqOK(r)'
  BY <1>1, <1>6, <1>7 DEF ReqOK, ReqsOK, Start, Part
<1>9. intact' \in [Req -> SUBSET Target] /\ \A q \in Req \ {r} : intact'[q] \subseteq intact[q]
  BY <1>1, <1>2 DEF Start, ReqsOK
<1>10. ReqsOK'
  BY <1>1, <1>3, <1>4, <1>8, <1>9, Ids, OneMoves DEF Start
<1>11. TablesOK'
  BY <1>1, SameTables DEF Start, TablesOK
<1> QED
  BY <1>10, <1>11, TwoHalves

(* The loop goes on: what is left is planned.                              *)
LEMMA TypeContinue ==
  ASSUME ReqsOK, UNCHANGED issued, NEW r \in Req, pc[r] \in {"post", "failed"}, Continue(r)
  PROVE  ReqsOK'
<1> DEFINE t == cur[r]
           rest == Planned(r) \ {t}
           x == [plan[r] EXCEPT ![t] = None]
           c == IF rest = {} THEN None ELSE cert[r]
           w == IF rest = {} THEN "idle" ELSE "run"
<1>1. t \in Target /\ plan[r] \in [Target -> Config \cup {None}] /\ plan[r][t] # None
  BY DEF ReqsOK, ReqOK, Planned
<1>2. x \in [Target -> Config \cup {None}]
  BY <1>1
<1>3. plan' = [plan EXCEPT ![r] = x]
  BY DEF Continue, ReqsOK
<1>4. plan'[r] = x
  BY <1>3 DEF ReqsOK
<1>5. Planned(r)' = rest
  BY <1>1, <1>4 DEF Planned
<1>6. cert[r] # None /\ c \in issued \cup {None} /\ cert' = [cert EXCEPT ![r] = c]
  BY DEF ReqsOK, ReqOK, Continue
<1>7. intact'[r] = intact[r] \cap rest
  BY DEF Continue, ReqsOK
<1>8. pc' = [pc EXCEPT ![r] = w] /\ cur' = [cur EXCEPT ![r] = None]
  BY DEF Continue
<1>9. /\ pc'[r] = w /\ cert'[r] = c /\ cur'[r] = None
  BY <1>6, <1>8 DEF ReqsOK
<1>10. ReqOK(r)'
  BY <1>5, <1>6, <1>7, <1>9 DEF ReqOK, Part
<1>11. /\ intact' \in [Req -> SUBSET Target]
       /\ \A q \in Req \ {r} : intact'[q] \subseteq intact[q]
  BY DEF Continue, ReqsOK
<1> HIDE DEF x, c, w, rest
<1>12. w \in {"idle", "auto", "run", "post", "failed"} \cup Part
  BY DEF w
<1> QED
  BY <1>2, <1>3, <1>6, <1>8, <1>10, <1>11, <1>12, OneMoves

LEMMA TypeRotate ==
  ASSUME TypeOK, NEW r \in Req, NEW c \in Cert, NEW d \in Cert, Rotate(r, c, d)
  PROVE  TypeOK'
<1>1. TablesOK /\ ReqsOK
  BY TwoHalves
<1>0. PICK new \in SUBSET (Target \ drawn) : \E from \in [new -> TargetsOf(c)] :
        /\ drawn' = drawn \cup new
        /\ certId' = [t \in Target |-> IF t \in new THEN d ELSE certId[t]]
        /\ config' = [t \in Target |-> IF t \in new THEN config[from[t]] ELSE config[t]]
        /\ lastStatus' = [t \in Target |-> IF t \in new THEN lastStatus[from[t]]
                                                        ELSE lastStatus[t]]
        /\ lastSerial' = [t \in Target |-> IF t \in new THEN lastSerial[from[t]]
                                                        ELSE lastSerial[t]]
  BY DEF Rotate
<1>2. PICK from \in [new -> TargetsOf(c)] :
        /\ drawn' = drawn \cup new
        /\ certId' = [t \in Target |-> IF t \in new THEN d ELSE certId[t]]
        /\ config' = [t \in Target |-> IF t \in new THEN config[from[t]] ELSE config[t]]
        /\ lastStatus' = [t \in Target |-> IF t \in new THEN lastStatus[from[t]]
                                                        ELSE lastStatus[t]]
        /\ lastSerial' = [t \in Target |-> IF t \in new THEN lastSerial[from[t]]
                                                        ELSE lastSerial[t]]
  BY <1>0
<1>3. c # None /\ d # None
  BY DeployAssumption
<1>4. \A t \in new : /\ from[t] \in Target /\ certId[from[t]] = c
                     /\ config[from[t]] \in Config
                     /\ config[from[t]] # None
                     /\ lastStatus[from[t]] \in {"NULL", "ok", "failed"}
                     /\ lastSerial[from[t]] \in issued \cup {None}
                     /\ lastStatus[from[t]] = "NULL" <=> lastSerial[from[t]] = None
  BY <1>1, <1>3 DEF TargetsOf, TablesOK
<1>5. /\ issued' = issued \cup {d} /\ active' \subseteq issued' /\ issued' \subseteq Cert
      /\ file' = file /\ sound' = sound
  BY <1>1 DEF Rotate, TablesOK
<1>6. ASSUME NEW t \in Target
      PROVE  /\ certId'[t] = None <=> config'[t] = None
             /\ certId'[t] # None => t \in drawn'
             /\ certId'[t] = None => lastStatus'[t] = "NULL"
             /\ lastStatus'[t] = "NULL" <=> lastSerial'[t] = None
  <2>1. CASE t \in new
    BY <1>2, <1>3, <1>4, <2>1
  <2>2. CASE t \notin new
    BY <1>1, <1>2, <2>2 DEF TablesOK
  <2> QED
    BY <2>1, <2>2
<1>7. /\ certId' \in [Target -> issued' \cup {None}]
      /\ config' \in [Target -> Config \cup {None}]
      /\ lastStatus' \in [Target -> {"NULL", "ok", "failed"}]
      /\ lastSerial' \in [Target -> issued' \cup {None}]
      /\ drawn' \subseteq Target
  BY <1>1, <1>2, <1>4, <1>5 DEF TablesOK
<1>8. TablesOK'
  BY <1>1, <1>5, <1>6, <1>7 DEF TablesOK
<1>9. /\ pc' \in [Req -> {"idle", "auto", "run", "post", "failed"} \cup Part]
      /\ cert' \in [Req -> issued' \cup {None}]
  BY <1>1, <1>5 DEF Rotate, ReqsOK
<1>10. ASSUME NEW q \in Req PROVE ReqOK(q)'
  <2>1. Planned(q)' = Planned(q) /\ plan' = plan /\ cur' = cur /\ intact' = intact
    BY DEF Rotate, Planned
  <2>2. CASE q = r
    BY <1>1, <1>3, <2>1, <2>2 DEF Rotate, ReqsOK, ReqOK, Part
  <2>3. CASE q # r
    BY <1>1, <2>1, <2>3 DEF Rotate, ReqsOK, ReqOK
  <2> QED
    BY <2>2, <2>3
<1>11. ReqsOK'
  BY <1>1, <1>9, <1>10 DEF Rotate, ReqsOK
<1> QED
  BY <1>8, <1>11, TwoHalves

LEMMA TypeStep ==
  ASSUME TypeOK, [Next]_vars
  PROVE  TypeOK'
<1>0. TablesOK /\ ReqsOK
  BY TwoHalves
<1>1. ASSUME NEW t \in Target, NEW c \in issued, NEW x \in Config, NewTarget(t, c, x)
      PROVE  TypeOK'
  <2>1. c # None /\ x # None
    BY <1>0, DeployAssumption DEF TablesOK
  <2>2. certId[t] = None /\ lastStatus[t] = "NULL"
    BY <1>0, <1>1 DEF TablesOK, NewTarget
  <2>3. TablesOK'
    BY <1>0, <1>1, <2>1, <2>2 DEF TablesOK, NewTarget
  <2> QED
    BY <1>0, <1>1, <2>3, SameReqs, TwoHalves DEF NewTarget
<1>2. ASSUME NEW t \in Target, NEW x \in Config, Edit(t, x) PROVE TypeOK'
  <2>1. x # None
    BY DeployAssumption
  <2>2. TablesOK'
    BY <1>0, <1>2, <2>1 DEF TablesOK, Edit, Spoil
  <2>3. ASSUME NEW r \in Req PROVE ReqOK(r)'
    <3>1. Planned(r)' = Planned(r)
      BY <1>2 DEF Edit, reqs, Planned
    <3> QED
      BY <1>0, <1>2, <3>1 DEF Edit, reqs, Spoil, ReqsOK, ReqOK
  <2>4. ReqsOK'
    BY <1>0, <1>2, <2>3 DEF Edit, reqs, Spoil, ReqsOK
  <2> QED
    BY <2>2, <2>4, TwoHalves
<1>3. ASSUME NEW t \in Target, Delete(t) PROVE TypeOK'
  <2>1. TablesOK'
    BY <1>0, <1>3 DEF TablesOK, Delete
  <2> QED
    BY <1>0, <1>3, <2>1, SameReqs, TwoHalves DEF Delete
<1>4. ASSUME NEW c \in Cert, Issue(c) PROVE TypeOK'
  <2>1. TablesOK'
    BY <1>0, <1>4 DEF TablesOK, Issue, rows
  <2> QED
    BY <1>0, <1>4, <2>1, SameReqs, TwoHalves DEF Issue
<1>5. ASSUME NEW r \in Req, NEW t \in Target, RunOne(r, t) PROVE TypeOK'
  <2>1. certId[t] \in issued /\ {t} \in SUBSET TargetsOf(certId[t])
    BY <1>0, <1>5 DEF RunOne, TablesOK, TargetsOf
  <2> QED
    BY <1>5, <2>1, TypeStart DEF RunOne
<1>6. ASSUME NEW r \in Req, NEW c \in Cert, RunAll(r, c) PROVE TypeOK'
  <2>1. c \in issued
    BY <1>0, <1>6, DeployAssumption DEF RunAll, TablesOK, TargetsOf
  <2> QED
    BY <1>6, <2>1, TypeStart DEF RunAll
<1>7. ASSUME NEW r \in Req, NEW c \in Cert, NEW d \in Cert, Rotate(r, c, d)
      PROVE  TypeOK'
  BY <1>7, TypeRotate
<1>8. ASSUME NEW r \in Req, RunAuto(r) PROVE TypeOK'
  <2>1. cert[r] \in issued
    BY <1>0, <1>8 DEF RunAuto, ReqsOK, ReqOK
  <2>2. AutoTargets(cert[r]) \in SUBSET TargetsOf(cert[r])
    BY DEF AutoTargets
  <2> QED
    BY <1>8, <2>1, <2>2, TypeStart DEF RunAuto
<1>9. ASSUME NEW r \in Req, NoAuto(r) PROVE TypeOK'
  <2>1. Planned(r)' = Planned(r) /\ Planned(r) = {}
    BY <1>0, <1>9 DEF NoAuto, Planned, ReqsOK, ReqOK
  <2>2. ReqOK(r)'
    BY <1>0, <1>9, <2>1 DEF NoAuto, ReqsOK, ReqOK, Part
  <2>3. ReqsOK'
    BY <1>0, <1>9, <2>2, Ids, OneMoves DEF NoAuto, ReqsOK
  <2> QED
    BY <1>0, <1>9, <2>3, SameTables, TwoHalves DEF NoAuto, TablesOK
<1>10. ASSUME NEW r \in Req, NEW t \in Target, Pick(r, t) PROVE TypeOK'
  <2>1. Planned(r)' = Planned(r)
    BY <1>10 DEF Pick, Planned
  <2>2. ReqOK(r)'
    BY <1>0, <1>10, <2>1 DEF Pick, ReqsOK, ReqOK, Part
  <2>3. ReqsOK'
    BY <1>0, <1>10, <2>2, Ids, OneMoves DEF Pick, ReqsOK, Part
  <2> QED
    BY <1>0, <1>10, <2>3, SameTables, TwoHalves DEF Pick, TablesOK
<1>11. ASSUME NEW r \in Req, Write(r) PROVE TypeOK'
  <2> DEFINE x == plan[r][cur[r]]
  <2>1. cur[r] \in Target /\ x \in Config /\ cert[r] \in issued
    BY <1>0, <1>11 DEF Write, ReqsOK, ReqOK, Planned, Part
  <2>2. x[pc[r]] \in Path /\ <<pc[r], cert[r]>> \in Block
    BY <1>0, <1>11, <2>1, ConfigFields DEF Write, ReqsOK, ReqOK, Part, Block, TablesOK
  <2>3. TablesOK'
    BY <1>0, <1>11, <2>2 DEF Write, TablesOK, rows, Spoil
  <2>4. Planned(r)' = Planned(r) /\ intact'[r] \subseteq intact[r]
    BY <1>0, <1>11 DEF Write, Planned, Spoil, ReqsOK
  <2>5. /\ pc' = [pc EXCEPT ![r] = AfterWrite(pc[r], x)]
        /\ AfterWrite(pc[r], x) \in {"key", "chain", "post"}
        /\ AfterWrite(pc[r], x) = "chain" => x["chain"] # None
    BY <1>11 DEF Write, AfterWrite, Part
  <2>6. /\ pc'[r] \in {"key", "chain", "post"}
        /\ pc'[r] = "chain" => x["chain"] # None
    BY <1>0, <2>5 DEF ReqsOK
  <2>7. ReqOK(r)'
    BY <1>0, <1>11, <2>4, <2>6 DEF Write, ReqsOK, ReqOK, Part
  <2>8. intact' \in [Req -> SUBSET Target] /\ \A q \in Req \ {r} : intact'[q] \subseteq intact[q]
    BY <1>0, <1>11 DEF Write, Spoil, ReqsOK
  <2>9. /\ UNCHANGED <<issued, cert, plan, cur>>
        /\ AfterWrite(pc[r], x) \in {"idle", "auto", "run", "post", "failed"} \cup Part
    BY <1>11, <2>5 DEF Write, rows, Part
  <2> HIDE DEF x
  <2>10. ReqsOK'
    BY <1>0, <2>5, <2>7, <2>8, <2>9, Ids, OneMoves
  <2> QED
    BY <2>3, <2>10, TwoHalves
<1>12. ASSUME NEW r \in Req, FailRun(r) PROVE TypeOK'
  <2>1. Planned(r)' = Planned(r)
    BY <1>12 DEF FailRun, Planned
  <2>2. ReqOK(r)'
    BY <1>0, <1>12, <2>1 DEF FailRun, ReqsOK, ReqOK, Part
  <2>3. ReqsOK'
    BY <1>0, <1>12, <2>2, Ids, OneMoves DEF FailRun, ReqsOK, Part
  <2> QED
    BY <1>0, <1>12, <2>3, SameTables, TwoHalves DEF FailRun, TablesOK
<1>13. ASSUME NEW r \in Req, Record(r) PROVE TypeOK'
  <2>1. cur[r] \in Target /\ cert[r] \in issued /\ cert[r] # None
    BY <1>0, <1>13 DEF Record, ReqsOK, ReqOK, Planned
  <2>2. TablesOK'
    BY <1>0, <1>13, <2>1 DEF Record, TablesOK
  <2> QED
    BY <1>0, <1>13, <2>2, TypeContinue, TwoHalves DEF Record
<1>14. ASSUME NEW r \in Req, RecordFails(r) PROVE TypeOK'
  BY <1>0, <1>14, TypeContinue, SameTables, TwoHalves DEF RecordFails, TablesOK
<1>15. CASE Restart
  <2>1. ASSUME NEW r \in Req PROVE ReqOK(r)'
    <3>1. Planned(r)' = {}
      BY <1>15 DEF Restart, Planned, Nothing
    <3> QED
      BY <1>15, <3>1 DEF Restart, ReqOK, Part
  <2>2. ReqsOK'
    BY <1>0, <1>15, <2>1 DEF Restart, ReqsOK, Nothing
  <2> QED
    BY <1>0, <1>15, <2>2, SameTables, TwoHalves DEF Restart, TablesOK
<1>16. CASE UNCHANGED vars
  BY <1>0, <1>16, SameReqs, SameTables, TwoHalves DEF vars, reqs, rows, TablesOK
<1> QED
  BY <1>1, <1>2, <1>3, <1>4, <1>5, <1>6, <1>7, <1>8, <1>9, <1>10, <1>11, <1>12,
     <1>13, <1>14, <1>15, <1>16 DEF Next, Operator, Begin, Step

(* In every reachable state the tables, the files and the requests have    *)
(* their types, a request that runs a target has read it, and a row that   *)
(* is gone has no columns.                                                 *)
THEOREM TypeCorrect == Spec => []TypeOK
  BY TypeInit, TypeStep, PTL DEF Spec

-----------------------------------------------------------------------------
(* What is shown as ok is on disk.                                         *)
Owned(r) == \A t \in Target :
              plan[r][t] # None => t \in drawn /\ certId[t] \in {cert[r], None}

OnDisk(t) == Shown(t) = "ok" =>
               \A w \in Wanted(config[t]) : file[w[2]] = <<w[1], certId[t]>>

LEMMA InvInit == Init => IInv
  BY TypeInit DEF Init, IInv, PlanOwned, SoundLives, RunsFaithful, OkMeansOnDisk,
     Nothing

(* A step that leaves the rows and the files alone.                        *)
LEMMA TablesKept ==
  ASSUME IInv, UNCHANGED <<rows, file>>, sound' \subseteq sound
  PROVE  SoundLives' /\ OkMeansOnDisk'
<1>1. \A t \in sound : OnDisk(t)
  BY DEF IInv, OkMeansOnDisk, OnDisk
<1>2. \A t : OnDisk(t)' <=> OnDisk(t)
  BY DEF OnDisk, Shown, rows
<1>3. SoundLives'
  BY DEF IInv, SoundLives, rows
<1> QED
  BY <1>1, <1>2, <1>3 DEF OkMeansOnDisk, OnDisk

LEMMA OneRuns ==
  ASSUME IInv, NEW r \in Req, UNCHANGED <<rows, file>>,
         \A q \in Req \ {r} : /\ UNCHANGED <<pc[q], cert[q], plan[q], cur[q]>>
                              /\ intact'[q] \subseteq intact[q],
         Owned(r)', \A t \in intact'[r] : Faithful(r, t)'
  PROVE  PlanOwned' /\ RunsFaithful'
<1>1. ASSUME NEW q \in Req PROVE Owned(q)'
  BY DEF IInv, PlanOwned, Owned, rows
<1>2. ASSUME NEW q \in Req \ {r}, NEW t \in intact'[q] PROVE Faithful(q, t)'
  <2>1. Faithful(q, t)
    BY DEF IInv, RunsFaithful
  <2> QED
    BY <2>1 DEF Faithful, rows
<1> QED
  BY <1>1, <1>2 DEF PlanOwned, Owned, RunsFaithful

(* A step that leaves the requests and the files alone, and what the rows  *)
(* that exist and are not spoiled say.                                     *)
LEMMA RowsKept ==
  ASSUME IInv, UNCHANGED <<reqs, file>>, drawn \subseteq drawn',
         sound' \subseteq sound,
         \A q \in Req : intact'[q] \subseteq intact[q],
         \A t \in drawn : certId'[t] = certId[t] \/ certId'[t] = None,
         \A t \in drawn : certId'[t] # None =>
           /\ UNCHANGED <<lastStatus[t], lastSerial[t]>>
           /\ \/ Files(config'[t]) = Files(config[t])
              \/ t \notin sound' /\ \A q \in Req : t \notin intact'[q],
         \A t \in sound' : certId'[t] # None
  PROVE  PlanOwned' /\ SoundLives' /\ RunsFaithful' /\ OkMeansOnDisk'
<1>0. TypeOK /\ PlanOwned /\ SoundLives /\ RunsFaithful /\ OkMeansOnDisk
  BY DEF IInv
<1>1. PlanOwned'
  BY <1>0 DEF PlanOwned, reqs
<1>2. SoundLives'
  BY DEF SoundLives
<1>3. ASSUME NEW q \in Req, NEW t \in intact'[q] PROVE Faithful(q, t)'
  <2>1. t \in Target /\ t \in drawn
    BY <1>0 DEF TypeOK, Planned, PlanOwned
  <2>2. Faithful(q, t)
    BY <1>0 DEF RunsFaithful
  <2> QED
    BY <2>1, <2>2, SameFiles DEF Faithful, reqs
<1>4. ASSUME NEW t \in sound' PROVE OnDisk(t)'
  <2>1. t \in Target /\ t \in drawn
    BY <1>0 DEF TypeOK, SoundLives
  <2>2. OnDisk(t)
    BY <1>0 DEF OkMeansOnDisk, OnDisk
  <2>3. /\ certId'[t] = certId[t] /\ UNCHANGED <<lastStatus[t], lastSerial[t]>>
        /\ Files(config'[t]) = Files(config[t])
    BY <2>1
  <2>4. Wanted(config'[t]) = Wanted(config[t])
    BY <2>3, SameFiles
  <2> QED
    BY <2>2, <2>3, <2>4 DEF OnDisk, Shown
<1> QED
  BY <1>1, <1>2, <1>3, <1>4 DEF RunsFaithful, OkMeansOnDisk, OnDisk

LEMMA InvStart ==
  ASSUME IInv, NEW r \in Req, NEW c \in issued, NEW S \in SUBSET TargetsOf(c),
         pc[r] \in {"idle", "auto"}, Start(r, c, S)
  PROVE  PlanOwned' /\ SoundLives' /\ RunsFaithful' /\ OkMeansOnDisk'
<1>1. TypeOK
  BY DEF IInv
<1>2. c # None /\ \A t \in S : t \in Target /\ certId[t] = c /\ t \in drawn
  BY <1>1, DeployAssumption DEF TypeOK, TargetsOf
<1>3. /\ pc'[r] = "run" /\ cert'[r] = c /\ intact'[r] = S
      /\ plan'[r] = [t \in Target |-> IF t \in S THEN config[t] ELSE None]
  BY <1>1 DEF TypeOK, Start
<1>4. UNCHANGED <<rows, file, sound>>
  BY DEF Start
<1>5. Owned(r)'
  BY <1>2, <1>3, <1>4 DEF Owned, rows
<1>6. ASSUME NEW t \in S PROVE Faithful(r, t)'
  BY <1>2, <1>3, <1>4 DEF Faithful, Written, rows
<1>7. \A q \in Req \ {r} : /\ UNCHANGED <<pc[q], cert[q], plan[q], cur[q]>>
                            /\ intact'[q] \subseteq intact[q]
  BY <1>1 DEF TypeOK, Start
<1> QED
  BY <1>3, <1>4, <1>5, <1>6, <1>7, OneRuns, TablesKept

LEMMA InvRotate ==
  ASSUME IInv, NEW r \in Req, NEW c \in Cert, NEW d \in Cert, Rotate(r, c, d)
  PROVE  PlanOwned' /\ SoundLives' /\ RunsFaithful' /\ OkMeansOnDisk'
<1>0. TypeOK /\ PlanOwned /\ SoundLives /\ RunsFaithful /\ OkMeansOnDisk
  BY DEF IInv
<1>1. /\ drawn \subseteq drawn'
      /\ UNCHANGED <<file, sound, plan, cur, intact>>
      /\ \A t \in drawn : UNCHANGED <<certId[t], config[t], lastStatus[t], lastSerial[t]>>
  <2>1. PICK new \in SUBSET (Target \ drawn) : \E from \in [new -> TargetsOf(c)] :
          /\ drawn' = drawn \cup new
          /\ certId' = [t \in Target |-> IF t \in new THEN d ELSE certId[t]]
          /\ config' = [t \in Target |-> IF t \in new THEN config[from[t]] ELSE config[t]]
          /\ lastStatus' = [t \in Target |-> IF t \in new THEN lastStatus[from[t]]
                                                          ELSE lastStatus[t]]
          /\ lastSerial' = [t \in Target |-> IF t \in new THEN lastSerial[from[t]]
                                                          ELSE lastSerial[t]]
    BY DEF Rotate
  <2> QED
    BY <1>0, <2>1 DEF Rotate, TypeOK
<1>2. ASSUME NEW q \in Req
      PROVE  /\ q # r => pc'[q] = pc[q] /\ cert'[q] = cert[q]
             /\ q = r => Planned(q) = {} /\ intact[q] = {}
  BY <1>0 DEF Rotate, TypeOK
<1>3. PlanOwned'
  <2> SUFFICES ASSUME NEW q \in Req, NEW t \in Target, plan[q][t] # None
               PROVE  t \in drawn' /\ certId'[t] \in {cert'[q], None}
    BY <1>1 DEF PlanOwned
  <2>1. q # r
    BY <1>2 DEF Planned
  <2> QED
    BY <1>0, <1>1, <1>2, <2>1 DEF PlanOwned
<1>4. SoundLives'
  BY <1>0, <1>1 DEF SoundLives, TypeOK
<1>5. ASSUME NEW q \in Req, NEW t \in intact[q] PROVE Faithful(q, t)'
  <2>1. q # r /\ t \in drawn
    BY <1>0, <1>2 DEF TypeOK, Planned, PlanOwned
  <2>2. Faithful(q, t)
    BY <1>0 DEF RunsFaithful
  <2> QED
    BY <1>1, <1>2, <2>1, <2>2 DEF Faithful
<1>6. ASSUME NEW t \in sound PROVE OnDisk(t)'
  <2>1. t \in drawn
    BY <1>0 DEF TypeOK, SoundLives
  <2>2. OnDisk(t)
    BY <1>0 DEF OkMeansOnDisk, OnDisk
  <2> QED
    BY <1>1, <2>1, <2>2 DEF OnDisk, Shown
<1> QED
  BY <1>1, <1>3, <1>4, <1>5, <1>6 DEF RunsFaithful, OkMeansOnDisk, OnDisk

(* What a file write leaves of a target that keeps its files.              *)
LEMMA InvWrite ==
  ASSUME IInv, NEW r \in Req, Write(r)
  PROVE  PlanOwned' /\ SoundLives' /\ RunsFaithful' /\ OkMeansOnDisk'
<1>0. TypeOK /\ PlanOwned /\ SoundLives /\ RunsFaithful /\ OkMeansOnDisk
  BY DEF IInv
<1> DEFINE x == plan[r][cur[r]]
           p == x[pc[r]]
           b == <<pc[r], cert[r]>>
<1>1. /\ cur[r] \in Target /\ x \in Config /\ cert[r] \in issued /\ pc[r] \in Part
      /\ issued \subseteq Cert
  BY <1>0 DEF Write, TypeOK, Planned, Part
<1>2. p \in Path /\ b \in Block
  BY <1>0, <1>1, ConfigFields DEF TypeOK, Part, Block
<1>3. /\ UNCHANGED <<rows, cert, plan, cur>>
      /\ file' = [file EXCEPT ![p] = b]
      /\ sound' = sound \ Spoiled(p, b)
      /\ intact'[r] = intact[r]
      /\ \A q \in Req \ {r} : /\ intact'[q] = intact[q] \ Spoiled(p, b)
                             /\ pc'[q] = pc[q]
      /\ pc'[r] = AfterWrite(pc[r], x)
  BY <1>0 DEF Write, Spoil, TypeOK
<1>4. Written(pc'[r]) \subseteq Written(pc[r]) \cup {pc[r]} \cup
                               {part \in Part : x[part] = None}
  BY <1>1, <1>3 DEF Written, AfterWrite, Part
<1>8. \A part \in Written(pc[r]) : pc[r] \in Later(part)
  BY <1>1 DEF Written, Later, Part
<1> HIDE DEF p, b
<1>5. PlanOwned' /\ SoundLives'
  BY <1>0, <1>3 DEF PlanOwned, SoundLives, rows
<1>6. ASSUME NEW t \in sound' PROVE OnDisk(t)'
  <2>1. t \in Target /\ certId[t] # None /\ t \notin Spoiled(p, b) /\ config[t] \in Config
    BY <1>0, <1>3 DEF TypeOK, SoundLives
  <2>2. OnDisk(t)
    BY <1>0, <1>3 DEF OkMeansOnDisk, OnDisk
  <2> SUFFICES ASSUME Shown(t) = "ok", NEW w \in Wanted(config[t])
               PROVE  file'[w[2]] = <<w[1], certId[t]>>
    BY <1>3 DEF OnDisk, Shown, rows
  <2>3. file[w[2]] = <<w[1], certId[t]>>
    BY <2>2 DEF OnDisk
  <2> QED
    BY <1>0, <1>2, <1>3, <2>1, <2>3, Unspoiled
<1>7. ASSUME NEW q \in Req, NEW t \in intact'[q] PROVE Faithful(q, t)'
  <2> SUFFICES ASSUME certId[t] # None
               PROVE  /\ cert[q] = certId[t]
                      /\ Files(config[t]) = Files(plan[q][t])
                      /\ cur[q] = t =>
                           \A w \in Wanted(plan[q][t]) : w[1] \in Written(pc'[q]) =>
                             file'[w[2]] = <<w[1], cert[q]>>
    BY <1>3 DEF Faithful, rows
  <2>1. t \in Target /\ config[t] \in Config /\ t \in intact[q]
    BY <1>0, <1>3 DEF TypeOK
  <2>2. Faithful(q, t)
    BY <1>0, <2>1 DEF RunsFaithful
  <2>3. /\ cert[q] = certId[t] /\ Files(config[t]) = Files(plan[q][t])
        /\ Wanted(config[t]) = Wanted(plan[q][t])
    BY <2>2, SameFiles DEF Faithful
  <2>4. ASSUME cur[q] = t, NEW w \in Wanted(plan[q][t]), w[1] \in Written(pc'[q])
        PROVE  file'[w[2]] = <<w[1], cert[q]>>
    <3>1. CASE q # r
      <4>1. file[w[2]] = <<w[1], certId[t]>>
        BY <1>3, <2>2, <2>3, <2>4, <3>1 DEF Faithful
      <4>2. t \notin Spoiled(p, b)
        BY <1>3, <3>1
      <4> QED
        BY <1>0, <1>2, <1>3, <2>1, <2>3, <4>1, <4>2, Unspoiled
    <3>2. CASE q = r
      <4>1. PICK part \in Part : w = <<part, x[part]>> /\ x[part] \in Path
        BY <1>1, <2>4, <3>2, WantedFiles
      <4>2. part \in Written(pc[r]) \/ part = pc[r]
        BY <1>2, <1>4, <2>4, <3>2, <4>1, DeployAssumption
      <4>3. CASE part = pc[r]
        BY <1>0, <1>2, <1>3, <3>2, <4>1, <4>3 DEF TypeOK, p, b
      <4>4. CASE part \in Written(pc[r])
        <5>1. <<pc[r], p>> \in Files(x)
          BY <1>1, <1>2, DeployAssumption DEF Files, p
        <5>2. w[2] # p
          BY <1>8, <2>4, <3>2, <4>1, <4>4, <5>1 DEF Wanted
        <5>3. file[w[2]] = <<w[1], cert[r]>>
          BY <2>2, <2>4, <3>2, <4>1, <4>4 DEF Faithful
        <5> QED
          BY <1>0, <1>2, <1>3, <3>2, <4>1, <5>2, <5>3 DEF TypeOK
      <4> QED
        BY <4>2, <4>3, <4>4
    <3> QED
      BY <3>1, <3>2
  <2> QED
    BY <2>3, <2>4
<1> QED
  BY <1>5, <1>6, <1>7 DEF RunsFaithful, OkMeansOnDisk, OnDisk

(* The next target, or none.                                               *)
LEMMA InvContinue ==
  ASSUME IInv, NEW r \in Req, pc[r] \in {"post", "failed"}, Continue(r),
         UNCHANGED <<drawn, certId, config, file>>
  PROVE  PlanOwned' /\ RunsFaithful'
<1>0. TypeOK /\ PlanOwned /\ RunsFaithful
  BY DEF IInv
<1> DEFINE rest == Planned(r) \ {cur[r]}
<1>1. /\ \A t \in Target : plan'[r][t] # None => plan[r][t] # None /\ t \in rest
      /\ \A t \in rest : plan'[r][t] = plan[r][t]
      /\ rest # {} => cert'[r] = cert[r]
      /\ intact'[r] \subseteq intact[r] \cap rest
      /\ cur'[r] = None
  BY <1>0 DEF TypeOK, Continue, Planned
<1>2. \A q \in Req \ {r} : /\ UNCHANGED <<pc[q], cert[q], plan[q], cur[q]>>
                            /\ intact'[q] = intact[q]
  BY <1>0 DEF TypeOK, Continue
<1>3. ASSUME NEW q \in Req PROVE Owned(q)'
  BY <1>0, <1>1, <1>2 DEF PlanOwned, Owned
<1>4. ASSUME NEW q \in Req, NEW t \in intact'[q] PROVE Faithful(q, t)'
  <2>1. CASE q = r
    <3>1. t \in Target /\ t \in rest /\ Faithful(r, t)
      BY <1>0, <1>1, <2>1 DEF TypeOK, RunsFaithful
    <3>2. cur'[r] # t
      BY <1>1, <3>1, DeployAssumption
    <3> QED
      BY <1>1, <2>1, <3>1, <3>2 DEF Faithful
  <2>2. CASE q # r
    <3>1. Faithful(q, t)
      BY <1>0, <1>2, <2>2 DEF RunsFaithful
    <3> QED
      BY <1>2, <2>2, <3>1 DEF Faithful
  <2> QED
    BY <2>1, <2>2
<1> QED
  BY <1>3, <1>4 DEF PlanOwned, Owned, RunsFaithful

LEMMA InvRecord ==
  ASSUME IInv, NEW r \in Req, Record(r)
  PROVE  PlanOwned' /\ SoundLives' /\ RunsFaithful' /\ OkMeansOnDisk'
<1>0. TypeOK /\ SoundLives /\ RunsFaithful /\ OkMeansOnDisk
  BY DEF IInv
<1> DEFINE t == cur[r]
<1>1. t \in Target /\ certId[t] # None /\ cert[r] # None
  BY <1>0 DEF Record, TypeOK, Planned
<1>2. /\ UNCHANGED <<certId, config, file>>
      /\ sound' \subseteq sound \cup {t}
      /\ t \in sound' => t \in intact[r]
      /\ lastStatus'[t] = (IF pc[r] = "post" THEN "ok" ELSE "failed")
      /\ lastSerial'[t] = cert[r]
      /\ \A u \in Target \ {t} : UNCHANGED <<lastStatus[u], lastSerial[u]>>
  <2>1. /\ lastStatus' = [lastStatus EXCEPT ![t] =
                            IF pc[r] = "post" THEN "ok" ELSE "failed"]
        /\ lastSerial' = [lastSerial EXCEPT ![t] = cert[r]]
        /\ sound' = IF t \in intact[r] THEN sound \cup {t} ELSE sound \ {t}
        /\ UNCHANGED <<certId, config, file>>
    BY DEF Record
  <2>2. lastStatus \in [Target -> {"NULL", "ok", "failed"}] /\ DOMAIN lastSerial = Target
    BY <1>0 DEF TypeOK
  <2> QED
    BY <1>1, <2>1, <2>2
<1>3. SoundLives'
  BY <1>0, <1>1, <1>2 DEF SoundLives
<1>4. ASSUME NEW u \in sound' PROVE OnDisk(u)'
  <2>1. CASE u # t
    <3>1. OnDisk(u) /\ u \in Target
      BY <1>0, <1>2, <2>1 DEF OkMeansOnDisk, OnDisk, TypeOK
    <3> QED
      BY <1>2, <2>1, <3>1 DEF OnDisk, Shown
  <2>2. CASE u = t /\ pc[r] = "failed"
    BY <1>2, <2>2 DEF OnDisk, Shown
  <2>3. CASE u = t /\ pc[r] = "post"
    <3>1. Faithful(r, t)
      BY <1>0, <1>2, <2>3 DEF RunsFaithful
    <3> SUFFICES ASSUME NEW w \in Wanted(config[t])
                 PROVE  file[w[2]] = <<w[1], certId[t]>>
      BY <1>2, <2>3 DEF OnDisk
    <3>2. w \in Wanted(plan[r][t])
      BY <1>1, <3>1, SameFiles DEF Faithful
    <3>3. w[1] \in Written(pc[r])
      BY <2>3 DEF Written, Wanted, Files
    <3> QED
      BY <1>1, <3>1, <3>2, <3>3 DEF Faithful
  <2> QED
    BY <2>1, <2>2, <2>3 DEF Record
<1>5. PlanOwned' /\ RunsFaithful'
  BY InvContinue DEF Record
<1> QED
  BY <1>3, <1>4, <1>5 DEF OkMeansOnDisk, OnDisk

LEMMA InvStep ==
  ASSUME IInv, [Next]_vars
  PROVE  IInv'
<1>0. TypeOK /\ PlanOwned /\ SoundLives /\ RunsFaithful /\ OkMeansOnDisk /\ TypeOK'
  BY TypeStep DEF IInv
<1> DEFINE Rest == PlanOwned' /\ SoundLives' /\ RunsFaithful' /\ OkMeansOnDisk'
<1>1. ASSUME NEW t \in Target, NEW c \in issued, NEW x \in Config, NewTarget(t, c, x)
      PROVE  Rest
  <2>1. /\ UNCHANGED <<reqs, file, sound, intact, lastStatus, lastSerial>>
        /\ t \notin drawn /\ drawn' = drawn \cup {t}
        /\ \A u \in Target \ {t} : UNCHANGED <<certId[u], config[u]>>
    BY <1>0, <1>1 DEF NewTarget, TypeOK
  <2>2. \A u \in drawn : u \in Target \ {t}
    BY <1>0, <2>1 DEF TypeOK
  <2>3. \A u \in sound : u \in drawn
    BY <1>0 DEF TypeOK, SoundLives
  <2> QED
    BY <1>0, <2>1, <2>2, <2>3, RowsKept DEF SoundLives
<1>2. ASSUME NEW t \in Target, NEW x \in Config, Edit(t, x) PROVE Rest
  <2>1. /\ UNCHANGED <<reqs, file, lastStatus, lastSerial, certId, drawn>>
        /\ \A u \in Target \ {t} : config'[u] = config[u]
        /\ config'[t] = x
    BY <1>0, <1>2 DEF Edit, TypeOK
  <2>2. /\ sound' \subseteq sound
        /\ \A q \in Req : intact'[q] \subseteq intact[q]
        /\ \/ Files(x) = Files(config[t])
           \/ t \notin sound' /\ \A q \in Req : t \notin intact'[q]
    BY <1>0, <1>2 DEF Edit, Spoil, TypeOK
  <2>3. \A u \in drawn : u \in Target
    BY <1>0 DEF TypeOK
  <2> QED
    BY <1>0, <2>1, <2>2, <2>3, RowsKept DEF SoundLives
<1>3. ASSUME NEW t \in Target, Delete(t) PROVE Rest
  <2>1. /\ UNCHANGED <<reqs, file, intact, drawn>>
        /\ sound' = sound \ {t}
        /\ certId'[t] = None
        /\ \A u \in Target \ {t} :
             UNCHANGED <<certId[u], config[u], lastStatus[u], lastSerial[u]>>
    BY <1>0, <1>3 DEF Delete, TypeOK
  <2>2. \A u \in drawn \cup sound : u \in Target
    BY <1>0 DEF TypeOK
  <2> QED
    BY <1>0, <2>1, <2>2, RowsKept DEF SoundLives
<1>4. ASSUME UNCHANGED <<rows, file, reqs, intact, sound>> PROVE Rest
  BY <1>0, <1>4, RowsKept DEF rows, SoundLives
<1>5. ASSUME NEW r \in Req, NEW t \in Target, RunOne(r, t) PROVE Rest
  <2>1. certId[t] \in issued /\ {t} \in SUBSET TargetsOf(certId[t])
    BY <1>0, <1>5 DEF RunOne, TypeOK, TargetsOf
  <2> QED
    BY <1>5, <2>1, InvStart DEF RunOne
<1>6. ASSUME NEW r \in Req, NEW c \in Cert, RunAll(r, c) PROVE Rest
  <2>1. c \in issued
    BY <1>0, <1>6, DeployAssumption DEF RunAll, TypeOK, TargetsOf
  <2> QED
    BY <1>6, <2>1, InvStart DEF RunAll
<1>7. ASSUME NEW r \in Req, NEW c \in Cert, NEW d \in Cert, Rotate(r, c, d)
      PROVE  Rest
  BY <1>7, InvRotate
<1>8. ASSUME NEW r \in Req, RunAuto(r) PROVE Rest
  <2>1. cert[r] \in issued
    BY <1>0, <1>8 DEF RunAuto, TypeOK
  <2>2. AutoTargets(cert[r]) \in SUBSET TargetsOf(cert[r])
    BY DEF AutoTargets
  <2> QED
    BY <1>8, <2>1, <2>2, InvStart DEF RunAuto
<1>9. ASSUME NEW r \in Req,
             NoAuto(r) \/ (\E t \in Target : Pick(r, t)) \/ FailRun(r)
      PROVE  Rest
  <2>1. /\ UNCHANGED <<rows, file, sound, plan, intact>>
        /\ \A q \in Req \ {r} : UNCHANGED <<pc[q], cert[q], cur[q]>>
        /\ Written(pc'[r]) = {}
        /\ NoAuto(r) \/ cert'[r] = cert[r]
    BY <1>0, <1>9 DEF NoAuto, Pick, FailRun, TypeOK, Written
  <2>2. NoAuto(r) => \A t \in Target : plan[r][t] = None /\ t \notin intact[r]
    BY <1>0 DEF NoAuto, TypeOK, Planned
  <2>3. Owned(r)'
    BY <1>0, <2>1, <2>2 DEF PlanOwned, Owned, rows
  <2>4. ASSUME NEW t \in intact'[r] PROVE Faithful(r, t)'
    <3>1. t \in Target /\ Faithful(r, t) /\ ~NoAuto(r)
      BY <1>0, <2>1, <2>2 DEF TypeOK, RunsFaithful
    <3> QED
      BY <2>1, <3>1 DEF Faithful, rows
  <2> QED
    BY <2>1, <2>3, <2>4, OneRuns, TablesKept
<1>10. ASSUME NEW r \in Req, Write(r) PROVE Rest
  BY <1>10, InvWrite
<1>11. ASSUME NEW r \in Req, Record(r) PROVE Rest
  BY <1>11, InvRecord
<1>12. ASSUME NEW r \in Req, RecordFails(r) PROVE Rest
  BY <1>12, InvContinue, TablesKept DEF RecordFails, rows
<1>13. ASSUME Restart PROVE Rest
  <2>1. UNCHANGED <<rows, file, sound>>
    BY <1>13 DEF Restart
  <2>2. \A r \in Req : intact'[r] = {} /\ \A t \in Target : plan'[r][t] = None
    BY <1>13 DEF Restart, Nothing
  <2>3. PlanOwned' /\ RunsFaithful'
    BY <2>2 DEF PlanOwned, RunsFaithful
  <2> QED
    BY <2>1, <2>3, TablesKept
<1>14. ASSUME (\E c \in Cert : Issue(c)) \/ UNCHANGED vars PROVE Rest
  <2>1. UNCHANGED <<rows, file, reqs, intact, sound>>
    BY <1>14 DEF Issue, vars, rows, reqs
  <2> QED
    BY <1>4, <2>1
<1> QED
  BY <1>0, <1>1, <1>2, <1>3, <1>5, <1>6, <1>7, <1>8, <1>9, <1>10, <1>11, <1>12,
     <1>13, <1>14 DEF Next, Operator, Begin, Step, IInv

LEMMA InvAlways == Spec => []IInv
  BY InvInit, InvStep, PTL DEF Spec

(* A target shown as ok has its certificate's parts at its paths, unless   *)
(* an edit or another run touched them since the recorded run read it: for *)
(* any number of requests, of targets and of files they share, and with a  *)
(* failure or a restart between any two steps of the runner.               *)
THEOREM OkIsOnDisk == Spec => []OkMeansOnDisk
<1>1. IInv => OkMeansOnDisk
  BY DEF IInv
<1> QED
  BY InvAlways, <1>1, PTL

-----------------------------------------------------------------------------
(* No target a request has read is skipped, except by a restart: whichever *)
(* runs before it fail and whatever happens to the rows meanwhile.         *)
THEOREM NoRunSkipped == Spec => EveryTargetTried
<1> DEFINE Tried(r, t) == (plan[r][t] # None /\ plan'[r][t] = None) =>
                            \/ cur[r] = t /\ pc[r] \in {"post", "failed"}
                            \/ \A q \in Req : pc'[q] = "idle"
<1>1. ASSUME TypeOK, [Next]_vars, NEW r \in Req, NEW t \in Target PROVE Tried(r, t)
  <2>1. ASSUME NEW q \in Req, NEW c, NEW S, Start(q, c, S), pc[q] \in {"idle", "auto"}
        PROVE  Tried(r, t)
    <3>1. Planned(q) = {} /\ \A p \in Req \ {q} : plan'[p] = plan[p]
      BY <1>1, <2>1 DEF TypeOK, Start
    <3> QED
      BY <3>1 DEF Planned
  <2>2. CASE \E q \in Req : Begin(q) \/ RunAuto(q)
    BY <2>1, <2>2 DEF Begin, RunOne, RunAll, RunAuto, Rotate
  <2>3. ASSUME NEW q \in Req, Record(q) \/ RecordFails(q) PROVE Tried(r, t)
    <3>1. /\ pc[q] \in {"post", "failed"}
          /\ plan' = [plan EXCEPT ![q][cur[q]] = None]
      BY <2>3 DEF Record, RecordFails, Continue
    <3> QED
      BY <1>1, <3>1 DEF TypeOK
  <2>4. CASE Restart
    BY <1>1, <2>4 DEF Restart
  <2>5. CASE \E q \in Req : \/ NoAuto(q) \/ Write(q) \/ FailRun(q)
                           \/ \E u \in Target : Pick(q, u)
    BY <2>5 DEF NoAuto, Write, FailRun, Pick
  <2>6. CASE Operator \/ UNCHANGED vars
    BY <2>6 DEF Operator, Issue, NewTarget, Edit, Delete, reqs, vars
  <2> QED
    BY <1>1, <2>2, <2>3, <2>4, <2>5, <2>6 DEF Next, Step
<1>2. TypeOK /\ [Next]_vars =>
        [\A r \in Req, t \in Target : Tried(r, t)]_vars
  BY <1>1
<1> QED
  BY TypeCorrect, <1>2, PTL DEF Spec, EveryTargetTried

-----------------------------------------------------------------------------
(* What the pages show implements DeployBoard.                             *)
ShownAt(t) == IF certId[t] # None THEN Shown(t)
              ELSE IF t \in drawn THEN "deleted" ELSE "unused"

ShownMap == [t \in Target |-> ShownAt(t)]

LEMMA BoardQuiet ==
  ASSUME UNCHANGED rows
  PROVE  UNCHANGED <<certId, ShownMap>>
  BY DEF rows, ShownMap, ShownAt, Shown

(* One target's row changes.                                               *)
LEMMA BoardOne ==
  ASSUME TypeOK, NEW t \in Target, NEW s, ShownAt(t)' = s,
         \A u \in Target \ {t} : UNCHANGED <<certId[u], lastStatus[u], lastSerial[u]>>
                               /\ (u \in drawn' <=> u \in drawn)
  PROVE  ShownMap' = [ShownMap EXCEPT ![t] = s]
<1>1. ASSUME NEW u \in Target \ {t} PROVE ShownAt(u)' = ShownAt(u)
  <2>1. lastStatus[u] \in {"NULL", "ok", "failed"}
    BY DEF TypeOK
  <2> QED
    BY <2>1 DEF ShownAt, Shown
<1> QED
  BY <1>1 DEF ShownMap

LEMMA BoardRotate ==
  ASSUME TypeOK, NEW r \in Req, NEW c \in Cert, NEW d \in Cert, Rotate(r, c, d)
  PROVE  Board!Rotate
<1>1. PICK new \in SUBSET (Target \ drawn) : \E from \in [new -> TargetsOf(c)] :
        /\ drawn' = drawn \cup new
        /\ certId' = [t \in Target |-> IF t \in new THEN d ELSE certId[t]]
        /\ lastStatus' = [t \in Target |-> IF t \in new THEN lastStatus[from[t]]
                                                        ELSE lastStatus[t]]
        /\ lastSerial' = [t \in Target |-> IF t \in new THEN lastSerial[from[t]]
                                                        ELSE lastSerial[t]]
  BY DEF Rotate
<1>2. PICK from \in [new -> TargetsOf(c)] :
        /\ drawn' = drawn \cup new
        /\ certId' = [t \in Target |-> IF t \in new THEN d ELSE certId[t]]
        /\ lastStatus' = [t \in Target |-> IF t \in new THEN lastStatus[from[t]]
                                                        ELSE lastStatus[t]]
        /\ lastSerial' = [t \in Target |-> IF t \in new THEN lastSerial[from[t]]
                                                        ELSE lastSerial[t]]
  BY <1>1
<1>3. c # None /\ d # None /\ d \notin issued
  BY DeployAssumption DEF Rotate
<1>4. \A t \in Target : certId[t] # d /\ lastSerial[t] # d
  BY <1>3 DEF TypeOK
<1>5. \A t \in new : /\ from[t] \in Target /\ certId[from[t]] = c
                    /\ ShownMap[t] = "unused"
                    /\ ShownMap[from[t]] = Shown(from[t])
  BY <1>3 DEF TargetsOf, TypeOK, ShownMap, ShownAt
<1>6. ASSUME NEW t \in Target
      PROVE  ShownMap'[t] = IF t \in new THEN Board!Inherit(ShownMap[from[t]])
                                          ELSE ShownMap[t]
  <2>1. CASE t \in new
    <3>1. ShownMap'[t] = Shown(t)'
      BY <1>2, <1>3, <2>1 DEF ShownMap, ShownAt
    <3>2. /\ lastStatus'[t] = lastStatus[from[t]] /\ lastSerial'[t] = lastSerial[from[t]]
          /\ certId'[t] = d
          /\ lastStatus[from[t]] \in {"NULL", "ok", "failed"}
          /\ lastStatus[from[t]] = "ok" => lastSerial[from[t]] \notin {None, d}
      BY <1>2, <1>4, <1>5, <2>1 DEF TypeOK
    <3>3. Shown(t)' = Board!Inherit(Shown(from[t]))
      BY <3>2 DEF Shown, Board!Inherit
    <3> QED
      BY <1>5, <2>1, <3>1, <3>3
  <2>2. CASE t \notin new
    BY <1>2, <2>2 DEF ShownMap, ShownAt, Shown, TypeOK
  <2> QED
    BY <2>1, <2>2
<1>7. ShownMap' = [t \in Target |-> IF t \in new THEN Board!Inherit(ShownMap[from[t]])
                                                ELSE ShownMap[t]]
  BY <1>6 DEF ShownMap
<1>8. new \in SUBSET Target /\ from \in [new -> {t \in Target : certId[t] = c}]
  BY DEF TargetsOf
<1>9. /\ \A t \in Target : certId[t] # d
      /\ \A t \in new : ShownMap[t] = "unused"
      /\ certId' = [t \in Target |-> IF t \in new THEN d ELSE certId[t]]
  BY <1>2, <1>4, <1>5
<1>10. \E a, b \in Cert, n \in SUBSET Target :
        \E f \in [n -> {t \in Target : certId[t] = a}] :
          /\ \A t \in Target : certId[t] # b
          /\ \A t \in n : ShownMap[t] = "unused"
          /\ certId' = [t \in Target |-> IF t \in n THEN b ELSE certId[t]]
          /\ ShownMap' = [t \in Target |-> IF t \in n THEN Board!Inherit(ShownMap[f[t]])
                                                    ELSE ShownMap[t]]
  <2> HIDE DEF ShownMap
  <2>1. \E n \in SUBSET Target :
        \E f \in [n -> {t \in Target : certId[t] = c}] :
          /\ \A t \in Target : certId[t] # d
          /\ \A t \in n : ShownMap[t] = "unused"
          /\ certId' = [t \in Target |-> IF t \in n THEN d ELSE certId[t]]
          /\ ShownMap' = [t \in Target |-> IF t \in n THEN Board!Inherit(ShownMap[f[t]])
                                                    ELSE ShownMap[t]]
    <3> from \in [new -> {t \in Target : certId[t] = c}]
      BY <1>8
    <3> WITNESS new \in SUBSET Target
    <3> WITNESS from \in [new -> {t \in Target : certId[t] = c}]
    <3> QED
      BY <1>7, <1>9
  <2> QED
    BY <2>1
<1> QED
  BY <1>10 DEF Board!Rotate, ShownMap, ShownAt

(* The page of a certificate keeps the promise of DeployBoard: what is not *)
(* run is shown as never deployed, ok and failed are reports of runs, and  *)
(* a rotation shows nothing as deployed of the successor.                  *)
THEOREM ImplementsBoard == Spec => BoardSpec
<1>1. Init => Board!Init
  BY DEF Init, Board!Init, Nothing
<1>2. IInv /\ [Next]_vars => [Board!Next]_(Board!vars)
  <2> SUFFICES ASSUME IInv, [Next]_vars
               PROVE  Board!Next \/ UNCHANGED <<certId, ShownMap>>
    BY DEF Board!vars, ShownMap, ShownAt
  <2>0. TypeOK /\ PlanOwned
    BY DEF IInv
  <2>1. ASSUME NEW t \in Target, NEW c \in issued, NEW x \in Config, NewTarget(t, c, x)
        PROVE  Board!Next
    <3>1. c # None /\ c \in Cert /\ certId[t] = None /\ lastStatus[t] = "NULL" /\ t \notin drawn
      BY <2>0, <2>1, DeployAssumption DEF TypeOK, NewTarget
    <3>2. certId' = [certId EXCEPT ![t] = c] /\ drawn' = drawn \cup {t}
          /\ UNCHANGED <<lastStatus, lastSerial>>
      BY <2>1 DEF NewTarget
    <3>3. ShownAt(t)' = "never"
      BY <2>0, <3>1, <3>2 DEF ShownAt, Shown, TypeOK
    <3>4. ShownMap' = [ShownMap EXCEPT ![t] = "never"]
      BY <2>0, <3>1, <3>2, <3>3, BoardOne DEF TypeOK
    <3>5. ShownMap[t] = "unused"
      BY <3>1 DEF ShownMap, ShownAt
    <3>6. Board!Add
      BY <3>1, <3>2, <3>4, <3>5 DEF Board!Add, ShownMap, ShownAt
    <3> QED
      BY <3>6 DEF Board!Next
  <2>2. ASSUME NEW t \in Target, Delete(t) PROVE Board!Next
    <3>1. certId[t] # None /\ certId' = [certId EXCEPT ![t] = None] /\ drawn' = drawn
          /\ t \in drawn
          /\ \A u \in Target \ {t} : UNCHANGED <<lastStatus[u], lastSerial[u]>>
      BY <2>0, <2>2 DEF Delete, TypeOK
    <3>2. ShownAt(t)' = "deleted"
      BY <2>0, <3>1 DEF ShownAt, TypeOK
    <3>3. ShownMap' = [ShownMap EXCEPT ![t] = "deleted"]
      BY <2>0, <3>1, <3>2, BoardOne DEF TypeOK
    <3>4. Board!Remove
      BY <3>1, <3>3 DEF Board!Remove, ShownMap, ShownAt
    <3> QED
      BY <3>4 DEF Board!Next
  <2>3. ASSUME NEW r \in Req, Record(r) PROVE Board!Next
    <3>0. PICK t \in Target, s \in {"ok", "failed"} :
            t = cur[r] /\ s = IF pc[r] = "post" THEN "ok" ELSE "failed"
      BY <2>0, <2>3 DEF TypeOK, Record, Planned
    <3>1. certId[t] # None /\ certId[t] = cert[r]
      BY <2>0, <2>3, <3>0 DEF TypeOK, PlanOwned, Record, Planned
    <3>2. /\ UNCHANGED <<certId, drawn>>
          /\ lastStatus' = [lastStatus EXCEPT ![t] = s]
          /\ lastSerial' = [lastSerial EXCEPT ![t] = cert[r]]
      BY <2>3, <3>0 DEF Record
    <3>3. /\ lastStatus'[t] = s /\ lastSerial'[t] = certId'[t] /\ certId'[t] # None
          /\ \A u \in Target \ {t} :
               UNCHANGED <<certId[u], lastStatus[u], lastSerial[u]>>
      BY <2>0, <3>1, <3>2 DEF TypeOK
    <3>4. ShownAt(t)' = s
      BY <3>3 DEF ShownAt, Shown
    <3>5. ShownMap' = [ShownMap EXCEPT ![t] = s]
      BY <2>0, <3>1, <3>2, <3>3, <3>4, BoardOne
    <3>6. Board!Report
      BY <3>1, <3>2, <3>5 DEF Board!Report, ShownMap, ShownAt
    <3> QED
      BY <3>6 DEF Board!Next
  <2>4. ASSUME NEW r \in Req, NEW c \in Cert, NEW d \in Cert, Rotate(r, c, d)
        PROVE  Board!Next
    BY <2>0, <2>4, BoardRotate DEF Board!Next
  <2>5. CASE UNCHANGED rows
    BY <2>5, BoardQuiet
  <2>6. ASSUME NEW t \in Target, NEW x \in Config, Edit(t, x)
        PROVE  UNCHANGED <<certId, ShownMap>>
    BY <2>6 DEF Edit, ShownMap, ShownAt, Shown
  <2>7. \/ UNCHANGED rows
        \/ \E t \in Target, c \in issued, x \in Config : NewTarget(t, c, x)
        \/ \E t \in Target, x \in Config : Edit(t, x)
        \/ \E t \in Target : Delete(t)
        \/ \E r \in Req, c, d \in Cert : Rotate(r, c, d)
        \/ \E r \in Req : Record(r)
    BY DEF Next, Operator, Begin, Step, Issue, RunOne, RunAll, RunAuto, Start, NoAuto,
       Pick, Write, FailRun, RecordFails, Restart, vars, rows
  <2> QED
    BY <2>1, <2>2, <2>3, <2>4, <2>5, <2>6, <2>7
<1> QED
  BY <1>1, <1>2, InvAlways, PTL DEF Spec, BoardSpec, Board!Spec
=============================================================================
