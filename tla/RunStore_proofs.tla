--------------------------- MODULE RunStore_proofs ---------------------------
(***************************************************************************)
(* RunStore for any deploys, plan, target, retention policies and bounds.   *)
(* IInv says which record a run directory holds, what gc has chosen and     *)
(* spared, and what the target still holds of an object that one deploy     *)
(* has written.                                                             *)
(***************************************************************************)
EXTENDS RunStore, SequenceTheorems, FiniteSetTheorems, WellFoundedInduction, TLAPS

(* Types. *)
StepRecord == [object : Objects, rc : {-1, 0, 1}, converged : BOOLEAN]
RunJson == [state : {"none", "torn", "whole"}, by : Deployers \union {"nobody"}, rc : {-1, 0, 1},
            steps : Seq(StepRecord)]
RunDir == [there : BOOLEAN, mtime : Times, json : RunJson]
DeployRun == [phase : {"new", "steps", "record", "ended", "killed"}, id : Ids,
              steps : Seq(StepRecord), rc : {-1, 0, 1}]
GcRun == [phase : {"idle", "removing"}, policy : [keep : Int, age : Int], doomed : SUBSET Ids,
          chosen : SUBSET Ids, ages : UNION {[S -> Times] : S \in SUBSET Ids}]
RollbackRun == [phase : {"idle", "restoring"}, id : Ids, source : RunJson, todo : SUBSET Nat,
                rc : {0, 1}, runs : Nat]

TypeOK ==
  /\ now \in Times
  /\ dirs \in [Ids -> RunDir]
  /\ live \in [Objects -> Version]
  /\ slot \in [Objects -> Version]
  /\ deploy \in [Deployers -> DeployRun]
  /\ gc \in GcRun
  /\ rollback \in RollbackRun
  /\ before \in [Deployers -> [Objects -> Version \union {"kept"}]]

(* A deploy's steps are those of the plan, in order, and its code tells of  *)
(* a failed one, unless a fleet has lost the steps with the directory.      *)
Tells(p) == deploy[p].rc = 0 <=> \A k \in DOMAIN deploy[p].steps : deploy[p].steps[k].rc = 0
Lost(p) == p \in ByFleet /\ <<p, "running">> \in pruned /\ deploy[p].rc # 0
Tally(p) ==
  /\ Len(deploy[p].steps) <= Len(Steps)
  /\ \A k \in DOMAIN deploy[p].steps : deploy[p].steps[k].object = Steps[k]
  /\ deploy[p].phase = "new" => deploy[p].steps = <<>>
  /\ deploy[p].phase \in {"new", "steps"} => Tells(p)
  /\ deploy[p].phase \in {"record", "ended"} =>
       (Len(deploy[p].steps) = Len(Steps) /\ Tells(p)) \/ Lost(p)
Tallied == \A p \in Deployers : Tally(p)

(* A running deploy is without its directory only if gc has removed it.     *)
Homed ==
  \A p \in Deployers : Running(p) /\ ~dirs[deploy[p].id].there => <<p, "running">> \in pruned

(* A record that parses is the one its deploy has written.                  *)
WrittenBy(json) ==
  /\ json.by \in Deployers /\ deploy[json.by].phase = "ended"
  /\ json.steps = deploy[json.by].steps /\ json.rc = deploy[json.by].rc
Recorded ==
  /\ \A i \in Ids : /\ dirs[i].json.state = "whole" => WrittenBy(dirs[i].json)
                    /\ dirs[i].json.state = "torn" => dirs[i].json = Torn
  /\ rollback.runs > 0 => WrittenBy(rollback.source)
  /\ rollback.phase = "restoring" => rollback.runs > 0

Kept ==
  \A p \in Deployers : deploy[p].phase = "ended" /\ ~Shares(p) /\ <<p, "over">> \notin pruned =>
    dirs[deploy[p].id].json = Json(p, deploy[p].rc, deploy[p].steps)

(* What the target holds of an object that only one deploy has written      *)
(* since it had its turn at it.                                             *)
HeldAt(p, k) ==
  LET s == deploy[p].steps[k]
      o == s.object
  IN <<p, o>> \notin stale /\ s.rc = 0 =>
       /\ s.converged => live[o] = VersionOf[p]
       /\ ~s.converged /\ before[p][o] # Missing =>
            slot[o] = before[p][o] /\ live[o] \in {VersionOf[p], before[p][o]}
Held == \A p \in Deployers : \A k \in DOMAIN deploy[p].steps : HeldAt(p, k)

(* What a rollback has restored, when nothing failed. *)
Undone ==
  /\ rollback.todo \subseteq Restores(rollback.source)
  /\ rollback.phase = "idle" => rollback.todo = {}
  /\ rollback.runs > 0 /\ rollback.rc = 0 =>
       \A k \in Restores(rollback.source) \ rollback.todo :
         LET p == rollback.source.by
             o == rollback.source.steps[k].object
         IN <<p, o>> \notin stale /\ before[p][o] # Missing => live[o] = before[p][o]

(* What gc removes was there when it looked, and GcSparesNewest. *)
Chosen ==
  gc.phase = "removing" =>
    gc.doomed \subseteq gc.chosen /\ gc.chosen \subseteq DOMAIN gc.ages

IInv == /\ TypeOK /\ Tallied /\ Homed /\ Recorded /\ Kept /\ Held /\ Undone /\ Chosen
        /\ GcSparesNewest

-----------------------------------------------------------------------------
(* The constants. *)
LEMMA Constants ==
  /\ Steps \in Seq(Objects) /\ Len(Steps) \in Nat /\ DOMAIN Steps = 1 .. Len(Steps)
  /\ \A k \in 1 .. Len(Steps) : Steps[k] \in Objects
  /\ \A j, k \in 1 .. Len(Steps) : Steps[j] = Steps[k] => j = k
  /\ \A p \in Deployers, t \in Times : Id(p, t) \in Ids /\ Id(p, t)[2] = "deploy"
  /\ \A t \in Times : <<t, "rollback">> \in Ids
  /\ \A p \in Deployers : VersionOf[p] \in Version /\ VersionOf[p] # Missing
<1>1. Steps \in Seq(Objects) /\ IsInjective(Steps)
  BY StepsAssumption
<1>2. Len(Steps) \in Nat /\ DOMAIN Steps = 1 .. Len(Steps)
  BY <1>1
<1>3. \A k \in 1 .. Len(Steps) : Steps[k] \in Objects
  BY <1>1
<1>4. \A j, k \in 1 .. Len(Steps) : Steps[j] = Steps[k] => j = k
  BY <1>1, <1>2 DEF IsInjective
<1>5. \A p \in Deployers, t \in Times : Id(p, t) \in Ids /\ Id(p, t)[2] = "deploy"
  BY DEF Id, Ids
<1>6. \A t \in Times : <<t, "rollback">> \in Ids
  BY DEF Ids
<1>7. \A p \in Deployers : VersionOf[p] \in Version /\ VersionOf[p] # Missing
  BY VersionsAssumption DEF Version
<1>8. QED
  BY <1>1, <1>2, <1>3, <1>4, <1>5, <1>6, <1>7

(* A deploy's run record, and the directory it works in.                    *)
LEMMA Runs ==
  ASSUME TypeOK, NEW p \in Deployers
  PROVE  /\ deploy[p] \in DeployRun /\ deploy[p].id \in Ids /\ deploy[p].steps \in Seq(StepRecord)
         /\ deploy[p].rc \in {-1, 0, 1}
         /\ deploy[p].phase \in {"new", "steps", "record", "ended", "killed"}
         /\ dirs[deploy[p].id] \in RunDir
         /\ Len(deploy[p].steps) \in Nat /\ DOMAIN deploy[p].steps = 1 .. Len(deploy[p].steps)
<1>1. deploy[p] \in DeployRun
  BY DEF TypeOK
<1>2. deploy[p].id \in Ids /\ deploy[p].steps \in Seq(StepRecord) /\ deploy[p].rc \in {-1, 0, 1}
      /\ deploy[p].phase \in {"new", "steps", "record", "ended", "killed"}
  BY <1>1 DEF DeployRun
<1>3. QED
  BY <1>1, <1>2 DEF TypeOK

(* A run directory that is made or written to keeps its run.json.           *)
LEMMA Touching ==
  ASSUME TypeOK, NEW i \in Ids
  PROVE  /\ Touched(i) \in RunDir /\ Touched(i).there /\ Touched(i).json = dirs[i].json
         /\ dirs[i] \in RunDir
<1>1. dirs[i] \in RunDir /\ now \in Times
  BY DEF TypeOK
<1>2. QED
  BY <1>1 DEF Touched, RunDir

(* What one step adds to the record of its deploy.                          *)
LEMMA OneMoreStep ==
  ASSUME TypeOK, NEW p \in Deployers, Len(deploy[p].steps) < Len(Steps),
         NEW code \in {-1, 0, 1}, NEW converged \in BOOLEAN,
         Done(p, Steps[Len(deploy[p].steps) + 1], code, converged)
  PROVE  LET n == Len(deploy[p].steps) + 1
         IN  /\ deploy' \in [Deployers -> DeployRun] /\ n \in Nat /\ n \in 1 .. Len(Steps)
             /\ \A q \in Deployers : q # p => deploy'[q] = deploy[q]
             /\ deploy'[p].phase = deploy[p].phase /\ deploy'[p].id = deploy[p].id
             /\ deploy'[p].rc = IF code = 0 THEN deploy[p].rc ELSE code
             /\ Len(deploy'[p].steps) = n
             /\ DOMAIN deploy[p].steps = 1 .. n - 1 /\ DOMAIN deploy'[p].steps = 1 .. n
             /\ \A k \in DOMAIN deploy[p].steps : deploy'[p].steps[k] = deploy[p].steps[k]
             /\ deploy'[p].steps[n] = [object |-> Steps[n], rc |-> code, converged |-> converged]
<1> DEFINE n == Len(deploy[p].steps) + 1
           r == [object |-> Steps[n], rc |-> code, converged |-> converged]
           done == Append(deploy[p].steps, r)
           code2 == IF code = 0 THEN deploy[p].rc ELSE code
<1>1. deploy[p].steps \in Seq(StepRecord) /\ n \in Nat /\ n \in 1 .. Len(Steps)
      /\ deploy[p].rc \in {-1, 0, 1} /\ deploy[p] \in DeployRun
      /\ DOMAIN deploy[p].steps = 1 .. n - 1
  BY Runs, Constants
<1>2. r \in StepRecord
  BY <1>1, Constants DEF StepRecord
<1>3. deploy' = [deploy EXCEPT ![p].steps = done, ![p].rc = code2]
  BY DEF Done, TypeOK
<1> HIDE DEF r, n
<1>4. /\ done \in Seq(StepRecord) /\ Len(done) = n /\ DOMAIN done = 1 .. n
      /\ \A k \in DOMAIN deploy[p].steps : done[k] = deploy[p].steps[k]
      /\ done[n] = r
  BY <1>1, <1>2, AppendProperties DEF n
<1>5. code2 \in {-1, 0, 1}
  BY <1>1
<1> HIDE DEF done, code2
<1>6. /\ deploy'[p].steps = done /\ deploy'[p].rc = code2
      /\ deploy'[p].phase = deploy[p].phase /\ deploy'[p].id = deploy[p].id
      /\ \A q \in Deployers : q # p => deploy'[q] = deploy[q]
  BY <1>1, <1>3 DEF TypeOK, DeployRun
<1>7. deploy' \in [Deployers -> DeployRun]
  BY <1>1, <1>3, <1>4, <1>5 DEF TypeOK, DeployRun
<1>8. QED
  BY <1>1, <1>4, <1>6, <1>7 DEF n, r, code2

(* A deploy goes on to its next phase. *)
LEMMA NextPhase ==
  ASSUME TypeOK, NEW p \in Deployers, NEW phase \in {"steps", "record", "ended", "killed"},
         deploy' = [deploy EXCEPT ![p].phase = phase]
  PROVE  /\ deploy' \in [Deployers -> DeployRun]
         /\ \A q \in Deployers : q # p => deploy'[q] = deploy[q]
         /\ deploy'[p].phase = phase /\ deploy'[p].id = deploy[p].id
         /\ deploy'[p].steps = deploy[p].steps /\ deploy'[p].rc = deploy[p].rc
<1>1. deploy[p] \in DeployRun
  BY Runs
<1>2. [deploy[p] EXCEPT !.phase = phase] \in DeployRun
  BY <1>1 DEF DeployRun
<1>3. deploy'[p] = [deploy[p] EXCEPT !.phase = phase]
  BY DEF TypeOK
<1>4. \A q \in Deployers : q # p => deploy'[q] = deploy[q]
  BY DEF TypeOK
<1>5. deploy' \in [Deployers -> DeployRun]
  BY <1>2 DEF TypeOK
<1>6. QED
  BY <1>1, <1>3, <1>4, <1>5 DEF DeployRun

(* A deploy takes its name. *)
LEMMA Opened ==
  ASSUME TypeOK, NEW p \in Deployers, Open(p)
  PROVE  /\ deploy' \in [Deployers -> DeployRun] /\ Id(p, now) \in Ids
         /\ \A q \in Deployers : q # p => deploy'[q] = deploy[q]
         /\ deploy[p].phase = "new" /\ deploy'[p].phase = "steps" /\ deploy'[p].id = Id(p, now)
         /\ deploy'[p].steps = deploy[p].steps /\ deploy'[p].rc = deploy[p].rc
         /\ dirs' = [dirs EXCEPT ![Id(p, now)] = Touched(Id(p, now))]
<1> DEFINE i == Id(p, now)
<1>1. deploy[p] \in DeployRun /\ i \in Ids
  BY Runs, Constants DEF TypeOK
<1>2. deploy' = [deploy EXCEPT ![p].phase = "steps", ![p].id = i]
      /\ dirs' = [dirs EXCEPT ![i] = Touched(i)] /\ deploy[p].phase = "new"
  BY DEF Open
<1> HIDE DEF i
<1>3. deploy'[p] = [deploy[p] EXCEPT !.phase = "steps", !.id = i]
  BY <1>2 DEF TypeOK
<1>4. [deploy[p] EXCEPT !.phase = "steps", !.id = i] \in DeployRun
  BY <1>1 DEF DeployRun
<1>5. \A q \in Deployers : q # p => deploy'[q] = deploy[q]
  BY <1>2 DEF TypeOK
<1>6. deploy' \in [Deployers -> DeployRun]
  BY <1>2, <1>4 DEF TypeOK
<1>7. /\ deploy'[p].phase = "steps" /\ deploy'[p].id = i
      /\ deploy'[p].steps = deploy[p].steps /\ deploy'[p].rc = deploy[p].rc
  BY <1>1, <1>3 DEF DeployRun
<1>8. QED
  BY <1>1, <1>2, <1>5, <1>6, <1>7 DEF i

(* A fleet that finds no directory for the host's log loses the steps.      *)
LEMMA StepsLost ==
  ASSUME TypeOK, NEW p \in Deployers,
         deploy' = [deploy EXCEPT ![p].phase = "record", ![p].steps = <<>>, ![p].rc = 1]
  PROVE  /\ deploy' \in [Deployers -> DeployRun]
         /\ \A q \in Deployers : q # p => deploy'[q] = deploy[q]
         /\ deploy'[p].phase = "record" /\ deploy'[p].id = deploy[p].id
         /\ deploy'[p].steps = <<>> /\ deploy'[p].rc = 1
<1>1. deploy[p] \in DeployRun
  BY Runs
<1>2. <<>> \in Seq(StepRecord)
  BY EmptySeq
<1>3. [deploy[p] EXCEPT !.phase = "record", !.steps = <<>>, !.rc = 1] \in DeployRun
  BY <1>1, <1>2 DEF DeployRun
<1>4. deploy'[p] = [deploy[p] EXCEPT !.phase = "record", !.steps = <<>>, !.rc = 1]
  BY DEF TypeOK
<1>5. \A q \in Deployers : q # p => deploy'[q] = deploy[q]
  BY DEF TypeOK
<1>6. deploy' \in [Deployers -> DeployRun]
  BY <1>3 DEF TypeOK
<1>7. QED
  BY <1>1, <1>4, <1>5, <1>6 DEF DeployRun

(* What a deploy has begun is its own: other steps leave its name and, once *)
(* it has ended, its record as they are; and gc forgets no removal.         *)
LEMMA Moves ==
  ASSUME TypeOK, [Next]_vars
  PROVE  /\ \A p \in Deployers : deploy[p].phase # "new" =>
              deploy'[p].phase # "new" /\ deploy'[p].id = deploy[p].id
         /\ \A p \in Deployers : deploy[p].phase \in {"ended", "killed"} => deploy'[p] = deploy[p]
         /\ pruned \subseteq pruned'
<1>0. \A p \in Deployers : deploy[p] \in DeployRun
  BY Runs
<1>1. CASE UNCHANGED <<deploy, pruned>>
  BY <1>1
<1>2. ASSUME NEW p \in Deployers, Open(p) \/ Push(p) \/ HostLog(p) \/ Record(p) \/ Kill(p)
      PROVE  /\ \A q \in Deployers : deploy[q].phase # "new" =>
                  deploy'[q].phase # "new" /\ deploy'[q].id = deploy[q].id
             /\ \A q \in Deployers : deploy[q].phase \in {"ended", "killed"} => deploy'[q] = deploy[q]
             /\ pruned \subseteq pruned'
  <2>1. \A q \in Deployers : q # p => deploy'[q] = deploy[q]
    <3>1. CASE Open(p)
      BY <3>1, Opened
    <3>2. CASE Push(p)
      BY <3>2 DEF Push, Done, TypeOK
    <3>3. CASE HostLog(p)
      BY <3>3, NextPhase, StepsLost DEF HostLog
    <3>4. CASE Record(p) \/ Kill(p)
      BY <3>4, NextPhase DEF Record, Kill
    <3>5. QED
      BY <1>2, <3>1, <3>2, <3>3, <3>4
  <2>2. deploy[p].phase \notin {"ended", "killed"} /\ pruned' = pruned
    BY <1>2 DEF Open, Push, HostLog, Record, Recording, Kill
  <2>3. deploy[p].phase # "new" => deploy'[p].phase # "new" /\ deploy'[p].id = deploy[p].id
    <3>1. CASE Open(p)
      BY <3>1 DEF Open
    <3>2. CASE Push(p)
      <4>1. /\ Len(deploy[p].steps) < Len(Steps)
            /\ \E code \in {-1, 0, 1}, converged \in BOOLEAN :
                 Done(p, Steps[Len(deploy[p].steps) + 1], code, converged)
        BY <3>2 DEF Push
      <4>2. QED
        BY <4>1, OneMoreStep
    <3>3. CASE HostLog(p)
      BY <3>3, NextPhase, StepsLost DEF HostLog
    <3>4. CASE Record(p) \/ Kill(p)
      BY <3>4, NextPhase DEF Record, Kill
    <3>5. QED
      BY <1>2, <3>1, <3>2, <3>3, <3>4
  <2>4. QED
    BY <2>1, <2>2, <2>3
<1>4. CASE RemoveDir
  BY <1>4 DEF RemoveDir
<1>5. CASE Tick \/ Gc \/ GcEnds \/ Rollback \/ Restore \/ RollbackEnds \/ UNCHANGED vars
  BY <1>1, <1>5 DEF Tick, Gc, GcEnds, Rollback, Restore, RollbackEnds, vars
<1>6. QED
  BY <1>2, <1>4, <1>5 DEF Next

(* The variables keep their types. *)
LEMMA TypeStep ==
  ASSUME TypeOK, [Next]_vars
  PROVE  TypeOK'
<1>1. CASE Tick
  BY <1>1, BoundsAssumption DEF TypeOK, Tick, target, Times
<1>2. ASSUME NEW p \in Deployers, Open(p) PROVE TypeOK'
  <2>1. dirs' \in [Ids -> RunDir] /\ deploy' \in [Deployers -> DeployRun]
    BY <1>2, Opened, Touching DEF TypeOK
  <2>2. QED
    BY <1>2, <2>1 DEF Open, TypeOK, target
<1>3. ASSUME NEW p \in Deployers, Push(p) PROVE TypeOK'
  <2> DEFINE o == Steps[Len(deploy[p].steps) + 1]
  <2>1. \E code \in {-1, 0, 1}, converged \in BOOLEAN : Done(p, o, code, converged)
    BY <1>3 DEF Push
  <2>2. deploy' \in [Deployers -> DeployRun] /\ o \in Objects
    <3>1. Len(deploy[p].steps) < Len(Steps)
      BY <1>3 DEF Push
    <3>2. QED
      BY <2>1, <3>1, OneMoreStep, Constants
  <2>3. \/ /\ slot' = IF live[o] = Missing THEN slot ELSE [slot EXCEPT ![o] = live[o]]
           /\ live' = [live EXCEPT ![o] = VersionOf[p]]
           /\ before' = [before EXCEPT ![p][o] = live[o]]
        \/ UNCHANGED <<live, slot, before>>
    BY <1>3 DEF Push, target
  <2> HIDE DEF o
  <2>4. VersionOf[p] \in Version /\ live[o] \in Version
    BY <2>2, Constants DEF TypeOK
  <2>5. live' \in [Objects -> Version] /\ slot' \in [Objects -> Version]
    BY <2>2, <2>3, <2>4 DEF TypeOK
  <2>6. before' \in [Deployers -> [Objects -> Version \union {"kept"}]]
    BY <2>2, <2>3, <2>4 DEF TypeOK
  <2>7. QED
    BY <1>3, <2>2, <2>5, <2>6 DEF Push, TypeOK
<1>4. ASSUME NEW p \in Deployers, HostLog(p) PROVE TypeOK'
  <2>1. <<>> \in Seq(StepRecord) /\ deploy[p].id \in Ids
    BY Runs
  <2>2. deploy' \in [Deployers -> DeployRun]
    BY <1>4, NextPhase, StepsLost DEF HostLog
  <2>3. dirs' \in [Ids -> RunDir]
    BY <1>4, <2>1, Touching DEF HostLog, TypeOK
  <2>4. QED
    BY <1>4, <2>2, <2>3 DEF HostLog, TypeOK, target
<1>5. ASSUME NEW p \in Deployers, Record(p) PROVE TypeOK'
  <2>1. deploy[p].id \in Ids /\ deploy[p].rc \in {-1, 0, 1} /\ deploy[p].steps \in Seq(StepRecord)
    BY Runs
  <2>2. deploy' \in [Deployers -> DeployRun]
    BY <1>5, NextPhase DEF Record
  <2>3. Json(p, deploy[p].rc, deploy[p].steps) \in RunJson
    BY <2>1 DEF Json, RunJson
  <2>4. Written(p) \in RunDir
    BY <2>1, <2>3, Touching DEF Written, RunDir
  <2>5. dirs' \in [Ids -> RunDir]
    BY <1>5, <2>1, <2>4 DEF Record, TypeOK
  <2>6. QED
    BY <1>5, <2>2, <2>5 DEF Record, TypeOK, target
<1>6. ASSUME NEW p \in Deployers, Kill(p) PROVE TypeOK'
  <2>1. deploy[p].id \in Ids
    BY Runs
  <2>2. deploy' \in [Deployers -> DeployRun]
    BY <1>6, NextPhase DEF Kill
  <2>3. Torn \in RunJson
    <3>1. <<>> \in Seq(StepRecord)
      BY EmptySeq
    <3>2. QED
      BY <3>1 DEF Torn, NoJson, RunJson
  <2>4. [Touched(deploy[p].id) EXCEPT !.json = Torn] \in RunDir
    BY <2>1, <2>3, Touching DEF RunDir
  <2>5. dirs' \in [Ids -> RunDir]
    BY <1>6, <2>1, <2>4 DEF Kill, TypeOK
  <2>6. QED
    BY <1>6, <2>2, <2>5 DEF Kill, TypeOK, target
<1>7. CASE Gc
  <2>1. PICK q \in Policies, order \in Orders([i \in Present |-> dirs[i].mtime]) :
          gc' = [phase |-> "removing", policy |-> q,
                 doomed |-> Doomed([i \in Present |-> dirs[i].mtime], q, order),
                 chosen |-> Doomed([i \in Present |-> dirs[i].mtime], q, order),
                 ages |-> [i \in Present |-> dirs[i].mtime]]
    BY <1>7 DEF Gc
  <2> DEFINE ages == [i \in Present |-> dirs[i].mtime]
  <2>2. ages \in [Present -> Times] /\ Present \subseteq Ids
    BY DEF TypeOK, Present, RunDir
  <2>3. q \in [keep : Int, age : Int]
    BY PoliciesAssumption DEF None
  <2>4. Doomed(ages, q, order) \subseteq Ids
    BY <2>2 DEF Doomed
  <2>5. ages \in UNION {[S -> Times] : S \in SUBSET Ids}
    BY <2>2
  <2> HIDE DEF ages
  <2>6. gc' \in GcRun
    BY <2>1, <2>3, <2>4, <2>5 DEF GcRun, ages
  <2>7. QED
    BY <1>7, <2>6 DEF Gc, TypeOK, target, store
<1>8. CASE RemoveDir
  <2>1. PICK i \in gc.doomed : gc' = [gc EXCEPT !.doomed = @ \ {i}] /\ dirs' = [dirs EXCEPT ![i] = NoDir]
    BY <1>8 DEF RemoveDir
  <2>2. gc' \in GcRun
    BY <2>1 DEF TypeOK, GcRun
  <2>3. NoDir \in RunDir
    <3>1. <<>> \in Seq(StepRecord) /\ 0 \in Times
      BY EmptySeq, BoundsAssumption DEF Times
    <3>2. NoJson \in RunJson
      BY <3>1 DEF NoJson, RunJson
    <3>3. QED
      BY <3>1, <3>2 DEF NoDir, RunDir
  <2>4. dirs' \in [Ids -> RunDir]
    BY <2>1, <2>3 DEF TypeOK, GcRun
  <2>5. QED
    BY <1>8, <2>2, <2>4 DEF RemoveDir, TypeOK, target
<1>9. CASE GcEnds
  <2>1. Idle \in GcRun
    <3>1. <<>> \in [{} -> Times]
      OBVIOUS
    <3>2. <<>> \in UNION {[S -> Times] : S \in SUBSET Ids}
      BY <3>1
    <3> DEFINE none == <<>>
    <3>3. none \in UNION {[S -> Times] : S \in SUBSET Ids}
      BY <3>2
    <3> HIDE DEF none
    <3>4. [phase |-> "idle", policy |-> [keep |-> -1, age |-> -1], doomed |-> {}, chosen |-> {},
           ages |-> none] \in GcRun
      BY <3>3 DEF GcRun
    <3>5. QED
      BY <3>4 DEF Idle, None, none
  <2>2. QED
    BY <1>9, <2>1 DEF GcEnds, TypeOK, target, store
<1>10. CASE Rollback
  <2>1. PICK i \in Ids :
          /\ rollback' = [phase |-> "restoring", id |-> <<now, "rollback">>, source |-> dirs[i].json,
                          todo |-> Restores(dirs[i].json), rc |-> 0, runs |-> rollback.runs + 1]
          /\ dirs' = [dirs EXCEPT ![<<now, "rollback">>] = Touched(<<now, "rollback">>)]
    <3>1. PICK arg \in {{j} : j \in Ids} \union {Ids} : \E i \in Found(arg) :
            /\ rollback' = [phase |-> "restoring", id |-> <<now, "rollback">>, source |-> dirs[i].json,
                            todo |-> Restores(dirs[i].json), rc |-> 0, runs |-> rollback.runs + 1]
            /\ dirs' = [dirs EXCEPT ![<<now, "rollback">>] = Touched(<<now, "rollback">>)]
      BY <1>10 DEF Rollback
    <3>2. Found(arg) \subseteq Ids
      BY DEF Found, HasJson
    <3>3. QED
      BY <3>1, <3>2
  <2>2. <<now, "rollback">> \in Ids /\ dirs[i].json \in RunJson
    BY Constants DEF TypeOK, RunDir
  <2>3. Restores(dirs[i].json) \subseteq Nat
    BY <2>2 DEF Restores, RunJson
  <2>4. rollback' \in RollbackRun
    BY <2>1, <2>2, <2>3 DEF TypeOK, RollbackRun
  <2>5. dirs' \in [Ids -> RunDir]
    BY <2>1, <2>2, Touching DEF TypeOK
  <2>6. QED
    BY <1>10, <2>4, <2>5 DEF Rollback, TypeOK, target
<1>11. CASE Restore
  <2>1. PICK k \in rollback.todo :
          /\ \/ rollback' = [rollback EXCEPT !.todo = @ \ {k}]
             \/ rollback' = [rollback EXCEPT !.todo = @ \ {k}, !.rc = 1]
          /\ \/ \E o : live' = [live EXCEPT ![o] = slot[o]] /\ o = rollback.source.steps[k].object
             \/ live' = live
    BY <1>11 DEF Restore
  <2>2. rollback' \in RollbackRun
    BY <2>1 DEF TypeOK, RollbackRun
  <2>3. live' \in [Objects -> Version]
    BY <2>1 DEF TypeOK
  <2>4. QED
    BY <1>11, <2>2, <2>3 DEF Restore, TypeOK
<1>12. CASE RollbackEnds
  <2>1. rollback.id \in Ids
    BY DEF TypeOK, RollbackRun
  <2>2. rollback' \in RollbackRun
    BY <1>12 DEF RollbackEnds, TypeOK, RollbackRun
  <2>3. dirs' \in [Ids -> RunDir]
    BY <1>12, <2>1, Touching DEF RollbackEnds, TypeOK
  <2>4. QED
    BY <1>12, <2>2, <2>3 DEF RollbackEnds, TypeOK, target
<1>13. CASE UNCHANGED vars
  BY <1>13 DEF vars, target, store, TypeOK
<1>14. QED
  BY <1>1, <1>2, <1>3, <1>4, <1>5, <1>6, <1>7, <1>8, <1>9, <1>10, <1>11, <1>12, <1>13 DEF Next

(* A deploy runs because it did or has opened its directory, and it ends by *)
(* writing run.json; a step is another deploy's or its own.                 *)
LEMMA Ends ==
  ASSUME TypeOK, [Next]_vars, NEW p \in Deployers
  PROVE  /\ deploy'[p].phase = "ended" => deploy[p].phase = "ended" \/ Record(p)
         /\ Running(p)' => Running(p) \/ Open(p)
         /\ deploy'[p] = deploy[p] \/ Open(p) \/ Push(p) \/ HostLog(p) \/ Record(p) \/ Kill(p)
<1>1. ASSUME NEW q \in Deployers, q # p, Open(q) \/ Push(q) \/ HostLog(q) \/ Record(q) \/ Kill(q)
      PROVE  deploy'[p] = deploy[p]
  <2>1. CASE Open(q)
    BY <1>1, <2>1, Opened
  <2>2. CASE Push(q)
    BY <1>1, <2>2 DEF Push, Done, TypeOK
  <2>3. CASE HostLog(q)
    BY <1>1, <2>3, NextPhase, StepsLost DEF HostLog
  <2>4. CASE Record(q) \/ Kill(q)
    BY <1>1, <2>4, NextPhase DEF Record, Kill
  <2>5. QED
    BY <1>1, <2>1, <2>2, <2>3, <2>4
<1>2. deploy'[p] = deploy[p] \/ Open(p) \/ Push(p) \/ HostLog(p) \/ Record(p) \/ Kill(p)
  BY <1>1 DEF Next, Tick, Gc, RemoveDir, GcEnds, Rollback, Restore, RollbackEnds, vars
<1>3. Push(p) => deploy'[p].phase = deploy[p].phase /\ deploy[p].phase = "steps"
  <2> SUFFICES ASSUME Push(p) PROVE deploy'[p].phase = deploy[p].phase /\ deploy[p].phase = "steps"
    OBVIOUS
  <2>1. /\ Len(deploy[p].steps) < Len(Steps) /\ deploy[p].phase = "steps"
        /\ \E code \in {-1, 0, 1}, converged \in BOOLEAN :
             Done(p, Steps[Len(deploy[p].steps) + 1], code, converged)
    BY DEF Push
  <2>2. QED
    BY <2>1, OneMoreStep
<1>4. HostLog(p) => deploy'[p].phase = "record" /\ deploy[p].phase = "steps"
  BY NextPhase, StepsLost DEF HostLog
<1>5. /\ Record(p) => deploy'[p].phase = "ended"
      /\ Kill(p) => deploy'[p].phase = "killed"
      /\ Open(p) => deploy'[p].phase = "steps"
  BY NextPhase, Opened DEF Record, Kill
<1>6. deploy'[p].phase = "ended" => deploy[p].phase = "ended" \/ Record(p)
  BY <1>2, <1>3, <1>4, <1>5
<1>7. Running(p)' => Running(p) \/ Open(p)
  BY <1>2, <1>3, <1>4, <1>5 DEF Running
<1>8. QED
  BY <1>2, <1>6, <1>7

(* What a step does to one run directory: it keeps run.json, unless it is a *)
(* deploy's own record, a torn one, or a removal that pruned tells of.      *)
LEMMA Directories ==
  ASSUME TypeOK, [Next]_vars, NEW i \in Ids
  PROVE  \/ dirs'[i].json = dirs[i].json /\ (dirs[i].there => dirs'[i].there)
         \/ \E p \in Deployers : /\ Record(p) /\ i = deploy[p].id /\ dirs'[i].there
                                 /\ dirs'[i].json = Json(p, deploy[p].rc, deploy[p].steps)
         \/ \E p \in Deployers : /\ Kill(p) /\ i = deploy[p].id /\ dirs'[i].there
                                 /\ dirs'[i].json = Torn
         \/ /\ RemoveDir /\ i \in gc.doomed /\ dirs'[i] = NoDir
            /\ \A p \in Deployers : deploy[p].phase # "new" /\ deploy[p].id = i =>
                 <<p, IF Running(p) THEN "running" ELSE "over">> \in pruned'
<1> DEFINE Same == dirs'[i].json = dirs[i].json /\ (dirs[i].there => dirs'[i].there)
<1>1. ASSUME NEW j \in Ids, dirs' = [dirs EXCEPT ![j] = Touched(j)] PROVE Same
  BY <1>1, Touching DEF TypeOK
<1>2. ASSUME NEW p \in Deployers, Open(p) PROVE Same
  BY <1>1, <1>2, Opened
<1>3. ASSUME NEW p \in Deployers, HostLog(p) PROVE Same
  BY <1>1, <1>3, Runs DEF HostLog
<1>4. ASSUME NEW p \in Deployers, Record(p)
      PROVE  Same \/ (/\ i = deploy[p].id /\ dirs'[i].there
                      /\ dirs'[i].json = Json(p, deploy[p].rc, deploy[p].steps))
  <2>1. dirs' = [dirs EXCEPT ![deploy[p].id] = Written(p)] /\ deploy[p].id \in Ids
    BY <1>4, Runs DEF Record
  <2>2. Written(p).there /\ Written(p).json = Json(p, deploy[p].rc, deploy[p].steps)
    BY <2>1, Touching DEF Written, RunDir
  <2>3. QED
    BY <2>1, <2>2 DEF TypeOK
<1>5. ASSUME NEW p \in Deployers, Kill(p)
      PROVE  Same \/ (i = deploy[p].id /\ dirs'[i].there /\ dirs'[i].json = Torn)
  <2> DEFINE torn == [Touched(deploy[p].id) EXCEPT !.json = Torn]
  <2>1. deploy[p].id \in Ids /\ (dirs' = dirs \/ dirs' = [dirs EXCEPT ![deploy[p].id] = torn])
    BY <1>5, Runs DEF Kill
  <2>2. torn.there /\ torn.json = Torn
    BY <2>1, Touching DEF RunDir
  <2> HIDE DEF torn
  <2>3. QED
    BY <2>1, <2>2 DEF TypeOK
<1>6. CASE RemoveDir
  <2>1. PICK j \in gc.doomed :
          /\ dirs' = [dirs EXCEPT ![j] = NoDir]
          /\ pruned' = pruned \union
               {<<p, IF Running(p) THEN "running" ELSE "over">> :
                  p \in {q \in Deployers : deploy[q].phase # "new" /\ deploy[q].id = j}}
    BY <1>6 DEF RemoveDir
  <2>2. CASE i = j
    <3>1. dirs'[i] = NoDir
      BY <2>1, <2>2 DEF TypeOK
    <3>2. \A p \in Deployers : deploy[p].phase # "new" /\ deploy[p].id = i =>
            <<p, IF Running(p) THEN "running" ELSE "over">> \in pruned'
      BY <2>1, <2>2
    <3>3. QED
      BY <1>6, <2>1, <2>2, <3>1, <3>2
  <2>3. CASE i # j
    BY <2>1, <2>3 DEF TypeOK
  <2>4. QED
    BY <2>2, <2>3
<1>7. CASE Rollback
  <2>1. dirs' = [dirs EXCEPT ![<<now, "rollback">>] = Touched(<<now, "rollback">>)]
    BY <1>7 DEF Rollback
  <2>2. <<now, "rollback">> \in Ids
    BY Constants DEF TypeOK
  <2>3. QED
    BY <1>1, <2>1, <2>2
<1>8. CASE RollbackEnds
  <2>1. rollback.id \in Ids
    BY DEF TypeOK, RollbackRun
  <2>2. QED
    BY <1>1, <1>8, <2>1 DEF RollbackEnds
<1>9. ASSUME NEW p \in Deployers, Push(p) PROVE Same
  BY <1>9 DEF Push
<1>10. CASE Tick \/ Gc \/ GcEnds \/ Restore \/ UNCHANGED vars
  BY <1>10 DEF Tick, Gc, GcEnds, Restore, vars, store
<1>11. QED
  BY <1>2, <1>3, <1>4, <1>5, <1>6, <1>7, <1>8, <1>9, <1>10 DEF Next

-----------------------------------------------------------------------------
(* A deploy's steps and code stay what its directory tells, step by step.   *)
LEMMA TalliedStep ==
  ASSUME TypeOK, Tallied, Homed, [Next]_vars
  PROVE  Tallied'
<1>0. pruned \subseteq pruned'
  BY Moves
<1> SUFFICES ASSUME NEW p \in Deployers PROVE Tally(p)'
  BY DEF Tallied
<1>1. Tally(p) /\ Len(deploy[p].steps) \in Nat
  BY Runs DEF Tallied
<1>2. CASE deploy'[p] = deploy[p]
  BY <1>0, <1>1, <1>2 DEF Tally, Tells, Lost
<1>3. CASE Open(p)
  BY <1>1, <1>3, Opened DEF Tally, Tells
<1>4. CASE Push(p)
  <2>1. /\ Len(deploy[p].steps) < Len(Steps) /\ deploy[p].phase = "steps"
        /\ \E code \in {-1, 0, 1}, converged \in BOOLEAN :
             Done(p, Steps[Len(deploy[p].steps) + 1], code, converged)
    BY <1>4 DEF Push
  <2> DEFINE n == Len(deploy[p].steps) + 1
  <2>2. PICK code \in {-1, 0, 1}, converged \in BOOLEAN : Done(p, Steps[n], code, converged)
    BY <2>1
  <2> DEFINE r == [object |-> Steps[n], rc |-> code, converged |-> converged]
  <2>3. /\ n \in 1 .. Len(Steps)
        /\ deploy'[p].phase = "steps" /\ deploy'[p].rc = IF code = 0 THEN deploy[p].rc ELSE code
        /\ Len(deploy'[p].steps) = n
        /\ DOMAIN deploy[p].steps = 1 .. n - 1 /\ DOMAIN deploy'[p].steps = 1 .. n
        /\ \A k \in DOMAIN deploy[p].steps : deploy'[p].steps[k] = deploy[p].steps[k]
        /\ deploy'[p].steps[n] = r
    BY <2>1, <2>2, OneMoreStep
  <2>4. r.object = Steps[n] /\ r.rc = code
    OBVIOUS
  <2>5. n \in Int /\ DOMAIN deploy'[p].steps = DOMAIN deploy[p].steps \union {n}
    BY <2>3
  <2> HIDE DEF r, n
  <2>6. Tells(p)
    BY <1>1, <2>1 DEF Tally
  <2>7. Tells(p)'
    BY <2>3, <2>4, <2>5, <2>6 DEF Tells
  <2>8. \A k \in DOMAIN deploy'[p].steps : deploy'[p].steps[k].object = Steps[k]
    BY <1>1, <2>3, <2>4, <2>5 DEF Tally
  <2>9. Len(deploy'[p].steps) <= Len(Steps)
    BY <2>3
  <2>10. QED
    BY <2>3, <2>7, <2>8, <2>9 DEF Tally
<1>5. CASE HostLog(p)
  <2>1. deploy[p].phase = "steps" /\ Len(deploy[p].steps) = Len(Steps) /\ p \in ByFleet
    BY <1>5 DEF HostLog
  <2>2. CASE LogWritten(p)
    <3>1. /\ deploy'[p].phase = "record" /\ deploy'[p].steps = deploy[p].steps
          /\ deploy'[p].rc = deploy[p].rc
      BY <1>5, <2>2, NextPhase DEF HostLog
    <3>2. QED
      BY <1>1, <2>1, <3>1 DEF Tally, Tells
  <2>3. CASE ~LogWritten(p)
    <3>1. deploy'[p].phase = "record" /\ deploy'[p].steps = <<>> /\ deploy'[p].rc = 1
      BY <1>5, <2>3, StepsLost DEF HostLog
    <3>2. <<p, "running">> \in pruned
      BY <2>1, <2>3 DEF LogWritten, Homed, Running
    <3>3. Lost(p)'
      BY <1>0, <2>1, <3>1, <3>2 DEF Lost
    <3>4. Len(deploy'[p].steps) = 0 /\ DOMAIN deploy'[p].steps = {} /\ Len(Steps) \in Nat
      BY <3>1, Constants
    <3>5. QED
      BY <3>1, <3>3, <3>4 DEF Tally
  <2>4. QED
    BY <2>2, <2>3
<1>6. CASE Record(p)
  <2>1. /\ deploy'[p].phase = "ended" /\ deploy'[p].steps = deploy[p].steps
        /\ deploy'[p].rc = deploy[p].rc
    BY <1>6, NextPhase DEF Record
  <2>2. (Len(deploy[p].steps) = Len(Steps) /\ Tells(p)) \/ Lost(p)
    BY <1>1, <1>6 DEF Record, Recording, Tally
  <2>3. (Len(deploy'[p].steps) = Len(Steps) /\ Tells(p)') \/ Lost(p)'
    BY <1>0, <2>1, <2>2 DEF Tells, Lost
  <2>4. QED
    BY <1>1, <2>1, <2>3 DEF Tally
<1>7. CASE Kill(p)
  <2>1. deploy'[p].phase = "killed" /\ deploy'[p].steps = deploy[p].steps
    BY <1>7, NextPhase DEF Kill
  <2>2. QED
    BY <1>1, <2>1 DEF Tally
<1>8. QED
  BY <1>2, <1>3, <1>4, <1>5, <1>6, <1>7, Ends

(* Only gc takes a directory away, and pruned tells of it.                  *)
LEMMA HomedStep ==
  ASSUME TypeOK, Homed, [Next]_vars
  PROVE  Homed'
<1> SUFFICES ASSUME NEW p \in Deployers, Running(p)', ~dirs'[deploy'[p].id].there
             PROVE  <<p, "running">> \in pruned'
  BY DEF Homed
<1>1. pruned \subseteq pruned'
  BY Moves
<1>2. CASE Open(p)
  <2>1. deploy'[p].id = Id(p, now) /\ dirs'[Id(p, now)] = Touched(Id(p, now)) /\ Id(p, now) \in Ids
    BY <1>2, Opened DEF TypeOK
  <2>2. QED
    BY <2>1, Touching
<1>3. CASE ~Open(p)
  <2> DEFINE i == deploy[p].id
  <2>1. Running(p) /\ deploy'[p].id = i /\ i \in Ids /\ deploy[p].phase # "new"
    BY <1>3, Ends, Moves, Runs DEF Running
  <2>2. CASE dirs[i].there => dirs'[i].there
    BY <1>1, <2>1, <2>2 DEF Homed
  <2>3. CASE ~(dirs[i].there => dirs'[i].there)
    BY <2>1, <2>3, Directories
  <2>4. QED
    BY <2>2, <2>3
<1>4. QED
  BY <1>2, <1>3

(* A record once written is the record of an ended deploy for good.         *)
LEMMA StillWritten ==
  ASSUME TypeOK, [Next]_vars, NEW json, WrittenBy(json)
  PROVE  /\ json.by \in Deployers /\ deploy'[json.by].phase = "ended"
         /\ json.steps = deploy'[json.by].steps /\ json.rc = deploy'[json.by].rc
  BY Moves DEF WrittenBy

(* A whole run.json is that of an ended deploy, and a torn one says nothing. *)
LEMMA RecordedStep ==
  ASSUME TypeOK, Recorded, [Next]_vars
  PROVE  Recorded'
<1>1. ASSUME NEW i \in Ids
      PROVE  /\ dirs'[i].json.state = "whole" =>
                  /\ dirs'[i].json.by \in Deployers /\ deploy'[dirs'[i].json.by].phase = "ended"
                  /\ dirs'[i].json.steps = deploy'[dirs'[i].json.by].steps
                  /\ dirs'[i].json.rc = deploy'[dirs'[i].json.by].rc
             /\ dirs'[i].json.state = "torn" => dirs'[i].json = Torn
  <2>1. CASE dirs'[i].json = dirs[i].json
    <3>1. /\ dirs[i].json.state = "whole" => WrittenBy(dirs[i].json)
          /\ dirs[i].json.state = "torn" => dirs[i].json = Torn
      BY DEF Recorded
    <3>2. QED
      BY <2>1, <3>1, StillWritten
  <2>2. ASSUME NEW p \in Deployers, Record(p), dirs'[i].json = Json(p, deploy[p].rc, deploy[p].steps)
        PROVE  /\ dirs'[i].json.state = "whole" /\ dirs'[i].json.by = p
               /\ deploy'[p].phase = "ended" /\ deploy'[p].steps = dirs'[i].json.steps
               /\ deploy'[p].rc = dirs'[i].json.rc
    <3>1. /\ deploy'[p].phase = "ended" /\ deploy'[p].steps = deploy[p].steps
          /\ deploy'[p].rc = deploy[p].rc
      BY <2>2, NextPhase DEF Record
    <3>2. QED
      BY <2>2, <3>1 DEF Json
  <2>3. CASE dirs'[i].json = Torn
    BY <2>3 DEF Torn, NoJson
  <2>4. CASE dirs'[i] = NoDir
    BY <2>4 DEF NoDir, NoJson
  <2>5. QED
    BY <2>1, <2>2, <2>3, <2>4, Directories
<1>2. /\ rollback'.runs > 0 =>
           /\ rollback'.source.by \in Deployers /\ deploy'[rollback'.source.by].phase = "ended"
           /\ rollback'.source.steps = deploy'[rollback'.source.by].steps
           /\ rollback'.source.rc = deploy'[rollback'.source.by].rc
      /\ rollback'.phase = "restoring" => rollback'.runs > 0
  <2>0. rollback \in RollbackRun
    BY DEF TypeOK
  <2>1. CASE Rollback
    <3>1. PICK arg \in {{j} : j \in Ids} \union {Ids} : \E i \in Found(arg) :
            /\ dirs[i].json.state = "whole"
            /\ rollback' = [phase |-> "restoring", id |-> <<now, "rollback">>, source |-> dirs[i].json,
                            todo |-> Restores(dirs[i].json), rc |-> 0, runs |-> rollback.runs + 1]
      BY <2>1 DEF Rollback
    <3>2. Found(arg) \subseteq Ids
      BY DEF Found, HasJson
    <3>3. PICK i \in Ids :
            /\ dirs[i].json.state = "whole"
            /\ rollback' = [phase |-> "restoring", id |-> <<now, "rollback">>, source |-> dirs[i].json,
                            todo |-> Restores(dirs[i].json), rc |-> 0, runs |-> rollback.runs + 1]
      BY <3>1, <3>2
    <3>4. rollback'.source = dirs[i].json /\ rollback'.runs = rollback.runs + 1
      BY <3>3
    <3>5. WrittenBy(dirs[i].json)
      BY <3>3 DEF Recorded
    <3>6. rollback.runs \in Nat
      BY <2>0 DEF RollbackRun
    <3>7. rollback'.runs > 0
      BY <3>4, <3>6
    <3>8. QED
      BY <3>4, <3>5, <3>7, StillWritten
  <2>2. CASE ~Rollback
    <3>1. /\ rollback'.source = rollback.source /\ rollback'.runs = rollback.runs
          /\ rollback'.phase = "restoring" => rollback.phase = "restoring"
      <4>1. CASE Restore
        BY <2>0, <4>1 DEF Restore, RollbackRun
      <4>2. CASE RollbackEnds
        BY <2>0, <4>2 DEF RollbackEnds, RollbackRun
      <4>3. CASE rollback' = rollback
        BY <4>3
      <4>4. QED
        BY <2>2, <4>1, <4>2, <4>3 DEF Next, Tick, Open, Push, HostLog, Record, Kill, Gc, RemoveDir,
                                      GcEnds, vars
    <3>2. QED
      BY <3>1, StillWritten DEF Recorded
  <2>3. QED
    BY <2>1, <2>2
<1>3. QED
  BY <1>1, <1>2 DEF Recorded, WrittenBy

(* Who else writes under the name of a deploy that has ended shares it, or  *)
(* is gc.                                                                   *)
LEMMA KeptStep ==
  ASSUME TypeOK, Kept, [Next]_vars
  PROVE  Kept'
<1> SUFFICES ASSUME NEW p \in Deployers, deploy'[p].phase = "ended",
                    ~\E q \in Deployers \ {p} : deploy'[q].phase # "new" /\ deploy'[q].id = deploy'[p].id,
                    <<p, "over">> \notin pruned'
             PROVE  dirs'[deploy'[p].id].json = Json(p, deploy'[p].rc, deploy'[p].steps)
  BY DEF Kept, Shares, Json
<1> DEFINE i == deploy[p].id
<1>1. i \in Ids
  BY Runs
<1>2. CASE Record(p)
  <2>1. /\ deploy'[p].id = i /\ deploy'[p].rc = deploy[p].rc /\ deploy'[p].steps = deploy[p].steps
    BY <1>2, NextPhase DEF Record
  <2>2. dirs' = [dirs EXCEPT ![i] = Written(p)]
    BY <1>2 DEF Record
  <2>3. Written(p).json = Json(p, deploy[p].rc, deploy[p].steps)
    BY <1>1, Touching DEF Written, RunDir
  <2>4. QED
    BY <1>1, <2>1, <2>2, <2>3 DEF TypeOK
<1>3. CASE ~Record(p)
  <2>1. deploy[p].phase = "ended" /\ deploy'[p] = deploy[p]
    BY <1>3, Ends, Moves
  <2>2. ~Shares(p)
    BY <2>1, Moves DEF Shares
  <2>3. <<p, "over">> \notin pruned
    BY Moves
  <2>4. dirs[i].json = Json(p, deploy[p].rc, deploy[p].steps)
    BY <2>1, <2>2, <2>3 DEF Kept
  <2>5. ASSUME NEW q \in Deployers, Record(q) \/ Kill(q) PROVE deploy[q].id # i
    <3>1. q # p /\ deploy[q].phase # "new"
      BY <2>1, <2>5 DEF Record, Recording, Kill
    <3>2. QED
      BY <2>2, <3>1 DEF Shares
  <2>6. ~(\A q \in Deployers : deploy[q].phase # "new" /\ deploy[q].id = i =>
            <<q, IF Running(q) THEN "running" ELSE "over">> \in pruned')
    BY <2>1 DEF Running
  <2>7. dirs'[i].json = dirs[i].json
    BY <1>1, <2>5, <2>6, Directories
  <2>8. QED
    BY <2>1, <2>4, <2>7
<1>4. QED
  BY <1>2, <1>3

-----------------------------------------------------------------------------
(* Who writes an object leaves it stale for every other deploy.             *)
LEMMA Writes ==
  ASSUME TypeOK, [Next]_vars, NEW p \in Deployers, NEW o \in Objects, <<p, o>> \notin stale'
  PROVE  \/ /\ <<p, o>> \notin stale /\ live'[o] = live[o] /\ slot'[o] = slot[o]
            /\ before'[p][o] = before[p][o]
         \/ Push(p) /\ o = Steps[Len(deploy[p].steps) + 1]
         \/ /\ Restore /\ p = rollback.source.by /\ <<p, o>> \notin stale
            /\ slot'[o] = slot[o] /\ before'[p][o] = before[p][o] /\ live'[o] = slot[o]
            /\ \E k \in rollback.todo : rollback.source.steps[k].object = o
<1>1. CASE UNCHANGED target
  BY <1>1 DEF target
<1>2. ASSUME NEW q \in Deployers, Push(q), ~(q = p /\ o = Steps[Len(deploy[p].steps) + 1])
      PROVE  /\ <<p, o>> \notin stale /\ live'[o] = live[o] /\ slot'[o] = slot[o]
             /\ before'[p][o] = before[p][o]
  <2> DEFINE o2 == Steps[Len(deploy[q].steps) + 1]
  <2>1. \/ stale' = stale \ {<<q, o2>>} /\ UNCHANGED <<live, slot, before>>
        \/ /\ slot' = IF live[o2] = Missing THEN slot ELSE [slot EXCEPT ![o2] = live[o2]]
           /\ live' = [live EXCEPT ![o2] = VersionOf[q]]
           /\ before' = [before EXCEPT ![q][o2] = live[o2]]
           /\ stale' = (stale \union {<<r, o2>> : r \in Deployers}) \ {<<q, o2>>}
        \/ UNCHANGED target
    BY <1>2 DEF Push
  <2>2. ~(q = p /\ o = o2)
    BY <1>2
  <2> HIDE DEF o2
  <2>3. <<p, o>> # <<q, o2>>
    BY <2>2
  <2>4. CASE stale' = stale \ {<<q, o2>>} /\ UNCHANGED <<live, slot, before>>
    BY <2>3, <2>4
  <2>5. CASE /\ slot' = IF live[o2] = Missing THEN slot ELSE [slot EXCEPT ![o2] = live[o2]]
             /\ live' = [live EXCEPT ![o2] = VersionOf[q]]
             /\ before' = [before EXCEPT ![q][o2] = live[o2]]
             /\ stale' = (stale \union {<<r, o2>> : r \in Deployers}) \ {<<q, o2>>}
    <3>1. o # o2 /\ <<p, o>> \notin stale
      BY <2>3, <2>5
    <3>2. QED
      BY <2>5, <3>1 DEF TypeOK
  <2>6. CASE UNCHANGED target
    BY <2>6 DEF target
  <2>7. QED
    BY <2>1, <2>4, <2>5, <2>6
<1>3. CASE Restore
  <2>1. PICK k \in rollback.todo :
          \/ /\ live' = [live EXCEPT ![rollback.source.steps[k].object] = slot[rollback.source.steps[k].object]]
             /\ stale' = stale \union {<<q, rollback.source.steps[k].object>> :
                                         q \in Deployers \ {rollback.source.by}}
          \/ UNCHANGED <<live, stale>>
    BY <1>3 DEF Restore
  <2> DEFINE o2 == rollback.source.steps[k].object
  <2>2. UNCHANGED <<slot, before>>
    BY <1>3 DEF Restore
  <2>3. CASE UNCHANGED <<live, stale>>
    BY <2>2, <2>3
  <2>4. CASE /\ live' = [live EXCEPT ![o2] = slot[o2]]
             /\ stale' = stale \union {<<q, o2>> : q \in Deployers \ {rollback.source.by}}
    <3>1. <<p, o>> \notin stale /\ (o = o2 => p = rollback.source.by)
      BY <2>4
    <3>2. CASE o = o2
      <4>1. live'[o] = slot[o]
        BY <2>4, <3>2 DEF TypeOK
      <4>2. QED
        BY <1>3, <2>2, <3>1, <3>2, <4>1
    <3>3. CASE o # o2
      <4>1. live'[o] = live[o]
        BY <2>4, <3>3 DEF TypeOK
      <4>2. QED
        BY <2>2, <3>1, <4>1
    <3>4. QED
      BY <3>2, <3>3
  <2>5. QED
    BY <2>1, <2>3, <2>4
<1>4. QED
  BY <1>1, <1>2, <1>3 DEF Next, Tick, Open, HostLog, Record, Kill, Gc, RemoveDir, GcEnds, Rollback,
                          RollbackEnds, vars, target

(* The steps of a deploy are about objects of the plan, one each.           *)
LEMMA StepObjects ==
  ASSUME TypeOK, Tallied, NEW p \in Deployers
  PROVE  /\ \A k \in DOMAIN deploy[p].steps :
              /\ deploy[p].steps[k].object \in Objects /\ deploy[p].steps[k].object = Steps[k]
              /\ k \in 1 .. Len(Steps)
         /\ \A j, k \in DOMAIN deploy[p].steps :
              deploy[p].steps[j].object = deploy[p].steps[k].object => j = k
<1>1. /\ Len(deploy[p].steps) \in Nat /\ DOMAIN deploy[p].steps = 1 .. Len(deploy[p].steps)
      /\ Len(deploy[p].steps) <= Len(Steps)
      /\ \A k \in DOMAIN deploy[p].steps : deploy[p].steps[k].object = Steps[k]
  BY Runs DEF Tallied, Tally
<1>2. \A k \in DOMAIN deploy[p].steps : k \in 1 .. Len(Steps)
  BY <1>1, Constants
<1>3. QED
  BY <1>1, <1>2, Constants

(* What a rollback has in hand: the record of a deploy that has ended.      *)
LEMMA Sources ==
  ASSUME TypeOK, Tallied, Recorded, Undone, rollback.runs > 0
  PROVE  LET p == rollback.source.by
         IN  /\ p \in Deployers /\ deploy[p].phase = "ended"
             /\ rollback.source.steps = deploy[p].steps
             /\ \A k \in Restores(rollback.source) :
                  /\ k \in DOMAIN deploy[p].steps /\ deploy[p].steps[k].rc = 0
                  /\ ~deploy[p].steps[k].converged
                  /\ deploy[p].steps[k].object \in Objects
<1>1. WrittenBy(rollback.source)
  BY DEF Recorded
<1>2. QED
  BY <1>1, StepObjects DEF WrittenBy, Restores, Reversible

(* A push adds one step after those it has. *)
LEMMA PushAdds ==
  ASSUME TypeOK, NEW p \in Deployers, Push(p),
         NEW k \in DOMAIN deploy'[p].steps, k # Len(deploy[p].steps) + 1
  PROVE  k \in DOMAIN deploy[p].steps /\ deploy'[p].steps[k] = deploy[p].steps[k]
<1> DEFINE n == Len(deploy[p].steps) + 1
<1>1. Len(deploy[p].steps) < Len(Steps)
  BY DEF Push
<1>2. PICK code \in {-1, 0, 1}, converged \in BOOLEAN : Done(p, Steps[n], code, converged)
  BY DEF Push
<1>3. /\ DOMAIN deploy[p].steps = 1 .. n - 1 /\ DOMAIN deploy'[p].steps = 1 .. n
      /\ n \in Nat
      /\ \A j \in DOMAIN deploy[p].steps : deploy'[p].steps[j] = deploy[p].steps[j]
  BY <1>1, <1>2, OneMoreStep
<1>4. k # n
  OBVIOUS
<1> HIDE DEF n
<1>5. k \in DOMAIN deploy[p].steps
  BY <1>3, <1>4
<1>6. QED
  BY <1>3, <1>5

(* A step that succeeded on an object nobody touched since is still in place. *)
LEMMA HeldStep ==
  ASSUME TypeOK, Tallied, Recorded, Undone, Held, [Next]_vars
  PROVE  Held'
<1> SUFFICES ASSUME NEW p \in Deployers, NEW k \in DOMAIN deploy'[p].steps,
                    <<p, deploy'[p].steps[k].object>> \notin stale', deploy'[p].steps[k].rc = 0
             PROVE  LET s == deploy'[p].steps[k]
                        o == s.object
                    IN  /\ s.converged => live'[o] = VersionOf[p]
                        /\ ~s.converged /\ before'[p][o] # Missing =>
                             slot'[o] = before'[p][o] /\ live'[o] \in {VersionOf[p], before'[p][o]}
  BY DEF Held, HeldAt
<1>1. CASE Push(p) /\ k = Len(deploy[p].steps) + 1
  <2> DEFINE o == Steps[k]
  <2>1. Len(deploy[p].steps) < Len(Steps)
    BY <1>1 DEF Push
  <2>2. o \in Objects
    <3>1. k \in 1 .. Len(Steps)
      BY <1>1, <2>1, Runs, Constants
    <3>2. QED
      BY <3>1, Constants
  <2>3. ASSUME NEW code \in {-1, 0, 1}, NEW converged \in BOOLEAN, Done(p, o, code, converged)
        PROVE  deploy'[p].steps[k] = [object |-> o, rc |-> code, converged |-> converged]
    BY <1>1, <2>1, <2>3, OneMoreStep
  <2>4. \/ Done(p, o, 0, TRUE) /\ live[o] = VersionOf[p] /\ live' = live
        \/ /\ Done(p, o, 0, FALSE)
           /\ slot' = IF live[o] = Missing THEN slot ELSE [slot EXCEPT ![o] = live[o]]
           /\ live' = [live EXCEPT ![o] = VersionOf[p]]
           /\ before' = [before EXCEPT ![p][o] = live[o]]
        \/ \E code \in {-1, 1} : Done(p, o, code, FALSE)
    BY <1>1 DEF Push
  <2> HIDE DEF o
  <2>5. CASE Done(p, o, 0, TRUE) /\ live[o] = VersionOf[p] /\ live' = live
    <3>1. deploy'[p].steps[k] = [object |-> o, rc |-> 0, converged |-> TRUE]
      BY <2>3, <2>5
    <3>2. deploy'[p].steps[k].object = o /\ deploy'[p].steps[k].converged
      BY <3>1
    <3>3. QED
      BY <2>5, <3>2
  <2>6. CASE /\ Done(p, o, 0, FALSE)
             /\ slot' = IF live[o] = Missing THEN slot ELSE [slot EXCEPT ![o] = live[o]]
             /\ live' = [live EXCEPT ![o] = VersionOf[p]]
             /\ before' = [before EXCEPT ![p][o] = live[o]]
    <3>1. deploy'[p].steps[k] = [object |-> o, rc |-> 0, converged |-> FALSE]
      BY <2>3, <2>6
    <3>2. deploy'[p].steps[k].object = o /\ ~deploy'[p].steps[k].converged
      BY <3>1
    <3>3. live'[o] = VersionOf[p] /\ before'[p][o] = live[o]
      BY <2>2, <2>6 DEF TypeOK
    <3>4. live[o] # Missing => slot'[o] = live[o]
      BY <2>2, <2>6 DEF TypeOK
    <3>5. QED
      BY <3>2, <3>3, <3>4
  <2>7. CASE \E code \in {-1, 1} : Done(p, o, code, FALSE)
    <3>1. PICK code \in {-1, 1} : Done(p, o, code, FALSE)
      BY <2>7
    <3>2. deploy'[p].steps[k] = [object |-> o, rc |-> code, converged |-> FALSE]
      BY <2>3, <3>1
    <3>3. deploy'[p].steps[k].rc = code
      BY <3>2
    <3>4. QED
      BY <3>3
  <2>8. QED
    BY <2>4, <2>5, <2>6, <2>7
<1>2. CASE ~(Push(p) /\ k = Len(deploy[p].steps) + 1)
  <2> DEFINE s == deploy[p].steps[k]
             o == s.object
  <2>1. k \in DOMAIN deploy[p].steps /\ deploy'[p].steps[k] = s
    <3>1. CASE deploy'[p] = deploy[p]
      BY <3>1
    <3>2. CASE Open(p)
      BY <3>2, Opened
    <3>3. CASE Push(p)
      BY <1>2, <3>3, PushAdds
    <3>4. CASE HostLog(p)
      <4>1. deploy'[p].steps = deploy[p].steps \/ deploy'[p].steps = <<>>
        BY <3>4, NextPhase, StepsLost DEF HostLog
      <4>2. QED
        BY <4>1
    <3>5. CASE Record(p) \/ Kill(p)
      BY <3>5, NextPhase DEF Record, Kill
    <3>6. QED
      BY <3>1, <3>2, <3>3, <3>4, <3>5, Ends
  <2>2. o \in Objects /\ o = Steps[k] /\ k \in 1 .. Len(Steps)
    BY <2>1, StepObjects
  <2>3. <<p, o>> \notin stale =>
          /\ s.converged => live[o] = VersionOf[p]
          /\ ~s.converged /\ before[p][o] # Missing =>
               slot[o] = before[p][o] /\ live[o] \in {VersionOf[p], before[p][o]}
    BY <2>1 DEF Held, HeldAt
  <2>4. <<p, o>> \notin stale'
    BY <2>1
  <2>5. CASE /\ <<p, o>> \notin stale /\ live'[o] = live[o] /\ slot'[o] = slot[o]
             /\ before'[p][o] = before[p][o]
    BY <2>1, <2>3, <2>5
  <2>6. CASE Push(p) /\ o = Steps[Len(deploy[p].steps) + 1]
    <3>1. Len(deploy[p].steps) + 1 \in 1 .. Len(Steps)
      BY <2>6, Runs, Constants DEF Push
    <3>2. k = Len(deploy[p].steps) + 1
      BY <2>2, <2>6, <3>1, Constants
    <3>3. QED
      BY <1>2, <2>6, <3>2
  <2>7. CASE /\ Restore /\ p = rollback.source.by /\ <<p, o>> \notin stale
             /\ slot'[o] = slot[o] /\ before'[p][o] = before[p][o] /\ live'[o] = slot[o]
             /\ \E j \in rollback.todo : rollback.source.steps[j].object = o
    <3>1. PICK j \in rollback.todo : rollback.source.steps[j].object = o
      BY <2>7
    <3>2. rollback.runs > 0 /\ j \in Restores(rollback.source)
      BY <2>7 DEF Restore, Recorded, Undone
    <3>3. j \in DOMAIN deploy[p].steps /\ deploy[p].steps[j].object = o /\ ~deploy[p].steps[j].converged
      BY <2>7, <3>1, <3>2, Sources
    <3>4. j = k
      BY <2>1, <3>3, StepObjects
    <3>5. QED
      BY <2>1, <2>3, <2>7, <3>3, <3>4
  <2>8. QED
    BY <2>2, <2>4, <2>5, <2>6, <2>7, Writes
<1>3. QED
  BY <1>1, <1>2

(* A restore that succeeds brings back what its deploy found; one that does *)
(* not is in the code, and the other steps' objects are not touched.        *)
LEMMA UndoneStep ==
  ASSUME TypeOK, Tallied, Recorded, Undone, Held, [Next]_vars
  PROVE  Undone'
<1>0. rollback \in RollbackRun /\ rollback.runs \in Nat
  BY DEF TypeOK, RollbackRun
<1>1. CASE Rollback
  <2>1. PICK arg \in {{j} : j \in Ids} \union {Ids} : \E i \in Found(arg) :
          rollback' = [phase |-> "restoring", id |-> <<now, "rollback">>, source |-> dirs[i].json,
                       todo |-> Restores(dirs[i].json), rc |-> 0, runs |-> rollback.runs + 1]
    BY <1>1 DEF Rollback
  <2>2. PICK i \in Found(arg) :
          rollback' = [phase |-> "restoring", id |-> <<now, "rollback">>, source |-> dirs[i].json,
                       todo |-> Restores(dirs[i].json), rc |-> 0, runs |-> rollback.runs + 1]
    BY <2>1
  <2>3. /\ rollback'.source = dirs[i].json /\ rollback'.todo = Restores(dirs[i].json)
        /\ rollback'.phase = "restoring"
    BY <2>2
  <2>4. rollback'.todo = Restores(rollback'.source)
    BY <2>3
  <2>5. Restores(rollback.source)' = Restores(rollback'.source)
    BY DEF Restores, Reversible
  <2>6. QED
    BY <2>3, <2>4, <2>5 DEF Undone
<1>2. CASE ~Rollback
  <2>1. /\ rollback'.source = rollback.source /\ rollback'.runs = rollback.runs
        /\ rollback'.todo \subseteq rollback.todo
        /\ rollback'.rc = 0 => rollback.rc = 0
        /\ rollback'.phase = "idle" => rollback'.todo = {}
        /\ rollback'.todo # rollback.todo => Restore
    <3>1. CASE Restore
      <4>1. PICK k \in rollback.todo : \/ rollback' = [rollback EXCEPT !.todo = @ \ {k}]
                                       \/ rollback' = [rollback EXCEPT !.todo = @ \ {k}, !.rc = 1]
        BY <3>1 DEF Restore
      <4>2. rollback.phase = "restoring"
        BY <3>1 DEF Restore
      <4>3. QED
        BY <1>0, <3>1, <4>1, <4>2 DEF RollbackRun
    <3>2. CASE RollbackEnds
      BY <1>0, <3>2 DEF RollbackEnds, RollbackRun
    <3>3. CASE rollback' = rollback
      BY <3>3 DEF Undone
    <3>4. QED
      BY <1>2, <3>1, <3>2, <3>3 DEF Next, Tick, Open, Push, HostLog, Record, Kill, Gc, RemoveDir,
                                    GcEnds, vars
  <2>2. Restores(rollback.source)' = Restores(rollback.source)
    BY <2>1 DEF Restores, Reversible
  <2>3. ASSUME rollback'.runs > 0, rollback'.rc = 0,
               NEW k \in Restores(rollback.source) \ rollback'.todo,
               NEW p, p = rollback.source.by,
               NEW o, o = rollback.source.steps[k].object,
               <<p, o>> \notin stale', before'[p][o] # Missing
        PROVE  live'[o] = before'[p][o]
    <3>1. /\ p \in Deployers /\ deploy[p].phase = "ended" /\ rollback.source.steps = deploy[p].steps
          /\ k \in DOMAIN deploy[p].steps /\ deploy[p].steps[k].rc = 0
          /\ ~deploy[p].steps[k].converged /\ o = deploy[p].steps[k].object
          /\ o \in Objects
      BY <2>1, <2>3, Sources
    <3>2. ~Push(p)
      BY <3>1 DEF Push
    <3>3. <<p, o>> \notin stale /\ before[p][o] = before'[p][o]
      BY <2>3, <3>1, <3>2, Writes
    <3>4. slot[o] = before[p][o]
      <4>1. HeldAt(p, k)
        BY <3>1 DEF Held
      <4>2. QED
        BY <2>3, <3>1, <3>3, <4>1 DEF HeldAt
    <3>5. CASE k \in rollback.todo
      <4>1. Restore
        BY <2>1, <2>3, <3>5
      <4>2. PICK j \in rollback.todo :
              \/ /\ live' = [live EXCEPT ![rollback.source.steps[j].object]
                                       = slot[rollback.source.steps[j].object]]
                 /\ rollback' = [rollback EXCEPT !.todo = @ \ {j}]
              \/ rollback' = [rollback EXCEPT !.todo = @ \ {j}, !.rc = 1]
        BY <4>1 DEF Restore
      <4>3. ~(rollback' = [rollback EXCEPT !.todo = @ \ {j}, !.rc = 1])
        <5> SUFFICES ASSUME rollback' = [rollback EXCEPT !.todo = @ \ {j}, !.rc = 1] PROVE FALSE
          OBVIOUS
        <5>1. rollback'.rc = 1
          BY <1>0 DEF RollbackRun
        <5>2. QED
          BY <2>3, <5>1
      <4>4. rollback'.todo = rollback.todo \ {j}
        BY <1>0, <4>2, <4>3 DEF RollbackRun
      <4>5. j = k
        BY <2>3, <3>5, <4>4
      <4>6. live' = [live EXCEPT ![o] = slot[o]]
        BY <2>3, <4>2, <4>3, <4>5
      <4>7. live'[o] = slot[o]
        BY <3>1, <4>6 DEF TypeOK
      <4>8. QED
        BY <3>3, <3>4, <4>7
    <3>6. CASE k \notin rollback.todo
      <4>1. live[o] = before[p][o]
        BY <2>1, <2>3, <3>3, <3>6 DEF Undone
      <4>2. live'[o] = live[o] \/ live'[o] = slot[o]
        BY <2>3, <3>1, <3>2, Writes
      <4>3. QED
        BY <3>3, <3>4, <4>1, <4>2
    <3>7. QED
      BY <3>5, <3>6
  <2>4. rollback'.todo \subseteq Restores(rollback.source)'
    BY <2>1, <2>2 DEF Undone
  <2>5. QED
    BY <2>1, <2>2, <2>3, <2>4 DEF Undone
<1>3. QED
  BY <1>1, <1>2

-----------------------------------------------------------------------------
(* There are finitely many run directories. *)
LEMMA FewDirectories == IsFiniteSet(Ids)
<1>1. IsFiniteSet(Times)
  BY BoundsAssumption, FS_Interval DEF Times
<1>2. IsFiniteSet({"deploy", "rollback"})
  <2>1. IsFiniteSet({"deploy"} \union {"rollback"})
    BY FS_Singleton, FS_AddElement
  <2>2. {"deploy"} \union {"rollback"} = {"deploy", "rollback"}
    OBVIOUS
  <2>3. QED
    BY <2>1, <2>2
<1>3. QED
  BY <1>1, <1>2, FS_Product DEF Ids

(* Of finitely many numbers one is the greatest. *)
LEMMA Greatest ==
  ASSUME NEW S, S # {}, NEW n \in Nat, NEW f, \A i \in S : f[i] \in 0 .. n
  PROVE  \E i \in S : \A j \in S : f[j] <= f[i]
<1> DEFINE Rest == {m \in Nat : \E i \in S : f[i] = n - m}
<1>1. Rest \subseteq Nat /\ Rest # {}
  <2>1. PICK i \in S : f[i] \in 0 .. n
    OBVIOUS
  <2>2. n - f[i] \in Nat /\ f[i] = n - (n - f[i])
    BY <2>1
  <2>3. QED
    BY <2>2
<1> HIDE DEF Rest
<1>2. PICK m \in Rest : \A k \in Rest : <<k, m>> \notin OpToRel(<, Nat)
  BY <1>1, NatLessThanWellFounded, WFMin
<1>3. \A k \in Rest : ~(k < m)
  BY <1>1, <1>2 DEF OpToRel
<1>4. m \in Nat /\ \E i \in S : f[i] = n - m
  BY <1>1 DEF Rest
<1>5. PICK i \in S : f[i] = n - m
  BY <1>4
<1>6. ASSUME NEW j \in S PROVE f[j] <= f[i]
  <2>1. f[j] \in 0 .. n /\ n - f[j] \in Nat /\ f[j] = n - (n - f[j])
    OBVIOUS
  <2>2. n - f[j] \in Rest
    BY <2>1 DEF Rest
  <2>3. ~(n - f[j] < m)
    BY <1>3, <2>2
  <2>4. QED
    BY <1>4, <1>5, <2>1, <2>3
<1>7. QED
  BY <1>6

(* select_runs_to_prune chooses none that is newer than one it spares, and  *)
(* without an age bound it spares `keep` of them if it chooses any.         *)
LEMMA Pruning ==
  ASSUME NEW S \in SUBSET Ids, NEW ages \in [S -> Times], NEW q \in Policies,
         NEW order \in Orders(ages), now \in Times
  PROVE  LET chosen == Doomed(ages, q, order)
         IN  /\ chosen \subseteq S
             /\ \A i \in chosen, j \in S \ chosen : ages[i] <= ages[j]
             /\ q.age = None => Cardinality(S \ chosen) >= q.keep \/ chosen = {}
<1> DEFINE Newer(i) == {j \in S : order[j] > order[i]}
           chosen == Doomed(ages, q, order)
<1>1. IsFiniteSet(S) /\ Cardinality(S) \in Nat
  BY FewDirectories, FS_Subset, FS_CardinalityType
<1>2. \A i \in S : order[i] \in 1 .. Cardinality(S)
  BY DEF Orders
<1>3. \A i, j \in S : ages[i] > ages[j] => order[i] > order[j]
  BY DEF Orders
<1>4. q.keep \in Nat \union {-1} /\ q.age \in Nat \union {-1} /\ None = -1
  BY PoliciesAssumption DEF None
<1>5. \A i \in S : IsFiniteSet(Newer(i)) /\ Cardinality(Newer(i)) \in Nat
  BY <1>1, FS_Subset, FS_CardinalityType
<1>6. /\ chosen \subseteq S
      /\ \A i \in S : i \in chosen <=> \/ q.keep # None /\ Cardinality(Newer(i)) >= q.keep
                                       \/ q.age # None /\ ages[i] < now - q.age
  BY DEF Doomed
<1> HIDE DEF chosen
<1>7. ASSUME NEW i \in chosen, NEW j \in S \ chosen PROVE ages[i] <= ages[j]
  <2>1. i \in S /\ j \in S /\ ages[i] \in Int /\ ages[j] \in Int /\ now \in Int
    BY <1>6 DEF Times
  <2>2. CASE q.age # None /\ ages[i] < now - q.age
    <3>1. ~(ages[j] < now - q.age)
      BY <1>6, <2>1, <2>2
    <3>2. QED
      BY <1>4, <2>1, <2>2, <3>1
  <2>3. CASE q.keep # None /\ Cardinality(Newer(i)) >= q.keep
    <3>1. ~(Cardinality(Newer(j)) >= q.keep)
      BY <1>6, <2>1, <2>3
    <3>2. SUFFICES ASSUME ages[i] > ages[j] PROVE FALSE
      BY <2>1
    <3>3. order[i] > order[j] /\ order[i] \in Int /\ order[j] \in Int
      BY <1>1, <1>2, <1>3, <2>1, <3>2
    <3>4. Newer(i) \subseteq Newer(j)
      BY <1>1, <1>2, <3>3
    <3>5. Cardinality(Newer(i)) <= Cardinality(Newer(j))
      BY <1>5, <2>1, <3>4, FS_Subset
    <3> HIDE DEF Newer
    <3>6. Cardinality(Newer(i)) \in Int /\ Cardinality(Newer(j)) \in Int
      <4>1. Cardinality(Newer(i)) \in Nat
        BY <1>5, <2>1
      <4>2. Cardinality(Newer(j)) \in Nat
        BY <1>5, <2>1
      <4>3. QED
        BY <4>1, <4>2
    <3>7. QED
      BY <1>4, <2>3, <3>1, <3>5, <3>6
  <2>4. QED
    BY <1>6, <2>1, <2>2, <2>3
<1>8. ASSUME q.age = None, chosen # {} PROVE Cardinality(S \ chosen) >= q.keep
  <2>1. \A i \in chosen : order[i] \in 0 .. Cardinality(S)
    BY <1>1, <1>2, <1>6
  <2>2. PICK i \in chosen : \A j \in chosen : order[j] <= order[i]
    BY <1>1, <1>8, <2>1, Greatest
  <2>3. i \in S /\ Cardinality(Newer(i)) >= q.keep
    BY <1>6, <1>8
  <2>4. Newer(i) \subseteq S \ chosen
    <3>1. \A j \in Newer(i) : j \in S /\ ~(order[j] <= order[i])
      BY <1>1, <1>2, <2>3
    <3>2. QED
      BY <2>2, <3>1
  <2>5. IsFiniteSet(S \ chosen) /\ Cardinality(S \ chosen) \in Nat
    BY <1>1, FS_Subset, FS_CardinalityType
  <2>6. Cardinality(Newer(i)) <= Cardinality(S \ chosen)
    BY <2>4, <2>5, FS_Subset
  <2>7. Cardinality(Newer(i)) \in Nat
    BY <1>5, <2>3
  <2> HIDE DEF Newer
  <2>8. QED
    BY <1>4, <2>3, <2>5, <2>6, <2>7
<1>9. QED
  BY <1>6, <1>7, <1>8 DEF chosen

(* gc decides once, on what it has seen, and removes nothing else.          *)
LEMMA GcStep ==
  ASSUME TypeOK, Chosen, GcSparesNewest, [Next]_vars
  PROVE  Chosen' /\ GcSparesNewest'
<1>0. gc \in GcRun
  BY DEF TypeOK
<1>1. CASE Gc
  <2> DEFINE ages == [i \in Present |-> dirs[i].mtime]
  <2>1. PICK q \in Policies, order \in Orders(ages) :
          gc' = [phase |-> "removing", policy |-> q, doomed |-> Doomed(ages, q, order),
                 chosen |-> Doomed(ages, q, order), ages |-> ages]
    BY <1>1 DEF Gc
  <2>2. ages \in [Present -> Times] /\ Present \in SUBSET Ids /\ now \in Times
    BY DEF TypeOK, Present, RunDir
  <2>3. \A i \in Present : dirs[i].there
    BY DEF Present
  <2> HIDE DEF ages
  <2> DEFINE chosen == Doomed(ages, q, order)
  <2>4. /\ chosen \subseteq Present
        /\ \A i \in chosen, j \in Present \ chosen : ages[i] <= ages[j]
        /\ q.age = None => Cardinality(Present \ chosen) >= q.keep \/ chosen = {}
    BY <2>2, Pruning
  <2> HIDE DEF chosen
  <2>5. /\ gc'.phase = "removing" /\ gc'.policy = q /\ gc'.doomed = chosen /\ gc'.chosen = chosen
        /\ gc'.ages = ages
    BY <2>1 DEF chosen
  <2>6. DOMAIN gc'.ages = Present /\ dirs' = dirs
    BY <1>1, <2>2, <2>5 DEF Gc, store
  <2>7. Chosen'
    BY <2>4, <2>5, <2>6 DEF Chosen
  <2>8. GcSparesNewest'
    BY <2>3, <2>4, <2>5, <2>6 DEF GcSparesNewest
  <2>9. QED
    BY <2>7, <2>8
<1>2. CASE GcEnds
  BY <1>2 DEF GcEnds, Idle, Chosen, GcSparesNewest
<1>3. CASE ~Gc /\ ~GcEnds
  <2>1. /\ gc'.phase = gc.phase /\ gc'.policy = gc.policy /\ gc'.chosen = gc.chosen
        /\ gc'.ages = gc.ages /\ gc'.doomed \subseteq gc.doomed
    <3>1. CASE RemoveDir
      <4>1. PICK i \in gc.doomed : gc' = [gc EXCEPT !.doomed = @ \ {i}]
        BY <3>1 DEF RemoveDir
      <4>2. QED
        BY <1>0, <4>1 DEF GcRun
    <3>2. CASE ~RemoveDir
      BY <1>3, <3>2 DEF Next, Tick, Open, Push, HostLog, Record, Kill, Rollback, Restore,
                        RollbackEnds, vars
    <3>3. QED
      BY <3>1, <3>2
  <2>2. Chosen'
    BY <2>1 DEF Chosen
  <2>3. \A j \in DOMAIN gc.ages : j \in Ids
    BY <1>0 DEF GcRun
  <2>4. ASSUME gc.phase = "removing", NEW j \in DOMAIN gc.ages \ gc.chosen PROVE dirs'[j].there
    <3>1. dirs[j].there /\ j \in Ids /\ j \notin gc.doomed
      BY <2>3, <2>4 DEF GcSparesNewest, Chosen
    <3>2. QED
      BY <3>1, Directories
  <2>5. GcSparesNewest'
    BY <2>1, <2>4 DEF GcSparesNewest
  <2>6. QED
    BY <2>2, <2>5
<1>4. QED
  BY <1>1, <1>2, <1>3

-----------------------------------------------------------------------------
(* Before the first command. *)
LEMMA Starts ==
  ASSUME Init
  PROVE  IInv
<1>1. /\ now = 0 /\ dirs = [i \in Ids |-> NoDir] /\ live = Base /\ slot = Backups
      /\ gc = Idle /\ rollback = Resting /\ stale = {} /\ pruned = {}
      /\ before = [p \in Deployers |-> [o \in Objects |-> "kept"]]
      /\ deploy = [p \in Deployers |-> [phase |-> "new", id |-> <<0, "deploy">>, steps |-> <<>>,
                                        rc |-> 0]]
  BY DEF Init
<1>2. 0 \in Times /\ <<0, "deploy">> \in Ids /\ <<0, "rollback">> \in Ids
  BY BoundsAssumption DEF Times, Ids
<1>3. NoJson \in RunJson /\ NoDir \in RunDir
  <2>1. <<>> \in Seq(StepRecord)
    BY EmptySeq
  <2>2. NoJson \in RunJson
    BY <2>1 DEF NoJson, RunJson
  <2>3. QED
    BY <1>2, <2>2 DEF NoDir, RunDir
<1>4. \A p \in Deployers : deploy[p].phase = "new" /\ deploy[p].steps = <<>> /\ deploy[p].rc = 0
  BY <1>1
<1>5. gc.phase = "idle" /\ rollback.phase = "idle" /\ rollback.runs = 0 /\ rollback.todo = {}
  BY <1>1 DEF Idle, Resting
<1>6. \A i \in Ids : dirs[i].json.state = "none"
  BY <1>1 DEF NoDir, NoJson
<1>7. TypeOK
  <2>1. dirs \in [Ids -> RunDir]
    BY <1>1, <1>3
  <2>2. deploy \in [Deployers -> DeployRun]
    <3> DEFINE new == [phase |-> "new", id |-> <<0, "deploy">>, steps |-> <<>>, rc |-> 0]
    <3>1. <<>> \in Seq(StepRecord)
      BY EmptySeq
    <3>2. new \in DeployRun
      BY <1>2, <3>1 DEF DeployRun
    <3> HIDE DEF new
    <3>3. deploy = [p \in Deployers |-> new]
      BY <1>1 DEF new
    <3>4. QED
      BY <3>2, <3>3
  <2>3. gc \in GcRun
    <3> DEFINE none == <<>>
    <3>1. none \in [{} -> Times]
      OBVIOUS
    <3>2. none \in UNION {[S -> Times] : S \in SUBSET Ids}
      BY <3>1
    <3> HIDE DEF none
    <3>3. [phase |-> "idle", policy |-> [keep |-> -1, age |-> -1], doomed |-> {}, chosen |-> {},
           ages |-> none] \in GcRun
      BY <3>2 DEF GcRun
    <3>4. QED
      BY <1>1, <3>3 DEF Idle, None, none
  <2>4. rollback \in RollbackRun
    BY <1>1, <1>2, <1>3 DEF Resting, RollbackRun
  <2>5. live \in [Objects -> Version] /\ slot \in [Objects -> Version]
    BY <1>1, VersionsAssumption
  <2>6. now \in Times /\ before \in [Deployers -> [Objects -> Version \union {"kept"}]]
    BY <1>1, <1>2
  <2>7. QED
    BY <2>1, <2>2, <2>3, <2>4, <2>5, <2>6 DEF TypeOK
<1>8. Tallied
  <2> SUFFICES ASSUME NEW p \in Deployers PROVE Tally(p)
    BY DEF Tallied
  <2>1. Len(deploy[p].steps) = 0 /\ DOMAIN deploy[p].steps = {} /\ Len(Steps) \in Nat
    BY <1>4, Constants
  <2>2. QED
    BY <1>4, <2>1 DEF Tally, Tells
<1>9. Homed
  BY <1>4 DEF Homed, Running
<1>10. Recorded
  BY <1>5, <1>6 DEF Recorded
<1>11. Kept
  BY <1>4 DEF Kept
<1>12. Held
  BY <1>4 DEF Held
<1>13. Undone
  BY <1>5 DEF Undone
<1>14. Chosen /\ GcSparesNewest
  BY <1>5 DEF Chosen, GcSparesNewest
<1>15. QED
  BY <1>7, <1>8, <1>9, <1>10, <1>11, <1>12, <1>13, <1>14 DEF IInv

(* IInv is an invariant of the run directories and who works on them.       *)
THEOREM Invariance == Spec => []IInv
<1>1. Init => IInv
  BY Starts
<1>2. IInv /\ [Next]_vars => IInv'
  <2> SUFFICES ASSUME IInv, [Next]_vars PROVE IInv'
    OBVIOUS
  <2>1. /\ TypeOK /\ Tallied /\ Homed /\ Recorded /\ Kept /\ Held /\ Undone /\ Chosen
        /\ GcSparesNewest
    BY DEF IInv
  <2>2. TypeOK' /\ Tallied' /\ Homed' /\ Recorded' /\ Kept'
    BY <2>1, TypeStep, TalliedStep, HomedStep, RecordedStep, KeptStep
  <2>3. Held' /\ Undone' /\ Chosen' /\ GcSparesNewest'
    BY <2>1, HeldStep, UndoneStep, GcStep
  <2>4. QED
    BY <2>2, <2>3 DEF IInv
<1>3. QED
  BY <1>1, <1>2, PTL DEF Spec

(* run.json of a deploy that has ended stays what the deploy wrote, and has  *)
(* all its steps and their code, but for a fleet that gc left without the    *)
(* directory, a removal afterwards, or another deploy of the same second.    *)
THEOREM KeepsRecords == Spec => []RecordIsKept
<1>1. IInv => RecordIsKept
  <2> SUFFICES ASSUME IInv, NEW p \in Deployers, deploy[p].phase = "ended", ~Shares(p),
                      <<p, "over">> \notin pruned
               PROVE  LET json == dirs[deploy[p].id].json
                      IN /\ json.state = "whole" /\ json.by = p
                         /\ \/ /\ Len(json.steps) = Len(Steps)
                               /\ json.rc = 0 <=> \A k \in DOMAIN json.steps : json.steps[k].rc = 0
                            \/ p \in ByFleet /\ <<p, "running">> \in pruned /\ json.rc # 0
    BY DEF RecordIsKept
  <2> DEFINE json == dirs[deploy[p].id].json
  <2>1. json = Json(p, deploy[p].rc, deploy[p].steps)
    BY DEF IInv, Kept
  <2>2. (Len(deploy[p].steps) = Len(Steps) /\ Tells(p)) \/ Lost(p)
    BY DEF IInv, Tallied, Tally
  <2> HIDE DEF json
  <2>3. json.state = "whole" /\ json.by = p /\ json.rc = deploy[p].rc /\ json.steps = deploy[p].steps
    BY <2>1 DEF Json
  <2>4. QED
    BY <2>2, <2>3 DEF Tells, Lost, json
<1>2. QED
  BY <1>1, Invariance, PTL

(* Whatever the policy, the directories and the order of those of one mtime, *)
(* gc removes nothing newer than what it spares, spares `keep` of them, and  *)
(* what it spares is there as long as it works.                              *)
THEOREM SparesNewest == Spec => []GcSparesNewest
<1>1. IInv => GcSparesNewest
  BY DEF IInv
<1>2. QED
  BY <1>1, Invariance, PTL

(* A rollback without a failed command has brought back what the run found,  *)
(* object by object, wherever nobody else has written since, also if it is   *)
(* the second of the run, and whatever gc and other commands do meanwhile.   *)
THEOREM RollbackBringsBack == Spec => []RollbackUndoes
<1>1. IInv => RollbackUndoes
  <2> SUFFICES ASSUME IInv, rollback.runs > 0, rollback.phase = "idle", rollback.rc = 0,
                      NEW k \in DOMAIN rollback.source.steps,
                      NEW s, s = rollback.source.steps[k],
                      NEW p, p = rollback.source.by,
                      <<p, s.object>> \notin stale, s.rc = 0
               PROVE  live[s.object] \in IF s.converged THEN {VersionOf[p]}
                                         ELSE IF before[p][s.object] = Missing THEN Version
                                         ELSE {before[p][s.object]}
    BY DEF RollbackUndoes
  <2>1. TypeOK /\ Tallied /\ Recorded /\ Held /\ Undone
    BY DEF IInv
  <2>2. p \in Deployers /\ rollback.source.steps = deploy[p].steps
    BY <2>1, Sources
  <2>3. k \in DOMAIN deploy[p].steps /\ s = deploy[p].steps[k] /\ s.object \in Objects
    BY <2>1, <2>2, StepObjects
  <2>4. CASE s.converged
    <3>1. HeldAt(p, k)
      BY <2>1, <2>2, <2>3 DEF Held
    <3>2. QED
      BY <2>3, <2>4, <3>1 DEF HeldAt
  <2>5. CASE ~s.converged /\ before[p][s.object] = Missing
    BY <2>1, <2>3, <2>5 DEF TypeOK
  <2>6. CASE ~s.converged /\ before[p][s.object] # Missing
    <3>1. k \in Restores(rollback.source) \ rollback.todo
      BY <2>1, <2>6 DEF Restores, Reversible, Undone
    <3>2. live[s.object] = before[p][s.object]
      BY <2>1, <2>6, <3>1 DEF Undone
    <3>3. QED
      BY <2>6, <3>2
  <2>7. QED
    BY <2>4, <2>5, <2>6
<1>2. QED
  BY <1>1, Invariance, PTL

(* load_status_record shows what list_runs(limit=1) lists, and nothing only  *)
(* where there is no record or the newest one does not parse.                *)
THEOREM ReadersAlwaysAgree == Spec => []ReadersAgree
<1>1. IInv => ReadersAgree
  <2> SUFFICES ASSUME TypeOK, Recorded PROVE ReadersAgree
    BY DEF IInv
  <2> DEFINE Later(i) == {j \in HasJson : j[1] > i[1]}
  <2>0. /\ HasJson \subseteq Ids /\ IsFiniteSet(HasJson)
        /\ \A i \in Ids : i[1] \in 0 .. MaxTime
    <3>1. HasJson \subseteq Ids
      BY DEF HasJson
    <3>2. \A i \in Ids : i[1] \in 0 .. MaxTime
      BY DEF Ids, Times
    <3>3. QED
      BY <3>1, <3>2, FewDirectories, FS_Subset
  <2>1. ASSUME NEW i \in HasJson
        PROVE  (\A j \in HasJson : j[1] <= i[1]) <=> Cardinality(Later(i)) < 1
    <3>1. (\A j \in HasJson : j[1] <= i[1]) <=> Later(i) = {}
      <4>1. i[1] \in Int /\ \A j \in HasJson : j[1] \in Int
        BY <2>0, BoundsAssumption
      <4>2. QED
        BY <4>1
    <3>2. IsFiniteSet(Later(i))
      BY <2>0, FS_Subset
    <3> HIDE DEF Later
    <3>3. Cardinality(Later(i)) \in Nat /\ (Cardinality(Later(i)) = 0 <=> Later(i) = {})
      BY <3>2, FS_CardinalityType, FS_EmptySet
    <3>4. QED
      BY <3>1, <3>3
  <2>2. Status = History(1)
    BY <2>1 DEF Status, History
  <2>3. ASSUME Status = {}, HasJson # {} PROVE \E i \in HasJson : dirs[i].json = Torn
    <3> DEFINE time == [i \in HasJson |-> i[1]]
    <3>1. \A i \in HasJson : time[i] \in 0 .. MaxTime
      BY <2>0
    <3>2. PICK i \in HasJson : \A j \in HasJson : time[j] <= time[i]
      <4> HIDE DEF time
      <4>1. QED
        BY <2>3, <3>1, BoundsAssumption, Greatest
    <3>3. \A j \in HasJson : j[1] <= i[1]
      BY <3>2
    <3>4. dirs[i].json.state # "whole" /\ dirs[i].json.state # "none"
      BY <2>3, <3>3 DEF Status, HasJson
    <3>5. dirs[i].json.state = "torn"
      BY <2>0, <3>4 DEF TypeOK, RunDir, RunJson
    <3>6. QED
      BY <2>0, <3>5 DEF Recorded
  <2>4. QED
    BY <2>2, <2>3 DEF ReadersAgree
<1>2. QED
  BY <1>1, Invariance, PTL
=============================================================================
