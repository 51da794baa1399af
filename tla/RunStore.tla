------------------------------ MODULE RunStore ------------------------------
(***************************************************************************)
(* The run directories of .local81/runs and who works on them: deploys     *)
(* that open a directory and write run.json at the end, `local81 gc` that  *)
(* lists the directories and then removes them one by one, `local81        *)
(* rollback` that undoes a recorded run from the backups on the target,    *)
(* and the readers history, status and logs.  They are separate processes  *)
(* without a lock.                                                         *)
(*                                                                         *)
(* A directory is named by the second in which its command started.  The   *)
(* target's objects have a version and one backup slot each, as in         *)
(* ScopeDeploy: rsync --backup puts the version it replaces in the slot.   *)
(***************************************************************************)
EXTENDS Integers, Sequences, FiniteSets, SequencesExt

CONSTANTS
  Deployers,   \* the deploys, each run once
  VersionOf,   \* what a deploy pushes
  ByFleet,     \* the deploys that write a host log before run.json
  Steps,       \* the objects of a plan, one of each step, in their order
  Base,        \* the versions on the target at first
  Backups,     \* and those in the backup slots, "absent" in an empty one
  Policies,    \* retention of gc: [keep, age], None for an absent bound
  MaxTime,     \* bound on the clock
  MaxRollbacks \* bound on the rollbacks

None == -1
Objects == ToSet(Steps)
Times == 0 .. MaxTime
Ids == Times \X {"deploy", "rollback"}
Id(p, t) == IF p \in Deployers THEN <<t, "deploy">> ELSE <<t, "rollback">>
Missing == "absent"
Version ==
  {VersionOf[p] : p \in Deployers} \union UNION {{Base[o], Backups[o]} : o \in Objects}

\* run.json: the steps in order, each [object, rc, converged]; every step of an
\* rsync plan with backups has a rollback command.  A torn file does not parse.
NoJson == [state |-> "none", by |-> "nobody", rc |-> 0, steps |-> <<>>]
Torn == [NoJson EXCEPT !.state = "torn"]
Json(p, code, steps) == [state |-> "whole", by |-> p, rc |-> code, steps |-> steps]
NoDir == [there |-> FALSE, mtime |-> 0, json |-> NoJson]

ASSUME DeployersAssumption == "nobody" \notin Deployers /\ ByFleet \subseteq Deployers
ASSUME StepsAssumption == Steps \in Seq(Objects) /\ IsInjective(Steps)
ASSUME PoliciesAssumption ==
  Policies \subseteq [keep : Nat \union {None}, age : Nat \union {None}]
ASSUME VersionsAssumption ==
  /\ \A p \in Deployers : VersionOf[p] # Missing
  /\ Base \in [Objects -> Version] /\ Backups \in [Objects -> Version]
ASSUME BoundsAssumption == MaxTime \in Nat /\ MaxRollbacks \in Nat

VARIABLES
  now,
  dirs,      \* the run directories, by name
  live, slot, \* the target: current version and backup, by object
  deploy,    \* deploy[p]: [phase, id, steps, rc]
  gc,        \* [phase, policy, doomed, chosen, ages]: what is left of the chosen
  rollback,  \* [phase, id, source, todo, rc, runs]: todo, the steps still to undo
  before,    \* before[p][o]: the version that p replaced, "kept" when it did not
  stale,     \* <<p, o>>: o was written since p had its turn at it
  pruned     \* the deploys whose directory gc has removed, "running" or "over"

store == <<now, dirs>>
target == <<live, slot, before, stale>>
vars == <<now, dirs, live, slot, deploy, gc, rollback, before, stale, pruned>>

Idle == [phase |-> "idle", policy |-> [keep |-> None, age |-> None], doomed |-> {}, chosen |-> {},
         ages |-> <<>>]
Resting == [phase |-> "idle", id |-> <<0, "rollback">>, source |-> NoJson, todo |-> {},
            rc |-> 0, runs |-> 0]

Init ==
  /\ now = 0
  /\ dirs = [i \in Ids |-> NoDir]
  /\ live = Base /\ slot = Backups
  /\ deploy = [p \in Deployers |-> [phase |-> "new", id |-> <<0, "deploy">>, steps |-> <<>>,
                                    rc |-> 0]]
  /\ gc = Idle /\ rollback = Resting
  /\ before = [p \in Deployers |-> [o \in Objects |-> "kept"]]
  /\ stale = {} /\ pruned = {}

Tick ==
  /\ now < MaxTime /\ now' = now + 1
  /\ UNCHANGED <<dirs, target, deploy, gc, rollback, pruned>>

\* mkdir with exist_ok, and a new entry in the directory.
Touched(i) == [dirs[i] EXCEPT !.there = TRUE, !.mtime = now]

-----------------------------------------------------------------------------
\* The deploy's directory is made, or taken over from a command of the second.
Open(p) ==
  /\ deploy[p].phase = "new"
  /\ LET i == Id(p, now)
     IN /\ deploy' = [deploy EXCEPT ![p].phase = "steps", ![p].id = i]
        /\ dirs' = [dirs EXCEPT ![i] = Touched(i)]
  /\ UNCHANGED <<now, target, gc, rollback, pruned>>

Done(p, o, code, converged) ==
  deploy' = [deploy EXCEPT ![p].steps = Append(@, [object |-> o, rc |-> code, converged |-> converged]),
                           ![p].rc = IF code = 0 THEN @ ELSE code]

\* One step: the gate finds the object converged, or rsync pushes it and backs
\* up what it replaces, or the step fails; after a failure --fail-fast skips.
Push(p) ==
  /\ deploy[p].phase = "steps" /\ Len(deploy[p].steps) < Len(Steps)
  /\ LET o == Steps[Len(deploy[p].steps) + 1]
     IN \/ /\ live[o] = VersionOf[p] /\ Done(p, o, 0, TRUE)
           /\ stale' = stale \ {<<p, o>>}
           /\ UNCHANGED <<live, slot, before>>
        \/ /\ live[o] # VersionOf[p] /\ Done(p, o, 0, FALSE)
           /\ slot' = IF live[o] = Missing THEN slot ELSE [slot EXCEPT ![o] = live[o]]
           /\ live' = [live EXCEPT ![o] = VersionOf[p]]
           /\ before' = [before EXCEPT ![p][o] = live[o]]
           /\ stale' = (stale \union {<<q, o>> : q \in Deployers}) \ {<<p, o>>}
        \/ /\ live[o] # VersionOf[p] /\ Done(p, o, IF deploy[p].rc = 0 THEN 1 ELSE -1, FALSE)
           /\ UNCHANGED target
  /\ UNCHANGED <<now, dirs, gc, rollback, pruned>>

\* _write_host_log does not make the directory.
LogWritten(p) == dirs[deploy[p].id].there

\* A fleet writes the host's log when its steps are over: without the directory
\* the runner raises, and the host fails without its steps.
HostLog(p) ==
  /\ deploy[p].phase = "steps" /\ Len(deploy[p].steps) = Len(Steps) /\ p \in ByFleet
  /\ IF LogWritten(p)
       THEN /\ deploy' = [deploy EXCEPT ![p].phase = "record"]
            /\ dirs' = [dirs EXCEPT ![deploy[p].id] = Touched(deploy[p].id)]
       ELSE /\ deploy' = [deploy EXCEPT ![p].phase = "record", ![p].steps = <<>>, ![p].rc = 1]
            /\ UNCHANGED dirs
  /\ UNCHANGED <<now, target, gc, rollback, pruned>>

Recording(p) ==
  \/ deploy[p].phase = "record"
  \/ deploy[p].phase = "steps" /\ Len(deploy[p].steps) = Len(Steps) /\ p \notin ByFleet

\* Fault: the directory is taken to be there.
WrittenIfThere(p) == IF dirs[deploy[p].id].there
                       THEN [Touched(deploy[p].id) EXCEPT !.json = Json(p, deploy[p].rc, deploy[p].steps)]
                       ELSE NoDir
\* _write_json makes the directory and replaces run.json.
Written(p) == [Touched(deploy[p].id) EXCEPT !.json = Json(p, deploy[p].rc, deploy[p].steps)]

Record(p) ==
  /\ Recording(p)
  /\ deploy' = [deploy EXCEPT ![p].phase = "ended"]
  /\ dirs' = [dirs EXCEPT ![deploy[p].id] = Written(p)]
  /\ UNCHANGED <<now, target, gc, rollback, pruned>>

\* A deploy is killed, maybe while it writes run.json.
Kill(p) ==
  /\ deploy[p].phase \in {"steps", "record"}
  /\ deploy' = [deploy EXCEPT ![p].phase = "killed"]
  /\ \/ UNCHANGED dirs
     \/ /\ Recording(p)
        /\ dirs' = [dirs EXCEPT ![deploy[p].id] = [Touched(deploy[p].id) EXCEPT !.json = Torn]]
  /\ UNCHANGED <<now, target, gc, rollback, pruned>>

-----------------------------------------------------------------------------
Running(p) == deploy[p].phase \in {"steps", "record"}
Present == {i \in Ids : dirs[i].there}

\* Fault: the newest keep, and one more.
DoomedButOne(ages, q, order) ==
  {i \in DOMAIN ages : \/ q.keep # None /\ Cardinality({j \in DOMAIN ages : order[j] > order[i]}) + 1 >= q.keep
                       \/ q.age # None /\ ages[i] < now - q.age}
\* select_runs_to_prune: newest first, what is not within the first keep or is
\* older than the cutoff.
Doomed(ages, q, order) ==
  {i \in DOMAIN ages : \/ q.keep # None /\ Cardinality({j \in DOMAIN ages : order[j] > order[i]}) >= q.keep
                       \/ q.age # None /\ ages[i] < now - q.age}

\* Sorted by mtime; directories of one mtime come in any order.
Orders(ages) ==
  {f \in [DOMAIN ages -> 1 .. Cardinality(DOMAIN ages)] :
     \A i, j \in DOMAIN ages : /\ i # j => f[i] # f[j]
                               /\ ages[i] > ages[j] => f[i] > f[j]}

\* run_gc reads the directories with their mtimes and decides what to remove.
Gc ==
  /\ gc.phase = "idle" /\ Present # {}
  /\ \E q \in Policies : \E order \in Orders([i \in Present |-> dirs[i].mtime]) :
       LET ages == [i \in Present |-> dirs[i].mtime]
           doomed == Doomed(ages, q, order)
       IN gc' = [phase |-> "removing", policy |-> q, doomed |-> doomed, chosen |-> doomed,
                 ages |-> ages]
  /\ UNCHANGED <<store, target, deploy, rollback, pruned>>

\* rmtree of the next one, by name, whatever became of it since.
RemoveDir ==
  /\ gc.phase = "removing" /\ gc.doomed # {}
  /\ \E i \in gc.doomed :
       /\ \A j \in gc.doomed : i[1] < j[1] \/ (i[1] = j[1] /\ (i = j \/ i[2] = "deploy"))
       /\ gc' = [gc EXCEPT !.doomed = @ \ {i}]
       /\ dirs' = [dirs EXCEPT ![i] = NoDir]
       /\ pruned' = pruned \union
            {<<p, IF Running(p) THEN "running" ELSE "over">> :
               p \in {q \in Deployers : deploy[q].phase # "new" /\ deploy[q].id = i}}
  /\ UNCHANGED <<now, target, deploy, rollback>>

GcEnds ==
  /\ gc.phase = "removing" /\ gc.doomed = {}
  /\ gc' = Idle
  /\ UNCHANGED <<store, target, deploy, rollback, pruned>>

-----------------------------------------------------------------------------
HasJson == {i \in Ids : dirs[i].there /\ dirs[i].json.state # "none"}

\* _find_run: a whole id, or a prefix that only one recorded run has.
Found(arg) == IF Cardinality(arg \intersect HasJson) = 1 THEN arg \intersect HasJson ELSE {}

\* Fault: a converged step has a rollback command too.
ReversibleIfOk(s) == s.rc = 0
\* _classify: a step that ran, changed something and has a rollback command.
Reversible(s) == s.rc = 0 /\ ~s.converged

\* build_rollback_plan: the reversible steps, which come last first.
Restores(json) == {k \in DOMAIN json.steps : Reversible(json.steps[k])}

\* `rollback --execute`: the run is looked up and read, its plan is made, and
\* the directory of the rollback is there before the first restore.
Rollback ==
  /\ rollback.phase = "idle" /\ rollback.runs < MaxRollbacks
  /\ \E arg \in {{i} : i \in Ids} \union {Ids} : \E i \in Found(arg) :
       LET json == dirs[i].json
           mine == <<now, "rollback">>
       IN /\ json.state = "whole" /\ Restores(json) # {}
          /\ rollback' = [phase |-> "restoring", id |-> mine, source |-> json,
                          todo |-> Restores(json), rc |-> 0, runs |-> rollback.runs + 1]
          /\ dirs' = [dirs EXCEPT ![mine] = Touched(mine)]
  /\ UNCHANGED <<now, target, deploy, gc, pruned>>

\* One restore, `cp -a` of the backup: fails without one, or because the host
\* cannot be reached; the others are tried all the same.
Restore ==
  /\ rollback.phase = "restoring"
  /\ \E k \in rollback.todo :
       LET o == rollback.source.steps[k].object
       IN /\ \A j \in rollback.todo : j <= k
          /\ \/ /\ slot[o] # Missing
                /\ live' = [live EXCEPT ![o] = slot[o]]
                /\ stale' = stale \union {<<q, o>> : q \in Deployers \ {rollback.source.by}}
                /\ rollback' = [rollback EXCEPT !.todo = @ \ {k}]
             \/ /\ rollback' = [rollback EXCEPT !.todo = @ \ {k}, !.rc = 1]
                /\ UNCHANGED <<live, stale>>
  /\ UNCHANGED <<now, dirs, slot, before, deploy, gc, pruned>>

\* rollback.json: written when the directory is still there; without it the
\* command raises, with everything restored.
RollbackEnds ==
  /\ rollback.phase = "restoring" /\ rollback.todo = {}
  /\ rollback' = [rollback EXCEPT !.phase = "idle"]
  /\ dirs' = IF dirs[rollback.id].there THEN [dirs EXCEPT ![rollback.id] = Touched(rollback.id)]
             ELSE dirs
  /\ UNCHANGED <<now, target, deploy, gc, pruned>>

Next ==
  \/ Tick
  \/ \E p \in Deployers : Open(p) \/ Push(p) \/ HostLog(p) \/ Record(p) \/ Kill(p)
  \/ Gc \/ RemoveDir \/ GcEnds
  \/ Rollback \/ Restore \/ RollbackEnds

Spec == Init /\ [][Next]_vars

-----------------------------------------------------------------------------
\* list_runs: the last `limit` run.json by name, those that parse.
History(limit) ==
  LET newest == {i \in HasJson : Cardinality({j \in HasJson : j[1] > i[1]}) < limit}
  IN {i \in newest : dirs[i].json.state = "whole"}

\* Fault: the first by name.
StatusFirst == {i \in HasJson : \A j \in HasJson : i[1] <= j[1]}
\* load_status_record: the last run.json by name, nothing when it does not parse.
Status == {i \in HasJson : /\ \A j \in HasJson : j[1] <= i[1]
                           /\ dirs[i].json.state = "whole"}

-----------------------------------------------------------------------------
\* Another deploy works, or worked, under the same name.
Shares(p) == \E q \in Deployers \ {p} : deploy[q].phase # "new" /\ deploy[q].id = deploy[p].id

\* No record is lost: a deploy that ended has run.json under its name, with
\* every step it took and a code that tells whether one failed, also when gc
\* removed the directory while it ran, unless gc removed it afterwards, or a
\* deploy of the same second wrote there.  Only a fleet that gc left without the
\* directory for a host's log records a failure without the steps.
RecordIsKept ==
  \A p \in Deployers : deploy[p].phase = "ended" /\ ~Shares(p) /\ <<p, "over">> \notin pruned =>
    LET json == dirs[deploy[p].id].json
    IN /\ json.state = "whole" /\ json.by = p
       /\ \/ /\ Len(json.steps) = Len(Steps)
             /\ json.rc = 0 <=> \A k \in DOMAIN json.steps : json.steps[k].rc = 0
          \/ p \in ByFleet /\ <<p, "running">> \in pruned /\ json.rc # 0

\* gc spares the newest: without an age bound the newest `keep` of the
\* directories it has seen, at least, are there as long as it works, and what
\* it removes is not newer than what it spares.
GcSparesNewest ==
  gc.phase = "removing" =>
    LET spared == DOMAIN gc.ages \ gc.chosen
    IN /\ \A j \in spared : dirs[j].there
       /\ \A i \in gc.chosen, j \in spared : gc.ages[i] <= gc.ages[j]
       /\ gc.policy.age = None =>
            Cardinality(spared) >= gc.policy.keep \/ gc.chosen = {}

\* A rollback whose commands all succeeded, be it the second of the run, has
\* brought every object that the run replaced back to what the run found there,
\* and left those that the run found converged as they are, as long as no other
\* deploy or rollback has written the object in between.
RollbackUndoes ==
  rollback.runs > 0 /\ rollback.phase = "idle" /\ rollback.rc = 0 =>
    \A k \in DOMAIN rollback.source.steps :
      LET s == rollback.source.steps[k]
          p == rollback.source.by
      IN <<p, s.object>> \notin stale /\ s.rc = 0 =>
           live[s.object] \in IF s.converged THEN {VersionOf[p]}
                              ELSE IF before[p][s.object] = Missing THEN Version
                              ELSE {before[p][s.object]}

\* status and history agree: the run that status shows is the newest one of
\* history, and when it shows none the newest record is not readable.
ReadersAgree ==
  /\ Status = History(1)
  /\ Status = {} => HasJson = {} \/ \E i \in HasJson : dirs[i].json = Torn
=============================================================================
