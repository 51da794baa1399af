----------------------------- MODULE Preflight ------------------------------
(***************************************************************************)
(* `deploy --check` and `deploy` over one plan, one configuration file and *)
(* the live targets (commands/deploy.py: run_check, _drift_check,          *)
(* run_deploy, _run_step).  Check looks at the plan, then validates the    *)
(* configuration, then probes the targets, then asks the access policy;    *)
(* deploy asks the policy, loads the configuration, and probes and runs    *)
(* its steps one by one.  Between any two of these somebody may edit the   *)
(* configuration, change a target, or cut a host off.                      *)
(*                                                                         *)
(* Config has what the configuration means, Gate what a probe comes to.    *)
(***************************************************************************)
EXTENDS Setup, Gate

CONSTANTS
  Worlds,      \* initial worlds: [config, plan, target, changes], the last a
               \* bound on edits and changes of targets and of links
  Configs,     \* what the configuration is edited to, and files to import
  Replies,     \* what the guided interview is told
  Legacies,    \* sections of a legacy settings.cfg
  Actors,      \* who runs commands: [user, root, groups]
  Others(_),   \* what somebody else makes of a target of this operation
  MaxJobs      \* bound on commands

StepType == [op : STRING, type : STRING, host : STRING,
             want : [sha256 : STRING, meta : STRING] \union [active : BOOLEAN, enabled : BOOLEAN]
                      \union [installed : BOOLEAN]]

ASSUME WorldsAssumption ==
  \A w \in Worlds :
    /\ HandWritten(w.config) /\ w.changes \in Nat
    /\ w.plan.steps \in Seq(StepType) /\ w.plan \in [parses : BOOLEAN, sound : BOOLEAN, steps : {w.plan.steps}]
    /\ DOMAIN w.target = DOMAIN w.plan.steps
    /\ \A i \in DOMAIN w.plan.steps : \A t \in Others(w.plan.steps[i].op) \union {w.target[i]} :
         Fits(w.plan.steps[i], t)
ASSUME ConfigsAssumption == \A c \in Configs : HandWritten(c)
ASSUME JobsAssumption == MaxJobs \in Nat

VARIABLES
  config,   \* .local81/config.*
  plan,     \* [parses, sound, steps]: sound without missing keys, ids or cmds
  target,   \* target[i]: the target of step i
  link,     \* link[h]: how commands on h come back
  job,      \* the command at work
  run,      \* the last deploy: its actor, how it ended, actions and codes
  passed,   \* the last check that ended, if it passed: [actor, allowDrift]
  same,     \* what has not changed since that check (or the one at work) began
  calm,     \* since the last deploy began nobody else changed anything
  left,     \* left[i]: target i is as a command of deploy has left it
  changes,  \* the changes that may still come
  jobs      \* the commands so far

preflightVars == <<config, plan, target, link, job, run, passed, same, calm, left, changes, jobs>>

Nobody == [user |-> "", root |-> FALSE, groups |-> {}]
Idle == [cmd |-> "none", at |-> "none", step |-> 0, actions |-> <<>>, failed |-> FALSE,
         allowDrift |-> FALSE, actor |-> Nobody]
NoRun == [actor |-> Nobody, end |-> "none", actions |-> <<>>, rcs |-> <<>>]
NoCheck == [actor |-> Nobody, allowDrift |-> FALSE]
Steps == plan.steps
HostsOf(steps) == {steps[i].host : i \in DOMAIN steps}

PreflightTypeOK ==
  /\ job.cmd \in {"none", "check", "deploy"} /\ job.step \in 0 .. Len(Steps) + 1
  /\ run.end \in {"none", "working", "refused", "raised", "finished"}
  /\ Len(run.rcs) <= Len(run.actions) /\ Len(run.actions) <= Len(Steps)
  /\ \A h \in DOMAIN link : link[h] \in Ways(h)
  /\ DOMAIN target = DOMAIN Steps /\ DOMAIN left = DOMAIN Steps
  /\ same \subseteq {"config", "world"} /\ calm \in BOOLEAN
  /\ changes \in Nat /\ jobs \in 0 .. MaxJobs

PreflightInit ==
  /\ \E w \in Worlds :
       /\ config = w.config /\ plan = w.plan /\ target = w.target /\ changes = w.changes
       /\ link = [h \in HostsOf(w.plan.steps) |-> "answers"]
       /\ left = [i \in DOMAIN w.plan.steps |-> FALSE]
  /\ job = Idle /\ run = NoRun /\ passed = NoCheck /\ same = {} /\ calm = FALSE
  /\ jobs = 0

-----------------------------------------------------------------------------
\* The operator, the hosts and the network.
EditConfig ==
  /\ changes > 0
  /\ config' \in Configs \ {config}
  /\ same' = same \ {"config"} /\ changes' = changes - 1
  /\ UNCHANGED <<plan, target, link, job, run, passed, calm, left, jobs>>

\* guided or init, without a configuration (with --force it is one more edit).
SetUp ==
  /\ changes > 0 /\ config.format = "none"
  /\ \/ \E r \in Replies : ~Cancelled(r) /\ config' = Guided(r)
     \/ \E l \in Legacies, p \in {"text", ""} : Complete(l) /\ config' = Converted(l, p)
     \/ \E c \in Configs, p \in {"text", ""} : Importable(c) /\ config' = Imported(c, p)
  /\ same' = same \ {"config"} /\ changes' = changes - 1
  /\ UNCHANGED <<plan, target, link, job, run, passed, calm, left, jobs>>

TargetChanges ==
  /\ changes > 0
  /\ \E i \in DOMAIN Steps : \E t \in Others(Steps[i].op) \ {target[i]} :
       target' = [target EXCEPT ![i] = t] /\ left' = [left EXCEPT ![i] = FALSE]
  /\ same' = same \ {"world"} /\ calm' = FALSE /\ changes' = changes - 1
  /\ UNCHANGED <<config, plan, link, job, run, passed, jobs>>

LinkChanges ==
  /\ changes > 0
  /\ \E h \in DOMAIN link : \E w \in Ways(h) \ {link[h]} : link' = [link EXCEPT ![h] = w]
  /\ same' = same \ {"world"} /\ calm' = FALSE /\ changes' = changes - 1
  /\ UNCHANGED <<config, plan, target, job, run, passed, left, jobs>>

-----------------------------------------------------------------------------
Probed(i) == StepAction(Steps[i], target[i], link[Steps[i].host])

\* run_check.  A plan file that does not parse ends it at once; every other
\* error is counted.
StartCheck(actor, allowDrift) ==
  /\ job = Idle /\ jobs < MaxJobs
  /\ jobs' = jobs + 1 /\ passed' = NoCheck /\ run' = NoRun
  /\ IF plan.parses
       THEN /\ job' = [Idle EXCEPT !.cmd = "check", !.at = "config", !.actor = actor,
                                   !.allowDrift = allowDrift, !.failed = ~plan.sound]
            /\ same' = {"config", "world"}
       ELSE job' = Idle /\ same' = {}
  /\ UNCHANGED <<config, plan, target, link, calm, left, changes>>

CheckConfig ==
  /\ job.cmd = "check" /\ job.at = "config"
  /\ job' = [job EXCEPT !.failed = @ \/ ~Valid(config), !.at = "probe", !.step = 1]
  /\ UNCHANGED <<config, plan, target, link, run, passed, same, calm, left, changes, jobs>>

\* Fault: the drift of a target that is absent counts, that of others does not.
DriftOfAbsent(action) == action = "create"
\* _drift_check: an update is drift.
Drift(action) == action = "update"

CheckProbe ==
  /\ job.cmd = "check" /\ job.at = "probe" /\ job.step <= Len(Steps)
  /\ job' = [job EXCEPT !.step = @ + 1, !.actions = Append(@, Probed(job.step)),
                        !.failed = @ \/ (Drift(Probed(job.step)) /\ ~job.allowDrift)]
  /\ UNCHANGED <<config, plan, target, link, run, passed, same, calm, left, changes, jobs>>

StepSet == {Steps[i] : i \in DOMAIN Steps}

CheckPolicy ==
  /\ job.cmd = "check" /\ job.at = "probe" /\ job.step > Len(Steps)
  /\ passed' = IF job.failed \/ Blocked(config, job.actor, StepSet)
                 THEN NoCheck ELSE [actor |-> job.actor, allowDrift |-> job.allowDrift]
  /\ job' = Idle
  /\ UNCHANGED <<config, plan, target, link, run, same, calm, left, changes, jobs>>

-----------------------------------------------------------------------------
\* run_deploy.
StartDeploy(actor) ==
  /\ job = Idle /\ jobs < MaxJobs
  /\ jobs' = jobs + 1
  /\ calm' = (\A h \in DOMAIN link : link[h] = "answers")
  /\ job' = [Idle EXCEPT !.cmd = "deploy", !.at = "policy", !.actor = actor]
  /\ run' = [NoRun EXCEPT !.actor = actor, !.end = "working"]
  /\ UNCHANGED <<config, plan, target, link, passed, same, left, changes>>

Ends(end) ==
  /\ job' = Idle /\ run' = [run EXCEPT !.end = end]
  /\ UNCHANGED <<config, plan, target, link, passed, same, calm, left, changes, jobs>>

\* A plan without scopes, and what the policy blocks, is refused.
Refused == Steps = <<>> \/ Blocked(config, job.actor, StepSet)

DeployPolicy ==
  /\ job.cmd = "deploy" /\ job.at = "policy"
  /\ CASE ~plan.parses -> Ends("raised")
       [] plan.parses /\ Refused -> Ends("refused")
       [] OTHER -> /\ job' = [job EXCEPT !.at = "load"]
                   /\ UNCHANGED <<config, plan, target, link, run, passed, same, calm, left, changes, jobs>>

\* load_config, for the notifications; a missing file is no configuration.
DeployLoad ==
  /\ job.cmd = "deploy" /\ job.at = "load"
  /\ IF config.format # "none" /\ LoadRaises(config)
       THEN Ends("raised")
       ELSE /\ job' = [job EXCEPT !.at = "gate", !.step = 1]
            /\ UNCHANGED <<config, plan, target, link, run, passed, same, calm, left, changes, jobs>>

\* _run_step: a step is skipped as converged on "none" only.
Skips(action) == action = "none"

\* A step without an id or a command raises; it is taken to be the first.
DeployGate ==
  /\ job.cmd = "deploy" /\ job.at = "gate" /\ job.step <= Len(Steps)
  /\ IF ~plan.sound THEN Ends("raised")
     ELSE LET action == Probed(job.step)
          IN /\ job' = IF Skips(action) THEN [job EXCEPT !.step = @ + 1] ELSE [job EXCEPT !.at = "run"]
             /\ run' = [run EXCEPT !.actions = Append(@, action),
                                   !.rcs = IF Skips(action) THEN Append(@, 0) ELSE @]
             /\ UNCHANGED <<config, plan, target, link, passed, same, calm, left, changes, jobs>>

\* What the command of a step makes of the target it finds.  A unit without an
\* [Install] section stays static.
Brought(step, t) ==
  CASE step.op = "file.synced" -> [is |-> "file", content |-> IF step.want.sha256 = "" THEN "new" ELSE step.want.sha256,
                                   meta |-> IF step.want.meta = "" THEN t.meta ELSE step.want.meta]
    [] step.op = "dir.present" -> [is |-> "dir", content |-> "", meta |-> IF step.want.meta = "" THEN t.meta ELSE step.want.meta]
    [] step.op = "service.running" ->
         [active |-> IF step.want.active THEN "active" ELSE "inactive",
          enabled |-> IF t.enabled = "static" THEN "static" ELSE IF step.want.enabled THEN "enabled" ELSE "disabled"]
    [] step.op = "package.present" -> [t EXCEPT !.installed = step.want.installed]
    [] OTHER -> t

\* The command succeeds, or fails before or after it has changed the target; a
\* host that is cut off fails it.
DeployRun ==
  /\ job.cmd = "deploy" /\ job.at = "run"
  /\ \E rc \in {0, 1}, done \in BOOLEAN :
       LET i == job.step
           up == link[Steps[i].host] = "answers"
       IN /\ rc = 0 => done
          /\ done => up
          /\ target' = IF done THEN [target EXCEPT ![i] = Brought(Steps[i], @)] ELSE target
          /\ left' = [left EXCEPT ![i] = IF done THEN rc = 0 ELSE @]
          /\ run' = [run EXCEPT !.rcs = Append(@, rc)]
          /\ job' = [job EXCEPT !.at = "gate", !.step = @ + 1]
  /\ UNCHANGED <<config, plan, link, passed, same, calm, changes, jobs>>

DeployFinish ==
  /\ job.cmd = "deploy" /\ job.at = "gate" /\ job.step > Len(Steps)
  /\ Ends("finished")

PreflightNext ==
  \/ EditConfig \/ SetUp \/ TargetChanges \/ LinkChanges
  \/ \E a \in Actors : StartDeploy(a) \/ \E d \in BOOLEAN : StartCheck(a, d)
  \/ CheckConfig \/ CheckProbe \/ CheckPolicy
  \/ DeployPolicy \/ DeployLoad \/ DeployGate \/ DeployRun \/ DeployFinish

PreflightSpec == PreflightInit /\ [][PreflightNext]_preflightVars

-----------------------------------------------------------------------------
\* When a target is as its step wants it, whatever a probe makes of it.
AsWanted(step, t) ==
  CASE step.op = "file.synced" -> t.is = "file" /\ t.content = step.want.sha256 /\ step.want.meta \in {"", t.meta}
    [] step.op = "dir.present" -> t.is = "dir" /\ step.want.meta \in {"", t.meta}
    [] step.op = "service.running" ->
         (t.active = "active") = step.want.active /\ (t.enabled = "enabled") = step.want.enabled
    [] step.op = "package.present" -> t.installed = step.want.installed
    [] OTHER -> TRUE

\* Where no probe can tell: a file without a digest in the plan, a static unit
\* that is to be enabled, a host with another package manager.
Blind(step, t) ==
  \/ Unprovable(step)
  \/ step.op = "service.running" /\ t.enabled = "static"
  \/ step.op = "package.present" /\ t.manager = "none"

\* What validate_config accepts can be used: an INI file by load_config and by
\* the access policy, and in YAML the databases by load_database_targets; and
\* what guided and init write, it accepts, unless the project's name (a project
\* in the root directory) or a list of hosts came out empty, or a value of the
\* legacy file was.  (An accepted INI file may still have a bad database engine,
\* an accepted YAML file a section that load_config cannot read.)
ValidConfigLoads ==
  /\ Valid(config) =>
       /\ config.format = "ini" => ~LoadRaises(config) /\ Policy(config).errors = {}
       /\ config.format = "yaml" => ~DatabasesRaise(config)
  /\ config.by \in {"guided", "init"} => IniFaults(config) = Blank(config)
  /\ config.by = "guided" => Blank(config) \subseteq {Project, Servers}

\* A check that passed speaks for the deploy: run by the same user, and with the
\* configuration unchanged since the check began, the deploy is not refused and
\* does not raise, and with the targets and links unchanged as well it finds
\* no existing target to overwrite that the check has not let pass.
\* The exceptions: a plan without scopes, and YAML that validation lets pass.
CheckForecasts ==
  LET spoken == passed # NoCheck /\ passed.actor = run.actor /\ "config" \in same
      update == \E i \in DOMAIN run.actions : run.actions[i] = "update"
  IN spoken =>
       /\ run.end = "refused" => Steps = <<>>
       /\ run.end = "raised" => config.format = "yaml"
       /\ "world" \in same /\ update => passed.allowDrift

\* A deploy that ends without a failure, with every host up and nobody else at
\* work, leaves every target as its step wants it, skipped or run.
DeployDelivers ==
  run.end = "finished" /\ calm /\ (\A i \in DOMAIN run.rcs : run.rcs[i] = 0) =>
    \A i \in DOMAIN Steps : Gated(Steps[i]) => AsWanted(Steps[i], target[i]) \/ Blind(Steps[i], target[i])

\* The second pass is quiet (ops/operations.py:4-6): a target that is as a
\* command of an earlier deploy has left it is found converged, by check and
\* by deploy, as long as the host answers.
Looked(j, k) == \E i \in DOMAIN Steps :
  Len(k.actions) = i /\ Len(j.actions) = i - 1 /\ left[i] /\ Gated(Steps[i]) /\ ~Blind(Steps[i], target[i])
    /\ link[Steps[i].host] = "answers" /\ k.actions[i] # "none"
SecondPassQuiet == [][~Looked(job, job') /\ ~Looked(run, run')]_preflightVars

\* The gate "can only ever skip work it has positively proven is already
\* converged" (resolve.py:15-16), and "unknown" is for a host that cannot be
\* reached (commands/deploy.py:173-174): when deploy skips a step, the host has answered
\* the probe.
SkipIsProven ==
  [][\A i \in DOMAIN Steps :
       Len(run'.actions) = i /\ Len(run.actions) = i - 1 /\ run'.actions[i] = "none" =>
         link[Steps[i].host] = "answers"]_preflightVars
=============================================================================
