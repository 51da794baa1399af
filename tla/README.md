# Local-81 in TLA+

Local-81 is a push-based deployment tool. One control node keeps a project's
configuration and history under `.local81/`, plans what its servers lack, and
carries the plan out over `ssh` and `rsync`. This directory holds TLA+ modules of
its core, the TLC configurations that check them, and proofs of their main
properties. Source paths below are relative to `src/src/local81/`.

## 1. The system

### Components

| component | state it keeps | operations | what makes it correct |
|---|---|---|---|
| fleet scheduler (`fleet.py`, runner in `commands/deploy.py`) | outcome of every host, failures so far, aborted | batch, submit to a pool, collect, stop at the threshold | batches are barriers; failures stay within what `--serial` and `--max-fail` allow; every host ends decided; a skipped host was never touched |
| scope executor (`commands/deploy.py`: `_deploy_scope_steps`) | step records, undoable steps, exit code; on the target: files and their backup slots | gate, run, collect, failure hook, roll back, skip the rest | records say what happened; failures stop what they must; exactly the prior successes are undone; nothing runs on a dry run |
| audit ledger (`ledger.py`, `commands/audit.py`) | `.local81/audit/ledger.jsonl`, one line per deploy | append, verify, emit a receipt, prove an entry | no false alarm, no missed alteration, no lost entry |
| Merkle tree (`ledger.py`) | none | root, inclusion proof, verification | RFC 6962's root and paths for every length; a proof binds one entry |
| planning (`commands/plan.py`, `plan_integrity.py`) | `.local81/plans/*.json` | select files newer than the last success, bake in their sha256, write the plan | what a server lacks is selected sooner or later |
| scope state (`state.py`, `commands/deploy.py`: `_update_scope_state`) | `.local81/state/<scope>.json` | read, stamp | stamped only over servers that are up to date |
| deploy run (`commands/deploy.py`: `run_deploy`) | run directory, `run.json`, `run.log`, host logs, exit code | hooks, hosts-file mode, fleet mode, record, ledger, notify | the record, the state and the exit code agree with what was done |
| desired-state gate (`resolve.py`, `facts/`, `ops/`) | none | probe, diff, decide to skip | skips only what is as the plan wants it; doubt means "run" |
| preflight and drift (`commands/deploy.py`: `run_check`; `execution_safety.py`) | none | validate a plan, report drift | writes nothing; refuses what cannot run |
| rollback of a recorded run (`rollback.py`, `commands/rollback.py`) | a new run directory | classify recorded steps, run the undo commands in reverse | undoes what the run did, once, last first |
| run retention (`commands/gc.py`) | run directories | keep by count, drop by age | never drops a run it should keep |
| scheduling (`scheduling.py`, `commands/schedule.py`) | schedule definitions, wrappers, systemd units | add, remove, list, render | wrapper, unit and definition agree; one run at a time |
| onboarding (`onboarding.py`, `commands/onboard.py`, `commands/keys.py`) | keys, reports | probe, classify, copy keys, provision | a host is called ready only when it is |
| policy (`policy.py`) | none | evaluate rules on a plan | a denied plan never runs |
| sealed logs (`log_safety.py`, `commands/{scan,logs,pull_logs,diag}.py`) | manifests, sanitised copies | pull, scan, seal, verify | what is shown is what was sealed |
| secrets (`secrets/`) | values resolved by this process | resolve, scrub | no resolved value reaches an artifact |
| connectors (`connectors.py`, `runner.py`, `ssh.py`, `become.py`) | none | run one command, copy one file, with a timeout | the exit code says what happened |
| hooks, notifications (`hooks.py`, `notifications.py`) | none | run a command, send a request | best effort: never changes the result |
| configuration, models, profiles (`config.py`, `models.py`, `profiles.py`, `commands/{init,guided,profiles}.py`) | `.local81/config.ini` | read, validate, write | reads back what it wrote |
| history and inspection (`commands/{status,history,diff,pull}.py`) | none | read and report | reports what is recorded |
| database operations (`db/`) | artifacts per operation | start one external tool, redact | – |
| compliance scanners (`compliance/`) | reports | match patterns in files | – |
| user interfaces, recipes, doctor, command line (`ui/`, `recipes/`, `commands/{ui,doctor}.py`, `cli.py`) | generated files | render, check, parse | – |

### How they interact

`plan` reads the configuration and the scope state, discovers files and writes a
plan. `deploy` reads a plan, validates it, makes a run directory, runs the
pre-deploy hook, and then executes: in fleet mode the scheduler calls the scope
executor once per host in threads of a pool; with `--hosts-file` the scopes run
once per host; otherwise the scopes run one after the other. The scope executor
asks the gate before each step, runs the step's command through the runner, and
on a failure runs hooks and rollback commands. Afterwards `deploy` stamps the
scope state, writes `run.json`, appends one entry to the ledger and notifies.
Everything else meets through the files: `rollback`, `gc`, `status` and `history`
read run directories, `audit` reads the ledger, the next `plan` reads the state.

There is no lock on any of these files and no daemon: concurrency is a pool of
threads within one deploy, and several commands on one control node at a time.

### What is hard

* threads of a pool that finish in any order while plan order decides records,
  rollbacks and batches;
* failures in the middle: of a step, of a batch, of a host, of the process, of a
  write;
* decisions on evidence that grows old: a plan kept for later, a probe before a
  push, a backup slot of an older run, a timestamp taken at the end;
* several commands that read and write one file.

`PROJECT.json` lists these hazards one by one, each at its line and with the
properties that would catch it.

## 2. The modules

| module | of | extends or refines |
|---|---|---|
| `RollingRollout` | what `--serial` and `--max-fail` promise, without a scheduler | – |
| `Fleet` | `run_fleet`, its pool, and the runner's outcomes | implements `RollingRollout` |
| `ScopeUnit` | what its callers take one call of `_deploy_scope_steps` for | – |
| `ScopeDeploy` | one scope or host group: gate, pool, failure handler, rollback | implements `ScopeUnit` |
| `DeployModes` | `run_deploy` around these: early returns, three modes, hooks, stamps, run.json, ledger, notification, exit code | – |
| `IncrementalPlan` | the cycle of plan, deploy and stamp for one scope | – |
| `Ledger` | deploys appending to the ledger while it is verified, emitted, torn and altered | – |
| `Merkle` | the tree, its proofs and their verification | reference in `MCMerkle`: RFC 6962 as a recursive operator |
| `RunStore` | the run directories: deploys, `gc`, rollback of a recorded run, `history`, `status` | – |
| `Config` | what `validate_config` accepts and what the loaders and the access policy make of it | – |
| `Setup` | the configuration that `guided` and `init` write | extends `Config` |
| `Gate` | probes, facts, diffs: how a step comes to its action | – |
| `Preflight` | `deploy --check` and `deploy` over one plan, configuration and targets that change | extends `Setup` and `Gate` |
| `Schedule` | `schedule add` and `remove`, timers, wrappers, locks | – |
| `Onboard` | `onboard` and `keys`, several operators | – |
| `SealedLogs` | captures, manifests, `scan`, `logs --host` | – |
| `Fleet_proofs`, `ScopeDeploy_proofs`, `DeployModes_proofs`, `IncrementalPlan_proofs`, `Ledger_proofs`, `RunStore_proofs`, `Schedule_proofs`, `SealedLogs_proofs` | theorems for every value of the constants | extend their module; `Fleet_proofs` also `Onboard`, `DeployModes_proofs` also `Preflight`, `Ledger_proofs` also `Merkle` |
| `MC…` | the instances that TLC checks | extend their module |

The modules are composed through what they hand to one another. A host in `Fleet`
and a unit in `DeployModes` end with a code, and how a unit comes to one is
`ScopeDeploy`, which implements `ScopeUnit`: commands one after the other, then one
code, 1 exactly if the command of a step failed, and nothing afterwards or on a dry run; `ScopeDeploy` and `IncrementalPlan` skip what is converged, and how
the gate finds that out is `Gate`; `RunStore` has two deploys where `DeployModes`
has one with everything around it.

Operators marked `Fault:` are not part of the model: each is a small, plausible
bug in the operator that follows it, kept beside it to show which property
notices it (`mutants` in `PROJECT.json`). `Onboard`, `Preflight` and `Merkle` share
a module of proofs with another component, and carry their name in `Init`, `Next`,
`Spec`, `TypeOK` and `vars` (`OnboardInit`). A `TypeOK` is stated for the modules that
have more than a few types; the runs spend their time on the other properties, and
the proofs establish `TypeOK` where there are proofs.

### `Fleet` and `RollingRollout`

Hosts are numbered in plan order, so a batch is an interval and the result list a
prefix. `StartBatch` is one turn of `run_fleet`'s loop up to the pool, `Begin` a
thread taking the oldest future, `Finish` the runner's return (`classify` of the
exit code and the pushed files), `Crash` the exception that `_safe_run` turns into
a failed outcome without step records, `CloseBatch` the end of the loop's body,
`Abort` the loop's early exit. `--serial` and `--max-fail` are parsed by
`ParseSerial` and `ResolveCount`: percentages round up, 0 or less means all hosts
or the default.

`RollingRollout` says the same without pools and queues: a wave is admitted when
everything admitted has finished and the failures are under budget. `Fleet`
implements it with `admitted <- 1 .. submitted`.

### `ScopeDeploy`

A step is `Begin` (gate) and `Run` (command), so that the probe and the command
are two moments between which other threads act. `Submit`, `Join`, `CollectOk`,
`CollectFailed`, `NextBatch` and `Return` are the loop of `_deploy_scope_steps`,
for single steps and for runs of parallel steps; `FailureHook`, `Restore` and
`PlanHook` are `_handle_step_failure` with `_run_rollbacks`. On the target each
object has a version and a backup slot, because `rsync --backup` keeps one older
copy and a rollback command copies it back. A command may fail after it did its
work, which is also what a timeout looks like. `trace` records the commands that
really ran; the properties compare it with the records.

### `DeployModes`

`Input` is the command line with what surrounds it: whether the plan exists and
parses, whether the policy allows it, the hooks' codes. `Refuse` stands for all
early returns before anything is written, `OpenRun` makes the run directory,
`PreHook` may end the run. `RunUnit` is one call of `_deploy_scope_steps`, in the
loop or in a thread; `Take` is the loop taking up one result, `Propagate` the
exception of a unit that raised, `LoopEnds` and `FleetReturns` what follows. With
`--hosts-file --parallel --fail-fast` the loop leaves at the first failure, but the
executor's `with` block waits for the pool: units run on and their results are
dropped, which `ReportIsHonest` names as its exception. `Kill` ends the command anywhere.
A scope may have no step: with a hosts file such a plan has no units and its run ends
with 0, while a fleet without hosts is recorded as a run that failed.

### `RunStore`

A directory is named by the second in which its command began, so two deploys can
share one. `HostLog` and `Record` are the two kinds of write: the first fails when
`gc` removed the directory, the second makes it again. `Gc` lists the directories
with their ages and `RemoveDir` removes them one at a time. A rollback classifies
the steps of the record it found (`Restores`) and undoes them last first (`Restore`). `before`,
`stale` and `pruned` are history variables used in properties.

### `Schedule`

`WriteFile` and `UnlinkFile` do one of the four files at a time; `CliKilled` stops
between two, or in the middle of a definition. `Install` and `Disable` are the
operator's, following the hint that `schedule add` prints. `Fire` starts what the
wrapper says now, under `flock -n` on a lock file that `flock` makes when it is
missing; a lock file that is removed and made again is another one, which `lock`
counts. `cut` names the schedules whose last command was killed half way.

### `Onboard`

A key pair is a number. A command goes through its key (`Inspect`, `Generate`,
`Tighten`), probes its hosts one by one, copies the key to those whose probe could
not log in, and reports. `Code` is computed from the probes taken before the copies,
so a host that was just given the key still makes the command fail and the next one
succeed; the comment at `onboard.py:133-134` reads as if it were the state after the
attempt. `First` and `Named` are the hosts of a command line without repetitions, as
`parse_host_list` keeps them; `ToCopy` are those that get the key. Hosts change and keys are lost
until `Settle`.

### `SealedLogs`

A capture writes its files, lists the directory, hashes each file and writes the
manifest; a scan hashes, writes, verifies, then reads each file and takes the maximum of
the codes; a read takes the text and the manifest entry in two steps. `First` is the file
that is hashed next, in the order of the listing. `Calm(r, x)` says
that nothing touched file `x` while `r` was at work. A read compares with its entry and not
with the root: whoever edits both is noticed by `scan --verify` only.

### `Config` and `Setup`

A configuration is a function from cells to classes of values. `IniFaults` and
`YamlFaults` are the findings of `validate_config`, `LoadRaises` what makes
`load_config` raise, `DatabasesRaise` the same for the database targets, `Policy`
what `load_access_policy` reads, `Blocked` whom and what it refuses. `Guided` is the
interview with its retries and defaults, `Converted` the import of a legacy file.

### `Gate` and `Preflight`

A probe is what a script prints: a function from keys to values, empty when the
host was not reached; it raises only when `ssh` or `docker` cannot be started at all.
`FileAction` … `PackageAction` are the diffs. `Preflight` runs the same
functions from `CheckProbe`, whose actions become errors and warnings in `Drift`, and from
`DeployGate` and `DeployRun`, which skip, run, and change targets. `EditConfig`,
`SetUp`, `TargetChanges` and `LinkChanges` may come between any two of these steps.

### `Ledger`

`append_event` is two actions, `Load` (read the file, remember length and last
hash) and `Write` (append), since nothing locks the file between them. `Tear` is a
write cut short, anywhere in the line; the next append continues that line, as
opening with mode `a` does. `EmitCount`, `EmitHead` and `EmitRoot` are the three
readings of `audit emit`. `EditLine` and `RemoveLine` do what the tests of the
ledger do to it. Hashes are the values they are computed from: two are equal only
if their inputs are, which is the assumption that SHA-256 has no collisions.
`edited`, `altered` and `overlapped` are history variables: they appear in
properties and in the guard that allows one alteration.

### `Merkle`

`Climb` is one turn of the loop in which `merkle_root` and `inclusion_proof` go up a
level, the second collecting the sibling. `VerifyInclusion` and `Fold` are
`verify_inclusion`: it starts with the leaf of any entry (`claimed`) and folds the
siblings in one by one. `MTH` in `MCMerkle` is the definition of RFC 6962, section 2.1.

### `IncrementalPlan`

`MakePlan` selects files by mtime and bakes in their content; `Push` is one rsync
step behind the gate, which compares the server's content with the plan's and
ships what the source has now; `End` stamps `last_success` with the time of the
end, only after a live deploy without failures; `Kill` may leave a state file that
does not parse, which is read as no state. Time is in whole seconds, as the stamp
is; a file written in the second of the stamp is newer, as an mtime's fraction
makes it. `outdated` and `raced` are history variables that name the conditions
under which the cycle is complete.

## 3. The runs

Bounds are the constants in each `.cfg` and the definitions of the `MC` module.

| run | instance | shows |
|---|---|---|
| `fleet` | 4 hosts, 196 command lines: forks 0, 1, 2, 5; serial and max-fail absent, 0, 1, 2, 7, negative, 0 %, 50 %, 100 % | blast radius, honest skips, termination, refinement |
| `scope_deploy` | every scope of 3 steps out of 5 kinds over 2 objects, 9 command lines, 4 targets, pools of 1 and 2 | records, order, fail-fast, rollback, termination |
| `deploy_modes` | 2 scopes over 3 hosts, one in both, and 1 without steps; slices of command lines per mode, codes 0 to 2 | exit code, record, stamps, notification, termination |
| `incremental_plan` | 2 files, 2 servers, 3 seconds, 2 versions, 2 plans, any number of deploys | nothing is forgotten except after the races it names |
| `ledger` | 3 deploys, 1 receipt, 1 alteration | no false alarm, detection, the head commits, termination |
| `merkle` | every entry of every ledger of up to 20 entries | the root is RFC 6962's and a proof binds its entry |
| `run_store` | 2 deploys of 2 steps, one by fleet, on a target with an old backup; 2 seconds, 2 rollbacks, gc with `keep 1` and with `keep 2, age 0` | no record is lost, gc spares the newest, rollback undoes, readers agree |
| `schedule` | 1 name, 2 definitions that are accepted and 1 that is not, 3 commands | no overlap, files of one definition, what is listed is started |
| `onboard` | 2 operators, 2 hosts, 1 key path, 2 generated keys | ready means ready, nothing is overwritten, onboarding ends |
| `sealed_logs` | 1 host with 2 files, a pull and a diag, 4 kinds of scan, 1 edit | edits show, labels hold, the worst code wins |
| `preflight` | each operation on each state of its target, plans of up to 2 steps, every configuration one edit away from a complete one, 2 commands, up to 2 changes | validated loads, check forecasts, deploy delivers, second pass is quiet |
| `gate_skips_unproven` | the same | a counterexample, see section 5 |

Why the bounds are enough. Four hosts give batches of 1, 2 and 4 with a remainder,
a threshold that is met inside, at the end of and beyond a batch, and percentages
that round. Three steps give a batch of two beside a single step on either side,
two writers of one object, and a failure before, in and after a parallel run. Two scopes
with a host in common and one without steps make units of the three modes differ, leave one scope
unstamped beside one that is stamped, and give a pool with a unit still running when another
fails. Three deploys give an append onto a torn line with an overlap going on; the
alteration can hit a first, middle or last line. Twenty leaves pass four powers of
two and promote a lone node on several levels in one climb. Two files and two
servers are the least at which "some but not all" is possible on both sides; three
seconds separate before, at and after a stamp. Two deploys within two seconds share a
name or follow one another, and write the backup slot of one object in turn; a
second rollback undoes the first one's run again. Three commands of a schedule are two
with a change of the schedule in between and one more that would overlap; names
share no file, so that one is enough. A repeated host, a host that the agent's key
opens and one that it does not are all that `onboard` tells apart. A manifest over two
files can have one altered and the other missing or new. A configuration's checks
are of single cells, and each is edited in turn from a complete file. Files and
servers are interchangeable in `IncrementalPlan`, whose run checks safety only, so
symmetry is sound.

Deadlock is not checked where a command line ends in a last state (`DeployModes`,
`RunStore`, `SealedLogs`, `Preflight`).

Fairness. `Fleet`, `ScopeDeploy` and `DeployModes` assume that threads and the
command keep running and that a command that was started ends. For steps the code
enforces this with `--step-timeout`; rollback commands and hooks run without a
timeout, so for those it is an assumption about the operator's commands. `Ledger`
assumes that a deploy which is not killed goes on to its append. `Onboard` assumes
that commands go on, that `ssh-keygen` succeeds if tried again and again, and that an
operator comes back with `onboard --execute`; strong fairness, because between two
of these another command can be at work on the same key. Nothing forces a kill, a
crash, a failure, an edit or a torn write to happen. The others state safety only:
nothing obliges an operator to plan, capture or schedule again.

## 4. What is proved

| theorem | says, for every value of the constants |
|---|---|
| `Fleet_proofs!SchedulerCorrect` | the scheduler invariant |
| `Fleet_proofs!BlastRadiusHolds` | at most `Budget - 1 + Serial` hosts fail |
| `Fleet_proofs!RollingOrderHolds`, `SkipsReportedHolds`, `SkippedNeverTouchedHolds`, `NoStartAfterBreachHolds` | barriers, honest skips, no start after the threshold |
| `Fleet_proofs!FleetImplementsRollingRollout` | the refinement, step by step |
| `ScopeDeploy_proofs!RecordsAreTrue`, `InPlanOrder` | one record per step, in plan order, each true, however the pool interleaves; only steps of one parallel run overtake each other |
| `ScopeDeploy_proofs!StopsAtFailure` | under `--fail-fast` nothing runs after a failed batch |
| `ScopeDeploy_proofs!UndoesExactlyPrior`, `RestoresFirstVersion` | a rollback undoes the prior successes, once, last first, and brings back the first version |
| `ScopeDeploy_proofs!ScopeImplementsUnit` | the refinement: one return, whose code tells whether a step's command failed; no command on a dry run, and none after the return, in no thread |
| `DeployModes_proofs!ReportsHonestly` | exit code, `run.json` and what ran agree, in every mode, for every early return, hook and kill |
| `DeployModes_proofs!StampsEarned`, `FailuresNotified` | stamps are earned for good; failures are notified |
| `IncrementalPlan_proofs!NothingForgottenHolds`, `FreshPlanSufficesHolds`, `DoneIsDeliveredHolds`, `CompleteAtStampHolds` | the planning cycle is complete |
| `Ledger_proofs!ChainedHolds` | an unaltered ledger of runs that do not overlap is a chain |
| `Ledger_proofs!NoFalseAlarmHolds`, `ReceiptOrderedHolds` | consequences of the chain |
| `Ledger_proofs!EditDetectedHolds`, `RecordedOnceHolds`, `HeadCommitsHolds` | alterations stay visible, entries are not lost, the head commits to everything, under any interleaving |
| `RunStore_proofs!KeepsRecords`, `ReadersAlwaysAgree` | the record of an ended deploy stays what it wrote; the readers agree |
| `RunStore_proofs!SparesNewest` | `gc` keeps the newest, for every policy |
| `RunStore_proofs!RollbackBringsBack` | a clean rollback brings back what the run found |
| `Schedule_proofs!NoOverlapHolds` | commands of one schedule never overlap |
| `Schedule_proofs!EndsCoherentHolds`, `StartsWhatIsListedHolds` | an ended add or remove leaves one definition or none; timers start what is listed |
| `Fleet_proofs!ReadyIsReady` | exit 0 of `onboard --execute` means that every named host was found ready and the key was there, whoever else is at work |
| `Fleet_proofs!AddsOnlyWhatIsMissingHolds` | no command replaces a key that is there, or authorizes anything but its key on a named host that did not let it in |
| `DeployModes_proofs!AcceptedLoads` | a configuration that validation accepts loads, outside the cases of section 5 |
| `DeployModes_proofs!PassedForecasts` | a check that passed forecasts the deploy after it, if nothing it depends on changed |
| `DeployModes_proofs!FinishedDelivers`, `LeftIsQuiet` | an undisturbed deploy without failures leaves its targets as the plan wants them, and a second pass finds them converged |
| `Ledger_proofs!ProofBindsHolds` | in a ledger of any length the proof of an entry verifies for its leaf and for no other |
| `SealedLogs_proofs!VerifyFinds`, `LabelsAreTrue`, `WorstCodeWins` | a verification tells the sealed directory from any other, labels are true, the worst code wins |
| `TypeCorrect`, and `OnboardTypes`, `PreflightTypes`, `MerkleTypes` | type correctness; where there is no `TypeCorrect`, `Invariance` contains it |
| `Invariance`, and `OnboardInvariance`, `PreflightInvariance`, `MerkleInvariance` | the inductive invariant of the component |

Some of these (`SchedulerInv`, `RollingOrder`, `SkippedNeverTouched`,
`NoStartAfterBreach`, `Chained`, `ReceiptOrdered`, `RecordedOnce`,
`CompleteAtStamp`, `TypeOK`, the `IInv` of each module) are not repeated by a run: the
proof covers more than the instance would.

### Assumptions

Every assumption on constants is named in the module that declares them and
evaluated by TLC in its run. Most are types: numbers of hosts, options (any integers),
plans as sequences of steps, command lines, targets, contents, and that a placeholder such as "nobody" is no value. Some say more.
`Schedule!DefsAssumption`: no definition is the absent or the torn one.
`RunStore!StepsAssumption`: a plan has one step per object, as `plan` makes one rsync
step per file and server; two writers of one object within a run are `ScopeDeploy`'s
subject. `SealedLogs!ContentsAssumption`:
no content is the absent one, and the note in an error file is a content.
`Preflight!WorldsAssumption` and `ConfigsAssumption`: configurations are `HandWritten`, so that
every cell holds a class it can hold, and a target is one that its step can meet (`Fits`).
`Onboard!PathsAssumption`: the configured key path is one of the paths, and the agent's hosts are
hosts. `Ledger` has none.

Some theorems carry conditions in the property itself (`Calm`, `stale`, `pruned`,
`overlapped`, `outdated`, `raced`): those name the races that the code leaves open, and
the theorem says that nothing else goes wrong.

### Arguments

Each safety property follows from an inductive invariant, usually called `IInv`, a
conjunction of named parts, with a lemma for each part that assumes the other parts it
leans on and goes through the actions, alone or in groups of like ones.

*Fleet*: `SchedulerInv` says for each position of the scheduler what is
known of every host (before, in and after the batch) and that `failures` counts the
failed hosts reported so far; the other safety properties follow from it, except
`BlastRadius`, whose proof also bounds the failures inside the current batch by its
size.

*ScopeDeploy*: `Position` places the loop: the steps up to `last` have been handed
out, those before `cursor` are recorded, and a batch of more than one is a run of parallel
steps (`BatchEnds` finds its end). `Told` says that a command is in the trace at most
once, and exactly if its step ended without being skipped or dry; that is what makes the
records, which are taken from results, true of the trace. `Contained` is why fail-fast holds:
whenever a batch may start, nothing has failed. `Undone` is the core of the rollback: what is
restored and what is still to be restored are together the successes before the first
failure, and every step still to be restored lies before each one restored, so that no step
comes twice. `Saved` relates target and trace: the backup slot of an object holds the
first version as long as every command on it was an undoable push, because a second push of
what is there already makes no backup. The refinement of `ScopeUnit` needs `Position` (when
the loop is over, no step of a pool is at work) and `Told` (a record is the trace's).

*DeployModes*: `ReportIsHonest` alone fails at the step in which the loop ends, which
knows only `overall_rc`. `CodeOfTaken` says whose code that is while the loop goes on,
`OneByOne` that without a pool no unit but the current one can have ended unseen, `Counted`
what is left of both afterwards. `Earned` says that what is about to be stamped has earned it
already, and that no later step can take it back. `PickedMembers` (a filtered list has the members
that were picked) is what the lists of scopes, hosts and aliases rest on.

*IncrementalPlan*: `NothingForgotten`, `FreshPlanSuffices` and
`DoneIsDelivered` are inductive only together: a stamp is safe because the
deploy's plan had all that was missing and each pair it is done with was delivered.

*Ledger*: `NoFalseAlarm` alone is not inductive, since a run may have read a
last line that is no longer last; `Chained` adds that only one run is about to
append, that it has seen the last line, and that what a receipt has read are
prefixes. Alteration needs another invariant: the altered line leaves a scar, an
index or a leaf hash that does not fit, that an append cannot heal. `RecordedOnce`
needs that a run has no line before it writes. `HeadCommits` is no invariant
argument: the first line whose hash does not cover all before it would not fit its
predecessor.

*RunStore*: `Recorded` and `Kept` say of every directory whose record it holds, and of
every ended deploy where its record is; `Homed` that a running deploy lacks its directory
only if `gc` took it. `Held` and `Undone` are the rollback: as long as nobody else has written an
object, it holds the deploy's version or the one before, and the slot the one before; and what a
rollback without failures has done is back. They hold for the second rollback of a run as
well, because a restore leaves the slot as it is. `Chosen` says that what `gc` still has to
remove it has chosen, and from what it listed.

*Schedule*: `FilesInv` says which files a command at work has done (those before
`at`, in an order that misses none), so that the last write makes the four agree
whatever was there; `LockInv` that a command which runs holds the lock file that is
there, which is what keeps a second one out and which no action breaks because
nothing removes a lock file.

*SealedLogs*: a scan looks at one file after the other, so that what it concludes is
about several moments. `Loaded` says that, file by file, what it has hashed or has still
to hash is what is there, unless the file changed since it began (`Noted`: no change goes
unnoted); when nothing is left to hash this becomes the `Verdict`, by `VerifyTells`, which needs
that a root has one digest of a file (`Unique`). `Rated` keeps the code, `Labelled` what a
read has in hand.

*Onboard*: `Sound` says at each place of a command what it has probed and copied: nothing
before it has its key, each named host probed at most once, all of them before the first
copy, copies only to hosts whose probe could not log in, and never "ready" without a login.
It speaks of the command's own record alone, so that no step of another operator, and no
change of a host, can break it; `ReadyMeansReady` is about that record for this reason.
A command that has not probed every named host has a first one among the rest, since the
places of a host in a list have a least one.

*Preflight*: the invariant follows the parts of a check's promise. `Placed` ties the
position to what is noted, `SoFar` says what an unfinished check has seen, and `Vouched` that
it stays seen: what is unchanged since then only a deploy can have touched, and a deploy
makes no drift, because a command that changes its target brings it to what its step wants
(`BroughtIsNoDrift`). `Settled` says that what a command has left is found converged by every
later probe, and `Delivering` that a deploy nobody disturbs is right about the steps it is
done with, by the lemma that a probe which answers and finds no difference has
found what is wanted. That a valid configuration loads is a case distinction over the cells.

*Merkle*: `ProofBinds` speaks of the end of a verification only. `MerkleInv` has a witness
for the way there: a path of hashes from the entry's leaf to the node of the climb, each the
join of the one before with a collected sibling. What is folded lies on that path at its own height exactly if it started
there (`Follows`), because a join with one sibling keeps different hashes apart
(`JoinInjective`), which is where the absence of collisions is needed.

### Only model-checked

The liveness properties (`EveryHostDecided`, `Finishes`, `DeploysEnd`, `DeployEnds`,
`OnboardingEnds`), which fairness puts out of the prover's reach, and `RootIsMTH`, whose
reference is recursive: what it says of every length would be an induction over data.

## 5. Where code and documentation disagree

`gate_skips_unproven` ends in a counterexample. The gate treats a probe as failed
only when it raises (`resolve.py:61`, `resolve.py:102`). The connectors return a nonzero code and no
output for a host that cannot be reached, and no output parses as an absent,
stopped, disabled target; a step that wants a service stopped and disabled is then
skipped on a host that nobody reached. The docstring says the gate "can only ever skip
work it has positively proven" (`resolve.py:14-16`), and `deploy.py:173-174` calls
this case `unknown`. A package that is to be absent is skipped in the same way, also
on a host whose package manager is neither `dpkg` nor `rpm`.

The following were met while modelling. Where a property holds only outside such a
case, the property or its comment names it as its condition.

* `--rollback-on-failure` restores the backup of a step the gate had skipped as
  converged, so that a file this run never wrote can go back in time
  (`deploy.py:568`); the rollback of a recorded run skips such steps
  (`rollback.py:43-44`, `docs/rollback.md:33`).
* Only rsync steps count as changes, so a run whose other steps changed the target
  is reported `unchanged` (`docs/fleet.md:50`).
* Two deploys that append to the ledger at once leave one that `audit verify` calls
  tampered (`docs/audit-ledger.md:33`); after a torn write it ends with an exception
  instead of a verdict and no later deploy is recorded (`docs/audit-ledger.md:12-13`);
  deploys pass no signer, so with `--hmac-key-ref` every ledger fails at its first
  entry (`docs/audit-ledger.md:40-41`).
* `last_success` is the time at which the deploy ends, so a file edited between plan
  and end is not selected again; a deploy limited to some servers stamps the whole
  scope, and the others are not served by later plans.
* With a pool, a step of the failed batch that succeeded but comes later in the plan
  is not rolled back (`docs/commands.md:96` promises the successful prior steps).
* A plan deployed after an edit ships the file of now, whose sha256 never matches
  the plan's, so that a second deploy ships again (`docs/desired-state.md:48-50`).
* A static systemd unit that is to be enabled is never found converged.
* Validation and loading differ: an INI file with a bad database engine and a YAML
  file with a section that is not a mapping pass `validate_config` and raise later,
  after a check has passed. A YAML `access` section is not enforced at all. A plan without scopes
  passes the check and is refused by deploy. The check ignores `--profile` and the
  secret that a plan's `become` refers to.
* `guided` answered with separators only, or run in `/`, and `init` on a legacy file
  with blank values write configurations that validation refuses. `init` writes
  `allow_remote_cmd = false`, and looks only for `config.ini`, so that what it writes
  shadows an existing `config.yaml`.

## 6. Not modelled

Left out for good: formatting and layout of reports, the text of units, wrappers and
command lines, stdout, stderr and durations; secrets (parsing of references, calls of
external stores, a scrubber of strings), compliance scanners, database operations
beyond their configuration, user interfaces, recipes, doctor and argument parsing,
which keep no state that several steps or actors share; the tools outside the
repository (`ssh`, `rsync`, `systemd`, `flock`), of which only the outcomes appear.
A model of these could only repeat them.

Left out of modelled parts: mkdir steps and git workspaces in planning; the merge of
profiles; the scope states that `guided` and `init` reset, which only leads to more
work; warnings of `execution_safety` and of a plan's provenance, which change no
verdict; `diff` and `pull`, which are single transfers.

Worth proving next: that a host of `Fleet` and a unit of `DeployModes` go through the
states of a `ScopeUnit` inside, so that the trace of a whole deploy can be spoken of; and,
with a prover that has induction over data, `RootIsMTH` for ledgers of any length.
