---------------------------- MODULE DeployModes -----------------------------
(***************************************************************************)
(* commands/deploy.py: `run_deploy` from its command line to its exit      *)
(* code: the early returns, the run directory, the pre-deploy hook, the    *)
(* ways to go through a plan (scope by scope, the hosts of a hosts file    *)
(* one by one or in a pool, a fleet in rolling batches), the scope states  *)
(* it stamps, run.json, the ledger, the notification and the post-deploy   *)
(* hook.                                                                   *)
(*                                                                         *)
(* A unit is what one call of `_deploy_scope_steps` runs: a scope, or a    *)
(* host's group of steps.  ScopeDeploy shows how a unit comes to its       *)
(* outcome and Fleet how the batches of a fleet are formed; here a unit    *)
(* ends with any exit code, or raises, and a fleet may stop early once a   *)
(* host has failed.                                                        *)
(***************************************************************************)
EXTENDS Integers, Sequences, FiniteSets, SequencesExt

CONSTANTS
  Hosts,
  Plan,      \* [scopes, steps]: the scopes in order, and the steps of one after
             \* the other, each [scope, host]; a scope may have none
  Inputs     \* command lines, and what surrounds them

Scopes == ToSet(Plan.scopes)
Codes == 0 .. 2
Raised == -1

\* planFound, allowed: the plan file exists, the access policy has no FAIL.
\* readable: plan, configuration and hosts file parse, and the secret that the
\* plan's `become` refers to resolves.
\* scope: --scope, "" without.  limit: the hosts the glob matches, all of them
\* without --limit; fleet: one of --forks, --serial, --max-fail, --limit is
\* there.  byFile: --hosts-file, with the entries hostsFile [alias, names].
\* pre, post: the hooks' codes.
Input == [planFound : BOOLEAN, allowed : BOOLEAN, readable : BOOLEAN, scope : Scopes \union {"", "other"},
          dryRun : BOOLEAN, failFast : BOOLEAN, fleet : BOOLEAN, limit : SUBSET Hosts,
          byFile : BOOLEAN, hostsFile : Seq([alias : Hosts, names : SUBSET Hosts]),
          parallel : BOOLEAN, maxParallel : Nat, pre : Codes, post : Codes,
          quiet : BOOLEAN, onSuccess : BOOLEAN]

ASSUME PlanAssumption == Plan \in [scopes : Seq(STRING), steps : Seq([scope : Scopes, host : Hosts])]
ASSUME InputsAssumption == Inputs \subseteq Input

VARIABLES
  input,
  pc,        \* where the command is
  order,     \* the units of the run, in order
  outcome,   \* outcome[u]: what the unit u that has ended came to
  results,   \* the units the command has taken up, in order
  rc,        \* overall_rc
  stopped,   \* the loop over the results was left early
  stamps,    \* scopes still to stamp
  stamped,   \* scopes whose state names this run as a success
  runDir,    \* the run's directory: "none", "started", "recorded"
  record,    \* run.json
  ledger,    \* the event of this run in the audit ledger
  notified,  \* the notification sent: "none", "success", "failed"
  exit       \* the exit code

vars == <<input, pc, order, outcome, results, rc, stopped, stamps, stamped, runDir, record,
          ledger, notified, exit>>
Running == -2
Killed == -3
NoRecord == [rc |-> Running, units |-> <<>>]

TypeOK ==
  /\ input \in Inputs
  /\ pc \in {"check", "hook", "units", "stamp", "record", "ledger", "notify", "post", "end"}
  /\ order \in Seq(Scopes \union Hosts)
  /\ DOMAIN outcome \subseteq ToSet(order) /\ \A u \in DOMAIN outcome : outcome[u] \in Codes \union {Raised}
  /\ results \in Seq(Scopes \union Hosts) /\ ToSet(results) \subseteq DOMAIN outcome
  /\ rc \in Codes /\ stopped \in BOOLEAN
  /\ stamps \subseteq Scopes /\ stamped \subseteq Scopes
  /\ runDir \in {"none", "started", "recorded"}
  /\ record.rc \in Codes \union {Running}
  /\ ledger \in {"none", "appended"} /\ notified \in {"none", "success", "failed"}
  /\ exit \in Codes \union {Running, Killed}

Init ==
  /\ input \in Inputs
  /\ pc = "check" /\ order = <<>> /\ outcome = <<>> /\ results = <<>>
  /\ rc = 0 /\ stopped = FALSE /\ stamps = {} /\ stamped = {}
  /\ runDir = "none" /\ record = NoRecord /\ ledger = "none" /\ notified = "none"
  /\ exit = Running

-----------------------------------------------------------------------------
\* The members of seq at the positions K, in their order.
Picked(seq, K) ==
  [n \in 1 .. Cardinality(K) |-> seq[CHOOSE k \in K : Cardinality({j \in K : j <= k}) = n]]

Distinct(seq) == Picked(seq, {i \in DOMAIN seq : \A j \in 1 .. i - 1 : seq[j] # seq[i]})

\* The scopes of the plan that --scope leaves, and their steps.
Chosen == Picked(Plan.scopes, {i \in DOMAIN Plan.scopes : input.scope \in {"", Plan.scopes[i]}})
Planned == {j \in DOMAIN Plan.steps : Plan.steps[j].scope \in ToSet(Chosen)}

\* _group_steps_by_host: those of the hosts that a step names, in the order in
\* which the steps name them.
Groups(hosts) ==
  Distinct(Picked([j \in DOMAIN Plan.steps |-> Plan.steps[j].host],
                  {j \in Planned : Plan.steps[j].host \in hosts}))

\* A hosts file selects the groups of the hosts it knows by any name; when the
\* plan has none of them, every step is cloned for every host of the file.
Listed == UNION {e.names \union {e.alias} : e \in ToSet(input.hostsFile)}
FileGroups ==
  CASE Groups(Listed) # <<>> -> Groups(Listed)
    [] Groups(Listed) = <<>> /\ Planned # {} ->
         Distinct([i \in DOMAIN input.hostsFile |-> input.hostsFile[i].alias])
    [] OTHER -> <<>>

\* The three ways to go through the plan.
Mode == CASE input.fleet -> "fleet"
          [] ~input.fleet /\ input.byFile -> "hosts"
          [] OTHER -> "scopes"

Units == CASE Mode = "fleet" -> Groups(input.limit)
           [] Mode = "hosts" -> FileGroups
           [] Mode = "scopes" -> Chosen

Pooled == Mode = "hosts" /\ input.parallel /\ Len(order) > 1
Workers == IF input.maxParallel > 1 THEN input.maxParallel ELSE Len(order)

\* The early returns: no plan file, no matching scope, blocked by the policy,
\* a hosts file without hosts; what cannot be read ends in a traceback.
Refuses ==
  ~input.planFound \/ ~input.readable \/ Chosen = <<>> \/ ~input.allowed
    \/ (input.byFile /\ input.hostsFile = <<>>)

Refuse ==
  /\ pc = "check" /\ Refuses
  /\ pc' = "end" /\ exit' = 1
  /\ UNCHANGED <<input, order, outcome, results, rc, stopped, stamps, stamped, runDir,
                 record, ledger, notified>>

\* The run's directory and run.log are there before the first command runs.
OpenRun ==
  /\ pc = "check" /\ ~Refuses
  /\ pc' = "hook" /\ runDir' = "started"
  /\ UNCHANGED <<input, order, outcome, results, rc, stopped, stamps, stamped, record,
                 ledger, notified, exit>>

\* A pre-deploy hook that fails ends the command with the hook's code; a fleet
\* of no hosts is a failed run, recorded as one, whereas a hosts file goes on
\* without groups when no scope has a step.
PreHook ==
  /\ pc = "hook"
  /\ IF input.pre # 0
       THEN pc' = "end" /\ exit' = input.pre /\ UNCHANGED <<order, rc>>
       ELSE /\ order' = Units
            /\ IF Mode = "fleet" /\ Units = <<>> THEN pc' = "record" /\ rc' = 1
                                                 ELSE pc' = "units" /\ UNCHANGED rc
            /\ UNCHANGED exit
  /\ UNCHANGED <<input, outcome, results, stopped, stamps, stamped, runDir, record, ledger,
                 notified>>

-----------------------------------------------------------------------------
Ended(u) == u \in DOMAIN outcome
Taken(u) == Contains(results, u)
Failures == {u \in DOMAIN outcome : outcome[u] # 0}

\* Fault: leaving the loop cancels what the pool has not started.
MayRunUntilLeft(i) ==
  CASE Mode = "fleet" -> TRUE
    [] Pooled -> ~stopped /\ Cardinality({j \in 1 .. i - 1 : ~Ended(order[j])}) < Workers
    [] OTHER -> i = Len(results) + 1 /\ ~stopped /\ stamps = {}
\* Which unit may end next.  A pool starts its units in order and has Workers
\* of them at once; it also runs those it has when the loop is left.  A fleet
\* runs any.  One by one, a unit waits for the one before, and for its stamp.
MayRun(i) ==
  CASE Mode = "fleet" -> TRUE
    [] Pooled -> Cardinality({j \in 1 .. i - 1 : ~Ended(order[j])}) < Workers
    [] OTHER -> i = Len(results) + 1 /\ ~stopped /\ stamps = {}

\* A unit of a dry run changes nothing and does not fail.
RunUnit ==
  /\ pc = "units" /\ exit = Running
  /\ \E i \in DOMAIN order, o \in (IF input.dryRun THEN {0} ELSE Codes \union {Raised}) :
       /\ ~Ended(order[i]) /\ MayRun(i)
       /\ outcome' = [u \in DOMAIN outcome \union {order[i]} |->
                        IF u = order[i] THEN o ELSE outcome[u]]
  /\ UNCHANGED <<input, pc, order, results, rc, stopped, stamps, stamped, runDir, record,
                 ledger, notified, exit>>

\* Fault: a scope is stamped when its steps are over.
StampsAnyway(u) == Mode = "scopes" /\ ~input.dryRun
\* The scope that one call of _deploy_scope_steps has finished is stamped.
StampsNow(u) == Mode = "scopes" /\ ~input.dryRun /\ outcome[u] = 0

\* Fault: the code of the last unit, failed or not.
LastCode(u) == outcome[u]
\* overall_rc is the code of the last unit that failed.
NextCode(u) == IF outcome[u] # 0 THEN outcome[u] ELSE rc

\* The loop takes up a unit: in order, or as the pool completes them; under
\* --fail-fast it is left at the first failure.
Take ==
  /\ pc = "units" /\ Mode # "fleet" /\ ~stopped /\ stamps = {}
  /\ \E u \in DOMAIN outcome :
       /\ ~Taken(u) /\ outcome[u] # Raised
       /\ results' = Append(results, u)
       /\ rc' = NextCode(u)
       /\ stopped' = (outcome[u] # 0 /\ input.failFast)
       /\ stamps' = IF StampsNow(u) THEN {u} ELSE {}
  /\ UNCHANGED <<input, pc, order, outcome, stamped, runDir, record, ledger, notified, exit>>

\* A unit that raises ends the command with a traceback, once the pool has run
\* what it holds.
Propagate ==
  /\ pc = "units" /\ Mode # "fleet" /\ ~stopped /\ stamps = {}
  /\ \E u \in DOMAIN outcome : ~Taken(u) /\ outcome[u] = Raised
  /\ Pooled => \A u \in ToSet(order) : Ended(u)
  /\ pc' = "end" /\ exit' = 1
  /\ UNCHANGED <<input, order, outcome, results, rc, stopped, stamps, stamped, runDir,
                 record, ledger, notified>>

\* _update_scope_state after the loop, for the two modes that go by host.
StampsLater(code) == IF Mode # "scopes" /\ ~input.dryRun /\ code = 0
                       THEN ToSet(Chosen) ELSE {}

\* The loop is over: it was left, or every unit was taken up, and the pool has
\* run what it holds.
LoopEnds ==
  /\ pc = "units" /\ Mode # "fleet" /\ stamps = {}
  /\ stopped \/ \A u \in ToSet(order) : Taken(u)
  /\ Pooled => \A u \in ToSet(order) : Ended(u)
  /\ pc' = "stamp" /\ stamps' = StampsLater(rc)
  /\ UNCHANGED <<input, order, outcome, results, rc, stopped, stamped, runDir, record,
                 ledger, notified, exit>>

\* run_fleet returns: every host has ended, or the threshold was crossed and
\* the rest is reported as skipped.  A runner that raised is a failed host.
FleetReturns ==
  /\ pc = "units" /\ Mode = "fleet"
  /\ (\A u \in ToSet(order) : Ended(u)) \/ Failures # {}
  /\ pc' = "stamp"
  /\ results' = Picked(order, {i \in DOMAIN order : Ended(order[i])})
  /\ rc' = IF Failures # {} THEN 1 ELSE 0
  /\ stamps' = StampsLater(IF Failures # {} THEN 1 ELSE 0)
  /\ stopped' = (\E u \in ToSet(order) : ~Ended(u))
  /\ UNCHANGED <<input, order, outcome, stamped, runDir, record, ledger, notified, exit>>

\* Scopes are stamped one after the other.
StampScope ==
  /\ stamps # {}
  /\ \E s \in stamps : stamps' = stamps \ {s} /\ stamped' = stamped \union {s}
  /\ UNCHANGED <<input, pc, order, outcome, results, rc, stopped, runDir, record, ledger,
                 notified, exit>>

-----------------------------------------------------------------------------
\* _write_json of run.json, then the ledger, whose failures are swallowed.
WriteRecord ==
  /\ pc \in {"stamp", "record"} /\ stamps = {}
  /\ pc' = "ledger" /\ runDir' = "recorded"
  /\ record' = [rc |-> rc, units |-> results]
  /\ UNCHANGED <<input, order, outcome, results, rc, stopped, stamps, stamped, ledger,
                 notified, exit>>

RecordInLedger ==
  /\ pc = "ledger"
  /\ pc' = "notify" /\ ledger' \in {"none", "appended"}
  /\ UNCHANGED <<input, order, outcome, results, rc, stopped, stamps, stamped, runDir,
                 record, notified, exit>>

\* Fault: --quiet and notify_on_success are asked in the wrong order.
StaysSilentWrongly == input.quiet \/ ~input.onSuccess
\* _maybe_notify: a failure always, a success on request, nothing when quiet.
StaysSilent == input.quiet \/ (rc = 0 /\ ~input.onSuccess)

Notify ==
  /\ pc = "notify"
  /\ pc' = "post"
  /\ notified' = IF StaysSilent THEN "none" ELSE IF rc = 0 THEN "success" ELSE "failed"
  /\ UNCHANGED <<input, order, outcome, results, rc, stopped, stamps, stamped, runDir,
                 record, ledger, exit>>

\* A post-deploy hook that fails is a warning.
ExitCode == rc

PostHook ==
  /\ pc = "post"
  /\ pc' = "end" /\ exit' = ExitCode
  /\ UNCHANGED <<input, order, outcome, results, rc, stopped, stamps, stamped, runDir,
                 record, ledger, notified>>

\* The process is killed, at any point.
Kill ==
  /\ exit = Running
  /\ pc' = "end" /\ exit' = Killed /\ stamps' = {}
  /\ UNCHANGED <<input, order, outcome, results, rc, stopped, stamped, runDir, record,
                 ledger, notified>>

Main == Refuse \/ OpenRun \/ PreHook \/ Take \/ Propagate \/ LoopEnds \/ FleetReturns
          \/ StampScope \/ WriteRecord \/ RecordInLedger \/ Notify \/ PostHook
Next == Main \/ RunUnit \/ Kill

\* The command goes on, and the commands of a unit end (a step_timeout ends
\* those that do not).
Fairness == WF_vars(Main) /\ WF_vars(RunUnit)
Spec == Init /\ [][Next]_vars /\ Fairness

-----------------------------------------------------------------------------
Over == exit \in Codes
Raises == \E u \in DOMAIN outcome : outcome[u] = Raised
Dropped == DOMAIN outcome \ ToSet(results)

\* What a deploy reports is what happened.  Exit code 0 means that every unit of
\* the run ended and none failed, and there is a unit unless there was no step to
\* run; and what really ran is in run.json with the
\* exit code, whichever early return, hook or mode: the exceptions are a unit
\* that raised, and the units that a pool still runs after --fail-fast has left
\* the loop, of a run recorded as failed.
ReportIsHonest ==
  Over =>
    /\ exit = 0 => (order # <<>> \/ Planned = {}) /\ \A u \in ToSet(order) : Ended(u) /\ outcome[u] = 0
    /\ runDir = "recorded" => record.rc = exit
    /\ runDir # "recorded" => DOMAIN outcome = {} \/ Raises
    /\ Dropped # {} => Raises \/ (Pooled /\ input.failFast /\ \E u \in ToSet(record.units) :
                                       outcome[u] = record.rc /\ record.rc # 0)

\* A scope is stamped as deployed only by a live run in which none of the units
\* with a step of that scope failed, also when other units failed, the pool
\* went on after the loop was left, or the command was killed.
StampsAreEarned ==
  \A s \in stamped :
    /\ ~input.dryRun
    /\ \A u \in DOMAIN outcome :
         u = s \/ (Mode # "scopes" /\ s \in ToSet(Chosen)) => outcome[u] = 0

\* A failed deploy that ran its course is notified, whatever the hooks, the
\* ledger and the mode, unless --quiet; a success only on request.
FailuresAreNotified ==
  Over /\ runDir = "recorded" /\ ~input.quiet =>
    /\ exit # 0 => notified = "failed"
    /\ exit = 0 => notified = IF input.onSuccess THEN "success" ELSE "none"

\* The command ends when its units do: the pool that is waited for after the
\* loop was left always drains.
DeployEnds == <>(exit # Running)
=============================================================================
