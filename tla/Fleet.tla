------------------------------- MODULE Fleet --------------------------------
(***************************************************************************)
(* fleet.py: `run_fleet`, the scheduler behind `deploy --forks --serial    *)
(* --max-fail`, with its thread pool (`_run_batch`) and the runner that    *)
(* `_run_fleet_deploy` (commands/deploy.py) gives it.                      *)
(*                                                                         *)
(* Hosts are numbered in plan order, so a batch is an interval: hosts      *)
(* reported+1 .. submitted are the batch in flight, hosts 1 .. reported    *)
(* have an entry in `result.outcomes`.  The scheduler thread submits a     *)
(* batch to a fresh pool and waits for all of it; the pool's threads take  *)
(* hosts in submission order and finish in any order.                      *)
(***************************************************************************)
EXTENDS Integers, FiniteSets

CONSTANTS
  NumHosts,   \* hosts the plan and --limit leave
  Configs     \* the command lines: [forks, serial, maxFail]

\* A --serial or --max-fail argument: absent, `N` or `N%`.
Count == [unit : {"none", "hosts", "percent"}, n : Int]

ASSUME NumHostsAssumption == NumHosts \in Nat \ {0}
ASSUME ConfigsAssumption ==
  Configs \subseteq [forks : Int, serial : Count, maxFail : Count]

VARIABLES
  config,     \* this command line
  pc,         \* run_fleet: "check" the threshold, run a "batch", or "done"
  submitted,  \* hosts 1 .. submitted have been given to a pool
  reported,   \* hosts 1 .. reported have an outcome in the result
  status,     \* status[h] of every host
  failures,   \* run_fleet's running count
  aborted,    \* FleetResult.aborted
  lost        \* hosts whose runner raised: their outcome has no step records

vars == <<config, pc, submitted, reported, status, failures, aborted, lost>>

Host == 1 .. NumHosts
Terminal == {"changed", "unchanged", "failed"}
Status == {"waiting", "queued", "running", "skipped"} \union Terminal

AtLeast(a, b) == IF a < b THEN b ELSE a
AtMost(a, b) == IF a < b THEN a ELSE b

-----------------------------------------------------------------------------
\* Percentages round up and never resolve to 0; absent resolves to 0.
ResolveCount(spec, total) ==
  CASE spec.unit = "none"    -> 0
    [] spec.unit = "hosts"   -> spec.n
    [] spec.unit = "percent" -> AtLeast(1, -(((-spec.n) * total) \div 100))

\* Fault: 0 is taken as a batch size.
ParseSerialZero(spec, total) == AtMost(ResolveCount(spec, total), total)

\* Batch size: 0 or less means one batch of every host.
ParseSerial(spec, total) ==
  LET size == ResolveCount(spec, total)
  IN  IF size <= 0 THEN total ELSE AtMost(size, total)

Serial == ParseSerial(config.serial, NumHosts)
Threshold == ResolveCount(config.maxFail, NumHosts)

Workers == AtLeast(1, config.forks)

\* Fault: the default threshold lets every batch be stopped before it starts.
ThresholdBreachedZero(n, threshold) == n >= threshold
\* Fault: one failure too many.
ThresholdBreachedLate(n, threshold) ==
  IF threshold <= 0 THEN n >= 1 ELSE n > threshold

ThresholdBreached(n, threshold) ==
  IF threshold <= 0 THEN n >= 1 ELSE n >= threshold

\* `classify`: a host's exit code and number of pushed files.
Classify(rc, pushed) ==
  IF rc # 0 THEN "failed" ELSE IF pushed > 0 THEN "changed" ELSE "unchanged"

Batch == (reported + 1) .. submitted

\* The hosts of the batches from the current one on.
NotStarted == {h \in Host : h > reported}
Running == {h \in Host : status[h] = "running"}
Failed == {h \in Host : status[h] = "failed"}

\* Failures accumulate over the batches.
FailuresSoFar == failures + Cardinality({h \in Batch : status[h] = "failed"})

TypeOK ==
  /\ config \in Configs
  /\ pc \in {"check", "batch", "done"}
  /\ submitted \in 0 .. NumHosts
  /\ reported \in 0 .. NumHosts
  /\ status \in [Host -> Status]
  /\ failures \in Nat
  /\ aborted \in BOOLEAN
  /\ lost \in SUBSET Host

Init ==
  /\ config \in Configs
  /\ pc = "check"
  /\ submitted = 0
  /\ reported = 0
  /\ status = [h \in Host |-> "waiting"]
  /\ failures = 0
  /\ aborted = FALSE
  /\ lost = {}

-----------------------------------------------------------------------------
(* The scheduler thread. *)

\* The threshold is looked at only when a batch is left to start.
Abort ==
  /\ pc = "check"
  /\ reported < NumHosts
  /\ ThresholdBreached(failures, Threshold)
  /\ aborted' = TRUE
  /\ status' = [h \in Host |-> IF h \in NotStarted THEN "skipped" ELSE status[h]]
  /\ reported' = NumHosts
  /\ pc' = "done"
  /\ UNCHANGED <<config, submitted, failures, lost>>

StartBatch ==
  /\ pc = "check"
  /\ reported < NumHosts
  /\ ~ThresholdBreached(failures, Threshold)
  /\ submitted' = AtMost(reported + Serial, NumHosts)
  /\ status' = [h \in Host |-> IF h \in (reported + 1) .. submitted'
                               THEN "queued" ELSE status[h]]
  /\ pc' = "batch"
  /\ UNCHANGED <<config, reported, failures, aborted, lost>>

\* Every future of the batch has a result: report them in batch order.
CloseBatch ==
  /\ pc = "batch"
  /\ \A h \in Batch : status[h] \in Terminal
  /\ failures' = FailuresSoFar
  /\ reported' = submitted
  /\ pc' = "check"
  /\ UNCHANGED <<config, submitted, status, aborted, lost>>

Return ==
  /\ pc = "check"
  /\ reported = NumHosts
  /\ pc' = "done"
  /\ UNCHANGED <<config, submitted, reported, status, failures, aborted, lost>>

-----------------------------------------------------------------------------
(* The pool's threads. *)

\* An idle thread takes the oldest queued host and calls the runner.
Begin(h) ==
  /\ pc = "batch"
  /\ status[h] = "queued"
  /\ \A g \in Host : g < h => status[g] # "queued"
  /\ Cardinality(Running) < AtMost(Workers, submitted - reported)
  /\ status' = [status EXCEPT ![h] = "running"]
  /\ UNCHANGED <<config, pc, submitted, reported, failures, aborted, lost>>

\* The runner returns: the host's steps gave rc and pushed some files.
Finish(h) ==
  /\ status[h] = "running"
  /\ \E rc \in {0, 1}, pushed \in {0, 1} :
        status' = [status EXCEPT ![h] = Classify(rc, pushed)]
  /\ UNCHANGED <<config, pc, submitted, reported, failures, aborted, lost>>

\* The runner raises (`_safe_run`): a failed outcome without the step records
\* of what the host's steps did before.
Crash(h) ==
  /\ status[h] = "running"
  /\ status' = [status EXCEPT ![h] = "failed"]
  /\ lost' = lost \union {h}
  /\ UNCHANGED <<config, pc, submitted, reported, failures, aborted>>

Terminated == pc = "done" /\ UNCHANGED vars

Scheduler == Abort \/ StartBatch \/ CloseBatch \/ Return

Next ==
  \/ Scheduler
  \/ \E h \in Host : Begin(h) \/ Finish(h) \/ Crash(h)
  \/ Terminated

\* The scheduler and the pool's threads keep running; a runner ends when the
\* commands it waits for end, which --step-timeout forces for the steps.
Fairness ==
  /\ WF_vars(Scheduler)
  /\ \A h \in Host : WF_vars(Begin(h)) /\ WF_vars(Finish(h) \/ Crash(h))

Spec == Init /\ [][Next]_vars /\ Fairness

-----------------------------------------------------------------------------
(* Results of a run: FleetResult.rc and the number of failures it allows. *)

Rc == IF Failed # {} THEN 1 ELSE 0
Budget == AtLeast(1, Threshold)

Position ==
  /\ pc = "check" => submitted = reported /\ ~aborted
  /\ pc = "batch" => /\ reported < submitted /\ submitted <= reported + Serial
                     /\ ~aborted /\ failures < Budget
  /\ pc = "done" => reported = NumHosts
  /\ pc = "done" /\ ~aborted => submitted = NumHosts
  /\ aborted => pc = "done" /\ submitted < NumHosts /\ failures >= Budget

HostsFit ==
  \A h \in Host :
    /\ h > submitted => status[h] = IF aborted THEN "skipped" ELSE "waiting"
    /\ h <= submitted => status[h] \notin {"waiting", "skipped"}
    /\ h <= submitted /\ h <= reported => status[h] \in Terminal

CountFits == failures = Cardinality({h \in Failed : h <= reported})

\* Where the scheduler is and what that says of every host and of the failure
\* count: the inductive strengthening of the invariants below.
SchedulerInv == Position /\ HostsFit /\ CountFits

\* --serial and --max-fail bound the damage of a bad rollout: when the last
\* batch let through fails as a whole, the failed hosts are that batch and the
\* Budget - 1 failures that did not stop it.
BlastRadius == Cardinality(Failed) <= Budget - 1 + Serial

\* Rolling order: a batch runs only when every host of every earlier batch has
\* finished, and no host after it has been touched.
RollingOrder ==
  /\ \A h \in Host : h <= reported /\ ~aborted => status[h] \in Terminal
  /\ \A h \in Host : h > submitted => status[h] \in {"waiting", "skipped"}

\* A run that skipped hosts is never reported clean, and is the only kind that
\* says it was aborted; a run that was not aborted ran every host.
SkipsAreReported ==
  pc = "done" =>
    /\ aborted => Rc = 1
    /\ aborted <=> \E h \in Host : status[h] = "skipped"
    /\ ~aborted => \A h \in Host : status[h] \in Terminal

\* Only what was never started is skipped, and what is skipped never starts:
\* no host is both touched and reported untouched.
SkippedNeverTouched ==
  [][\A h \in Host :
       /\ status'[h] = "skipped" => status[h] \in {"waiting", "skipped"}
       /\ status[h] = "skipped" => status'[h] = "skipped"]_vars

\* No runner starts once the failures of the batches before its own have
\* reached the threshold.
NoStartAfterBreach ==
  [][\A h \in Host :
       status[h] = "queued" /\ status'[h] = "running" =>
         Cardinality({g \in Failed : g <= reported}) < Budget]_vars

\* Every deploy of a fleet ends, with each host in a final state.
EveryHostDecided == <>(pc = "done" /\ \A h \in Host : status[h] \in Terminal \union {"skipped"})

\* A host as the rollout sees it: queueing in the pool is still waiting.
PhaseOf(s) ==
  CASE s \in {"waiting", "queued"}    -> "waiting"
    [] s = "running"                  -> "active"
    [] s \in {"changed", "unchanged"} -> "ok"
    [] s = "failed"                   -> "failed"
    [] s = "skipped"                  -> "skipped"

RR == INSTANCE RollingRollout WITH
        budget <- Budget,
        width <- Serial,
        admitted <- 1 .. submitted,
        phase <- [h \in Host |-> PhaseOf(status[h])]

\* run_fleet implements the rolling rollout: submitting a batch to the pool
\* admits a wave, and no host is touched, finished or skipped otherwise.
ImplementsRollingRollout == RR!Spec
=============================================================================
