---------------------------- MODULE ScopeDeploy -----------------------------
(***************************************************************************)
(* commands/deploy.py: `_deploy_scope_steps` runs the steps of one scope   *)
(* (or of one host's group) in order, with the desired-state gate and the  *)
(* command of each step (`_run_step`), batches of `parallel` steps in a    *)
(* thread pool, and the failure handler (`_handle_step_failure`,           *)
(* `_run_rollbacks`) under --fail-fast and --rollback-on-failure.          *)
(*                                                                         *)
(* The target is a set of objects (files, directories, services) of which  *)
(* only the version matters: "new" is what the plan wants, "base" what an  *)
(* earlier deploy left, "stale" what it replaced.  rsync with --backup     *)
(* keeps the replaced version in the object's one backup slot, and a       *)
(* rollback command is `cp -a` of that slot over the object.               *)
(***************************************************************************)
EXTENDS Integers, Sequences, FiniteSets

CONSTANTS
  Objects,   \* what the steps write
  Plans,     \* step lists of the scopes that may be deployed
  Options,   \* command lines
  Targets    \* states of the target: [live, backup], each Objects -> Version

Version == {"absent", "stale", "base", "new"}
Content == [Objects -> Version]

\* kind: "rsync" pushes a file, "op" is any other step with an op and an
\* intent (dir.present, service.running), "raw" a plain command.  gated: it
\* has op and intent.  undo: it has a rollback command, and its rsync a
\* --backup.  hook: it has an on_failure command.
Step == [kind : {"rsync", "op", "raw"}, object : Objects, gated : BOOLEAN,
         parallel : BOOLEAN, undo : BOOLEAN, hook : BOOLEAN]
Option == [dryRun : BOOLEAN, failFast : BOOLEAN, rollback : BOOLEAN,
           workers : Nat, planHook : BOOLEAN]

ASSUME PlansAssumption == Plans \subseteq Seq(Step)
ASSUME OptionsAssumption == Options \subseteq Option
ASSUME TargetsAssumption == Targets \subseteq [live : Content, backup : Content]

VARIABLES
  steps, opt,    \* the scope's steps and the command line
  live, backup,  \* the target: current version and backup slot per object
  start,         \* the target's versions when the scope began
  pc,            \* where the scope's thread is
  first, last,   \* the batch: one step, or a run of parallel steps
  cursor,        \* next result of the batch to process
  work,          \* work[i]: "idle", "queued", "command" or "ended"
  result,        \* result[i]: what _run_step returned for step i
  out,           \* steps_out: the records, in order
  undoable,      \* successful_with_rollback
  undoing,       \* what is left of the reversed list in _run_rollbacks
  failureSeen, rc, deployed,
  trace          \* the commands that really ran, in order

inputs == <<steps, opt, start>>
target == <<live, backup>>
outcome == <<out, undoable, failureSeen, rc, deployed>>
vars == <<steps, opt, start, live, backup, pc, first, last, cursor, work, result, out,
          undoable, undoing, failureSeen, rc, deployed, trace>>

-----------------------------------------------------------------------------
Index == 1 .. Len(steps)
Record == [step : Index, rc : {-1, 0, 1}, converged : BOOLEAN]
Event == [act : {"command", "hook", "restore", "planHook"}, step : Index, ok : BOOLEAN]

TypeOK ==
  /\ steps \in Plans
  /\ opt \in Options
  /\ start \in Content
  /\ live \in Content
  /\ backup \in Content
  /\ pc \in {"loop", "run", "collect", "hook", "restore", "done"}
  /\ first \in 1 .. Len(steps) + 1
  /\ last \in 0 .. Len(steps)
  /\ cursor \in 1 .. Len(steps) + 1
  /\ work \in [Index -> {"idle", "queued", "command", "ended"}]
  /\ result \in [Index -> [rc : {0, 1}, converged : BOOLEAN]]
  /\ out \in Seq(Record)
  /\ undoable \in Seq(Index)
  /\ undoing \in Seq(Index)
  /\ failureSeen \in BOOLEAN
  /\ rc \in {0, 1}
  /\ deployed \in Nat
  /\ trace \in Seq(Event)

Init ==
  /\ steps \in Plans
  /\ opt \in Options
  /\ \E t \in Targets : live = t.live /\ backup = t.backup /\ start = t.live
  /\ pc = "loop"
  /\ first = 1 /\ last = 0 /\ cursor = 1
  /\ work = [i \in Index |-> "idle"]
  /\ result = [i \in Index |-> [rc |-> 0, converged |-> FALSE]]
  /\ out = <<>>
  /\ undoable = <<>>
  /\ undoing = <<>>
  /\ failureSeen = FALSE
  /\ rc = 0
  /\ deployed = 0
  /\ trace = <<>>

-----------------------------------------------------------------------------
(* One step: the gate, then the command. *)

\* The diff of the ops layer: does the probed object already match the intent?
Converged(s) ==
  IF s.kind = "rsync" THEN live[s.object] = "new" ELSE live[s.object] # "absent"

\* What the step's command does to its object when it gets through; rsync
\* --backup keeps what it replaces, also over an older backup.
Changes(s) == s.kind # "raw" /\ ~Converged(s)
\* Fault: an older backup is never replaced.
SavesOnce(s) == /\ Changes(s) /\ s.kind = "rsync" /\ s.undo
                /\ live[s.object] # "absent" /\ backup[s.object] = "absent"
Saves(s) == Changes(s) /\ s.kind = "rsync" /\ s.undo /\ live[s.object] # "absent"
Apply(s) ==
  /\ live' = IF Changes(s) THEN [live EXCEPT ![s.object] = "new"] ELSE live
  /\ backup' = IF Saves(s) THEN [backup EXCEPT ![s.object] = live[s.object]] ELSE backup

\* A dry run runs nothing, and reports 0.
Ran(act, i, ok) ==
  trace' = IF opt.dryRun THEN trace
           ELSE Append(trace, [act |-> act, step |-> i, ok |-> ok])

Pooled == steps[first].parallel /\ opt.workers > 1
PoolSize ==
  LET size == last - first + 1
  IN  IF ~Pooled THEN 1 ELSE IF opt.workers < size THEN opt.workers ELSE size
Working == {i \in Index : work[i] = "command"}

\* A thread of the pool (or the scope's own, for a step that is not pooled)
\* takes the oldest step.  On a live run a step with op and intent is probed;
\* it ends here if the probe shows that it has converged.  A probe that could
\* not run lets the step through.
Begin(i) ==
  /\ pc = "run"
  /\ work[i] = "queued"
  /\ \A j \in Index : j < i => work[j] # "queued"
  /\ Cardinality(Working) < PoolSize
  /\ \E probed \in BOOLEAN :
       IF ~opt.dryRun /\ steps[i].gated /\ probed /\ Converged(steps[i])
         THEN /\ work' = [work EXCEPT ![i] = "ended"]
              /\ result' = [result EXCEPT ![i] = [rc |-> 0, converged |-> TRUE]]
         ELSE /\ work' = [work EXCEPT ![i] = "command"]
              /\ UNCHANGED result
  /\ UNCHANGED <<inputs, target, pc, first, last, cursor, outcome, undoing, trace>>

\* The command ends.  1 stands for every exit code but 0, among them the 124
\* of a timeout; a command that failed may have done its work or not.
Run(i) ==
  /\ work[i] = "command"
  /\ \E code \in (IF opt.dryRun THEN {0} ELSE {0, 1}),
        effect \in (IF opt.dryRun THEN {FALSE} ELSE BOOLEAN) :
       /\ ~opt.dryRun /\ code = 0 => effect
       /\ IF effect THEN Apply(steps[i]) ELSE UNCHANGED target
       /\ result' = [result EXCEPT ![i] = [rc |-> code, converged |-> FALSE]]
       /\ Ran("command", i, code = 0)
  /\ work' = [work EXCEPT ![i] = "ended"]
  /\ UNCHANGED <<inputs, pc, first, last, cursor, outcome, undoing>>

-----------------------------------------------------------------------------
(* The scope's thread. *)

\* Fault: a batch that does not stop at the first step that is not parallel.
BatchEndAll(i) == Len(steps)
\* The end of the run of parallel steps that starts at i.
BatchEnd(i) ==
  CHOOSE j \in i .. Len(steps) :
    /\ \A k \in i .. j : steps[k].parallel
    /\ j < Len(steps) => ~steps[j + 1].parallel

\* Submit the next step, or the next run of parallel steps.
Submit ==
  /\ pc = "loop"
  /\ last < Len(steps)
  /\ first' = last + 1
  /\ last' = IF steps[last + 1].parallel /\ opt.workers > 1
               THEN BatchEnd(last + 1) ELSE last + 1
  /\ cursor' = last + 1
  /\ work' = [i \in Index |-> IF i \in first' .. last' THEN "queued" ELSE work[i]]
  /\ pc' = "run"
  /\ UNCHANGED <<inputs, target, result, outcome, undoing, trace>>

\* Every step of the batch has ended: the pool is shut down.
Join ==
  /\ pc = "run"
  /\ \A i \in first .. last : work[i] = "ended"
  /\ pc' = "collect"
  /\ UNCHANGED <<inputs, target, first, last, cursor, work, result, outcome,
                 undoing, trace>>

Deploys(i) == steps[i].kind = "rsync" /\ ~result[i].converged

CollectOk ==
  /\ pc = "collect"
  /\ cursor <= last
  /\ result[cursor].rc = 0
  /\ out' = Append(out, [step |-> cursor, rc |-> 0,
                         converged |-> result[cursor].converged])
  /\ deployed' = IF Deploys(cursor) THEN deployed + 1 ELSE deployed
  /\ undoable' = IF steps[cursor].undo THEN Append(undoable, cursor) ELSE undoable
  /\ cursor' = cursor + 1
  /\ UNCHANGED <<inputs, target, pc, first, last, work, result, undoing,
                 failureSeen, rc, trace>>

\* Fault: every failed step of a batch is handled.
HandlesAll == TRUE
\* A failed step is handled, unless it is in a pool's batch and some step
\* failed before it.
Handles == ~Pooled \/ ~failureSeen
CollectFailed ==
  /\ pc = "collect"
  /\ cursor <= last
  /\ result[cursor].rc # 0
  /\ out' = Append(out, [step |-> cursor, rc |-> result[cursor].rc, converged |-> FALSE])
  /\ failureSeen' = TRUE
  /\ IF Handles
       THEN pc' = "hook" /\ UNCHANGED cursor
       ELSE cursor' = cursor + 1 /\ UNCHANGED pc
  /\ UNCHANGED <<inputs, target, first, last, work, result, undoable, undoing,
                 rc, deployed, trace>>

\* _handle_step_failure: the step's on_failure command ...
FailureHook ==
  /\ pc = "hook"
  /\ IF steps[cursor].hook THEN Ran("hook", cursor, TRUE) ELSE UNCHANGED trace
  /\ undoing' = IF opt.rollback THEN undoable ELSE <<>>
  /\ pc' = "restore"
  /\ UNCHANGED <<inputs, target, first, last, cursor, work, result, outcome>>

\* ... the rollback commands of the successful steps, last one first, whatever
\* becomes of each (`cp -a` of a backup that is not there fails too) ...
Restore ==
  /\ pc = "restore"
  /\ undoing # <<>>
  /\ LET i == undoing[Len(undoing)]
         s == steps[i]
     IN  \/ /\ ~opt.dryRun /\ s.kind = "rsync" /\ backup[s.object] # "absent"
            /\ live' = [live EXCEPT ![s.object] = backup[s.object]]
            /\ Ran("restore", i, TRUE)
         \/ /\ UNCHANGED live
            /\ Ran("restore", i, FALSE)
  /\ undoing' = SubSeq(undoing, 1, Len(undoing) - 1)
  /\ UNCHANGED <<inputs, backup, pc, first, last, cursor, work, result, outcome>>

\* Fault: the handler never goes on to the next step.
PlanHookAgain ==
  /\ pc = "restore"
  /\ undoing = <<>>
  /\ UNCHANGED vars

\* ... and the plan's on_failure command; then the next result.
PlanHook ==
  /\ pc = "restore"
  /\ undoing = <<>>
  /\ IF opt.planHook THEN Ran("planHook", cursor, TRUE) ELSE UNCHANGED trace
  /\ rc' = result[cursor].rc
  /\ cursor' = cursor + 1
  /\ pc' = "collect"
  /\ UNCHANGED <<inputs, target, first, last, work, result, out, undoable,
                 undoing, failureSeen, deployed>>

\* Fault: the pool's branch does not end the scope.
StopsUnpooled == failureSeen /\ opt.failFast /\ ~Pooled
Stops == failureSeen /\ opt.failFast

\* Fault: the remaining steps start at the failed one.
SkippedFromFailed ==
  [k \in 1 .. Len(steps) - last + 1 |->
     [step |-> last + k - 1, rc |-> -1, converged |-> FALSE]]
SkippedRecords ==
  [k \in 1 .. Len(steps) - last |-> [step |-> last + k, rc |-> -1, converged |-> FALSE]]

\* The batch is processed.  Under --fail-fast a failure ends the scope here,
\* with a record for every step that is left.
NextBatch ==
  /\ pc = "collect"
  /\ cursor > last
  /\ IF Stops
       THEN /\ out' = out \o SkippedRecords
            /\ pc' = "done"
       ELSE /\ pc' = "loop"
            /\ UNCHANGED out
  /\ UNCHANGED <<inputs, target, first, last, cursor, work, result, undoable,
                 undoing, failureSeen, rc, deployed, trace>>

Return ==
  /\ pc = "loop"
  /\ last = Len(steps)
  /\ pc' = "done"
  /\ UNCHANGED <<inputs, target, first, last, cursor, work, result, outcome,
                 undoing, trace>>

Terminated == pc = "done" /\ UNCHANGED vars

Main == \/ Submit \/ Join \/ CollectOk \/ CollectFailed
        \/ FailureHook \/ Restore \/ PlanHook \/ NextBatch \/ Return

Next ==
  \/ Main
  \/ \E i \in Index : Begin(i) \/ Run(i)
  \/ Terminated

\* Every thread keeps running, and every command ends: by itself, or for the
\* steps because --step-timeout kills it.
Fairness ==
  /\ WF_vars(Main)
  /\ WF_vars(\E i \in Index : Begin(i))
  /\ WF_vars(\E i \in Index : Run(i))

Spec == Init /\ [][Next]_vars /\ Fairness

-----------------------------------------------------------------------------
(* What the trace and the records say. *)

Events(act) == {e \in DOMAIN trace : trace[e].act = act}
CommandRan(i, ok) == \E e \in Events("command") : trace[e].step = i /\ trace[e].ok = ok
Failures == {k \in DOMAIN out : out[k].rc = 1}
Batched(i, j) ==
  opt.workers > 1 /\ \A k \in (i .. j) \union (j .. i) : steps[k].parallel

\* run.json can be trusted: one record per step, in plan order, whatever the
\* pool's interleaving; and a record says what happened to its step: a skipped
\* or converged step ran no command, any other ran it with that result.  The
\* exit code and deployed_files, which decides between changed and unchanged,
\* follow from the records.
RecordsMatch ==
  /\ \A k \in DOMAIN out : out[k].step = k
  /\ pc = "done" =>
       /\ Len(out) = Len(steps)
       /\ rc = 0 <=> \A k \in DOMAIN out : out[k].rc = 0
       /\ deployed = Cardinality({k \in DOMAIN out :
                         steps[k].kind = "rsync" /\ out[k].rc = 0 /\ ~out[k].converged})
  /\ ~opt.dryRun => \A k \in DOMAIN out :
       \A ok \in BOOLEAN :
         CommandRan(k, ok) <=> /\ out[k].rc # -1 /\ ~out[k].converged
                               /\ ok = (out[k].rc = 0)

\* Steps are carried out in plan order; only steps of one run of parallel steps
\* overtake each other, so such a run is a barrier on both sides.
PlanOrder ==
  \A p, q \in Events("command") :
    p < q /\ trace[p].step > trace[q].step => Batched(trace[p].step, trace[q].step)

\* --fail-fast: once a command has failed, no command runs but those of the
\* parallel run it is in.
FailFastContains ==
  opt.failFast =>
    \A p, q \in Events("command") :
      p < q /\ ~trace[p].ok => Batched(trace[p].step, trace[q].step)

\* --rollback-on-failure with --fail-fast undoes exactly the undoable steps
\* that succeeded before the first failed one in plan order, each once, the
\* last one first; without a failure, or without the flag, nothing.
ExactlyPriorUndone ==
  pc = "done" /\ opt.failFast /\ ~opt.dryRun =>
    LET prior == IF ~opt.rollback \/ Failures = {} THEN {}
                 ELSE {k \in DOMAIN out : /\ out[k].rc = 0 /\ steps[k].undo
                                          /\ \A f \in Failures : k < f}
    IN  /\ {trace[e].step : e \in Events("restore")} = prior
        /\ \A p, q \in Events("restore") : p < q => trace[p].step > trace[q].step

\* What was rolled back is as it was: an object this scope replaced holds its
\* first version again when every step that touched it has been restored, also
\* if several steps wrote it or an older backup was in the way.
RestoredAsBefore ==
  pc = "done" =>
    \A o \in Objects :
      LET touched == {trace[e].step : e \in Events("command")}
                       \intersect {i \in Index : steps[i].object = o /\ steps[i].kind # "raw"}
      IN  /\ start[o] \notin {"absent", "new"}
          /\ touched # {}
          /\ \A i \in touched : \E e \in Events("restore") : trace[e].step = i /\ trace[e].ok
          /\ opt.failFast
          => live[o] = start[o]

\* Every scope is finished with, whatever fails.
Finishes == <>(pc = "done")
=============================================================================
