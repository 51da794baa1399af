----------------------------- MODULE ScopeUnit ------------------------------
(***************************************************************************)
(* What the scheduler, the host-group loop and run_deploy take a call of   *)
(* _deploy_scope_steps for, without steps, pools and handlers: it runs one *)
(* command after the other and returns once, with 1 exactly if the command *)
(* of a step has failed.  Nothing runs on a dry run, and nothing after the *)
(* call has returned, in no thread of the pool either.  ScopeDeploy        *)
(* implements it.                                                          *)
(***************************************************************************)
EXTENDS Integers, Sequences

VARIABLES
  dryRun,    \* of the command line
  code,      \* what the call returned, or Running
  content,   \* of the target
  trace      \* the commands that really ran: [act, step, ok]

vars == <<dryRun, code, content, trace>>

Running == -2
StepFailed == \E e \in DOMAIN trace : trace[e].act = "command" /\ ~trace[e].ok

Init == dryRun \in BOOLEAN /\ code = Running /\ trace = <<>>

\* A command ends: of a step, a hook or a rollback.  The target may change.
Command ==
  /\ code = Running /\ ~dryRun
  /\ Len(trace') = Len(trace) + 1 /\ \A e \in DOMAIN trace : trace'[e] = trace[e]
  /\ UNCHANGED <<dryRun, code>>

Return ==
  /\ code = Running
  /\ code' = IF StepFailed THEN 1 ELSE 0
  /\ UNCHANGED <<dryRun, content, trace>>

Next == Command \/ Return

Spec == Init /\ [][Next]_vars
=============================================================================
