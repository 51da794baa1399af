--------------------------- MODULE RollingRollout ---------------------------
(***************************************************************************)
(* What `local81 deploy --serial/--max-fail` promises an operator, without *)
(* any scheduler: hosts are admitted in waves of at most `width`, a wave   *)
(* is admitted only when every host admitted before has finished and fewer *)
(* than `budget` of them failed; otherwise everything not admitted yet is  *)
(* skipped, and a skipped host is never touched.  Fleet implements it.     *)
(***************************************************************************)
EXTENDS Integers, FiniteSets

CONSTANT Host

VARIABLES
  budget,    \* failures that stop the rollout, at least 1
  width,     \* most hosts in one wave
  admitted,  \* hosts whose wave has been let through
  phase      \* phase[h]: where host h is

vars == <<budget, width, admitted, phase>>

Phase == {"waiting", "active", "ok", "failed", "skipped"}

TypeOK ==
  /\ budget \in Nat \ {0}
  /\ width \in Nat
  /\ admitted \in SUBSET Host
  /\ phase \in [Host -> Phase]

Init ==
  /\ budget \in Nat \ {0}
  /\ width \in Nat
  /\ admitted = {}
  /\ phase = [h \in Host |-> "waiting"]

FailedHosts == {h \in Host : phase[h] = "failed"}

AdmittedFinished == \A h \in admitted : phase[h] \in {"ok", "failed"}

\* Let the next wave through.
Admit ==
  /\ AdmittedFinished
  /\ Cardinality(FailedHosts) < budget
  /\ \E W \in SUBSET (Host \ admitted) :
        /\ W # {}
        /\ Cardinality(W) <= width
        /\ admitted' = admitted \union W
  /\ UNCHANGED <<budget, width, phase>>

Start(h) ==
  /\ h \in admitted
  /\ phase[h] = "waiting"
  /\ phase' = [phase EXCEPT ![h] = "active"]
  /\ UNCHANGED <<budget, width, admitted>>

Finish(h) ==
  /\ phase[h] = "active"
  /\ \E p \in {"ok", "failed"} : phase' = [phase EXCEPT ![h] = p]
  /\ UNCHANGED <<budget, width, admitted>>

\* The budget is spent: everything not admitted is skipped, for good.
Halt ==
  /\ AdmittedFinished
  /\ Cardinality(FailedHosts) >= budget
  /\ admitted # Host
  /\ phase' = [h \in Host |-> IF h \in admitted THEN phase[h] ELSE "skipped"]
  /\ UNCHANGED <<budget, width, admitted>>

Next ==
  \/ Admit
  \/ \E h \in Host : Start(h) \/ Finish(h)
  \/ Halt

Spec == Init /\ [][Next]_vars
=============================================================================
