----------------------------- MODULE MCRunStore -----------------------------
(* Two deploys of a two-step plan, one of them by fleet, on a target that   *)
(* has an old version of one object, and of the other the first deploy's,   *)
(* with a backup of what that replaced.                                     *)
EXTENDS RunStore

MCSteps == <<"f", "g">>
Versions == [p \in Deployers |-> p]
MCBase == [o \in Objects |-> IF o = "f" THEN "v0" ELSE "v1"]
MCBackups == [o \in Objects |-> IF o = "f" THEN Missing ELSE "v0"]
MCPolicies == {[keep |-> 1, age |-> None], [keep |-> 2, age |-> 0]}
=============================================================================
