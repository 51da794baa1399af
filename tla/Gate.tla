-------------------------------- MODULE Gate --------------------------------
(***************************************************************************)
(* resolve.py, facts/probes.py, ops/operations.py and connectors.py: how   *)
(* deploy and check come to the action of a step.  A probe is a shell      *)
(* script run through the connector of the step's host; what it prints is  *)
(* parsed into a fact, and the fact is compared with the step's intent.    *)
(*                                                                         *)
(* What a probe prints is a function from keys to values, empty when       *)
(* nothing came back; Get is the default of the parsers, "".               *)
(***************************************************************************)
EXTENDS Integers, FiniteSets

Get(out, key) == IF key \in DOMAIN out THEN out[key] ELSE ""

\* connector_for_target: the control node, a container, or a host over ssh.
Connector(host) == CASE host \in {"none", "@local"} -> "local"
                     [] host \in {"@docker/web", "@docker/db"} -> "docker"
                     [] OTHER -> "ssh"

\* How run_local comes back.  An ssh or docker that cannot reach the host ends
\* with a code and no output, which no one looks at; without the program on the
\* control node, or when the process cannot be started, it raises.
Ways(host) == IF Connector(host) = "local" THEN {"answers"} ELSE {"answers", "empty", "raises"}

-----------------------------------------------------------------------------
\* A step's intent is one of its operation, and the target is of its kind; rest
\* is what dpkg says of a package that is not installed.
Fits(step, t) ==
  /\ step.op \in {"file.synced", "dir.present"} => t.is \in {"absent", "file", "dir"}
  /\ step.op = "service.running" => step.want \in [active : BOOLEAN, enabled : BOOLEAN]
  /\ step.op = "package.present" =>
       /\ step.want \in [installed : BOOLEAN]
       /\ t \in [manager : {"dpkg", "rpm", "none"}, installed : BOOLEAN, rest : STRING \ {"install ok installed"}]

\* What the probes print of a target.  meta stands for mode, owner and group.
FileProbe(t) ==
  IF t.is = "absent" THEN [exists |-> "0"]
  ELSE [exists |-> "1", is_file |-> IF t.is = "file" THEN "1" ELSE "0", meta |-> t.meta,
        sha256 |-> IF t.is = "file" THEN t.content ELSE ""]
DirProbe(t) ==
  IF t.is = "absent" THEN [exists |-> "0", is_dir |-> "0"]
  ELSE [exists |-> "1", is_dir |-> IF t.is = "dir" THEN "1" ELSE "0", meta |-> t.meta]
ServiceProbe(t) == [active |-> t.active, enabled |-> t.enabled]
PackageProbe(t) ==
  [manager |-> t.manager,
   result |-> CASE t.manager = "dpkg" -> IF t.installed THEN "install ok installed" ELSE t.rest
                [] t.manager = "rpm" -> IF t.installed THEN "1.0" ELSE "is not installed"
                [] OTHER -> ""]

\* parse_file_state and parse_dir_state, with the file type the operation wants.
PathFact(out, type) ==
  IF Get(out, "exists") # "1" THEN [there |-> FALSE, meta |-> "", content |-> ""]
  ELSE [there |-> Get(out, type) = "1", meta |-> Get(out, "meta"), content |-> Get(out, "sha256")]

ActiveStates == {"active", "inactive", "activating", "deactivating", "failed", "reloading"}
ServiceFact(out) ==
  [present |-> Get(out, "active") \in ActiveStates
                 \/ Get(out, "enabled") \in {"enabled", "disabled", "static", "masked"},
   active |-> Get(out, "active") = "active",
   enabled |-> Get(out, "enabled") = "enabled"]

\* Fault: rpm's message for a package it does not have counts as a version.
InstalledIfPrinted(out) ==
  CASE Get(out, "manager") = "dpkg" -> Get(out, "result") = "install ok installed"
    [] Get(out, "manager") = "rpm" -> Get(out, "result") # ""
    [] OTHER -> FALSE
\* parse_package_state.
Installed(out) ==
  CASE Get(out, "manager") = "dpkg" -> Get(out, "result") = "install ok installed"
    [] Get(out, "manager") = "rpm" -> Get(out, "result") \notin {"", "is not installed"}
    [] OTHER -> FALSE

-----------------------------------------------------------------------------
\* _meta_commands: mode and owner, when the intent has them.
MetaDrift(fact, want) == want.meta # "" /\ fact.meta # want.meta

\* Fault: files are compared by what they are, not by what they hold.
FileActionByMeta(fact, want) ==
  CASE ~fact.there -> "create"
    [] fact.there /\ MetaDrift(fact, want) -> "update"
    [] OTHER -> "none"
\* file_synced and dir_present: an absent target is created, a different one
\* updated.
FileAction(fact, want) ==
  CASE ~fact.there -> "create"
    [] fact.there /\ (fact.content # want.sha256 \/ MetaDrift(fact, want)) -> "update"
    [] OTHER -> "none"
DirAction(fact, want) ==
  CASE ~fact.there -> "create"
    [] fact.there /\ MetaDrift(fact, want) -> "update"
    [] OTHER -> "none"

\* service_running: start or stop, enable or disable.
ServiceAction(fact, want) ==
  IF fact.active = want.active /\ fact.enabled = want.enabled THEN "none"
  ELSE IF fact.present THEN "update" ELSE "create"

\* package_present.
PackageAction(installed, want) ==
  CASE want.installed /\ ~installed -> "create"
    [] ~want.installed /\ installed -> "update"
    [] OTHER -> "none"

\* Without a digest nothing can show that the file is as wanted.
Unprovable(step) == step.op = "file.synced" /\ step.want.sha256 = ""

Ops == {"file.synced", "dir.present", "service.running", "package.present"}

\* A step that the gate looks at (plan --summary: gated, the others: always).
Gated(step) == step.op \in Ops

Printed(step, t) == CASE step.op = "file.synced" -> FileProbe(t)
                      [] step.op = "dir.present" -> DirProbe(t)
                      [] step.op = "service.running" -> ServiceProbe(t)
                      [] step.op = "package.present" -> PackageProbe(t)

Action(step, out) ==
  CASE step.op = "file.synced" -> FileAction(PathFact(out, "is_file"), step.want)
    [] step.op = "dir.present" -> DirAction(PathFact(out, "is_dir"), step.want)
    [] step.op = "service.running" -> ServiceAction(ServiceFact(out), step.want)
    [] step.op = "package.present" -> PackageAction(Installed(out), step.want)

\* resolve_step_action: "run" stands for (None, None), a step without an
\* operation that the gate knows; a probe that raises is "unknown".
StepAction(step, t, way) ==
  CASE ~Gated(step) -> "run"
    [] Gated(step) /\ (Unprovable(step) \/ way = "raises") -> "unknown"
    [] OTHER -> Action(step, IF way = "answers" THEN Printed(step, t) ELSE <<>>)
=============================================================================
