------------------------------- MODULE Setup --------------------------------
(***************************************************************************)
(* commands/guided.py and commands/init.py: the configuration that the     *)
(* guided interview writes, the one that init makes of a legacy file, and  *)
(* the modern file that init imports.  A file says in `by` who wrote it;   *)
(* values are those of Config, and "," is an answer of separators only.    *)
(***************************************************************************)
EXTENDS Config, Sequences

Project == <<"local81", "project">>
Servers == <<"scope", "servers">>

\* What both commands write: every required key, rsync_opts and backup.
Keys == Required \union RequiredOfScope \union {<<"scope", "rsync_opts">>, <<"scope", "backup">>}

\* The literals: booleans, the keys with a choice, the integer keys.
Literal(x) ==
  CASE x = <<"defaults", "dry_run_default">> -> "off"
    [] x \in Booleans /\ x # <<"defaults", "dry_run_default">> -> "on"
    [] x \in OneOf -> "ok"
    [] x \in AtLeastOne -> "9"
    [] OTHER -> "text"

-----------------------------------------------------------------------------
\* A question without a default is asked once more when it stays empty.
Asked(replies) == IF replies[1] # "" THEN replies[1] ELSE replies[2]

\* Of a source that is not there the interview asks for another, once.
Source(r) == IF Asked(r.source) # "" /\ ~r.found /\ ~r.keep THEN r.other ELSE Asked(r.source)

\* The interview is given up, or its result is not to be written.
Cancelled(r) == "" \in {Source(r), Asked(r.target), Asked(r.servers)} \/ r.cancel

\* _prompt_int: what is no number, or not positive, is the default.
Positive(v) == IF IsInt(v) /\ Number(v) > 0 THEN v ELSE "9"

\* _normalize_servers: hosts without separators.
Normalized(v) == IF v = "," THEN "" ELSE v

OnOff(b) == IF b THEN "on" ELSE "off"

\* generate_config of the answers.
Guided(r) ==
  [format |-> "ini", parses |-> TRUE, by |-> "guided",
   cell |-> [x \in Keys |->
     CASE x = Project -> r.project
       [] x = Servers -> Normalized(Asked(r.servers))
       [] x = <<"local81", "max_parallel">> -> Positive(r.maxParallel)
       [] x = <<"local81", "fail_fast">> -> OnOff(r.failFast)
       [] x \in {<<"defaults", "backup">>, <<"scope", "backup">>} -> OnOff(r.backup)
       [] x = <<"scope", "source_dir">> -> Source(r)
       [] OTHER -> Literal(x)]]

-----------------------------------------------------------------------------
\* A legacy section has the keys that it must have; init gives up without.
Complete(legacy) == {"source_dir", "target_dir", "servers"} \subseteq DOMAIN legacy

\* What it says of backup is kept when it is true or false.
Kept(legacy) == {k \in {"rsync_opts", "backup"} \intersect DOMAIN legacy :
                   k = "backup" => legacy[k] \in {"on", "off"}}

\* init of a legacy file; it denies remote commands.
Converted(legacy, project) ==
  LET policy == {"access"} \X {"allowed_users", "allowed_groups", "denied_users", "deny_root", "allow_remote_cmd"}
      scope == {"scope"} \X (Kept(legacy) \union {"source_dir", "target_dir", "servers"})
      Value(x) == CASE x = Project -> project
                    [] x \in scope -> Normalized(legacy[x[2]])
                    [] x \in policy -> IF x \in Booleans THEN "off" ELSE ""
                    [] OTHER -> Literal(x)
  IN [format |-> "ini", parses |-> TRUE, by |-> "init",
      cell |-> [x \in Required \union RequiredOfScope \union policy \union scope |-> Value(x)]]

\* A modern file is copied when it has a scope and the version; --project
\* replaces the project's name.
Importable(c) == c.format = "ini" /\ Has(c, "scope") /\ Cell(c, <<"local81", "version">>, "") = "ok"
Imported(c, project) ==
  [c EXCEPT !.by = "import",
            !.cell = IF project = "" THEN @
                     ELSE [x \in DOMAIN @ \union {Project} |-> IF x = Project THEN project ELSE @[x]]]
=============================================================================
