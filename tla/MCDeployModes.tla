--------------------------- MODULE MCDeployModes ----------------------------
(* Two scopes over three hosts, one host in both, and one without steps.    *)
(* The command lines are unions of slices: each mode with its own options,  *)
(* and the early returns and hooks with one mode.                           *)
EXTENDS DeployModes

On(scope, host) == [scope |-> scope, host |-> host]
MCPlan ==
  [scopes |-> <<"app", "docs", "db">>,
   steps |-> <<On("app", "web1"), On("app", "web2"), On("db", "web2"), On("db", "db1")>>]

Default ==
  [planFound |-> TRUE, allowed |-> TRUE, readable |-> TRUE, scope |-> "", dryRun |-> FALSE, failFast |-> FALSE,
   fleet |-> FALSE, limit |-> Hosts, byFile |-> FALSE, hostsFile |-> <<>>, parallel |-> FALSE,
   maxParallel |-> 1, pre |-> 0, post |-> 0, quiet |-> FALSE, onSuccess |-> FALSE]

Entry(h) == [alias |-> h, names |-> {h}]
Files == {<<Entry("web1"), Entry("web2"), Entry("db1")>>, <<Entry("new"), Entry("new")>>,
          <<[alias |-> "new", names |-> {"web1"}], Entry("db1")>>}

Refused ==
  {[Default EXCEPT !.planFound = p, !.allowed = a, !.readable = r, !.scope = s, !.byFile = f] :
     p, a, r, f \in BOOLEAN, s \in {"db", "other"}}
ByScope ==
  {[Default EXCEPT !.scope = s, !.dryRun = d, !.failFast = ff, !.pre = p, !.post = q,
                   !.quiet = z, !.onSuccess = n] :
     s \in {"", "app"}, d, ff, z, n \in BOOLEAN, p, q \in {0, 2}}
ByFile ==
  {[Default EXCEPT !.byFile = TRUE, !.hostsFile = f, !.failFast = ff, !.parallel = par, !.maxParallel = m,
                   !.dryRun = d, !.scope = s] :
     f \in Files, ff, par, d \in BOOLEAN, m \in {1, 2}, s \in {"", "app", "docs"}}
ByFleet ==
  {[Default EXCEPT !.fleet = TRUE, !.limit = l, !.dryRun = d, !.scope = s,
                   !.byFile = f, !.hostsFile = <<Entry("new")>>] :
     l \in {Hosts, {"web2", "db1"}, {}}, d, f \in BOOLEAN, s \in {"", "db", "docs"}}

MCInputs == Refused \union ByScope \union ByFile \union ByFleet
=============================================================================
