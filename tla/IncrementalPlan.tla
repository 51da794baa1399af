-------------------------- MODULE IncrementalPlan ---------------------------
(***************************************************************************)
(* The cycle of `local81 plan` and `local81 deploy` for one scope, with    *)
(* discovery `mtime_since_last_success`: a plan selects the source files   *)
(* modified after the scope's last_success, a deploy pushes the selected   *)
(* files to the servers, and a deploy without a failure stamps             *)
(* last_success with the time at which it ends.  Files are edited at any   *)
(* time, plans are kept and can be deployed late or twice, and a deploy    *)
(* can fail, be a dry run, be limited to some servers, or be killed.       *)
(*                                                                         *)
(* Time is counted in seconds, the resolution of last_success.  Contents   *)
(* are versions, 0 for a file that is not there; a sha256 is the version   *)
(* it was computed from.                                                   *)
(***************************************************************************)
EXTENDS Integers, Sequences

CONSTANTS
  Files, Servers,
  Limits,       \* server sets that --limit or --hosts-file may leave
  MaxTime,      \* bound on the clock
  MaxVersion,   \* bound on the edits that change a file
  MaxPlans      \* bound on the plans made

ASSUME LimitsAssumption == Limits \subseteq SUBSET Servers
ASSUME BoundsAssumption == MaxTime \in Nat /\ MaxVersion \in Nat \ {0} /\ MaxPlans \in Nat

VARIABLES
  now,
  source,        \* source[f]: [version, mtime]
  onHost,        \* onHost[h][f]: the version on the server
  lastSuccess,   \* of .local81/state/<scope>.json; Never when unreadable or absent
  plans,         \* the plan files, in the order they were made
  deploy,        \* the deploy that is running
  outdated,      \* the plans made before the last edit, by number
  raced          \* last_success was stamped by an outdated or limited deploy

vars == <<now, source, onHost, lastSuccess, plans, deploy, outdated, raced>>

Never == -1
Time == 0 .. MaxTime
Version == 0 .. MaxVersion

\* What a plan says: the sha256 of each file it selected.
Intent == UNION {[S -> Version] : S \in SUBSET Files}

Idle == [running |-> FALSE, plan |-> 0, intent |-> <<>>, hosts |-> {},
         pending |-> {}, dryRun |-> FALSE, failed |-> FALSE]
Deploy == [running : {TRUE}, plan : Nat, intent : Intent,
           hosts : Limits, pending : SUBSET (Servers \X Files),
           dryRun : BOOLEAN, failed : BOOLEAN]

TypeOK ==
  /\ now \in Time
  /\ source \in [Files -> [version : Version, mtime : Time]]
  /\ onHost \in [Servers -> [Files -> Version]]
  /\ lastSuccess \in Time \union {Never}
  /\ plans \in Seq(Intent)
  /\ deploy \in Deploy \union {Idle}
  /\ deploy.pending \subseteq deploy.hosts \X DOMAIN deploy.intent
  /\ outdated \subseteq DOMAIN plans
  /\ raced \in BOOLEAN

Init ==
  /\ now = 0
  /\ source = [f \in Files |-> [version |-> 1, mtime |-> 0]]
  /\ onHost = [h \in Servers |-> [f \in Files |-> 0]]
  /\ lastSuccess = Never
  /\ plans = <<>>
  /\ deploy = Idle
  /\ outdated = {}
  /\ raced = FALSE

-----------------------------------------------------------------------------
Tick ==
  /\ now < MaxTime
  /\ now' = now + 1
  /\ UNCHANGED <<source, onHost, lastSuccess, plans, deploy, outdated, raced>>

\* A file is written, with a new content or only a new mtime.
Edit(f) ==
  /\ \E v \in {source[f].version, source[f].version + 1} \intersect Version :
       source' = [source EXCEPT ![f] = [version |-> v, mtime |-> now]]
  /\ outdated' = DOMAIN plans
  /\ UNCHANGED <<now, onHost, lastSuccess, plans, deploy, raced>>

\* Fault: a file written in the very second of the stamp is not newer.
NewerSeconds(f) == lastSuccess = Never \/ source[f].mtime > lastSuccess
\* The stamp has whole seconds and an mtime has a fraction: a file written in
\* the second of the stamp is newer.  Without a stamp every file is selected.
Newer(f) == lastSuccess = Never \/ source[f].mtime >= lastSuccess

\* `local81 plan`: _discover_files, and the sha256 of each selected file.
MakePlan ==
  /\ Len(plans) < MaxPlans
  /\ plans' = Append(plans, [f \in {g \in Files : Newer(g)} |-> source[f].version])
  /\ UNCHANGED <<now, source, onHost, lastSuccess, deploy, outdated, raced>>

-----------------------------------------------------------------------------
\* `local81 deploy --plan`, any plan there is.
Start ==
  /\ ~deploy.running
  /\ \E p \in DOMAIN plans, hosts \in Limits, dryRun \in BOOLEAN :
       deploy' = [running |-> TRUE, plan |-> p, intent |-> plans[p], hosts |-> hosts,
                  pending |-> hosts \X DOMAIN plans[p], dryRun |-> dryRun,
                  failed |-> FALSE]
  /\ UNCHANGED <<now, source, onHost, lastSuccess, plans, outdated, raced>>

\* Fault: a file that exists is taken for converged.
ConvergedIfThere(h, f) == onHost[h][f] # 0
\* The gate: the server's file has the sha256 of the plan.
Converged(h, f) == onHost[h][f] = deploy.intent[f]

\* One rsync step: skipped when converged; otherwise it pushes what the source
\* has now, or fails and leaves the server as it was.
Push(h, f) ==
  /\ <<h, f>> \in deploy.pending
  /\ \/ /\ deploy.dryRun \/ Converged(h, f)
        /\ deploy' = [deploy EXCEPT !.pending = @ \ {<<h, f>>}]
        /\ UNCHANGED onHost
     \/ /\ ~deploy.dryRun /\ ~Converged(h, f)
        /\ deploy' = [deploy EXCEPT !.pending = @ \ {<<h, f>>}]
        /\ onHost' = [onHost EXCEPT ![h][f] = source[f].version]
     \/ /\ ~deploy.dryRun /\ ~Converged(h, f)
        /\ deploy' = [deploy EXCEPT !.pending = @ \ {<<h, f>>}, !.failed = TRUE]
        /\ UNCHANGED onHost
  /\ UNCHANGED <<now, source, lastSuccess, plans, outdated, raced>>

\* Fault: a dry run is a success.
StampsDryRun == ~deploy.failed
Stamps == ~deploy.dryRun /\ ~deploy.failed

\* _now_iso: the time of the stamp, rounded down to a second.
Stamp == now

\* The deploy is over, or --fail-fast and the fleet's threshold end it after a
\* failure: _update_scope_state after a live run without one.
End ==
  /\ deploy.running
  /\ deploy.pending = {} \/ deploy.failed
  /\ IF Stamps
       THEN /\ lastSuccess' = Stamp
            /\ raced' = (raced \/ deploy.plan \in outdated \/ deploy.hosts # Servers)
       ELSE UNCHANGED <<lastSuccess, raced>>
  /\ deploy' = Idle
  /\ UNCHANGED <<now, source, onHost, plans, outdated>>

\* The deploy is killed, maybe while it writes the state file: a state that
\* does not parse is read as no state.
Kill ==
  /\ deploy.running
  /\ lastSuccess' \in {lastSuccess} \union
       (IF deploy.pending = {} /\ Stamps THEN {Never} ELSE {})
  /\ deploy' = Idle
  /\ UNCHANGED <<now, source, onHost, plans, outdated, raced>>

Next ==
  \/ Tick
  \/ \E f \in Files : Edit(f)
  \/ MakePlan
  \/ Start
  \/ \E h \in Servers, f \in Files : Push(h, f)
  \/ End
  \/ Kill

Spec == Init /\ [][Next]_vars

-----------------------------------------------------------------------------
Missing(f) == \E h \in Servers : onHost[h][f] # source[f].version

\* No file is forgotten: one that a server does not have is selected by the
\* next plan, whatever failed, was killed or only simulated in between, as long
\* as last_success was stamped by deploys of every server whose plan was made
\* after the last edit.
NothingForgotten == ~raced => \A f \in Files : Missing(f) => Newer(f)

\* A plan that no edit has outdated has every file that a server lacks, also
\* when other plans were deployed, failed or were killed since it was made.
FreshPlanSuffices ==
  ~raced => \A p \in DOMAIN plans \ outdated :
    \A f \in Files : Missing(f) => f \in DOMAIN plans[p]

\* What a live deploy of a plan that no edit has outdated is done with is on its
\* servers as it is in the source: it has the plan's sha256, and so has the
\* source.  (The inductive strengthening of the two invariants above.)
DoneIsDelivered ==
  /\ lastSuccess <= now
  /\ \A p \in DOMAIN plans \ outdated :
       \A f \in DOMAIN plans[p] : plans[p][f] = source[f].version
  /\ deploy.running =>
       /\ deploy.plan \in DOMAIN plans
       /\ deploy.intent = plans[deploy.plan]
       /\ ~deploy.dryRun /\ ~deploy.failed /\ deploy.plan \notin outdated =>
            \A h \in deploy.hosts, f \in DOMAIN deploy.intent :
              <<h, f>> \notin deploy.pending => onHost[h][f] = source[f].version

\* When last_success is stamped, by a deploy of every server whose plan was
\* made after the last edit, every server has every file as it is.
CompleteAtStamp ==
  [][deploy.running /\ ~deploy'.running /\ lastSuccess' # lastSuccess
     /\ lastSuccess' # Never /\ ~raced' => \A f \in Files : ~Missing(f)]_vars
=============================================================================
