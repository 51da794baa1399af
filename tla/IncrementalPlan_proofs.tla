------------------------- MODULE IncrementalPlan_proofs ---------------------
(***************************************************************************)
(* IncrementalPlan for any files, servers and bounds.  The invariant has   *)
(* three parts that need each other: what a server lacks is selected by    *)
(* the next plan (NothingForgotten) and is in every plan that no edit has  *)
(* outdated (FreshPlanSuffices), and what a deploy of such a plan is done  *)
(* with has been delivered (DoneIsDelivered).                              *)
(***************************************************************************)
EXTENDS IncrementalPlan, TLAPS

(* Whatever files a plan selects, its sha256s are an intent.                *)
LEMMA Selections ==
  ASSUME NEW S \in SUBSET Files, NEW q \in [S -> Version]
  PROVE  q \in Intent
<1>1. [S -> Version] \in {[T -> Version] : T \in SUBSET Files}
  OBVIOUS
<1>2. QED
  BY <1>1, Zenon DEF Intent

(* Every variable stays in its type.                                        *)
THEOREM TypeCorrect == Spec => []TypeOK
<1> USE LimitsAssumption, BoundsAssumption
<1>1. Init => TypeOK
  <2> SUFFICES ASSUME Init PROVE TypeOK
    OBVIOUS
  <2>1. now \in Time /\ source \in [Files -> [version : Version, mtime : Time]]
    BY DEF Init, Time, Version
  <2>2. onHost \in [Servers -> [Files -> Version]]
    BY DEF Init, Version
  <2>3. plans \in Seq(Intent) /\ lastSuccess \in Time \union {Never}
    BY DEF Init
  <2>4. deploy \in Deploy \union {Idle} /\ deploy.pending \subseteq deploy.hosts \X DOMAIN deploy.intent
    BY DEF Init, Idle
  <2>5. outdated \subseteq DOMAIN plans /\ raced \in BOOLEAN
    BY DEF Init
  <2>6. QED
    BY <2>1, <2>2, <2>3, <2>4, <2>5 DEF TypeOK
<1>2. TypeOK /\ [Next]_vars => TypeOK'
  <2> SUFFICES ASSUME TypeOK, [Next]_vars PROVE TypeOK'
    OBVIOUS
  <2> USE DEF TypeOK
  <2>1. CASE Tick
    BY <2>1 DEF Tick, Time
  <2>2. ASSUME NEW f \in Files, Edit(f) PROVE TypeOK'
    BY <2>2 DEF Edit
  <2>3. CASE MakePlan
    <3> DEFINE intent == [f \in {g \in Files : Newer(g)} |-> source[f].version]
    <3>1. intent \in Intent
      <4>1. {g \in Files : Newer(g)} \in SUBSET Files
        OBVIOUS
      <4>2. intent \in [{g \in Files : Newer(g)} -> Version]
        OBVIOUS
      <4>3. QED
        BY <4>1, <4>2, Selections
    <3>2. plans' = Append(plans, intent)
      BY <2>3 DEF MakePlan
    <3>3. plans' \in Seq(Intent) /\ DOMAIN plans \subseteq DOMAIN plans'
      BY <3>1, <3>2
    <3>4. QED
      BY <2>3, <3>3 DEF MakePlan
  <2>4. CASE Start
    <3>1. PICK p \in DOMAIN plans, hosts \in Limits, dryRun \in BOOLEAN :
            deploy' = [running |-> TRUE, plan |-> p, intent |-> plans[p], hosts |-> hosts,
                       pending |-> hosts \X DOMAIN plans[p], dryRun |-> dryRun,
                       failed |-> FALSE]
      BY <2>4 DEF Start
    <3>2. plans[p] \in Intent /\ p \in Nat
      OBVIOUS
    <3>3. DOMAIN plans[p] \subseteq Files
      BY <3>2 DEF Intent
    <3>4. hosts \X DOMAIN plans[p] \in SUBSET (Servers \X Files)
      BY <3>3
    <3>5. deploy' \in Deploy
      BY <3>1, <3>2, <3>4 DEF Deploy
    <3>6. deploy'.pending \subseteq deploy'.hosts \X DOMAIN deploy'.intent
      BY <3>1
    <3>7. QED
      BY <2>4, <3>5, <3>6 DEF Start
  <2>5. ASSUME NEW h \in Servers, NEW f \in Files, Push(h, f) PROVE TypeOK'
    <3>1. deploy \in Deploy
      BY <2>5 DEF Push, Idle
    <3>2. PICK failed \in BOOLEAN :
            deploy' = [deploy EXCEPT !.pending = @ \ {<<h, f>>}, !.failed = failed]
      <4>1. deploy.failed \in BOOLEAN
        BY <3>1 DEF Deploy
      <4>2. [deploy EXCEPT !.pending = @ \ {<<h, f>>}] =
              [deploy EXCEPT !.pending = @ \ {<<h, f>>}, !.failed = deploy.failed]
        BY <3>1 DEF Deploy
      <4>3. QED
        BY <2>5, <4>1, <4>2 DEF Push
    <3>3. deploy' \in Deploy /\ deploy'.pending \subseteq deploy.pending
      BY <3>1, <3>2 DEF Deploy
    <3>4. deploy'.hosts = deploy.hosts /\ deploy'.intent = deploy.intent
      BY <3>1, <3>2 DEF Deploy
    <3>5. onHost' \in [Servers -> [Files -> Version]]
      <4>1. source[f].version \in Version
        OBVIOUS
      <4>2. [onHost[h] EXCEPT ![f] = source[f].version] \in [Files -> Version]
        BY <4>1
      <4>3. [onHost EXCEPT ![h][f] = source[f].version] \in [Servers -> [Files -> Version]]
        BY <4>2
      <4>4. QED
        BY <2>5, <4>3 DEF Push
    <3>6. QED
      BY <2>5, <3>3, <3>4, <3>5 DEF Push
  <2>6. CASE End
    BY <2>6 DEF End, Stamp, Idle
  <2>7. CASE Kill
    BY <2>7 DEF Kill, Idle
  <2>8. CASE UNCHANGED vars
    BY <2>8 DEF vars
  <2>9. QED
    BY <2>1, <2>2, <2>3, <2>4, <2>5, <2>6, <2>7, <2>8 DEF Next
<1>3. QED
  BY <1>1, <1>2, PTL DEF Spec
-----------------------------------------------------------------------------
Inv == NothingForgotten /\ FreshPlanSuffices /\ DoneIsDelivered

(* A step of a deploy takes the contents the source has now to a server that *)
(* lacked them, and never takes any away: what a server lacks afterwards, it *)
(* lacked before.                                                            *)
LEMMA PushesHelp ==
  ASSUME TypeOK, NEW h \in Servers, NEW f \in Files, Push(h, f)
  PROVE  /\ \A k \in Servers, g \in Files :
              \/ onHost'[k][g] = onHost[k][g]
              \/ k = h /\ g = f /\ onHost'[k][g] = source[g].version
         /\ \A g \in Files : Missing(g)' => Missing(g)
<1>1. \A k \in Servers, g \in Files :
        \/ onHost'[k][g] = onHost[k][g]
        \/ k = h /\ g = f /\ onHost'[k][g] = source[g].version
  <2>1. CASE UNCHANGED onHost
    BY <2>1
  <2>2. CASE onHost' = [onHost EXCEPT ![h][f] = source[f].version]
    BY <2>2 DEF TypeOK
  <2>3. QED
    BY <2>1, <2>2 DEF Push
<1>2. source' = source
  BY DEF Push
<1>3. QED
  BY <1>1, <1>2 DEF Missing

(* A deploy that stamps last_success has brought every server up to date, if *)
(* its plan is not outdated and it left no server out.                       *)
LEMMA StampsComplete ==
  ASSUME TypeOK, Inv, ~raced,
         deploy.running, deploy.pending = {}, Stamps,
         deploy.plan \notin outdated, deploy.hosts = Servers
  PROVE  \A f \in Files : ~Missing(f)
<1> SUFFICES ASSUME NEW f \in Files, NEW h \in Servers
             PROVE  onHost[h][f] = source[f].version
  BY DEF Missing
<1>1. CASE f \in DOMAIN deploy.intent
  BY <1>1 DEF Inv, DoneIsDelivered, Stamps
<1>2. CASE f \notin DOMAIN deploy.intent
  <2>1. deploy.plan \in DOMAIN plans /\ f \notin DOMAIN plans[deploy.plan]
    BY <1>2 DEF Inv, DoneIsDelivered
  <2>2. ~Missing(f)
    BY <2>1 DEF Inv, FreshPlanSuffices
  <2>3. QED
    BY <2>2 DEF Missing
<1>3. QED
  BY <1>1, <1>2

(* The three parts are preserved together by every step.                     *)
LEMMA InvStep == TypeOK /\ TypeOK' /\ Inv /\ [Next]_vars => Inv'
<1> SUFFICES ASSUME TypeOK, TypeOK', Inv, [Next]_vars PROVE Inv'
  OBVIOUS
<1> USE DEF Inv
<1>1. CASE Tick
  BY <1>1 DEF Tick, TypeOK, Time, Never, NothingForgotten, FreshPlanSuffices, DoneIsDelivered,
     Missing, Newer
<1>2. ASSUME NEW f \in Files, Edit(f) PROVE Inv'
  <2>1. PICK v \in Version : source' = [source EXCEPT ![f] = [version |-> v, mtime |-> now]]
    BY <1>2 DEF Edit
  <2>2. outdated' = DOMAIN plans' /\ UNCHANGED <<now, onHost, lastSuccess, plans, deploy, raced>>
    BY <1>2 DEF Edit
  <2>3. lastSuccess = Never \/ now >= lastSuccess
    BY DEF TypeOK, DoneIsDelivered
  <2>4. NothingForgotten'
    <3> SUFFICES ASSUME ~raced, NEW g \in Files, Missing(g)' PROVE Newer(g)'
      BY <2>2 DEF NothingForgotten
    <3>1. CASE g = f
      BY <2>1, <2>2, <2>3, <3>1 DEF TypeOK, Newer
    <3>2. CASE g # f
      <4>1. source'[g] = source[g]
        BY <2>1, <3>2 DEF TypeOK
      <4>2. Missing(g)
        BY <2>2, <4>1 DEF Missing
      <4>3. QED
        BY <2>2, <4>1, <4>2 DEF NothingForgotten, Newer
    <3>3. QED
      BY <3>1, <3>2
  <2>5. FreshPlanSuffices'
    BY <2>2 DEF FreshPlanSuffices
  <2>6. DoneIsDelivered'
    BY <2>2 DEF DoneIsDelivered
  <2>7. QED
    BY <2>4, <2>5, <2>6
<1>3. CASE MakePlan
  <2> DEFINE intent == [f \in {g \in Files : Newer(g)} |-> source[f].version]
  <2>1. /\ plans' = Append(plans, intent)
        /\ UNCHANGED <<now, source, onHost, lastSuccess, deploy, outdated, raced>>
    BY <1>3 DEF MakePlan
  <2>2. \A f \in Files : (Missing(f)' <=> Missing(f)) /\ (Newer(f)' <=> Newer(f))
    BY <2>1 DEF Missing, Newer
  <2>3. \A p \in DOMAIN plans' : \/ p \in DOMAIN plans /\ plans'[p] = plans[p]
                                 \/ p \notin DOMAIN plans /\ plans'[p] = intent
    BY <2>1 DEF TypeOK
  <2>4. DOMAIN plans \subseteq DOMAIN plans' /\ \A p \in DOMAIN plans : plans'[p] = plans[p]
    BY <2>1 DEF TypeOK
  <2>5. NothingForgotten'
    BY <2>1, <2>2 DEF NothingForgotten
  <2>6. FreshPlanSuffices'
    <3> SUFFICES ASSUME ~raced, NEW p \in DOMAIN plans' \ outdated,
                        NEW f \in Files, Missing(f)
                 PROVE  f \in DOMAIN plans'[p]
      BY <2>1, <2>2 DEF FreshPlanSuffices
    <3>1. Newer(f)
      BY DEF NothingForgotten
    <3>2. CASE p \in DOMAIN plans
      BY <2>4, <3>2 DEF FreshPlanSuffices
    <3>3. CASE p \notin DOMAIN plans
      BY <2>3, <3>1, <3>3
    <3>4. QED
      BY <3>2, <3>3
  <2>7. DoneIsDelivered'
    <3>1. \A p \in DOMAIN plans' \ outdated :
            \A f \in DOMAIN plans'[p] : plans'[p][f] = source[f].version
      <4>1. \A f \in DOMAIN intent : intent[f] = source[f].version
        OBVIOUS
      <4> HIDE DEF intent
      <4>2. QED
        BY <2>3, <4>1 DEF DoneIsDelivered
    <3>2. deploy.running => deploy.plan \in DOMAIN plans' /\ deploy.intent = plans'[deploy.plan]
      BY <2>4 DEF DoneIsDelivered
    <3>3. QED
      BY <2>1, <3>1, <3>2 DEF DoneIsDelivered
  <2>8. QED
    BY <2>5, <2>6, <2>7
<1>4. CASE Start
  <2>1. PICK p \in DOMAIN plans, hosts \in Limits, dryRun \in BOOLEAN :
          deploy' = [running |-> TRUE, plan |-> p, intent |-> plans[p], hosts |-> hosts,
                     pending |-> hosts \X DOMAIN plans[p], dryRun |-> dryRun,
                     failed |-> FALSE]
    BY <1>4 DEF Start
  <2>2. UNCHANGED <<now, source, onHost, lastSuccess, plans, outdated, raced>>
    BY <1>4 DEF Start
  <2>3. \A f \in Files : (Missing(f)' <=> Missing(f)) /\ (Newer(f)' <=> Newer(f))
    BY <2>2 DEF Missing, Newer
  <2>4. NothingForgotten' /\ FreshPlanSuffices'
    BY <2>2, <2>3 DEF NothingForgotten, FreshPlanSuffices
  <2>5. DoneIsDelivered'
    BY <2>1, <2>2 DEF DoneIsDelivered
  <2>6. QED
    BY <2>4, <2>5
<1>5. ASSUME NEW h \in Servers, NEW f \in Files, Push(h, f) PROVE Inv'
  <2>1. UNCHANGED <<now, source, lastSuccess, plans, outdated, raced>> /\ deploy \in Deploy
    BY <1>5 DEF Push, TypeOK, Idle
  <2>2. \A g \in Files : (Missing(g)' => Missing(g)) /\ (Newer(g)' <=> Newer(g))
    BY <1>5, <2>1, PushesHelp DEF Newer
  <2>3. NothingForgotten' /\ FreshPlanSuffices'
    BY <2>1, <2>2 DEF NothingForgotten, FreshPlanSuffices
  <2>4. /\ deploy'.running = deploy.running /\ deploy'.plan = deploy.plan
        /\ deploy'.intent = deploy.intent /\ deploy'.hosts = deploy.hosts
        /\ deploy'.dryRun = deploy.dryRun /\ deploy'.pending = deploy.pending \ {<<h, f>>}
        /\ deploy.running /\ (~deploy'.failed => ~deploy.failed)
    BY <1>5, <2>1 DEF Push, Deploy
  <2>5. ASSUME ~deploy.dryRun, ~deploy'.failed, deploy.plan \notin outdated,
               NEW k \in deploy.hosts, NEW g \in DOMAIN deploy.intent,
               <<k, g>> \notin deploy'.pending
        PROVE  onHost'[k][g] = source[g].version
    <3>1. k \in Servers /\ g \in Files
      <4>1. deploy.hosts \subseteq Servers /\ deploy.intent \in Intent
        BY <2>1, LimitsAssumption DEF Deploy
      <4>2. QED
        BY <4>1 DEF Intent
    <3>2. CASE k = h /\ g = f
      <4>1. deploy.intent[f] = source[f].version
        <5>1. deploy.plan \in DOMAIN plans /\ deploy.intent = plans[deploy.plan]
          BY <2>4 DEF DoneIsDelivered
        <5>2. QED
          BY <2>5, <3>2, <5>1 DEF DoneIsDelivered
      <4>2. CASE Converged(h, f)
        BY <1>5, <2>5, <3>2, <4>1, <4>2 DEF Push, Converged
      <4>3. CASE ~Converged(h, f) /\ onHost' = [onHost EXCEPT ![h][f] = source[f].version]
        BY <3>2, <4>3 DEF TypeOK
      <4>4. QED
        BY <1>5, <2>1, <2>5, <4>2, <4>3 DEF Push, Deploy
    <3>3. CASE <<k, g>> # <<h, f>>
      <4>1. <<k, g>> \notin deploy.pending
        BY <2>4, <2>5, <3>3
      <4>2. onHost[k][g] = source[g].version
        BY <2>4, <2>5, <4>1 DEF DoneIsDelivered
      <4>3. QED
        BY <1>5, <3>1, <3>3, <4>2, PushesHelp
    <3>4. QED
      BY <3>2, <3>3
  <2>6. DoneIsDelivered'
    BY <2>1, <2>4, <2>5 DEF DoneIsDelivered
  <2>7. QED
    BY <2>3, <2>6
<1>6. CASE End
  <2>1. UNCHANGED <<now, source, onHost, plans, outdated>> /\ deploy' = Idle
    BY <1>6 DEF End
  <2>2. \A f \in Files : Missing(f)' <=> Missing(f)
    BY <2>1 DEF Missing
  <2>3. (raced => raced') /\ lastSuccess' <= now
    BY <1>6 DEF End, Stamp, DoneIsDelivered, TypeOK, Time
  <2>4. DoneIsDelivered'
    BY <2>1, <2>3 DEF DoneIsDelivered, Idle
  <2>5. FreshPlanSuffices'
    BY <2>1, <2>2, <2>3 DEF FreshPlanSuffices
  <2>6. NothingForgotten'
    <3> SUFFICES ASSUME ~raced', NEW f \in Files, Missing(f) PROVE Newer(f)'
      BY <2>2 DEF NothingForgotten
    <3>1. CASE Stamps
      BY <1>6, <3>1, StampsComplete DEF End, Stamps
    <3>2. CASE ~Stamps
      BY <1>6, <2>1, <3>2 DEF End, NothingForgotten, Newer
    <3>3. QED
      BY <3>1, <3>2
  <2>7. QED
    BY <2>4, <2>5, <2>6
<1>7. CASE Kill
  <2>1. UNCHANGED <<now, source, onHost, plans, outdated, raced>> /\ deploy' = Idle
    BY <1>7 DEF Kill
  <2>2. lastSuccess' = lastSuccess \/ lastSuccess' = Never
    BY <1>7 DEF Kill
  <2>3. \A f \in Files : (Missing(f)' <=> Missing(f)) /\ (Newer(f) => Newer(f)')
    BY <2>1, <2>2 DEF Missing, Newer
  <2>4. NothingForgotten' /\ FreshPlanSuffices'
    BY <2>1, <2>3 DEF NothingForgotten, FreshPlanSuffices
  <2>5. DoneIsDelivered'
    BY <2>1, <2>2 DEF DoneIsDelivered, Idle, Never, TypeOK, Time
  <2>6. QED
    BY <2>4, <2>5
<1>8. CASE UNCHANGED vars
  BY <1>8 DEF vars, NothingForgotten, FreshPlanSuffices, DoneIsDelivered, Missing, Newer
<1>9. QED
  BY <1>1, <1>2, <1>3, <1>4, <1>5, <1>6, <1>7, <1>8 DEF Next

(* They hold in every state.                                                 *)
THEOREM Invariants == Spec => [](TypeOK /\ Inv)
<1>1. Init => Inv
  <2> SUFFICES ASSUME Init PROVE Inv
    OBVIOUS
  <2>1. NothingForgotten
    BY DEF Init, NothingForgotten, Newer
  <2>2. FreshPlanSuffices
    BY DEF Init, FreshPlanSuffices
  <2>3. DoneIsDelivered
    BY DEF Init, DoneIsDelivered, Never, Idle
  <2>4. QED
    BY <2>1, <2>2, <2>3 DEF Inv
<1>2. QED
  BY <1>1, TypeCorrect, InvStep, PTL DEF Spec

(* What a server lacks is selected by the next plan.                         *)
THEOREM NothingForgottenHolds == Spec => []NothingForgotten
BY Invariants, PTL DEF Inv

(* A plan that no edit has outdated has all that a server lacks.             *)
THEOREM FreshPlanSufficesHolds == Spec => []FreshPlanSuffices
BY Invariants, PTL DEF Inv

(* What a deploy of such a plan is done with has been delivered.             *)
THEOREM DoneIsDeliveredHolds == Spec => []DoneIsDelivered
BY Invariants, PTL DEF Inv

(* last_success is stamped only over servers that are up to date.            *)
THEOREM CompleteAtStampHolds == Spec => CompleteAtStamp
<1> DEFINE Complete ==
      deploy.running /\ ~deploy'.running /\ lastSuccess' # lastSuccess
        /\ lastSuccess' # Never /\ ~raced' => \A f \in Files : ~Missing(f)
<1>1. TypeOK /\ Inv /\ [Next]_vars => [Complete]_vars
  <2> SUFFICES ASSUME TypeOK, Inv, Next,
                      deploy.running, lastSuccess' # lastSuccess,
                      lastSuccess' # Never, ~raced'
               PROVE  \A f \in Files : ~Missing(f)
    OBVIOUS
  <2>1. End /\ Stamps
    BY DEF Next, Tick, Edit, MakePlan, Start, Push, End, Kill
  <2>2. QED
    BY <2>1, StampsComplete DEF End, Stamps
<1>2. QED
  BY <1>1, Invariants, PTL DEF Spec, CompleteAtStamp
=============================================================================
