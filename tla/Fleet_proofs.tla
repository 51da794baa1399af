----------------------------- MODULE Fleet_proofs ---------------------------
(***************************************************************************)
(* The fleet: its scheduler, and the onboarding of its hosts.              *)
(*                                                                         *)
(* Fleet for any number of hosts and any --forks, --serial and --max-fail. *)
(* SchedulerInv, with the type invariant, is inductive: it says which      *)
(* hosts each position of the scheduler has touched and that `failures`    *)
(* counts exactly the failed hosts of the batches already closed.          *)
(*                                                                         *)
(* Onboard, in the second part, for any operators, hosts and key paths.    *)
(* Sound says what a command has probed and copied at each place: every    *)
(* named host is probed once before the first copy, and a host gets the    *)
(* key only when its own probe could not log in.                           *)
(***************************************************************************)
EXTENDS Fleet, Onboard, FiniteSetTheorems, SequenceTheorems, NaturalsInduction,
        WellFoundedInduction, TLAPS

(* What the command line resolves to: a batch of at least one host, at      *)
(* least one thread, and a threshold test that is "Budget failures".        *)
LEMMA CommandLine ==
  ASSUME config \in Configs
  PROVE  /\ Serial \in 1 .. NumHosts
         /\ Threshold \in Int
         /\ Budget \in Nat \ {0}
         /\ Workers \in Nat \ {0}
         /\ \A n \in Nat : ThresholdBreached(n, Threshold) <=> n >= Budget
<1>1. config.forks \in Int /\ config.serial \in Count /\ config.maxFail \in Count
  BY ConfigsAssumption
<1>2. ASSUME NEW spec \in Count PROVE ResolveCount(spec, NumHosts) \in Int
  <2>1. spec.n \in Int /\ spec.unit \in {"none", "hosts", "percent"}
    BY DEF Count
  <2>2. (-spec.n) * NumHosts \in Int
    BY <2>1, NumHostsAssumption
  <2>3. ((-spec.n) * NumHosts) \div 100 \in Int
    BY <2>2
  <2>4. CASE spec.unit = "none"
    BY <2>4 DEF ResolveCount
  <2>5. CASE spec.unit = "hosts"
    BY <2>1, <2>5 DEF ResolveCount
  <2>6. CASE spec.unit = "percent"
    BY <2>3, <2>6 DEF ResolveCount, AtLeast
  <2>7. QED
    BY <2>1, <2>4, <2>5, <2>6
<1>3. Serial \in 1 .. NumHosts
  <2>1. ResolveCount(config.serial, NumHosts) \in Int
    BY <1>1, <1>2
  <2>2. QED
    BY <2>1, NumHostsAssumption DEF Serial, ParseSerial, AtMost
<1>4. Threshold \in Int
  BY <1>1, <1>2 DEF Threshold
<1>5. Budget \in Nat \ {0} /\ Workers \in Nat \ {0}
  BY <1>1, <1>4 DEF Budget, Workers, AtLeast
<1>6. \A n \in Nat : ThresholdBreached(n, Threshold) <=> n >= Budget
  BY <1>4 DEF ThresholdBreached, Budget, AtLeast
<1>7. QED
  BY <1>3, <1>4, <1>5, <1>6

(* Sets of hosts are finite, and a smaller one has no more members.         *)
LEMMA HostSets ==
  ASSUME NEW S \in SUBSET Host
  PROVE  /\ IsFiniteSet(S)
         /\ Cardinality(S) \in Nat
         /\ \A T \in SUBSET S : Cardinality(T) <= Cardinality(S)
<1>1. IsFiniteSet(Host)
  BY FS_Interval, NumHostsAssumption DEF Host
<1>2. IsFiniteSet(S)
  BY <1>1, FS_Subset
<1>3. QED
  BY <1>2, FS_Subset, FS_CardinalityType

(* Every variable stays in its type.                                        *)
THEOREM TypeCorrect == Spec => []TypeOK
<1>1. Init => TypeOK
  <2> SUFFICES ASSUME Init PROVE TypeOK
    OBVIOUS
  <2>1. lost \in SUBSET Host
    BY DEF Init
  <2>2. aborted \in BOOLEAN
    BY DEF Init
  <2>3. status \in [Host -> Status]
    BY DEF Init, Status
  <2>4. config \in Configs /\ pc \in {"check", "batch", "done"}
    BY DEF Init
  <2>5. submitted \in 0 .. NumHosts /\ reported \in 0 .. NumHosts /\ failures \in Nat
    BY NumHostsAssumption DEF Init
  <2>6. QED
    BY <2>1, <2>2, <2>3, <2>4, <2>5 DEF TypeOK
<1>2. TypeOK /\ [Next]_vars => TypeOK'
  <2> SUFFICES ASSUME TypeOK, [Next]_vars PROVE TypeOK'
    OBVIOUS
  <2> USE NumHostsAssumption DEF TypeOK, Status, Terminal
  <2>1. CASE Abort
    BY <2>1 DEF NotStarted, Abort
  <2>2. CASE StartBatch
    <3>1. Serial \in 1 .. NumHosts
      BY CommandLine
    <3>2. submitted' \in 0 .. NumHosts
      BY <2>2, <3>1 DEF StartBatch, AtMost
    <3>3. QED
      BY <2>2, <3>2 DEF StartBatch
  <2>3. CASE CloseBatch
    <3>1. Cardinality({h \in Batch : status[h] = "failed"}) \in Nat
      BY HostSets DEF Batch, Host
    <3>2. QED
      BY <2>3, <3>1 DEF FailuresSoFar, CloseBatch
  <2>4. CASE Return
    BY <2>4 DEF Return
  <2>5. ASSUME NEW h \in Host, Begin(h) PROVE TypeOK'
    BY <2>5 DEF Begin
  <2>6. ASSUME NEW h \in Host, Finish(h) PROVE TypeOK'
    BY <2>6 DEF Finish, Classify
  <2>7. ASSUME NEW h \in Host, Crash(h) PROVE TypeOK'
    BY <2>7 DEF Crash
  <2>8. CASE UNCHANGED vars
    BY <2>8 DEF vars
  <2>9. QED
    BY <2>1, <2>2, <2>3, <2>4, <2>5, <2>6, <2>7, <2>8 DEF Next, Scheduler, Terminated
<1>3. QED
  BY <1>1, <1>2, PTL DEF Spec

-----------------------------------------------------------------------------
(* Closing a batch counts its failed hosts once, on top of the earlier ones. *)
LEMMA FailuresAddUp ==
  ASSUME TypeOK, reported <= submitted
  PROVE  Cardinality({h \in Failed : h <= submitted})
           = Cardinality({h \in Failed : h <= reported})
             + Cardinality({h \in Batch : status[h] = "failed"})
<1> DEFINE Before == {h \in Failed : h <= reported}
           Now == {h \in Batch : status[h] = "failed"}
<1>1. {h \in Failed : h <= submitted} = Before \union Now
  BY NumHostsAssumption DEF TypeOK, Failed, Batch, Host
<1>2. Before \intersect Now = {}
  BY DEF TypeOK, Failed, Batch, Host
<1>3. Before \in SUBSET Host /\ Now \in SUBSET Host
  BY NumHostsAssumption DEF TypeOK, Failed, Batch, Host
<1>4. IsFiniteSet(Before) /\ IsFiniteSet(Now)
  BY <1>3, HostSets
<1>5. Cardinality(Before) \in Nat /\ Cardinality(Now) \in Nat
  BY <1>3, HostSets
<1>6. Cardinality(Before \union Now)
        = Cardinality(Before) + Cardinality(Now) - Cardinality(Before \intersect Now)
  BY <1>4, FS_Union
<1>7. Cardinality(Before \intersect Now) = 0
  BY <1>2, FS_EmptySet
<1> HIDE DEF Before, Now
<1>8. Cardinality(Before \union Now) = Cardinality(Before) + Cardinality(Now)
  BY <1>5, <1>6, <1>7
<1>9. QED
  BY <1>1, <1>8 DEF Before, Now

(* SchedulerInv is inductive relative to the type invariant.                *)
THEOREM SchedulerCorrect == Spec => []SchedulerInv
<1>1. Init => SchedulerInv
  <2> SUFFICES ASSUME Init PROVE SchedulerInv
    OBVIOUS
  <2>1. config \in Configs /\ Budget \in Nat \ {0}
    BY CommandLine DEF Init
  <2>2. {h \in Failed : h <= reported} = {}
    BY DEF Init, Failed
  <2>3. failures = Cardinality({h \in Failed : h <= reported})
    BY <2>2, FS_EmptySet DEF Init
  <2>4. QED
    BY <2>1, <2>3, NumHostsAssumption DEF Init, SchedulerInv, Position, HostsFit, CountFits, Host
<1>2. TypeOK /\ SchedulerInv /\ [Next]_vars => SchedulerInv'
  <2> SUFFICES ASSUME TypeOK, Position, HostsFit, CountFits, [Next]_vars
               PROVE  Position' /\ HostsFit' /\ CountFits'
    BY DEF SchedulerInv
  <2>0. /\ Serial \in 1 .. NumHosts
        /\ Budget \in Nat \ {0}
        /\ \A n \in Nat : ThresholdBreached(n, Threshold) <=> n >= Budget
    BY CommandLine DEF TypeOK
  <2>a. config' = config => Serial' = Serial /\ Budget' = Budget
    BY DEF Serial, Budget, Threshold
  <2>b. ASSUME failures' = failures, {h \in Failed : h <= reported}' = {h \in Failed : h <= reported}
        PROVE  CountFits'
    BY <2>b DEF CountFits
  <2> USE NumHostsAssumption
  <2>1. CASE Abort
    <3>1. /\ pc = "check" /\ pc' = "done" /\ aborted' = TRUE
          /\ reported' = NumHosts /\ submitted' = submitted /\ failures' = failures
          /\ config' = config /\ reported < NumHosts
      BY <2>1 DEF Abort
    <3>2. failures >= Budget
      BY <2>1, <2>0 DEF Abort, TypeOK
    <3>3. submitted = reported
      BY <3>1 DEF Position
    <3>4. \A h \in Host :
            status'[h] = IF h > reported THEN "skipped" ELSE status[h]
      BY <2>1 DEF NotStarted, Abort
    <3>5. {h \in Failed : h <= reported}' = {h \in Failed : h <= reported}
      BY <2>1, <3>3 DEF NotStarted, Abort, TypeOK, HostsFit, Failed, Host
    <3>6. Position'
      BY <2>a, <3>1, <3>2, <3>3 DEF Position
    <3>7. HostsFit'
      <4> SUFFICES ASSUME NEW h \in Host
                   PROVE  /\ h > submitted => status'[h] = "skipped"
                          /\ h <= submitted =>
                               status'[h] \notin {"waiting", "skipped"} /\ status'[h] \in Terminal
        BY <3>1 DEF HostsFit
      <4>1. CASE h > submitted
        BY <4>1, <3>3, <3>4 DEF Host, TypeOK
      <4>2. CASE h <= submitted
        BY <4>2, <3>3, <3>4 DEF HostsFit, Host, TypeOK
      <4>3. QED
        BY <4>1, <4>2 DEF Host, TypeOK
    <3>8. QED
      BY <2>b, <3>1, <3>5, <3>6, <3>7
  <2>2. CASE StartBatch
    <3>1. submitted' \in (reported + 1) .. NumHosts /\ submitted' <= reported + Serial
      BY <2>2, <2>0 DEF StartBatch, AtMost, TypeOK
    <3>2. {h \in Failed : h <= reported}' = {h \in Failed : h <= reported}
      BY <2>2 DEF StartBatch, TypeOK, Failed, Host
    <3>3. failures < Budget
      BY <2>2, <2>0 DEF StartBatch, TypeOK
    <3>4. reported = submitted /\ ~aborted
      BY <2>2 DEF StartBatch, Position
    <3>5. ASSUME NEW h \in Host
          PROVE  /\ h > submitted' => status'[h] = "waiting"
                 /\ h <= submitted' => status'[h] \notin {"waiting", "skipped"}
                 /\ h <= reported => status'[h] \in Terminal
      <4>1. CASE h \in (reported + 1) .. submitted'
        BY <2>2, <4>1, <3>1 DEF StartBatch, TypeOK, Host
      <4>2. CASE h \notin (reported + 1) .. submitted'
        <5>1. status'[h] = status[h]
          BY <2>2, <4>2 DEF StartBatch
        <5>2. h <= reported \/ h > submitted'
          BY <4>2, <3>1 DEF TypeOK, Host
        <5>3. QED
          BY <5>1, <5>2, <3>1, <3>4 DEF HostsFit, TypeOK, Host
      <4>3. QED
        BY <4>1, <4>2
    <3>6. /\ pc' = "batch" /\ aborted' = FALSE /\ reported' = reported
          /\ failures' = failures /\ config' = config
      BY <2>2, <3>4 DEF StartBatch, TypeOK
    <3>7. Position'
      BY <2>a, <3>1, <3>3, <3>6 DEF Position, TypeOK
    <3>8. HostsFit'
      BY <3>5, <3>6 DEF HostsFit
    <3>9. QED
      BY <2>b, <3>2, <3>6, <3>7, <3>8
  <2>3. CASE CloseBatch
    <3>1. /\ pc = "batch" /\ pc' = "check" /\ reported' = submitted
          /\ submitted' = submitted /\ status' = status /\ aborted' = aborted
      BY <2>3 DEF CloseBatch
    <3>2. reported <= submitted /\ ~aborted
      BY <3>1 DEF Position, TypeOK
    <3>3. \A h \in Host : h <= submitted => status[h] \in Terminal
      BY <2>3, <3>2 DEF CloseBatch, HostsFit, Batch, Host, TypeOK
    <3>4. Position'
      BY <3>1, <3>2 DEF Position
    <3>5. HostsFit'
      BY <3>1, <3>2, <3>3 DEF HostsFit
    <3>6. CountFits'
      <4>1. failures' = Cardinality({h \in Failed : h <= submitted})
        BY <2>3, <3>2, FailuresAddUp DEF FailuresSoFar, CloseBatch, CountFits
      <4>2. {h \in Failed : h <= submitted} = {h \in Failed : h <= reported}'
        BY <3>1 DEF Failed
      <4>3. QED
        BY <4>1, <4>2 DEF CountFits
    <3>7. QED
      BY <3>4, <3>5, <3>6
  <2>4. CASE Return
    <3>1. {h \in Failed : h <= reported}' = {h \in Failed : h <= reported}
      BY <2>4 DEF Return, Failed
    <3>2. Position'
      BY <2>4, <2>a DEF Return, Position
    <3>3. HostsFit'
      BY <2>4 DEF Return, HostsFit
    <3>4. QED
      BY <2>4, <2>b, <3>1, <3>2, <3>3 DEF Return
  <2>5. ASSUME NEW h \in Host, NEW s \in Status \ {"waiting", "skipped"},
               pc = "batch", h \in Batch,
               status' = [status EXCEPT ![h] = s],
               UNCHANGED <<config, pc, submitted, reported, failures, aborted>>
        PROVE  Position' /\ HostsFit' /\ CountFits'
    <3>1. {g \in Failed : g <= reported}' = {g \in Failed : g <= reported}
      BY <2>5 DEF TypeOK, Failed, Batch, Host
    <3>2. h \in Int /\ reported < h /\ h <= submitted /\ status'[h] = s
      BY <2>5 DEF TypeOK, Batch, Host
    <3>3. \A g \in Host \ {h} : status'[g] = status[g]
      BY <2>5 DEF TypeOK
    <3>4. Position'
      BY <2>5, <2>a DEF Position
    <3>5. HostsFit'
      <4> SUFFICES ASSUME NEW g \in Host
                   PROVE  /\ g > submitted => status'[g] = IF aborted THEN "skipped" ELSE "waiting"
                          /\ g <= submitted => status'[g] \notin {"waiting", "skipped"}
                          /\ g <= submitted /\ g <= reported => status'[g] \in Terminal
        BY <2>5 DEF HostsFit
      <4>1. CASE g = h
        BY <4>1, <2>5, <3>2 DEF TypeOK
      <4>2. CASE g # h
        BY <4>2, <3>3 DEF HostsFit
      <4>3. QED
        BY <4>1, <4>2
    <3>6. QED
      BY <2>5, <2>b, <3>1, <3>4, <3>5
  <2>6. ASSUME NEW h \in Host, status[h] \in {"queued", "running"}
        PROVE  pc = "batch" /\ h \in Batch
    BY <2>6 DEF Position, HostsFit, TypeOK, Batch, Host, Terminal
  <2>7. ASSUME NEW h \in Host, Begin(h) PROVE Position' /\ HostsFit' /\ CountFits'
    BY <2>5, <2>6, <2>7 DEF Begin, Status
  <2>8. ASSUME NEW h \in Host, Finish(h) PROVE Position' /\ HostsFit' /\ CountFits'
    BY <2>5, <2>6, <2>8 DEF Finish, Classify, Status, Terminal
  <2>9. ASSUME NEW h \in Host, Crash(h) PROVE Position' /\ HostsFit' /\ CountFits'
    BY <2>5, <2>6, <2>9 DEF Crash, Status, Terminal
  <2>10. CASE UNCHANGED vars
    <3>1. {h \in Failed : h <= reported}' = {h \in Failed : h <= reported}
      BY <2>10 DEF vars, Failed
    <3>2. Position'
      BY <2>10, <2>a DEF vars, Position
    <3>3. HostsFit'
      BY <2>10 DEF vars, HostsFit
    <3>4. QED
      BY <2>10, <2>b, <3>1, <3>2, <3>3 DEF vars
  <2>11. QED
    BY <2>1, <2>2, <2>3, <2>4, <2>7, <2>8, <2>9, <2>10 DEF Next, Scheduler, Terminated
<1>3. QED
  BY <1>1, <1>2, TypeCorrect, PTL DEF Spec
-----------------------------------------------------------------------------
(* Both invariants, for the theorems that rest on them.                     *)
LEMMA Invariants == Spec => [](TypeOK /\ SchedulerInv)
BY TypeCorrect, SchedulerCorrect, PTL

(* The order in which a rollout touches hosts: batch after batch.           *)
THEOREM RollingOrderHolds == Spec => []RollingOrder
<1>1. TypeOK /\ SchedulerInv => RollingOrder
  BY DEF TypeOK, SchedulerInv, Position, HostsFit, CountFits, RollingOrder, Host
<1>2. QED
  BY <1>1, Invariants, PTL

(* Skipped hosts always show in the exit code and in `aborted`.             *)
THEOREM SkipsReportedHolds == Spec => []SkipsAreReported
<1>1. TypeOK /\ SchedulerInv => SkipsAreReported
  <2> SUFFICES ASSUME TypeOK, SchedulerInv, pc = "done"
               PROVE  /\ aborted => Rc = 1
                      /\ aborted <=> \E h \in Host : status[h] = "skipped"
                      /\ ~aborted => \A h \in Host : status[h] \in Terminal
    BY DEF SkipsAreReported
  <2>1. CASE aborted
    <3>1. Budget \in Nat \ {0}
      BY CommandLine DEF TypeOK
    <3>2. Cardinality({h \in Failed : h <= reported}) # 0
      BY <2>1, <3>1 DEF SchedulerInv, Position, HostsFit, CountFits, TypeOK
    <3>3. Failed # {}
      BY <3>2, FS_EmptySet
    <3>4. NumHosts \in Host /\ NumHosts > submitted
      BY <2>1, NumHostsAssumption DEF SchedulerInv, Position, HostsFit, CountFits, Host
    <3>5. status[NumHosts] = "skipped"
      BY <2>1, <3>4 DEF SchedulerInv, Position, HostsFit, CountFits
    <3>6. QED
      BY <2>1, <3>3, <3>4, <3>5 DEF Rc
  <2>2. CASE ~aborted
    <3>1. \A h \in Host : h <= submitted /\ h <= reported
      BY <2>2 DEF SchedulerInv, Position, HostsFit, CountFits, Host
    <3>2. \A h \in Host : status[h] \in Terminal
      BY <3>1 DEF SchedulerInv, Position, HostsFit, CountFits
    <3>3. QED
      BY <2>2, <3>2 DEF Terminal
  <2>3. QED
    BY <2>1, <2>2
<1>2. QED
  BY <1>1, Invariants, PTL

(* A host that was touched is never reported skipped, nor the reverse.      *)
THEOREM SkippedNeverTouchedHolds == Spec => SkippedNeverTouched
<1>1. TypeOK /\ SchedulerInv /\ [Next]_vars =>
        [\A h \in Host :
           /\ status'[h] = "skipped" => status[h] \in {"waiting", "skipped"}
           /\ status[h] = "skipped" => status'[h] = "skipped"]_vars
  <2> SUFFICES ASSUME TypeOK, SchedulerInv, Next, NEW h \in Host
               PROVE  /\ status'[h] = "skipped" => status[h] \in {"waiting", "skipped"}
                      /\ status[h] = "skipped" => status'[h] = "skipped"
    BY DEF vars
  <2>1. CASE Abort
    BY <2>1 DEF NotStarted, Abort, SchedulerInv, Position, HostsFit, CountFits, TypeOK, Host
  <2>2. CASE StartBatch
    BY <2>2, CommandLine DEF StartBatch, SchedulerInv, Position, HostsFit, CountFits, TypeOK, Host
  <2>3. CASE CloseBatch \/ Return \/ Terminated
    BY <2>3 DEF FailuresSoFar, CloseBatch, Return, Terminated, vars
  <2>4. ASSUME NEW g \in Host, Begin(g) \/ Finish(g) \/ Crash(g)
        PROVE  /\ status'[h] = "skipped" => status[h] \in {"waiting", "skipped"}
               /\ status[h] = "skipped" => status'[h] = "skipped"
    BY <2>4 DEF Begin, Finish, Crash, Classify, TypeOK
  <2>5. QED
    BY <2>1, <2>2, <2>3, <2>4 DEF Next, Scheduler
<1>2. QED
  BY <1>1, Invariants, PTL DEF SkippedNeverTouched, Spec

(* No runner starts in a batch the threshold should have stopped.           *)
THEOREM NoStartAfterBreachHolds == Spec => NoStartAfterBreach
<1>1. TypeOK /\ SchedulerInv /\ [Next]_vars =>
        [\A h \in Host :
           status[h] = "queued" /\ status'[h] = "running" =>
             Cardinality({g \in Failed : g <= reported}) < Budget]_vars
  <2> SUFFICES ASSUME TypeOK, SchedulerInv, NEW h \in Host, status[h] = "queued"
               PROVE  Cardinality({g \in Failed : g <= reported}) < Budget
    OBVIOUS
  <2>1. pc = "batch"
    BY DEF TypeOK, SchedulerInv, Position, HostsFit, CountFits, Terminal, Host
  <2>2. QED
    BY <2>1 DEF SchedulerInv, Position, HostsFit, CountFits
<1>2. QED
  BY <1>1, Invariants, PTL DEF NoStartAfterBreach, Spec

-----------------------------------------------------------------------------
(* Failed hosts are those counted before the batch, and some of the batch.  *)
LEMMA FailuresInBatch ==
  ASSUME NEW F \in SUBSET Host,
         NEW lo \in 0 .. NumHosts, NEW hi \in lo .. NumHosts,
         \A h \in F : h <= hi
  PROVE  Cardinality(F) + lo <= Cardinality({h \in F : h <= lo}) + hi
<1> DEFINE Before == {h \in F : h <= lo}
           Here == (lo + 1) .. hi
<1> USE NumHostsAssumption
<1>1. Before \in SUBSET Host /\ Here \in SUBSET Host
  <2>1. \A h \in Here : h \in Host
    BY DEF Host
  <2>2. QED
    BY <2>1
<1>2. /\ IsFiniteSet(Before) /\ IsFiniteSet(Here)
      /\ Cardinality(Before) \in Nat
  BY <1>1, HostSets
<1>3. Cardinality(Here) = hi - lo
  <2>1. lo + 1 \in Int /\ hi \in Int /\ lo <= hi
    OBVIOUS
  <2>2. Cardinality((lo + 1) .. hi) = IF lo + 1 > hi THEN 0 ELSE hi - (lo + 1) + 1
    BY <2>1, FS_Interval
  <2>3. QED
    BY <2>1, <2>2
<1>4. F \in SUBSET (Before \union Here)
  BY DEF Host
<1>5. Before \union Here \in SUBSET Host /\ Before \intersect Here \in SUBSET Host
  BY <1>1
<1>6. Cardinality(F) <= Cardinality(Before \union Here)
  BY <1>4, <1>5, HostSets
<1>7. /\ Cardinality(F) \in Nat
      /\ Cardinality(Before \union Here) \in Nat
      /\ Cardinality(Before \intersect Here) \in Nat
  BY <1>5, HostSets
<1>8. Cardinality(Before \union Here)
        = Cardinality(Before) + Cardinality(Here) - Cardinality(Before \intersect Here)
  BY <1>2, FS_Union
<1> HIDE DEF Before, Here
<1>9. Cardinality(F) + lo <= Cardinality(Before) + hi
  BY <1>2, <1>3, <1>6, <1>7, <1>8
<1>10. QED
  BY <1>9 DEF Before

(* The damage bound of --serial and --max-fail.  While a batch runs it       *)
(* follows from SchedulerInv; no other step makes a host fail.               *)
THEOREM BlastRadiusHolds == Spec => []BlastRadius
<1>1. Init => BlastRadius
  <2> SUFFICES ASSUME Init PROVE BlastRadius
    OBVIOUS
  <2>1. Failed = {}
    BY DEF Init, Failed
  <2>2. Cardinality(Failed) = 0
    BY <2>1, FS_EmptySet
  <2>3. Serial \in 1 .. NumHosts /\ Budget \in Nat \ {0}
    BY CommandLine DEF Init
  <2>4. QED
    BY <2>2, <2>3 DEF BlastRadius
<1>2. /\ TypeOK /\ SchedulerInv /\ BlastRadius /\ [Next]_vars
      /\ TypeOK' /\ SchedulerInv'
      => BlastRadius'
  <2> SUFFICES ASSUME TypeOK, SchedulerInv, BlastRadius, [Next]_vars,
                      TypeOK', SchedulerInv'
               PROVE  BlastRadius'
    OBVIOUS
  <2>0. /\ config' = config
        /\ Serial' = Serial /\ Budget' = Budget
    <3>1. config' = config
      BY DEF Next, Scheduler, Abort, StartBatch, CloseBatch, Return, Begin,
             Finish, Crash, Terminated, vars
    <3>2. QED
      BY <3>1 DEF Serial, Budget, Threshold
  <2>1. Serial \in 1 .. NumHosts /\ Budget \in Nat \ {0}
    BY CommandLine DEF TypeOK
  <2>2. ASSUME Failed' = Failed PROVE BlastRadius'
    BY <2>2, <2>0 DEF BlastRadius
  <2>3. CASE Abort
    BY <2>3, <2>2 DEF NotStarted, Abort, Failed, SchedulerInv, Position, HostsFit, CountFits, TypeOK, Host
  <2>4. CASE StartBatch
    BY <2>4, <2>2, <2>1 DEF StartBatch, Failed, SchedulerInv, Position, HostsFit, CountFits, TypeOK, Host
  <2>5. CASE CloseBatch \/ Return \/ Terminated \/ UNCHANGED vars
    BY <2>5, <2>2 DEF FailuresSoFar, CloseBatch, Return, Terminated, vars, Failed
  <2>6. ASSUME NEW h \in Host, Begin(h) PROVE BlastRadius'
    BY <2>6, <2>2 DEF Begin, Failed, TypeOK
  <2>7. ASSUME NEW h \in Host, Finish(h) \/ Crash(h) PROVE BlastRadius'
    <3>1. pc' = "batch"
      BY <2>7 DEF Finish, Crash, SchedulerInv, Position, HostsFit, CountFits, TypeOK, Terminal, Host
    <3>2. /\ reported' \in 0 .. NumHosts
          /\ submitted' \in reported' .. NumHosts
          /\ submitted' <= reported' + Serial
      <4>1. reported' < submitted' /\ submitted' <= reported' + Serial
        BY <3>1, <2>0 DEF SchedulerInv, Position, HostsFit, CountFits
      <4>2. reported' \in 0 .. NumHosts /\ submitted' \in 0 .. NumHosts
        BY DEF TypeOK
      <4>3. reported' \in Int /\ submitted' \in Int /\ Serial \in Int /\ NumHosts \in Int
        BY <4>2, <2>1, NumHostsAssumption
      <4>4. submitted' \in reported' .. NumHosts
        BY <4>1, <4>2, <4>3
      <4>5. QED
        BY <4>1, <4>2, <4>4
    <3>3. Failed' \in SUBSET Host /\ \A g \in Failed' : g <= submitted'
      BY <3>1, <3>2 DEF SchedulerInv, Position, HostsFit, CountFits, Failed, Host
    <3>4. Cardinality(Failed') + reported'
            <= Cardinality({g \in Failed' : g <= reported'}) + submitted'
      BY <3>2, <3>3, FailuresInBatch
    <3>5. /\ failures' = Cardinality({g \in Failed' : g <= reported'})
          /\ failures' < Budget /\ failures' \in Nat
      BY <3>1, <2>0 DEF SchedulerInv, Position, HostsFit, CountFits, TypeOK
    <3>6. Cardinality(Failed') \in Nat
      BY <3>3, HostSets
    <3>7. Cardinality(Failed') + reported' <= failures' + submitted'
      BY <3>4, <3>5
    <3>8. Cardinality(Failed') <= failures' + Serial
      <4>1. \A c, r, f, s, b \in Int : c + r <= f + s /\ s <= r + b => c <= f + b
        OBVIOUS
      <4>2. /\ Cardinality(Failed') \in Int /\ failures' \in Int /\ Serial \in Int
            /\ reported' \in Int /\ submitted' \in Int
        BY <3>5, <3>6, <2>1 DEF TypeOK
      <4>3. QED
        BY <4>1, <4>2, <3>2, <3>7
    <3>9. Cardinality(Failed') <= Budget - 1 + Serial
      BY <3>5, <3>6, <3>8, <2>1
    <3>10. QED
      BY <3>9, <2>0 DEF BlastRadius
  <2>8. QED
    BY <2>3, <2>4, <2>5, <2>6, <2>7 DEF Next, Scheduler
<1>3. QED
  BY <1>1, <1>2, Invariants, PTL DEF Spec

-----------------------------------------------------------------------------
(* The instance counts with the same Cardinality.                           *)
LEMMA SameCardinality == \A S : RR!Cardinality(S) = Cardinality(S)
BY Zenon DEF RR!Cardinality, Cardinality

(* run_fleet implements the rolling rollout it promises: every step of the   *)
(* scheduler and of the pool's threads is a step of RollingRollout or hidden  *)
(* from it.                                                                   *)
THEOREM FleetImplementsRollingRollout == Spec => ImplementsRollingRollout
<1> DEFINE Ph == [h \in Host |-> PhaseOf(status[h])]
<1> USE NumHostsAssumption
<1>1. Init => RR!Init
  <2> SUFFICES ASSUME Init PROVE RR!Init
    OBVIOUS
  <2>1. Serial \in 1 .. NumHosts /\ Budget \in Nat \ {0}
    BY CommandLine DEF Init
  <2>2. 1 .. submitted = {}
    BY DEF Init
  <2>3. Ph = [h \in Host |-> "waiting"]
    BY DEF Init, PhaseOf
  <2>4. QED
    BY <2>1, <2>2, <2>3 DEF RR!Init
<1>2. /\ TypeOK /\ SchedulerInv /\ [Next]_vars
      => [RR!Next]_(RR!vars)
  <2> SUFFICES ASSUME TypeOK, SchedulerInv, [Next]_vars
               PROVE  RR!Next \/ UNCHANGED RR!vars
    OBVIOUS
  <2>1. /\ Serial \in 1 .. NumHosts /\ Budget \in Nat \ {0}
        /\ \A n \in Nat : ThresholdBreached(n, Threshold) <=> n >= Budget
    BY CommandLine DEF TypeOK
  <2>2. Serial' = Serial /\ Budget' = Budget
    <3>1. config' = config
      BY DEF Next, Scheduler, Abort, StartBatch, CloseBatch, Return, Begin,
             Finish, Crash, Terminated, vars
    <3>2. QED
      BY <3>1 DEF Serial, Budget, Threshold
  <2>3. RR!FailedHosts = Failed
    BY DEF RR!FailedHosts, Failed, PhaseOf, TypeOK, Status, Terminal
  <2>4. ASSUME pc = "check"
        PROVE  /\ RR!AdmittedFinished
               /\ failures = Cardinality(RR!FailedHosts)
    <3>1. submitted = reported /\ ~aborted
      BY <2>4 DEF SchedulerInv, Position, HostsFit, CountFits
    <3>2. \A h \in 1 .. submitted : h \in Host /\ status[h] \in Terminal
      BY <3>1 DEF SchedulerInv, Position, HostsFit, CountFits, TypeOK, Host
    <3>3. RR!AdmittedFinished
      BY <3>2 DEF RR!AdmittedFinished, PhaseOf, Terminal
    <3>4. Failed = {h \in Failed : h <= reported}
      BY <3>1 DEF SchedulerInv, Position, HostsFit, CountFits, TypeOK, Failed, Host
    <3>5. QED
      BY <3>3, <3>4, <2>3 DEF SchedulerInv, Position, HostsFit, CountFits
  <2>5. CASE Abort
    <3>1. failures >= Budget /\ failures = Cardinality(RR!FailedHosts)
      BY <2>5, <2>1, <2>4 DEF NotStarted, Abort, TypeOK
    <3>2. RR!AdmittedFinished
      BY <2>5, <2>4 DEF NotStarted, Abort
    <3>3. NumHosts \in Host /\ NumHosts \notin 1 .. submitted
      BY <2>5 DEF NotStarted, Abort, SchedulerInv, Position, HostsFit, CountFits, TypeOK, Host
    <3>4. Ph' = [h \in Host |-> IF h \in 1 .. submitted THEN Ph[h] ELSE "skipped"]
      <4>1. \A h \in Host : status'[h] = IF h \in 1 .. submitted THEN status[h] ELSE "skipped"
        BY <2>5 DEF NotStarted, Abort, SchedulerInv, Position, HostsFit, CountFits, TypeOK, Host
      <4>2. PhaseOf("skipped") = "skipped"
        BY DEF PhaseOf
      <4>3. QED
        BY <4>1, <4>2
    <3>5. submitted' = submitted
      BY <2>5 DEF NotStarted, Abort
    <3>6. RR!Halt
      BY <3>1, <3>2, <3>3, <3>4, <3>5, <2>2, SameCardinality DEF RR!Halt
    <3>7. QED
      BY <3>6 DEF RR!Next
  <2>6. CASE StartBatch
    <3> DEFINE W == (submitted + 1) .. submitted'
    <3>1. RR!AdmittedFinished /\ failures = Cardinality(RR!FailedHosts) /\ failures < Budget
      BY <2>6, <2>1, <2>4 DEF StartBatch, TypeOK
    <3>2. reported = submitted /\ submitted < NumHosts /\ ~aborted
      BY <2>6 DEF StartBatch, SchedulerInv, Position, HostsFit, CountFits
    <3>3. PICK s \in (submitted + 1) .. NumHosts : s = submitted' /\ s <= submitted + Serial
      BY <2>6, <2>1, <3>2 DEF StartBatch, AtMost, TypeOK
    <3>4. W \in SUBSET (Host \ 1 .. submitted) /\ W # {}
      BY <3>3 DEF TypeOK, Host
    <3>5. Cardinality(W) <= Serial
      <4>1. submitted \in Int /\ s \in Int /\ s > submitted /\ Serial \in Int
        BY <3>3, <2>1 DEF TypeOK
      <4>2. Cardinality((submitted + 1) .. s)
              = IF submitted + 1 > s THEN 0 ELSE s - (submitted + 1) + 1
        BY <4>1, FS_Interval
      <4>3. QED
        BY <4>1, <4>2, <3>3
    <3>6. 1 .. submitted' = (1 .. submitted) \union W
      BY <3>3 DEF TypeOK
    <3>7. Ph' = Ph
      <4>1. \A h \in Host : PhaseOf(status'[h]) = PhaseOf(status[h])
        <5> SUFFICES ASSUME NEW h \in Host
                     PROVE  PhaseOf(status'[h]) = PhaseOf(status[h])
          OBVIOUS
        <5>1. CASE h \in W
          <6>1. status[h] = "waiting" /\ status'[h] = "queued"
            BY <2>6, <3>2, <3>3, <5>1 DEF StartBatch, SchedulerInv, Position, HostsFit, CountFits, TypeOK, Host
          <6>2. QED
            BY <6>1 DEF PhaseOf
        <5>2. CASE h \notin W
          BY <2>6, <3>2, <5>2 DEF StartBatch
        <5>3. QED
          BY <5>1, <5>2
      <4>2. QED
        BY <4>1
    <3>8. RR!Admit
      <4>1. RR!Cardinality(RR!FailedHosts) < Budget /\ RR!Cardinality(W) <= Serial
        BY <3>1, <3>5, SameCardinality
      <4>2. UNCHANGED <<Budget, Serial, Ph>>
        BY <3>7, <2>2
      <4> HIDE DEF W
      <4>3. QED
        BY <3>1, <3>4, <3>6, <4>1, <4>2 DEF RR!Admit
    <3>9. QED
      BY <3>8 DEF RR!Next
  <2>7. CASE CloseBatch \/ Return \/ Terminated \/ UNCHANGED vars
    BY <2>7, <2>2 DEF FailuresSoFar, CloseBatch, Return, Terminated, vars, RR!vars
  <2>8. ASSUME NEW h \in Host, NEW s \in Status, NEW p,
               status' = [status EXCEPT ![h] = s], submitted' = submitted, p = PhaseOf(s)
        PROVE  Ph' = [Ph EXCEPT ![h] = p] /\ (1 .. submitted)' = 1 .. submitted
    BY <2>8 DEF TypeOK
  <2>9. ASSUME NEW h \in Host, Begin(h) PROVE RR!Next
    <3>1. Ph[h] = "waiting" /\ PhaseOf("running") = "active"
      BY <2>9 DEF Begin, PhaseOf
    <3>2. h \in 1 .. submitted
      BY <2>9 DEF Begin, SchedulerInv, Position, HostsFit, CountFits, TypeOK, Host
    <3>3. Ph' = [Ph EXCEPT ![h] = "active"] /\ (1 .. submitted)' = 1 .. submitted
      BY <2>8, <2>9, <3>1 DEF Begin, Status
    <3>4. RR!Start(h)
      BY <3>1, <3>2, <3>3, <2>2 DEF RR!Start
    <3>5. QED
      BY <3>4 DEF RR!Next
  <2>10. ASSUME NEW h \in Host, Finish(h) \/ Crash(h) PROVE RR!Next
    <3>1. Ph[h] = "active"
      BY <2>10 DEF Finish, Crash, PhaseOf
    <3>2. PICK s \in Terminal : status' = [status EXCEPT ![h] = s]
      BY <2>10 DEF Finish, Crash, Classify, Terminal
    <3>3. submitted' = submitted
      BY <2>10 DEF Finish, Crash
    <3>4. PhaseOf(s) \in {"ok", "failed"}
      BY DEF PhaseOf, Terminal
    <3>5. Ph' = [Ph EXCEPT ![h] = PhaseOf(s)] /\ (1 .. submitted)' = 1 .. submitted
      BY <2>8, <3>2, <3>3 DEF Status
    <3>6. RR!Finish(h)
      BY <3>1, <3>4, <3>5, <2>2 DEF RR!Finish
    <3>7. QED
      BY <3>6 DEF RR!Next
  <2>11. QED
    BY <2>5, <2>6, <2>7, <2>9, <2>10 DEF Next, Scheduler
<1>3. QED
  BY <1>1, <1>2, Invariants, PTL DEF Spec, ImplementsRollingRollout, RR!Spec

-----------------------------------------------------------------------------
(***************************************************************************)
(* Onboard.                                                                *)
(***************************************************************************)
(* The next host is one of those that are left.                             *)
LEMMA FirstIsIn ==
  ASSUME NEW c, c.input.hosts \in Seq(Hosts), NEW S \in SUBSET Named(c), S # {}
  PROVE  First(c, S) \in S /\ First(c, S) \in Hosts
<1> DEFINE hosts == c.input.hosts
           I == {i \in DOMAIN hosts : hosts[i] \in S}
<1>1. I \subseteq Nat /\ I # {}
  <2>1. DOMAIN hosts = 1 .. Len(hosts) /\ Len(hosts) \in Nat
    OBVIOUS
  <2>2. \E i \in DOMAIN hosts : hosts[i] \in S
    BY DEF Named, ToSet
  <2>3. QED
    BY <2>1, <2>2
<1>2. I \subseteq DOMAIN hosts /\ \A i \in I : hosts[i] \in S /\ hosts[i] \in Hosts
  BY ElementOfSeq
<1>3. First(c, S) = hosts[Min(I)]
  BY DEF First
<1> HIDE DEF I
<1>4. PICK m \in I : \A i \in I : <<i, m>> \notin OpToRel(<, Nat)
  BY <1>1, NatLessThanWellFounded, WFMin
<1>5. \A i \in I : m <= i
  <2>1. \A i \in I : ~(i < m)
    BY <1>1, <1>4 DEF OpToRel
  <2>2. QED
    BY <1>1, <2>1
<1>6. Min(I) \in I
  BY <1>5 DEF Min
<1>7. QED
  BY <1>2, <1>3, <1>6

(* What is appended to a report is in it, and nothing else is new.          *)
LEMMA Reported ==
  ASSUME NEW T, NEW results \in Seq(T), NEW r \in T
  PROVE  /\ ToSet(Append(results, r)) = ToSet(results) \union {r}
         /\ HostsIn(Append(results, r)) = HostsIn(results) \union {r.host}
         /\ Append(results, r) \in Seq(T)
<1> DEFINE longer == Append(results, r)
<1>1. /\ Len(results) \in Nat /\ Len(longer) = Len(results) + 1 /\ longer \in Seq(T)
      /\ DOMAIN results = 1 .. Len(results) /\ DOMAIN longer = 1 .. Len(results) + 1
      /\ \A i \in 1 .. Len(results) : longer[i] = results[i]
      /\ longer[Len(results) + 1] = r
  OBVIOUS
<1> HIDE DEF longer
<1>2. ToSet(longer) = ToSet(results) \union {r}
  <2>1. ASSUME NEW x \in ToSet(longer) PROVE x \in ToSet(results) \union {r}
    <3>1. PICK i \in 1 .. Len(results) + 1 : x = longer[i]
      BY <1>1, <2>1 DEF ToSet
    <3>2. i \in 1 .. Len(results) \/ i = Len(results) + 1
      BY <1>1
    <3>3. QED
      BY <1>1, <3>1, <3>2 DEF ToSet
  <2>2. ASSUME NEW x \in ToSet(results) PROVE x \in ToSet(longer)
    <3>1. PICK i \in 1 .. Len(results) : x = results[i]
      BY <1>1, <2>2 DEF ToSet
    <3>2. i \in 1 .. Len(results) + 1
      BY <1>1
    <3>3. QED
      BY <1>1, <3>1, <3>2 DEF ToSet
  <2>3. r \in ToSet(longer)
    <3>1. Len(results) + 1 \in 1 .. Len(results) + 1
      BY <1>1
    <3>2. QED
      BY <1>1, <3>1 DEF ToSet
  <2>4. QED
    BY <2>1, <2>2, <2>3
<1>3. HostsIn(longer) = HostsIn(results) \union {r.host}
  BY <1>2 DEF HostsIn
<1>4. QED
  BY <1>1, <1>2, <1>3 DEF longer

(* Nothing is in an empty report.                                           *)
LEMMA EmptyReport == ToSet(<<>>) = {} /\ HostsIn(<<>>) = {}
<1>1. ToSet(<<>>) = {}
  BY DEF ToSet
<1>2. QED
  BY <1>1 DEF HostsIn

(* What a report holds is of the type of its entries.                       *)
LEMMA Entries ==
  ASSUME NEW T, NEW results \in Seq(T)
  PROVE  ToSet(results) \subseteq T /\ (ToSet(results) = {} => results = <<>>)
<1>1. DOMAIN results = 1 .. Len(results) /\ Len(results) \in Nat
  OBVIOUS
<1>2. ToSet(results) \subseteq T
  BY ElementOfSeq, <1>1 DEF ToSet
<1>3. ASSUME ToSet(results) = {} PROVE results = <<>>
  <2>1. 1 \notin DOMAIN results
    BY <1>3 DEF ToSet
  <2>2. Len(results) = 0
    BY <1>1, <2>1
  <2>3. QED
    BY <2>2
<1>4. QED
  BY <1>2, <1>3

(* A command line, and a command at work on it.                            *)
InputType == [op : {"none", "onboard", "ensure", "check", "copy"}, path : Paths, execute : BOOLEAN, hosts : Seq(Hosts)]
CmdType == [input : InputType, pc : {"start", "key", "keygen", "tighten", "probe", "copy", "end"},
            found : BOOLEAN, probes : Seq(ProbeType), copies : Seq(CopyType), exit : {-1, 0, 1}]

(* What a command has probed and copied so far, at each place: each named   *)
(* host is probed once, and copied to when its probe could not log in.      *)
Nothing(c) == c.probes = <<>> /\ c.copies = <<>>
KeyAt(c) == c.pc = "key" => Nothing(c) /\ c.input.op # "none"
KeygenAt(c) == c.pc \in {"keygen", "tighten"} =>
  /\ Nothing(c) /\ c.input.op \in {"onboard", "ensure"}
  /\ c.input.op = "onboard" => Named(c) # {}
ProbeAt(c) == c.pc = "probe" =>
  /\ c.input.op = "onboard" /\ c.copies = <<>> /\ (c.input.execute => c.found)
  /\ ~(Named(c) \subseteq HostsIn(c.probes))
CopyAt(c) == c.pc = "copy" =>
  /\ c.input.op \in {"onboard", "copy"} /\ (c.input.op = "copy" => c.probes = <<>>)
  /\ c.input.op = "onboard" => (c.input.execute => c.found) /\ Named(c) \subseteq HostsIn(c.probes)
ProbedOnce(c) ==
  /\ HostsIn(c.probes) \subseteq Named(c)
  /\ \A r, s \in ToSet(c.probes) : r.host = s.host => r = s
  /\ \A r \in ToSet(c.probes) : r.ready => r.authed
CopiedInNeed(c) == c.input.op = "onboard" => HostsIn(c.copies) \subseteq NeedsKey(c)
SaysReady(c) == c.pc = "end" /\ c.input.op = "onboard" /\ c.input.execute /\ c.exit = 0 =>
  c.found /\ Named(c) \subseteq HostsIn(c.probes) /\ \A r \in ToSet(c.probes) : r.ready
Sound(c) ==
  /\ KeyAt(c) /\ KeygenAt(c) /\ ProbeAt(c) /\ CopyAt(c)
  /\ ProbedOnce(c) /\ CopiedInNeed(c) /\ SaysReady(c)

(* The inductive invariant.                                                *)
OnboardInv ==
  /\ OnboardTypeOK
  /\ cmd \in [Operators -> CmdType] /\ \A p \in Operators : Sound(cmd[p])

(* A command that has not looked at any host is sound.                      *)
LEMMA NothingIsSound ==
  ASSUME NEW c \in CmdType, Nothing(c), KeyAt(c), KeygenAt(c), ProbeAt(c), CopyAt(c),
         c.pc = "end" /\ c.input.op = "onboard" => c.exit # 0
  PROVE  Sound(c)
<1>1. ToSet(c.probes) = {} /\ HostsIn(c.probes) = {} /\ HostsIn(c.copies) = {}
  BY EmptyReport DEF Nothing
<1>2. ProbedOnce(c) /\ CopiedInNeed(c) /\ SaysReady(c)
  BY <1>1 DEF ProbedOnce, CopiedInNeed, SaysReady
<1>3. QED
  BY <1>2 DEF Sound

(* A command as it starts is of its type.                                   *)
LEMMA FreshCommands ==
  /\ NoCommand \in InputType
  /\ \A p \in Operators : \A c \in Inputs[p] : c \in InputType /\ c.op # "none"
  /\ \A c \in InputType : /\ Fresh(c) \in CmdType /\ Nothing(Fresh(c)) /\ Fresh(c).input = c
                          /\ Fresh(c).pc = "start" /\ Fresh(c).exit = -1
<1>1. NoCommand \in InputType
  BY PathsAssumption DEF NoCommand, InputType
<1>2. ASSUME NEW p \in Operators, NEW c \in Inputs[p] PROVE c \in InputType /\ c.op # "none"
  <2>1. /\ c.hosts \in Seq(Hosts)
        /\ c \in [op : {"onboard", "ensure", "check", "copy"}, path : Paths, execute : BOOLEAN, hosts : {c.hosts}]
    BY InputsAssumption
  <2>2. QED
    BY <2>1 DEF InputType
<1>3. ASSUME NEW c \in InputType
      PROVE  /\ Fresh(c) \in CmdType /\ Nothing(Fresh(c)) /\ Fresh(c).input = c
             /\ Fresh(c).pc = "start" /\ Fresh(c).exit = -1
  BY DEF Fresh, CmdType, Nothing
<1>4. QED
  BY <1>1, <1>2, <1>3

(* A command that goes on to a sound one leaves the others as they are.     *)
LEMMA GoesOn ==
  ASSUME OnboardInv, NEW p \in Operators, NEW c \in CmdType, Sound(c), Goes(p, c)
  PROVE  cmd' \in [Operators -> CmdType] /\ \A q \in Operators : Sound(cmd'[q])
<1>1. cmd \in [Operators -> CmdType] /\ cmd' = [cmd EXCEPT ![p] = c]
  BY DEF OnboardInv, Goes
<1>2. \A q \in Operators : cmd'[q] = IF q = p THEN c ELSE cmd[q]
  BY <1>1
<1>3. \A q \in Operators : Sound(cmd'[q])
  BY <1>2 DEF OnboardInv
<1>4. QED
  BY <1>1, <1>3

(* A command over with an exit code.                                        *)
Over(b, code) == [b EXCEPT !.pc = "end", !.exit = code]

(* A command that ends keeps what it has found.                             *)
LEMMA EndedCommand ==
  ASSUME NEW b \in CmdType, NEW code \in {0, 1}
  PROVE  /\ Over(b, code) \in CmdType /\ Over(b, code).pc = "end" /\ Over(b, code).exit = code
         /\ Over(b, code).input = b.input /\ Over(b, code).found = b.found
         /\ Over(b, code).probes = b.probes /\ Over(b, code).copies = b.copies
<1>1. /\ Over(b, code) \in CmdType /\ Over(b, code).pc = "end" /\ Over(b, code).exit = code
      /\ Over(b, code).input = b.input
  BY DEF CmdType, Over
<1>2. Over(b, code).found = b.found /\ Over(b, code).probes = b.probes /\ Over(b, code).copies = b.copies
  BY DEF CmdType, Over
<1>3. QED
  BY <1>1, <1>2

(* The same for a command that ends before it has looked at a host.         *)
LEMMA LeavesEarly ==
  ASSUME OnboardInv, NEW p \in Operators, NEW c \in CmdType, Nothing(c), NEW code \in {0, 1},
         c.input.op = "onboard" => code = 1, Exits(p, c, code)
  PROVE  cmd' \in [Operators -> CmdType] /\ \A q \in Operators : Sound(cmd'[q])
<1> DEFINE b == IF c.input.op = "onboard" THEN c ELSE Fresh(NoCommand)
           e == Over(b, code)
<1>1. b \in CmdType /\ Nothing(b) /\ (b.input.op = "onboard" => code = 1)
  <2>1. Fresh(NoCommand) \in CmdType /\ Nothing(Fresh(NoCommand)) /\ Fresh(NoCommand).input = NoCommand
    BY FreshCommands
  <2>2. NoCommand.op = "none"
    BY DEF NoCommand
  <2>3. QED
    BY <2>1, <2>2
<1>2. Goes(p, e)
  BY DEF Exits, Over
<1> HIDE DEF b
<1>3. e \in CmdType /\ Nothing(e) /\ e.pc = "end" /\ (e.input.op = "onboard" => e.exit # 0)
  <2>1. e \in CmdType /\ e.pc = "end" /\ e.exit = code /\ e.input = b.input
    BY <1>1, EndedCommand
  <2>2. e.probes = b.probes /\ e.copies = b.copies
    BY <1>1, EndedCommand
  <2>3. QED
    BY <1>1, <2>1, <2>2 DEF Nothing
<1> HIDE DEF e
<1>4. Sound(e)
  BY <1>3, NothingIsSound DEF KeyAt, KeygenAt, ProbeAt, CopyAt
<1>5. QED
  BY <1>2, <1>3, <1>4, GoesOn

(* A command starts.                                                        *)
LEMMA StartStep ==
  ASSUME OnboardInv, NEW p \in Operators, Start(p)
  PROVE  cmd' \in [Operators -> CmdType] /\ \A q \in Operators : Sound(cmd'[q])
<1>1. PICK c \in Inputs[p] : Goes(p, [Fresh(c) EXCEPT !.pc = "key"])
  BY DEF Start
<1> DEFINE d == [Fresh(c) EXCEPT !.pc = "key"]
<1>2. c \in InputType /\ c.op # "none" /\ Fresh(c) \in CmdType /\ Nothing(Fresh(c)) /\ Fresh(c).input = c
  BY FreshCommands
<1>3. d \in CmdType /\ Nothing(d) /\ d.pc = "key" /\ d.input.op # "none"
  BY <1>2 DEF CmdType, Nothing
<1>4. Goes(p, d)
  BY <1>1
<1> HIDE DEF d
<1>5. Sound(d)
  BY <1>3, NothingIsSound DEF KeyAt, KeygenAt, ProbeAt, CopyAt
<1>6. QED
  BY <1>3, <1>4, <1>5, GoesOn

(* A command looks at the key.                                              *)
LEMMA InspectStep ==
  ASSUME OnboardInv, NEW p \in Operators, Inspect(p)
  PROVE  cmd' \in [Operators -> CmdType] /\ \A q \in Operators : Sound(cmd'[q])
<1> DEFINE found == key[In(p).path].private # 0
           c == [cmd[p] EXCEPT !.found = found]
           op == In(p).op
<1>1. cmd[p] \in CmdType /\ cmd[p].pc = "key" /\ Nothing(cmd[p]) /\ op # "none" /\ found \in BOOLEAN
  BY DEF OnboardInv, Sound, KeyAt, Inspect, In
<1>2. \/ op \in {"onboard", "copy"} /\ In(p).hosts = <<>> /\ Exits(p, c, 1)
      \/ op = "check" /\ \E code \in {0, 1} : Exits(p, c, code)
      \/ op = "copy" /\ found /\ Goes(p, [c EXCEPT !.pc = "copy"])
      \/ op = "copy" /\ Exits(p, c, 1)
      \/ op = "ensure" /\ Exits(p, c, 0)
      \/ op \in {"onboard", "ensure"} /\ (op = "onboard" => In(p).hosts # <<>>)
           /\ \/ Goes(p, [c EXCEPT !.pc = "tighten"])
              \/ Goes(p, [c EXCEPT !.pc = "keygen"])
              \/ op = "onboard" /\ ~In(p).execute /\ Goes(p, [c EXCEPT !.pc = "probe"])
  <2>1. op \in {"onboard", "ensure", "check", "copy"} /\ In(p).execute \in BOOLEAN
    BY <1>1 DEF CmdType, InputType, In
  <2>2. CASE op \in {"onboard", "copy"} /\ In(p).hosts = <<>>
    BY <2>2, Zenon DEF Inspect
  <2>3. CASE op = "check"
    BY <2>3 DEF Inspect
  <2>4. CASE op = "copy" /\ In(p).hosts # <<>>
    BY <2>4 DEF Inspect
  <2>5. CASE op = "ensure" /\ ~found /\ ~In(p).execute
    BY <2>5 DEF Inspect
  <2>6. CASE op \in {"onboard", "ensure"} /\ (op = "onboard" => In(p).hosts # <<>>)
               /\ ~(op = "ensure" /\ ~found /\ ~In(p).execute)
    <3>1. Goes(p, [c EXCEPT !.pc = CASE found -> "tighten"
                                     [] ~found /\ In(p).execute -> "keygen"
                                     [] OTHER -> "probe"])
      BY <2>6 DEF Inspect
    <3>2. CASE found
      BY <2>6, <3>1, <3>2
    <3>3. CASE ~found /\ In(p).execute
      BY <2>6, <3>1, <3>3
    <3>4. CASE ~found /\ ~In(p).execute
      BY <2>6, <3>1, <3>4
    <3>5. QED
      BY <3>2, <3>3, <3>4
  <2>7. QED
    BY <2>1, <2>2, <2>3, <2>4, <2>5, <2>6
<1>3. c \in CmdType /\ Nothing(c) /\ c.input = In(p) /\ c.found = found
  <2> HIDE DEF found
  <2>1. QED
    BY <1>1 DEF CmdType, Nothing, In
<1> HIDE DEF c
<1>4. ASSUME NEW code \in {0, 1}, op = "onboard" => code = 1, Exits(p, c, code)
      PROVE  cmd' \in [Operators -> CmdType] /\ \A q \in Operators : Sound(cmd'[q])
  BY <1>3, <1>4, LeavesEarly
<1>5. ASSUME NEW at \in {"tighten", "keygen", "probe", "copy"}, Goes(p, [c EXCEPT !.pc = at]),
             at \in {"tighten", "keygen", "probe"} => op \in {"onboard", "ensure"} /\ (op = "onboard" => In(p).hosts # <<>>),
             at = "probe" => op = "onboard" /\ ~In(p).execute,
             at = "copy" => op = "copy"
      PROVE  cmd' \in [Operators -> CmdType] /\ \A q \in Operators : Sound(cmd'[q])
  <2> DEFINE d == [c EXCEPT !.pc = at]
  <2>1. d \in CmdType /\ Nothing(d) /\ d.pc = at /\ d.input = In(p)
    BY <1>3 DEF CmdType, Nothing
  <2>2. Goes(p, d)
    BY <1>5
  <2> HIDE DEF d
  <2>3. In(p).hosts # <<>> => Named(d) # {}
    <3>1. In(p).hosts \in Seq(Hosts)
      BY <1>1 DEF CmdType, InputType, In
    <3>2. QED
      BY <2>1, <3>1, Entries DEF Named
  <2>4. HostsIn(d.probes) = {}
    BY <2>1, EmptyReport DEF Nothing
  <2>5. KeyAt(d) /\ KeygenAt(d) /\ ProbeAt(d) /\ CopyAt(d)
    BY <1>5, <2>1, <2>3, <2>4 DEF KeyAt, KeygenAt, ProbeAt, CopyAt, Nothing
  <2>6. Sound(d)
    BY <1>5, <2>1, <2>5, NothingIsSound
  <2>7. QED
    BY <2>1, <2>2, <2>6, GoesOn
<1>6. QED
  BY <1>2, <1>4, <1>5

(* A key is generated, or generating it fails and ends the command.         *)
LEMMA GenerateStep ==
  ASSUME OnboardInv, NEW p \in Operators, Generate(p)
  PROVE  cmd' \in [Operators -> CmdType] /\ \A q \in Operators : Sound(cmd'[q])
<1>1. cmd[p] \in CmdType /\ cmd[p].pc = "keygen" /\ Sound(cmd[p])
  BY DEF OnboardInv, Generate
<1>2. /\ Nothing(cmd[p]) /\ cmd[p].input.op \in {"onboard", "ensure"}
      /\ cmd[p].input.op = "onboard" => Named(cmd[p]) # {}
  BY <1>1 DEF Sound, KeygenAt
<1>3. CASE Goes(p, [cmd[p] EXCEPT !.pc = "tighten"])
  <2> DEFINE d == [cmd[p] EXCEPT !.pc = "tighten"]
  <2>1. d \in CmdType /\ Nothing(d) /\ d.pc = "tighten" /\ d.input = cmd[p].input
    BY <1>1, <1>2 DEF CmdType, Nothing
  <2>2. Goes(p, d)
    BY <1>3
  <2> HIDE DEF d
  <2>3. Sound(d)
    BY <1>2, <2>1, NothingIsSound DEF KeyAt, KeygenAt, ProbeAt, CopyAt, Named
  <2>4. QED
    BY <2>1, <2>2, <2>3, GoesOn
<1>4. CASE Exits(p, cmd[p], 1)
  BY <1>1, <1>2, <1>4, LeavesEarly
<1>5. QED
  BY <1>3, <1>4 DEF Generate

(* The key is inspected again, and the command ends or goes to its hosts.   *)
LEMMA TightenStep ==
  ASSUME OnboardInv, NEW p \in Operators, Tighten(p)
  PROVE  cmd' \in [Operators -> CmdType] /\ \A q \in Operators : Sound(cmd'[q])
<1> DEFINE found == key[In(p).path].private # 0
           c == [cmd[p] EXCEPT !.found = found]
<1>1. cmd[p] \in CmdType /\ cmd[p].pc = "tighten" /\ Sound(cmd[p]) /\ found \in BOOLEAN
  BY DEF OnboardInv, Tighten
<1>2. /\ Nothing(cmd[p]) /\ In(p).op \in {"onboard", "ensure"} /\ In(p).execute \in BOOLEAN
      /\ In(p).op = "onboard" => Named(cmd[p]) # {}
  BY <1>1 DEF Sound, KeygenAt, In, CmdType, InputType
<1>3. \/ In(p).op = "ensure" /\ \E code \in {0, 1} : Exits(p, c, code)
      \/ In(p).op = "onboard" /\ Exits(p, c, 1)
      \/ In(p).op = "onboard" /\ (In(p).execute => found) /\ Goes(p, [c EXCEPT !.pc = "probe"])
  <2>1. CASE In(p).op = "ensure"
    BY <2>1 DEF Tighten
  <2>2. CASE In(p).op = "onboard" /\ ~found /\ In(p).execute
    BY <2>2 DEF Tighten
  <2>3. CASE In(p).op = "onboard" /\ ~(~found /\ In(p).execute)
    BY <2>3 DEF Tighten
  <2>4. QED
    BY <1>2, <2>1, <2>2, <2>3
<1>4. c \in CmdType /\ Nothing(c) /\ c.input = In(p) /\ c.found = found
  <2> HIDE DEF found
  <2>1. QED
    BY <1>1, <1>2 DEF CmdType, Nothing, In
<1> HIDE DEF c
<1>5. ASSUME NEW code \in {0, 1}, In(p).op = "onboard" => code = 1, Exits(p, c, code)
      PROVE  cmd' \in [Operators -> CmdType] /\ \A q \in Operators : Sound(cmd'[q])
  BY <1>4, <1>5, LeavesEarly
<1>6. CASE In(p).op = "onboard" /\ (In(p).execute => found) /\ Goes(p, [c EXCEPT !.pc = "probe"])
  <2> DEFINE d == [c EXCEPT !.pc = "probe"]
  <2>1. d \in CmdType /\ Nothing(d) /\ d.pc = "probe" /\ d.input = In(p) /\ d.found = found
    <3> HIDE DEF found
    <3>1. QED
      BY <1>4 DEF CmdType, Nothing
  <2>2. Goes(p, d)
    BY <1>6
  <2> HIDE DEF d
  <2>3. Named(d) # {} /\ HostsIn(d.probes) = {}
    BY <1>2, <1>6, <2>1, EmptyReport DEF Named, In, Nothing
  <2>4. Sound(d)
    BY <1>6, <2>1, <2>3, NothingIsSound DEF KeyAt, KeygenAt, ProbeAt, CopyAt, Nothing
  <2>5. QED
    BY <2>1, <2>2, <2>4, GoesOn
<1>7. QED
  BY <1>3, <1>5, <1>6

(* A named host that was not probed yet is probed.                          *)
LEMMA ProbeStep ==
  ASSUME OnboardInv, NEW p \in Operators, Probe(p)
  PROVE  cmd' \in [Operators -> CmdType] /\ \A q \in Operators : Sound(cmd'[q])
<1> DEFINE b == cmd[p]
           left == Named(b) \ HostsIn(b.probes)
           h == First(b, left)
           r == [host |-> h, authed |-> KeyAuthed(h), ready |-> Ready(h)]
           c == [b EXCEPT !.probes = Append(b.probes, r)]
           d == IF Named(c) \subseteq HostsIn(c.probes) THEN [c EXCEPT !.pc = "copy"] ELSE c
<1>1. b \in CmdType /\ b.pc = "probe" /\ Sound(b) /\ b.probes \in Seq(ProbeType) /\ b.input \in InputType
  BY DEF OnboardInv, Probe, CmdType
<1>2. b.input.op = "onboard" /\ b.copies = <<>> /\ (b.input.execute => b.found) /\ left # {}
  BY <1>1 DEF Sound, ProbeAt
<1>3. h \in left /\ h \in Hosts
  <2>1. b.input.hosts \in Seq(Hosts)
    BY <1>1 DEF InputType
  <2>2. QED
    BY <1>2, <2>1, FirstIsIn
<1>4. Goes(p, d)
  BY DEF Probe
<1> HIDE DEF h
<1>5. r \in ProbeType /\ r.host = h /\ (r.ready => r.authed)
  <2>1. KeyAuthed(h) \in BOOLEAN /\ Ready(h) \in BOOLEAN /\ (Ready(h) => KeyAuthed(h))
    <3>1. host[h].tools \in BOOLEAN
      BY <1>3 DEF OnboardInv, OnboardTypeOK
    <3>2. KeyAuthed(h) \in BOOLEAN
      BY DEF KeyAuthed
    <3>3. QED
      BY <3>1, <3>2 DEF Ready
  <2> DEFINE authed == KeyAuthed(h)
             ready == Ready(h)
  <2>2. r = [host |-> h, authed |-> authed, ready |-> ready] /\ authed \in BOOLEAN /\ ready \in BOOLEAN /\ (ready => authed)
    BY <2>1
  <2> HIDE DEF authed, ready, r
  <2>3. QED
    BY <1>3, <2>2 DEF ProbeType
<1> HIDE DEF r
<1>6. /\ ToSet(Append(b.probes, r)) = ToSet(b.probes) \union {r}
      /\ HostsIn(Append(b.probes, r)) = HostsIn(b.probes) \union {h}
      /\ Append(b.probes, r) \in Seq(ProbeType)
  BY <1>1, <1>5, Reported
<1>7. /\ c \in CmdType /\ c.input = b.input /\ c.pc = "probe" /\ c.found = b.found
      /\ c.copies = <<>> /\ c.probes = Append(b.probes, r)
  BY <1>1, <1>2, <1>6 DEF CmdType
<1> HIDE DEF c
<1>8. /\ d \in CmdType /\ d.input = b.input /\ d.found = b.found /\ d.copies = <<>> /\ d.probes = c.probes
      /\ d.pc = IF Named(c) \subseteq HostsIn(c.probes) THEN "copy" ELSE "probe"
  BY <1>7 DEF CmdType
<1> HIDE DEF d
<1>9. Named(c) = Named(b) /\ Named(d) = Named(b) /\ HostsIn(d.probes) = HostsIn(c.probes)
  BY <1>7, <1>8 DEF Named
<1>10. KeyAt(d) /\ KeygenAt(d) /\ ProbeAt(d) /\ CopyAt(d) /\ SaysReady(d)
  BY <1>2, <1>8, <1>9 DEF KeyAt, KeygenAt, ProbeAt, CopyAt, SaysReady
<1>11. ProbedOnce(d)
  <2>1. ProbedOnce(b)
    BY <1>1 DEF Sound
  <2>2. HostsIn(d.probes) \subseteq Named(d)
    BY <1>3, <1>6, <1>7, <1>8, <1>9, <2>1 DEF ProbedOnce
  <2>3. \A s \in ToSet(b.probes) : s.host # h
    BY <1>3 DEF HostsIn
  <2>4. QED
    BY <1>5, <1>6, <1>7, <1>8, <2>1, <2>2, <2>3 DEF ProbedOnce
<1>12. CopiedInNeed(d)
  BY <1>8, EmptyReport DEF CopiedInNeed
<1>13. QED
  BY <1>4, <1>8, <1>10, <1>11, <1>12, GoesOn DEF Sound

(* Of a command that copies: the next host needs the key, and is named.     *)
LEMMA NextCopy ==
  ASSUME NEW c \in CmdType, Sound(c), c.pc = "copy", ToCopy(c) # {}
  PROVE  /\ First(c, ToCopy(c)) \in ToCopy(c) /\ First(c, ToCopy(c)) \in Hosts /\ First(c, ToCopy(c)) \in Named(c)
         /\ \A r \in ToSet(c.probes) : r.host = First(c, ToCopy(c)) => ~r.authed
<1>1. NeedsKey(c) \subseteq Named(c)
  <2>1. {r.host : r \in {r \in ToSet(c.probes) : ~r.authed}} \subseteq HostsIn(c.probes)
    BY DEF HostsIn
  <2>2. QED
    BY <2>1 DEF NeedsKey, Sound, ProbedOnce
<1>2. c.input.hosts \in Seq(Hosts) /\ ToCopy(c) \in SUBSET Named(c)
  BY <1>1 DEF CmdType, InputType, ToCopy
<1> DEFINE h == First(c, ToCopy(c))
<1>3. h \in ToCopy(c) /\ h \in Hosts
  BY <1>2, FirstIsIn
<1>4. h \in NeedsKey(c)
  BY <1>3 DEF ToCopy
<1> HIDE DEF h
<1>5. ASSUME NEW r \in ToSet(c.probes), r.host = h PROVE ~r.authed
  <2>1. c.input.op # "copy"
    BY EmptyReport DEF Sound, CopyAt
  <2>2. PICK s \in ToSet(c.probes) : ~s.authed /\ s.host = h
    BY <1>4, <2>1 DEF NeedsKey
  <2>3. s = r
    BY <1>5, <2>2 DEF Sound, ProbedOnce
  <2>4. QED
    BY <2>2, <2>3
<1>6. QED
  BY <1>2, <1>3, <1>5 DEF h

(* The key is copied to a host that needs it, or planned, or not let in.    *)
LEMMA CopyStep ==
  ASSUME OnboardInv, NEW p \in Operators, Copy(p)
  PROVE  cmd' \in [Operators -> CmdType] /\ \A q \in Operators : Sound(cmd'[q])
<1> DEFINE b == cmd[p]
           h == First(b, ToCopy(b))
<1>1. b \in CmdType /\ b.pc = "copy" /\ Sound(b) /\ ToCopy(b) # {} /\ b.copies \in Seq(CopyType)
  BY DEF OnboardInv, Copy, CmdType
<1>2. h \in NeedsKey(b) /\ h \in Hosts
  BY <1>1, NextCopy DEF ToCopy
<1>3. PICK state \in {"planned", "ok", "failed"} :
         Goes(p, [b EXCEPT !.copies = Append(b.copies, [host |-> h, state |-> state])])
  BY DEF Copy
<1> HIDE DEF h
<1> DEFINE r == [host |-> h, state |-> state]
           d == [b EXCEPT !.copies = Append(b.copies, r)]
<1>4. r \in CopyType /\ r.host = h
  BY <1>2 DEF CopyType
<1>5. Goes(p, d)
  BY <1>3
<1> HIDE DEF r
<1>6. HostsIn(Append(b.copies, r)) = HostsIn(b.copies) \union {h} /\ Append(b.copies, r) \in Seq(CopyType)
  BY <1>1, <1>4, Reported
<1>7. /\ d \in CmdType /\ d.input = b.input /\ d.pc = "copy" /\ d.found = b.found /\ d.probes = b.probes
      /\ d.copies = Append(b.copies, r)
  BY <1>1, <1>6 DEF CmdType
<1> HIDE DEF d
<1>8. Named(d) = Named(b) /\ NeedsKey(d) = NeedsKey(b)
  BY <1>7 DEF Named, NeedsKey
<1>9. KeyAt(d) /\ KeygenAt(d) /\ ProbeAt(d) /\ CopyAt(d) /\ SaysReady(d) /\ ProbedOnce(d)
  BY <1>1, <1>7, <1>8 DEF Sound, KeyAt, KeygenAt, ProbeAt, CopyAt, SaysReady, ProbedOnce
<1>10. CopiedInNeed(d)
  BY <1>1, <1>2, <1>6, <1>7, <1>8 DEF Sound, CopiedInNeed
<1>11. QED
  BY <1>5, <1>7, <1>9, <1>10, GoesOn DEF Sound

(* The report says ready of hosts that have all been found so.              *)
LEMMA ReportStep ==
  ASSUME OnboardInv, NEW p \in Operators, Report(p)
  PROVE  cmd' \in [Operators -> CmdType] /\ \A q \in Operators : Sound(cmd'[q])
<1> DEFINE b == cmd[p]
<1>1. b \in CmdType /\ b.pc = "copy" /\ Sound(b) /\ Exits(p, b, Code(b)) /\ Code(b) \in {0, 1}
  BY DEF OnboardInv, Report, Code
<1> DEFINE a == IF b.input.op = "onboard" THEN b ELSE Fresh(NoCommand)
           d == Over(a, Code(b))
<1>2. Goes(p, d)
  BY <1>1 DEF Exits, Over
<1>3. CASE b.input.op = "onboard"
  <2>1. d = Over(b, Code(b))
    BY <1>3
  <2>2. /\ d \in CmdType /\ d.pc = "end" /\ d.exit = Code(b) /\ d.input = b.input
        /\ d.found = b.found /\ d.probes = b.probes /\ d.copies = b.copies
    BY <1>1, <2>1, EndedCommand
  <2> HIDE DEF d
  <2>5. Named(d) = Named(b) /\ NeedsKey(d) = NeedsKey(b)
    BY <2>2 DEF Named, NeedsKey
  <2>6. KeyAt(d) /\ KeygenAt(d) /\ ProbeAt(d) /\ CopyAt(d) /\ ProbedOnce(d) /\ CopiedInNeed(d)
    BY <1>1, <2>2, <2>5 DEF Sound, KeyAt, KeygenAt, ProbeAt, CopyAt, CopiedInNeed, ProbedOnce
  <2>7. SaysReady(d)
    <3>1. (b.input.execute => b.found) /\ Named(b) \subseteq HostsIn(b.probes)
      BY <1>1, <1>3 DEF Sound, CopyAt
    <3>2. b.input.execute /\ Code(b) = 0 => \A r \in ToSet(b.probes) : r.ready
      BY <1>3 DEF Code
    <3>3. QED
      BY <2>2, <2>5, <3>1, <3>2 DEF SaysReady
  <2>8. QED
    BY <1>2, <2>2, <2>6, <2>7, GoesOn DEF Sound
<1>4. CASE b.input.op # "onboard"
  <2> DEFINE f == Fresh(NoCommand)
  <2>1. f \in CmdType /\ Nothing(f) /\ f.input = NoCommand /\ NoCommand.op = "none"
    BY FreshCommands DEF NoCommand
  <2>2. d = Over(f, Code(b))
    BY <1>4
  <2> HIDE DEF f, d
  <2>3. d \in CmdType /\ d.pc = "end" /\ d.input = f.input /\ d.probes = f.probes /\ d.copies = f.copies
    BY <1>1, <2>1, <2>2, EndedCommand
  <2>5. d \in CmdType /\ Nothing(d) /\ d.pc = "end" /\ d.input.op = "none"
    BY <2>1, <2>3 DEF Nothing
  <2>6. Sound(d)
    BY <2>5, NothingIsSound DEF KeyAt, KeygenAt, ProbeAt, CopyAt
  <2>7. QED
    BY <1>2, <2>5, <2>6, GoesOn
<1>5. QED
  BY <1>3, <1>4

(* Keys, hosts and what a command does to them stay in their types.         *)
LEMMA WorldStep ==
  ASSUME OnboardInv, [OnboardNext]_onboardVars
  PROVE  /\ made' \in Nat /\ calm' \in BOOLEAN
         /\ key' \in [Paths -> [private : Keys', public : Keys']]
         /\ host' \in [Hosts -> [door : {"shut", "keys", "passwords"}, tools : BOOLEAN, accepts : SUBSET Keys']]
<1> DEFINE Typed ==
      /\ made' \in Nat /\ calm' \in BOOLEAN
      /\ key' \in [Paths -> [private : Keys', public : Keys']]
      /\ host' \in [Hosts -> [door : {"shut", "keys", "passwords"}, tools : BOOLEAN, accepts : SUBSET Keys']]
<1>1. /\ made \in Nat /\ calm \in BOOLEAN
      /\ key \in [Paths -> [private : Keys, public : Keys]]
      /\ host \in [Hosts -> [door : {"shut", "keys", "passwords"}, tools : BOOLEAN, accepts : SUBSET Keys]]
  BY DEF OnboardInv, OnboardTypeOK
<1>2. CASE UNCHANGED <<key, made, host, calm>>
  BY <1>1, <1>2 DEF Keys
<1>3. ASSUME NEW h \in Hosts, HostChanges(h) PROVE Typed
  <2>1. made' = made /\ key' = key /\ calm' = calm
    BY <1>3 DEF HostChanges
  <2>2. host' \in [Hosts -> [door : {"shut", "keys", "passwords"}, tools : BOOLEAN, accepts : SUBSET Keys]]
    BY <1>1, <1>3 DEF HostChanges
  <2>3. QED
    BY <1>1, <2>1, <2>2 DEF Keys
<1>4. ASSUME NEW k \in Paths, KeyLost(k) PROVE Typed
  <2>1. made' = made /\ host' = host /\ calm' = calm
    BY <1>4 DEF KeyLost
  <2>2. PICK left \in {0, key[k].public} : key' = [key EXCEPT ![k] = [Absent EXCEPT !.public = left]]
    BY <1>4 DEF KeyLost
  <2>3. key[k].public \in Keys /\ 0 \in Keys
    BY <1>1 DEF Keys
  <2>4. [Absent EXCEPT !.public = left] \in [private : Keys, public : Keys]
    BY <2>2, <2>3 DEF Absent
  <2>5. key' \in [Paths -> [private : Keys, public : Keys]]
    BY <1>1, <2>2, <2>4
  <2>6. QED
    BY <1>1, <2>1, <2>5 DEF Keys
<1>5. CASE Settle
  <2>1. made' = made /\ key' = key /\ calm' \in BOOLEAN
    BY <1>5 DEF Settle
  <2>2. host' \in [Hosts -> [door : {"shut", "keys", "passwords"}, tools : BOOLEAN, accepts : SUBSET Keys]]
    BY <1>1, <1>5 DEF Settle
  <2>3. QED
    BY <1>1, <2>1, <2>2 DEF Keys
<1>6. ASSUME NEW p \in Operators, Generate(p) PROVE Typed
  <2>1. host' = host /\ calm' = calm
    BY <1>6 DEF Generate, Goes, Exits
  <2>2. CASE Keygen(p, In(p).path)
    <3>1. In(p).path \in Paths
      BY DEF OnboardInv, CmdType, InputType, In
    <3>2. made' = made + 1 /\ key' = [key EXCEPT ![In(p).path] = [private |-> made', public |-> made']]
      BY <2>2 DEF Keygen
    <3>3. made' \in Nat /\ Keys \subseteq Keys' /\ made' \in Keys'
      BY <1>1, <3>2 DEF Keys
    <3> HIDE DEF Keys
    <3>4. key' \in [Paths -> [private : Keys', public : Keys']]
      <4>1. key \in [Paths -> [private : Keys', public : Keys']]
        <5>1. [private : Keys, public : Keys] \subseteq [private : Keys', public : Keys']
          BY <3>3
        <5>2. QED
          BY <1>1, <5>1
      <4>2. [private |-> made', public |-> made'] \in [private : Keys', public : Keys']
        BY <3>3
      <4>3. QED
        BY <3>2, <4>1, <4>2
    <3>5. host \in [Hosts -> [door : {"shut", "keys", "passwords"}, tools : BOOLEAN, accepts : SUBSET Keys']]
      <4>1. [door : {"shut", "keys", "passwords"}, tools : BOOLEAN, accepts : SUBSET Keys]
              \subseteq [door : {"shut", "keys", "passwords"}, tools : BOOLEAN, accepts : SUBSET Keys']
        BY <3>3
      <4>2. QED
        BY <1>1, <4>1
    <3>6. QED
      BY <1>1, <2>1, <3>3, <3>4, <3>5
  <2>3. CASE UNCHANGED <<key, made>>
    BY <1>2, <2>1, <2>3
  <2>4. QED
    BY <1>6, <2>2, <2>3 DEF Generate
<1>7. ASSUME NEW p \in Operators, Copy(p) PROVE Typed
  <2>1. made' = made /\ key' = key /\ calm' = calm
    BY <1>7 DEF Copy, Goes
  <2>2. host' \in [Hosts -> [door : {"shut", "keys", "passwords"}, tools : BOOLEAN, accepts : SUBSET Keys]]
    <3>1. CASE host' = host
      BY <1>1, <3>1
    <3>2. ASSUME NEW h, host' = [host EXCEPT ![h].accepts = host[h].accepts \union {key[In(p).path].public}]
          PROVE  host' \in [Hosts -> [door : {"shut", "keys", "passwords"}, tools : BOOLEAN, accepts : SUBSET Keys]]
      <4>1. key[In(p).path].public \in Keys
        BY <1>1 DEF OnboardInv, CmdType, InputType, In
      <4>2. QED
        BY <1>1, <3>2, <4>1
    <3>3. QED
      BY <1>7, <3>1, <3>2 DEF Copy, CopyId
  <2>3. QED
    BY <1>1, <2>1, <2>2 DEF Keys
<1>8. ASSUME NEW p \in Operators, Start(p) \/ Inspect(p) \/ Tighten(p) \/ Probe(p) \/ Report(p)
      PROVE  UNCHANGED <<key, made, host, calm>>
  <2>1. CASE Start(p)
    BY <2>1 DEF Start, Goes
  <2>2. CASE Inspect(p)
    <3>1. UNCHANGED <<key, made, host>>
      BY <2>2 DEF Inspect
    <3>2. \A c : Goes(p, c) => calm' = calm
      BY DEF Goes
    <3>3. \A c, code : Exits(p, c, code) => calm' = calm
      BY DEF Goes, Exits
    <3>4. calm' = calm
      BY <2>2, <3>2, <3>3, Zenon DEF Inspect
    <3>5. QED
      BY <3>1, <3>4
  <2>3. CASE Tighten(p)
    BY <2>3 DEF Tighten, Goes, Exits
  <2>4. CASE Probe(p)
    BY <2>4 DEF Probe, Goes
  <2>5. CASE Report(p)
    BY <2>5 DEF Report, Goes, Exits
  <2>6. QED
    BY <1>8, <2>1, <2>2, <2>3, <2>4, <2>5
<1>9. QED
  BY <1>2, <1>3, <1>4, <1>5, <1>6, <1>7, <1>8 DEF OnboardNext, Command, onboardVars

(* The invariant holds to begin with.                                       *)
LEMMA OnboardStarts ==
  ASSUME OnboardInit
  PROVE  OnboardInv
<1>1. made \in Nat /\ 0 \in Keys /\ (made = 1 => 1 \in Keys) /\ calm \in BOOLEAN
  <2>1. made \in {0, 1} /\ calm = FALSE
    BY DEF OnboardInit
  <2>2. made \in Nat
    BY <2>1
  <2>3. 0 \in Keys /\ (made = 1 => 1 \in Keys)
    BY <2>2 DEF Keys
  <2>4. QED
    BY <2>1, <2>2, <2>3
<1>2. key \in [Paths -> [private : Keys, public : Keys]]
  BY <1>1 DEF OnboardInit, Absent
<1>3. host \in [Hosts -> [door : {"shut", "keys", "passwords"}, tools : BOOLEAN, accepts : SUBSET Keys]]
  BY DEF OnboardInit
<1>4. Fresh(NoCommand) \in CmdType /\ Sound(Fresh(NoCommand))
  <2>1. /\ Fresh(NoCommand) \in CmdType /\ Nothing(Fresh(NoCommand)) /\ Fresh(NoCommand).pc = "start"
    BY FreshCommands
  <2>2. QED
    BY <2>1, NothingIsSound DEF KeyAt, KeygenAt, ProbeAt, CopyAt
<1>5. cmd \in [Operators -> CmdType] /\ \A p \in Operators : Sound(cmd[p])
  BY <1>4 DEF OnboardInit
<1>6. QED
  BY <1>1, <1>2, <1>3, <1>5 DEF OnboardInv, OnboardTypeOK, CmdType

(* Every step of the system keeps it.                                       *)
LEMMA OnboardStep ==
  ASSUME OnboardInv, [OnboardNext]_onboardVars
  PROVE  OnboardInv'
<1>1. cmd' \in [Operators -> CmdType] /\ \A q \in Operators : Sound(cmd'[q])
  <2>1. CASE cmd' = cmd
    BY <2>1 DEF OnboardInv
  <2>2. ASSUME NEW p \in Operators, Start(p) \/ Command(p)
        PROVE  cmd' \in [Operators -> CmdType] /\ \A q \in Operators : Sound(cmd'[q])
    BY <2>2, StartStep, InspectStep, GenerateStep, TightenStep, ProbeStep, CopyStep, ReportStep DEF Command
  <2>3. ASSUME NEW h \in Hosts, HostChanges(h) PROVE cmd' = cmd
    BY <2>3 DEF HostChanges
  <2>4. ASSUME NEW k \in Paths, KeyLost(k) PROVE cmd' = cmd
    BY <2>4 DEF KeyLost
  <2>5. CASE Settle
    BY <2>1, <2>5 DEF Settle
  <2>6. QED
    BY <2>1, <2>2, <2>3, <2>4, <2>5 DEF OnboardNext, onboardVars
<1>2. OnboardTypeOK'
  BY <1>1, WorldStep DEF OnboardTypeOK, CmdType
<1>3. QED
  BY <1>1, <1>2 DEF OnboardInv

(* The inductive invariant of the onboarding commands.                      *)
THEOREM OnboardInvariance == OnboardSpec => []OnboardInv
<1>1. OnboardInit => OnboardInv
  BY OnboardStarts
<1>2. OnboardInv /\ [OnboardNext]_onboardVars => OnboardInv'
  BY OnboardStep
<1>3. QED
  BY <1>1, <1>2, PTL DEF OnboardSpec

(* Every variable of the onboarding stays in its type.                      *)
THEOREM OnboardTypes == OnboardSpec => []OnboardTypeOK
<1>1. OnboardInv => OnboardTypeOK
  BY DEF OnboardInv
<1>2. QED
  BY <1>1, OnboardInvariance, PTL

(* Exit code 0 of an executed onboard means that every named host was       *)
(* found ready, that the key was there, and that nothing was left to copy.  *)
THEOREM ReadyIsReady == OnboardSpec => []ReadyMeansReady
<1>1. OnboardInv => ReadyMeansReady
  <2>1. SUFFICES ASSUME OnboardInv, NEW p \in Operators, Ended(p, "onboard"), cmd[p].exit = 0
                 PROVE  /\ cmd[p].found /\ cmd[p].copies = <<>>
                        /\ \A h \in ToSet(In(p).hosts) : \E r \in ToSet(cmd[p].probes) : r.host = h /\ r.ready
    BY DEF ReadyMeansReady
  <2> DEFINE c == cmd[p]
  <2>2. /\ c \in CmdType /\ ProbedOnce(c) /\ CopiedInNeed(c) /\ SaysReady(c)
        /\ c.pc = "end" /\ c.input.op = "onboard" /\ c.input.execute
    BY <2>1 DEF OnboardInv, Sound, Ended, In
  <2>3. c.found /\ Named(c) \subseteq HostsIn(c.probes) /\ \A r \in ToSet(c.probes) : r.ready
    BY <2>1, <2>2 DEF SaysReady
  <2>4. NeedsKey(c) = {}
    BY <2>2, <2>3 DEF NeedsKey, ProbedOnce
  <2>5. ToSet(c.copies) = {}
    BY <2>2, <2>4 DEF CopiedInNeed, HostsIn
  <2>6. c.copies = <<>>
    BY <2>2, <2>5, Entries DEF CmdType
  <2>7. \A h \in ToSet(In(p).hosts) : \E r \in ToSet(c.probes) : r.host = h /\ r.ready
    BY <2>3 DEF Named, HostsIn, In
  <2>8. QED
    BY <2>3, <2>6, <2>7
<1>2. QED
  BY <1>1, OnboardInvariance, PTL

(* No command replaces a key that is there, and none authorizes what it     *)
(* should not.                                                              *)
THEOREM AddsOnlyWhatIsMissingHolds == OnboardSpec => AddsOnlyWhatIsMissing
<1> DEFINE KeysStay == \A k \in Paths : key[k].private # 0 => key'[k].private \in {0, key[k].private}
           Authorized(h, n) == \E p \in Operators :
             /\ In(p).execute /\ h \in ToSet(In(p).hosts) /\ n = key[In(p).path].public
             /\ \A r \in ToSet(cmd[p].probes) : r.host = h => ~r.authed
           Gifts == \A h \in Hosts : \A n \in host'[h].accepts \ host[h].accepts : Authorized(h, n)
<1>1. ASSUME OnboardInv, OnboardNext PROVE KeysStay /\ Gifts
  <2>1. /\ key \in [Paths -> [private : Keys, public : Keys]]
        /\ host \in [Hosts -> [door : {"shut", "keys", "passwords"}, tools : BOOLEAN, accepts : SUBSET Keys]]
    BY <1>1 DEF OnboardInv, OnboardTypeOK
  <2>2. ASSUME NEW h \in Hosts, HostChanges(h) PROVE key' = key /\ \A g \in Hosts : host'[g].accepts = host[g].accepts
    BY <2>1, <2>2 DEF HostChanges
  <2>3. CASE Settle
    BY <2>1, <2>3 DEF Settle
  <2>4. ASSUME NEW k \in Paths, KeyLost(k) PROVE KeysStay /\ host' = host
    <3>1. PICK left : key' = [key EXCEPT ![k] = [Absent EXCEPT !.public = left]]
      BY <2>4 DEF KeyLost
    <3>2. [Absent EXCEPT !.public = left].private = 0
      BY DEF Absent
    <3>3. QED
      BY <2>1, <2>4, <3>1, <3>2 DEF KeyLost
  <2>5. ASSUME NEW p \in Operators, Generate(p) PROVE KeysStay /\ host' = host
    <3>1. CASE Keygen(p, In(p).path)
      <4>1. In(p).path \in Paths /\ key[In(p).path].private = 0
        BY <1>1, <3>1 DEF OnboardInv, CmdType, InputType, In, Keygen
      <4>2. \A k \in Paths : k # In(p).path => key'[k] = key[k]
        BY <2>1, <3>1 DEF Keygen
      <4>3. QED
        BY <2>5, <4>1, <4>2 DEF Generate
    <3>2. CASE key' = key
      BY <2>5, <3>2 DEF Generate
    <3>3. QED
      BY <2>5, <3>1, <3>2 DEF Generate
  <2>6. ASSUME NEW p \in Operators, Copy(p) PROVE KeysStay /\ Gifts
    <3> DEFINE c == cmd[p]
               h == First(c, ToCopy(c))
    <3>1. c \in CmdType /\ Sound(c) /\ c.pc = "copy" /\ ToCopy(c) # {} /\ key' = key
      BY <1>1, <2>6 DEF OnboardInv, Copy
    <3>2. /\ h \in Hosts /\ h \in ToSet(In(p).hosts)
          /\ \A r \in ToSet(c.probes) : r.host = h => ~r.authed
      BY <3>1, NextCopy DEF Named, In
    <3>3. \/ host' = host
          \/ /\ In(p).execute
             /\ host' = [host EXCEPT ![h].accepts = host[h].accepts \union {key[In(p).path].public}]
      BY <2>6 DEF Copy, CopyId, Executes, In
    <3> HIDE DEF h
    <3>4. CASE host' = host
      BY <3>1, <3>4
    <3>5. CASE In(p).execute /\ host' = [host EXCEPT ![h].accepts = host[h].accepts \union {key[In(p).path].public}]
      <4>1. ASSUME NEW g \in Hosts, NEW n \in host'[g].accepts \ host[g].accepts PROVE Authorized(g, n)
        <5>1. g = h /\ n = key[In(p).path].public
          BY <2>1, <3>2, <3>5, <4>1
        <5>2. QED
          BY <3>2, <3>5, <5>1
      <4>2. QED
        BY <3>1, <4>1
    <3>6. QED
      BY <3>3, <3>4, <3>5
  <2>7. ASSUME NEW p \in Operators, Start(p) \/ Inspect(p) \/ Tighten(p) \/ Probe(p) \/ Report(p)
        PROVE  key' = key /\ host' = host
    BY <2>7 DEF Start, Inspect, Tighten, Probe, Report
  <2>8. QED
    BY <1>1, <2>2, <2>3, <2>4, <2>5, <2>6, <2>7 DEF OnboardNext, Command
<1>2. OnboardInv /\ [OnboardNext]_onboardVars => [KeysStay /\ Gifts]_onboardVars
  BY <1>1
<1>3. QED
  BY <1>2, OnboardInvariance, PTL DEF OnboardSpec, AddsOnlyWhatIsMissing
=============================================================================
