------------------------- MODULE ScopeDeploy_proofs -------------------------
(***************************************************************************)
(* ScopeDeploy for any scope, any command line and any state of the        *)
(* target.  IInv says where the scope's thread and its batch are, what the *)
(* records, results and the trace say of each step, which steps have been  *)
(* undone, and what the target holds of an object that can be restored.    *)
(***************************************************************************)
EXTENDS ScopeDeploy, SequenceTheorems, FiniteSetTheorems, WellFoundedInduction, TLAPS

(* Where the scope's thread is: the records so far, and the batch between   *)
(* the steps that have ended and those that have not begun.                 *)
Position ==
  /\ pc = "loop" => cursor = last + 1 /\ Len(out) = last
  /\ pc = "run" => cursor = first /\ Len(out) = first - 1
  /\ pc = "collect" => cursor \in first .. last + 1 /\ Len(out) = cursor - 1
  /\ pc \in {"hook", "restore"} => cursor \in first .. last /\ Len(out) = cursor
  /\ pc \in {"run", "collect", "hook", "restore"} => first <= last
  /\ pc = "done" => Len(out) = Len(steps)
  /\ first < last => opt.workers > 1 /\ \A k \in first .. last : steps[k].parallel
  /\ \A i \in Index :
       /\ i > last => work[i] = "idle"
       /\ i <= last /\ (pc # "run" \/ i < first) => work[i] = "ended"
       /\ i <= last /\ pc = "run" => work[i] # "idle"

(* What a record, a result and the trace say of one step.                   *)
Told ==
  /\ \A k \in DOMAIN out :
       /\ out[k].step = k
       /\ k <= last => out[k].rc = result[k].rc /\ out[k].converged = result[k].converged
       /\ k > last => out[k].rc = -1 /\ ~out[k].converged
  /\ \A i \in Index : result[i].rc = 1 => ~result[i].converged /\ ~opt.dryRun
  /\ opt.dryRun => trace = <<>>
  /\ ~opt.dryRun => \A i \in Index : \A ok \in BOOLEAN :
       CommandRan(i, ok) <=> work[i] = "ended" /\ ~result[i].converged /\ ok = (result[i].rc = 0)

(* failureSeen, rc and deployed_files sum the records up.                   *)
Pushed == {k \in DOMAIN out : steps[k].kind = "rsync" /\ out[k].rc = 0 /\ ~out[k].converged}
Summed ==
  /\ failureSeen <=> Failures # {}
  /\ pc \in {"hook", "restore"} => failureSeen /\ result[cursor].rc = 1
  /\ pc \notin {"hook", "restore"} => (rc = 1 <=> failureSeen)
  /\ pc = "done" /\ last < Len(steps) => failureSeen
  /\ deployed = Cardinality(Pushed)

(* Under --fail-fast no batch begins after a failure.                       *)
Contained ==
  opt.failFast /\ (pc \in {"loop", "run"} \/ (pc = "collect" /\ cursor = first)) => ~failureSeen

(* The undoable steps, in plan order, and those already undone.             *)
Ascending(seq) == \A i, j \in DOMAIN seq : i < j => seq[i] < seq[j]
Restored == {trace[e].step : e \in Events("restore")}
Succeeded == {k \in DOMAIN out : out[k].rc = 0 /\ steps[k].undo}
Prior == {k \in Succeeded : \A f \in Failures : k < f}
Undoing == {undoing[n] : n \in DOMAIN undoing}
Undone ==
  /\ Ascending(undoable)
  /\ {undoable[n] : n \in DOMAIN undoable} = Succeeded
  /\ opt.failFast /\ ~opt.dryRun =>
       /\ ~opt.rollback \/ Failures = {} \/ pc = "hook" => Restored = {}
       /\ pc \in {"hook", "restore"} => Failures = {cursor}
       /\ pc = "restore" =>
            /\ Ascending(undoing)
            /\ opt.rollback => Restored \union Undoing = Prior
            /\ ~opt.rollback => undoing = <<>>
            /\ \A i \in Undoing, j \in Restored : i < j
       /\ opt.rollback /\ Failures # {} /\ pc \notin {"hook", "restore"} => Restored = Prior
       /\ \A p, q \in Events("restore") : p < q => trace[p].step > trace[q].step

(* An object of which every command so far was an undoable push that        *)
(* succeeded: its first version is in the backup slot, and live is that     *)
(* version or the new one, whichever the restores so far have left.         *)
Touched(o) == {i \in Index : /\ steps[i].object = o /\ steps[i].kind # "raw"
                             /\ \E ok \in BOOLEAN : CommandRan(i, ok)}
RestoredOk(i) == \E e \in Events("restore") : trace[e].step = i /\ trace[e].ok
Reversible(o) == \A i \in Touched(o) : /\ steps[i].kind = "rsync" /\ steps[i].undo
                                       /\ ~CommandRan(i, FALSE)
Saved ==
  /\ \A i \in Index : RestoredOk(i) => steps[i].kind = "rsync"
  /\ opt.failFast => \A o \in Objects : start[o] \notin {"absent", "new"} /\ Reversible(o) =>
       /\ Touched(o) = {} /\ Restored = {} => live[o] = start[o]
       /\ Touched(o) # {} =>
            /\ backup[o] = start[o]
            /\ live[o] = IF \E i \in Index : steps[i].object = o /\ RestoredOk(i)
                           THEN start[o] ELSE "new"

(* The inductive invariant. *)
IInv == /\ TypeOK /\ Position /\ Told /\ Summed /\ Contained /\ PlanOrder /\ FailFastContains
        /\ Undone /\ Saved

-----------------------------------------------------------------------------
(* The run of parallel steps that starts at a parallel step has an end.     *)
LEMMA BatchEnds ==
  ASSUME TypeOK, NEW i \in Index, steps[i].parallel
  PROVE  /\ BatchEnd(i) \in i .. Len(steps)
         /\ \A k \in i .. BatchEnd(i) : steps[k].parallel
<1> DEFINE N == Len(steps)
           IsRun(j) == \A k \in i .. j : steps[k].parallel
           Rest == {m \in Nat : N - m \in i .. N /\ IsRun(N - m)}
<1>1. N \in Nat /\ i \in 1 .. N
  BY PlansAssumption DEF TypeOK, Index
<1>2. N - i \in Rest
  BY <1>1
<1>3. PICK m \in Rest : \A n \in Rest : <<n, m>> \notin OpToRel(<, Nat)
  <2>1. Rest \subseteq Nat /\ Rest # {}
    BY <1>2
  <2> HIDE DEF Rest
  <2>2. QED
    BY <2>1, NatLessThanWellFounded, WFMin
<1>4. \A n \in Rest : ~(n < m)
  BY <1>3 DEF OpToRel
<1>5. m \in Nat /\ N - m \in i .. N /\ IsRun(N - m)
  BY <1>4
<1>6. N - m < N => ~steps[N - m + 1].parallel
  <2> SUFFICES ASSUME N - m < N, steps[N - m + 1].parallel PROVE FALSE
    OBVIOUS
  <2>1. m - 1 \in Nat /\ N - (m - 1) = N - m + 1
    BY <1>1, <1>5
  <2>2. N - (m - 1) \in i .. N
    BY <1>1, <1>5, <2>1
  <2>3. IsRun(N - m + 1)
    BY <1>1, <1>5
  <2>4. m - 1 \in Rest /\ m - 1 < m
    BY <1>1, <1>5, <2>1, <2>2, <2>3
  <2>5. QED
    BY <1>4, <2>4
<1>7. \E j \in i .. Len(steps) :
        /\ \A k \in i .. j : steps[k].parallel
        /\ j < Len(steps) => ~steps[j + 1].parallel
  BY <1>5, <1>6
<1>8. QED
  BY <1>7 DEF BatchEnd

(* What a command that really ran adds to the trace: one event.             *)
LEMMA Traced ==
  ASSUME TypeOK, steps' = steps, ~opt.dryRun,
         NEW act \in {"command", "hook", "restore", "planHook"}, NEW i \in Index, NEW ok \in BOOLEAN,
         Ran(act, i, ok)
  PROVE  /\ trace' \in Seq(Event) /\ DOMAIN trace' = DOMAIN trace \union {Len(trace) + 1}
         /\ \A e \in DOMAIN trace : e \in Nat /\ e < Len(trace) + 1 /\ trace'[e] = trace[e]
         /\ trace'[Len(trace) + 1] = [act |-> act, step |-> i, ok |-> ok]
<1> DEFINE event == [act |-> act, step |-> i, ok |-> ok]
<1>1. event \in Event
  BY DEF Event
<1>2. trace' = Append(trace, event) /\ trace \in Seq(Event)
  BY DEF Ran, TypeOK
<1> HIDE DEF event
<1>3. /\ trace' \in Seq(Event) /\ Len(trace') = Len(trace) + 1
      /\ \A e \in 1 .. Len(trace) : trace'[e] = trace[e]
      /\ trace'[Len(trace) + 1] = event
  BY <1>1, <1>2, AppendProperties
<1>4. DOMAIN trace = 1 .. Len(trace) /\ Len(trace) \in Nat /\ DOMAIN trace' = 1 .. Len(trace) + 1
  BY <1>2, <1>3
<1>5. QED
  BY <1>3, <1>4 DEF event

(* What it adds to the events of each kind.                                 *)
LEMMA TracedEvents ==
  ASSUME TypeOK, steps' = steps, ~opt.dryRun,
         NEW act \in {"command", "hook", "restore", "planHook"}, NEW i \in Index, NEW ok \in BOOLEAN,
         Ran(act, i, ok)
  PROVE  /\ \A a : Events(a)' = IF a = act THEN Events(a) \union {Len(trace) + 1} ELSE Events(a)
         /\ \A j, b : CommandRan(j, b)' <=> CommandRan(j, b) \/ (act = "command" /\ j = i /\ b = ok)
         /\ \A j : RestoredOk(j)' <=> RestoredOk(j) \/ (act = "restore" /\ j = i /\ ok)
         /\ Restored' = IF act = "restore" THEN Restored \union {i} ELSE Restored
<1>1. /\ DOMAIN trace' = DOMAIN trace \union {Len(trace) + 1}
      /\ \A e \in DOMAIN trace : e < Len(trace) + 1 /\ trace'[e] = trace[e] /\ e \in Nat
      /\ trace'[Len(trace) + 1] = [act |-> act, step |-> i, ok |-> ok]
  BY Traced
<1>2. /\ trace'[Len(trace) + 1].act = act /\ trace'[Len(trace) + 1].step = i
      /\ trace'[Len(trace) + 1].ok = ok
  BY <1>1
<1>3. Len(trace) + 1 \notin DOMAIN trace
  BY <1>1 DEF TypeOK
<1>4. \A a : Events(a)' = IF a = act THEN Events(a) \union {Len(trace) + 1} ELSE Events(a)
  BY <1>1, <1>2, <1>3 DEF Events
<1>5. \A a : \A e \in Events(a) : e \in DOMAIN trace /\ trace'[e] = trace[e]
  BY <1>1 DEF Events
<1>6. \A j, b : CommandRan(j, b)' <=> CommandRan(j, b) \/ (act = "command" /\ j = i /\ b = ok)
  BY <1>2, <1>4, <1>5 DEF CommandRan
<1>7. \A j : RestoredOk(j)' <=> RestoredOk(j) \/ (act = "restore" /\ j = i /\ ok)
  BY <1>2, <1>4, <1>5 DEF RestoredOk
<1>8. Restored' = IF act = "restore" THEN Restored \union {i} ELSE Restored
  BY <1>2, <1>4, <1>5 DEF Restored
<1>9. QED
  BY <1>4, <1>6, <1>7, <1>8

-----------------------------------------------------------------------------
(* The scope's steps, and their objects.                                    *)
LEMMA Steps ==
  ASSUME TypeOK
  PROVE  /\ Len(steps) \in Nat /\ Index = DOMAIN steps /\ Index \subseteq Nat
         /\ \A i \in Index : steps[i] \in Step /\ steps[i].object \in Objects
         /\ opt \in Option
<1>1. steps \in Seq(Step) /\ opt \in Option
  BY PlansAssumption, OptionsAssumption DEF TypeOK
<1>2. Len(steps) \in Nat /\ Index = DOMAIN steps /\ Index \subseteq Nat
  BY <1>1 DEF Index
<1>3. ASSUME NEW i \in Index PROVE steps[i] \in Step /\ steps[i].object \in Objects
  <2>1. steps[i] \in Step
    BY <1>1, ElementOfSeq DEF Index
  <2>2. QED
    BY <2>1 DEF Step
<1>4. QED
  BY <1>1, <1>2, <1>3

(* The scope's inputs stay as they are.                                     *)
LEMMA SameInputs ==
  ASSUME [Next]_vars
  PROVE  steps' = steps /\ opt' = opt /\ start' = start /\ Index' = Index
<1>1. steps' = steps /\ opt' = opt /\ start' = start
  BY DEF Next, Main, vars, inputs, Submit, Join, CollectOk, CollectFailed, FailureHook, Restore,
         PlanHook, NextBatch, Return, Begin, Run, Terminated
<1>2. QED
  BY <1>1 DEF Index

(* One more record.                                                         *)
LEMMA OneMoreRecord ==
  ASSUME TypeOK, NEW r \in Record, out' = Append(out, r)
  PROVE  /\ out' \in Seq(Record) /\ Len(out') = Len(out) + 1 /\ Len(out) \in Nat
         /\ DOMAIN out = 1 .. Len(out) /\ DOMAIN out' = 1 .. Len(out) + 1
         /\ \A k \in DOMAIN out : out'[k] = out[k]
         /\ out'[Len(out) + 1] = r
<1>1. out \in Seq(Record)
  BY DEF TypeOK
<1>2. /\ out' \in Seq(Record) /\ Len(out') = Len(out) + 1
      /\ \A k \in 1 .. Len(out) : out'[k] = out[k]
      /\ out'[Len(out) + 1] = r
  BY <1>1, AppendProperties
<1>3. DOMAIN out = 1 .. Len(out) /\ Len(out) \in Nat
  BY <1>1
<1>4. QED
  BY <1>2, <1>3

(* The records that fail-fast adds for the steps that are left.             *)
LEMMA SkippedAreAdded ==
  ASSUME TypeOK, Len(out) = last, out' = out \o SkippedRecords
  PROVE  /\ out' \in Seq(Record) /\ Len(out') = Len(steps) /\ DOMAIN out' = Index
         /\ DOMAIN out = 1 .. last /\ last \in 0 .. Len(steps)
         /\ \A k \in DOMAIN out : out'[k] = out[k]
         /\ \A k \in Index : k > last => out'[k] = [step |-> k, rc |-> -1, converged |-> FALSE]
<1> DEFINE skipped(k) == [step |-> last + k, rc |-> -1, converged |-> FALSE]
<1>1. Len(steps) \in Nat /\ last \in 0 .. Len(steps) /\ out \in Seq(Record)
  BY Steps DEF TypeOK
<1>2. Len(steps) - last \in Nat
  BY <1>1
<1>3. \A k \in 1 .. Len(steps) - last : skipped(k) \in Record
  <2> SUFFICES ASSUME NEW k \in 1 .. Len(steps) - last PROVE skipped(k) \in Record
    OBVIOUS
  <2>1. last + k \in Index
    BY <1>1 DEF Index
  <2>2. QED
    BY <2>1 DEF Record
<1>4. SkippedRecords = [k \in 1 .. Len(steps) - last |-> skipped(k)]
  BY DEF SkippedRecords
<1>5. SkippedRecords \in Seq(Record) /\ Len(SkippedRecords) = Len(steps) - last
  <2> HIDE DEF skipped
  <2>1. SkippedRecords \in Seq(Record)
    <3>1. SkippedRecords \in [1 .. Len(steps) - last -> Record]
      BY <1>3, <1>4
    <3>2. QED
      BY <1>2, <3>1, SeqDef
  <2>2. QED
    BY <1>2, <1>4, <2>1
<1>6. /\ out' \in Seq(Record) /\ Len(out') = Len(out) + Len(SkippedRecords)
      /\ \A k \in 1 .. Len(out) + Len(SkippedRecords) :
           out'[k] = IF k <= Len(out) THEN out[k] ELSE SkippedRecords[k - Len(out)]
  BY <1>1, <1>5, ConcatProperties
<1>7. DOMAIN out = 1 .. last /\ DOMAIN out' = Index /\ Len(out') = Len(steps)
  BY <1>1, <1>5, <1>6 DEF Index
<1>8. \A k \in DOMAIN out : out'[k] = out[k]
  BY <1>1, <1>5, <1>6, <1>7
<1>9. ASSUME NEW k \in Index, k > last
      PROVE  out'[k] = [step |-> k, rc |-> -1, converged |-> FALSE]
  <2>1. k - last \in 1 .. Len(steps) - last /\ last + (k - last) = k
    BY <1>1, <1>9 DEF Index
  <2>2. out'[k] = SkippedRecords[k - last]
    BY <1>1, <1>5, <1>6, <1>9 DEF Index
  <2>3. SkippedRecords[k - last] = skipped(k - last)
    BY <1>4, <2>1
  <2>4. QED
    BY <2>1, <2>2, <2>3
<1>10. QED
  BY <1>1, <1>6, <1>7, <1>8, <1>9

(* The batch in hand: its bounds and the step whose result comes next.      *)
LEMMA Batch ==
  ASSUME TypeOK, Position
  PROVE  /\ first \in Int /\ last \in Int /\ cursor \in Int /\ Len(steps) \in Nat
         /\ \A i \in first .. last : i \in Index
         /\ pc \in {"hook", "restore"} => cursor \in Index
         /\ pc = "collect" /\ cursor <= last => cursor \in Index /\ cursor \in first .. last
  BY Steps DEF TypeOK, Position, Index

(* A trace is one of events, whether the command ran or was a dry run's.    *)
LEMMA TraceType ==
  ASSUME TypeOK, steps' = steps, NEW act \in {"command", "hook", "restore", "planHook"},
         NEW i \in Index, NEW ok \in BOOLEAN, Ran(act, i, ok)
  PROVE  trace' \in Seq(Event)
<1>1. CASE opt.dryRun
  BY <1>1 DEF Ran, TypeOK
<1>2. CASE ~opt.dryRun
  BY <1>2, Traced
<1>3. QED
  BY <1>1, <1>2

(* A step that runs leaves some version of its object, and of its backup.   *)
LEMMA ApplyType ==
  ASSUME TypeOK, NEW i \in Index, Apply(steps[i])
  PROVE  live' \in Content /\ backup' \in Content
<1>1. live \in [Objects -> Version] /\ backup \in [Objects -> Version] /\ "new" \in Version
      /\ steps[i].object \in Objects
  BY Steps DEF TypeOK, Content, Version
<1>2. live[steps[i].object] \in Version
  BY <1>1
<1>3. QED
  BY <1>1, <1>2 DEF Apply, Content

(* Every step of execute_deploy keeps its state well typed.                 *)
LEMMA TypeStep ==
  ASSUME TypeOK, Position, [Next]_vars
  PROVE  TypeOK'
<1>a. /\ steps' = steps /\ opt' = opt /\ start' = start /\ Index' = Index
      /\ Record' = Record /\ Event' = Event
  BY SameInputs DEF Record, Event
<1>b. /\ Len(steps) \in Nat /\ Index = 1 .. Len(steps) /\ first \in Int /\ last \in Int /\ cursor \in Int
      /\ \A i \in Index : steps[i] \in Step
  BY Steps, Batch DEF Index
<1>1. CASE Submit
  <2>1. last + 1 \in Index
    BY <1>1, <1>b DEF Submit, TypeOK
  <2>2. last' \in last + 1 .. Len(steps)
    <3>1. steps[last + 1].parallel => BatchEnd(last + 1) \in last + 1 .. Len(steps)
      BY <2>1, BatchEnds
    <3>2. QED
      BY <1>1, <1>b, <2>1, <3>1 DEF Submit
  <2>3. first' = last + 1 /\ cursor' = last + 1
    BY <1>1 DEF Submit
  <2>4. work' \in [Index -> {"idle", "queued", "command", "ended"}]
    BY <1>1 DEF Submit, TypeOK
  <2>5. QED
    BY <1>a, <1>b, <1>1, <2>1, <2>2, <2>3, <2>4 DEF TypeOK, Submit, inputs, target, outcome
<1>2. CASE Join
  BY <1>a, <1>2 DEF TypeOK, Join, inputs, target, outcome
<1>3. CASE CollectOk
  <2> DEFINE r == [step |-> cursor, rc |-> 0, converged |-> result[cursor].converged]
  <2>1. cursor \in Index /\ cursor \in first .. last
    BY <1>3, Batch DEF CollectOk
  <2>2. r \in Record
    BY <2>1 DEF TypeOK, Record
  <2>3. out' = Append(out, r)
    BY <1>3 DEF CollectOk
  <2> HIDE DEF r
  <2>4. out' \in Seq(Record)
    BY <2>2, <2>3, OneMoreRecord
  <2>5. undoable' \in Seq(Index)
    BY <1>3, <2>1, AppendProperties DEF CollectOk, TypeOK
  <2>6. deployed' \in Nat /\ cursor' \in 1 .. Len(steps) + 1
    BY <1>3, <1>b, <2>1 DEF CollectOk, TypeOK
  <2>7. QED
    BY <1>a, <1>3, <2>4, <2>5, <2>6 DEF TypeOK, CollectOk, inputs, target
<1>4. CASE CollectFailed
  <2> DEFINE r == [step |-> cursor, rc |-> result[cursor].rc, converged |-> FALSE]
  <2>1. cursor \in Index /\ cursor \in first .. last
    BY <1>4, Batch DEF CollectFailed
  <2>2. r \in Record
    BY <2>1 DEF TypeOK, Record
  <2>3. out' = Append(out, r)
    BY <1>4 DEF CollectFailed
  <2> HIDE DEF r
  <2>4. out' \in Seq(Record)
    BY <2>2, <2>3, OneMoreRecord
  <2>5. cursor' \in 1 .. Len(steps) + 1
        /\ pc' \in {"loop", "run", "collect", "hook", "restore", "done"}
    BY <1>4, <1>b, <2>1 DEF CollectFailed, TypeOK
  <2>6. QED
    BY <1>a, <1>4, <2>4, <2>5 DEF TypeOK, CollectFailed, inputs, target
<1>5. CASE FailureHook
  <2>1. cursor \in Index
    BY <1>5, Batch DEF FailureHook
  <2>2. trace' \in Seq(Event)
    BY <1>a, <1>5, <2>1, TraceType DEF FailureHook, TypeOK
  <2>3. undoing' \in Seq(Index)
    BY <1>5, EmptySeq DEF FailureHook, TypeOK
  <2>4. QED
    BY <1>a, <1>5, <2>2, <2>3 DEF TypeOK, FailureHook, inputs, target, outcome
<1>6. CASE Restore
  <2> DEFINE i == undoing[Len(undoing)]
  <2>1. i \in Index /\ undoing \in Seq(Index) /\ Len(undoing) \in Nat
    BY <1>6 DEF Restore, TypeOK
  <2>2. trace' \in Seq(Event)
    BY <1>a, <1>6, <2>1, TraceType DEF Restore
  <2>3. undoing' \in Seq(Index)
    <3>1. \A k \in 1 .. Len(undoing) - 1 : undoing[k] \in Index
      BY <2>1
    <3>2. QED
      BY <1>6, <2>1, <3>1, SubSeqProperties DEF Restore
  <2>4. steps[i].object \in Objects
    BY <2>1, Steps
  <2>5. live' \in Content
    BY <1>6, <2>4 DEF Restore, TypeOK, Content
  <2>6. QED
    BY <1>a, <1>6, <2>2, <2>3, <2>5 DEF TypeOK, Restore, inputs, outcome
<1>7. CASE PlanHook
  <2>1. cursor \in Index /\ cursor \in first .. last
    BY <1>7, Batch DEF PlanHook, Position
  <2>2. trace' \in Seq(Event)
    BY <1>a, <1>7, <2>1, TraceType DEF PlanHook, TypeOK
  <2>3. cursor' \in 1 .. Len(steps) + 1 /\ rc' \in {0, 1}
    <3>1. result[cursor].rc \in {0, 1}
      BY <2>1 DEF TypeOK
    <3>2. QED
      BY <1>7, <1>b, <2>1, <3>1 DEF PlanHook
  <2>4. QED
    BY <1>a, <1>7, <2>2, <2>3 DEF TypeOK, PlanHook, inputs, target
<1>8. CASE NextBatch
  <2>1. out' \in Seq(Record)
    <3>1. Stops => Len(out) = last
      BY <1>8, <1>b DEF NextBatch, Position
    <3>2. QED
      BY <1>8, <3>1, SkippedAreAdded DEF NextBatch, TypeOK
  <2>2. pc' \in {"done", "loop"}
    BY <1>8 DEF NextBatch
  <2>3. QED
    BY <1>a, <1>8, <2>1, <2>2 DEF TypeOK, NextBatch, inputs, target
<1>9. CASE Return
  BY <1>a, <1>9 DEF TypeOK, Return, inputs, target, outcome
<1>10. ASSUME NEW i \in Index, Begin(i) PROVE TypeOK'
  <2>1. /\ work' \in [Index -> {"idle", "queued", "command", "ended"}]
        /\ result' \in [Index -> [rc : {0, 1}, converged : BOOLEAN]]
    <3>1. [rc |-> 0, converged |-> TRUE] \in [rc : {0, 1}, converged : BOOLEAN]
      OBVIOUS
    <3>2. work' = [work EXCEPT ![i] = "ended"] \/ work' = [work EXCEPT ![i] = "command"]
      BY <1>10 DEF Begin
    <3>3. result' = [result EXCEPT ![i] = [rc |-> 0, converged |-> TRUE]] \/ result' = result
      BY <1>10 DEF Begin
    <3>4. work' \in [Index -> {"idle", "queued", "command", "ended"}]
      BY <3>2 DEF TypeOK
    <3>5. result' \in [Index -> [rc : {0, 1}, converged : BOOLEAN]]
      BY <3>1, <3>3 DEF TypeOK
    <3>6. QED
      BY <3>4, <3>5
  <2>2. QED
    BY <1>a, <1>10, <2>1 DEF TypeOK, Begin, inputs, target, outcome
<1>11. ASSUME NEW i \in Index, Run(i) PROVE TypeOK'
  <2>1. PICK code \in {0, 1}, effect \in BOOLEAN :
          /\ IF effect THEN Apply(steps[i]) ELSE UNCHANGED target
          /\ result' = [result EXCEPT ![i] = [rc |-> code, converged |-> FALSE]]
          /\ Ran("command", i, code = 0)
    BY <1>11 DEF Run
  <2>2. trace' \in Seq(Event)
    BY <1>a, <2>1, TraceType
  <2>3. live' \in Content /\ backup' \in Content
    BY <2>1, ApplyType DEF target, TypeOK
  <2>4. [rc |-> code, converged |-> FALSE] \in [rc : {0, 1}, converged : BOOLEAN]
    OBVIOUS
  <2>5. result' \in [Index -> [rc : {0, 1}, converged : BOOLEAN]]
    BY <2>1, <2>4 DEF TypeOK
  <2>6. work' \in [Index -> {"idle", "queued", "command", "ended"}]
    BY <1>11 DEF Run, TypeOK
  <2>7. QED
    BY <1>a, <1>11, <2>2, <2>3, <2>5, <2>6 DEF TypeOK, Run, inputs, outcome
<1>12. CASE UNCHANGED vars
  BY <1>a, <1>12 DEF TypeOK, vars
<1>13. QED
  BY <1>1, <1>2, <1>3, <1>4, <1>5, <1>6, <1>7, <1>8, <1>9, <1>10, <1>11, <1>12
     DEF Next, Main, Terminated

-----------------------------------------------------------------------------
(* A step that is at work belongs to the batch in hand, and the others of   *)
(* its batch are parallel steps.                                            *)
LEMMA AtWork ==
  ASSUME TypeOK, Position, pc = "run", NEW i \in Index, work[i] # "ended", work[i] # "idle"
  PROVE  /\ i \in first .. last
         /\ \A s \in Index : work[s] = "ended" /\ s >= first /\ s # i => Batched(s, i) /\ Batched(i, s)
<1>1. i \in Int /\ first \in Int /\ last \in Int /\ Index \subseteq Int
  BY Batch, Steps
<1>2. i \in first .. last
  BY <1>1 DEF Position
<1>3. ASSUME NEW s \in Index, work[s] = "ended", s >= first, s # i
      PROVE  Batched(s, i) /\ Batched(i, s)
  <2>1. s \in first .. last /\ first < last
    BY <1>1, <1>2, <1>3 DEF Position
  <2>2. opt.workers > 1 /\ \A k \in first .. last : steps[k].parallel
    BY <2>1 DEF Position
  <2>3. \A k \in (s .. i) \union (i .. s) : k \in first .. last
    BY <1>1, <1>2, <2>1
  <2>4. QED
    BY <2>2, <2>3 DEF Batched
<1>4. QED
  BY <1>2, <1>3

(* A command is under way only while its batch runs.                        *)
LEMMA AtWorkInRun ==
  ASSUME TypeOK, Position, NEW i \in Index, work[i] = "command"
  PROVE  pc = "run"
<1>1. i \in Int /\ last \in Int
  BY Steps, Batch
<1>2. QED
  BY <1>1 DEF Position

(* The loop moves from batch to batch, and records results in plan order.   *)
LEMMA PositionStep ==
  ASSUME TypeOK, Position, [Next]_vars
  PROVE  Position'
<1>a. steps' = steps /\ opt' = opt /\ Index' = Index
  BY SameInputs
<1>b. /\ Len(steps) \in Nat /\ Index = 1 .. Len(steps) /\ first \in Int /\ last \in Int /\ cursor \in Int
      /\ last <= Len(steps) /\ DOMAIN work = Index
  BY Steps, Batch DEF Index, TypeOK
<1>1. CASE Submit
  <2>1. last + 1 \in Index /\ Len(out) = last
    BY <1>1, <1>b DEF Submit, Position
  <2>2. /\ last' \in last + 1 .. Len(steps)
        /\ last' > last + 1 => opt.workers > 1 /\ \A k \in last + 1 .. last' : steps[k].parallel
    <3>1. CASE steps[last + 1].parallel /\ opt.workers > 1
      <4>1. last' = BatchEnd(last + 1)
        BY <1>1, <3>1 DEF Submit
      <4>2. QED
        BY <2>1, <3>1, <4>1, BatchEnds
    <3>2. CASE ~(steps[last + 1].parallel /\ opt.workers > 1)
      BY <1>1, <1>b, <2>1, <3>2 DEF Submit
    <3>3. QED
      BY <3>1, <3>2
  <2>3. first' = last + 1 /\ cursor' = last + 1 /\ pc' = "run" /\ out' = out
    BY <1>1 DEF Submit, outcome
  <2>4. \A i \in Index : work'[i] = IF i \in last + 1 .. last' THEN "queued" ELSE work[i]
    BY <1>1 DEF Submit
  <2>5. \A i \in Index : IF i <= last THEN work[i] = "ended" ELSE work[i] = "idle"
    BY <1>1, <1>b DEF Submit, Position
  <2>6. \A i \in Index : /\ i > last' => work'[i] = "idle"
                         /\ i <= last' => work'[i] # "idle"
                         /\ i < first' => work'[i] = "ended"
    BY <1>b, <2>2, <2>3, <2>4, <2>5
  <2>7. QED
    BY <1>a, <1>b, <2>1, <2>2, <2>3, <2>6 DEF Position
<1>2. CASE Join
  BY <1>a, <1>b, <1>2 DEF Join, outcome, Position
<1>3. CASE CollectOk
  <2>1. Len(out') = Len(out) + 1 /\ Len(out) \in Nat
    BY <1>3 DEF CollectOk, TypeOK
  <2>2. /\ pc = "collect" /\ pc' = "collect" /\ cursor' = cursor + 1 /\ cursor <= last
        /\ first' = first /\ last' = last /\ work' = work
    BY <1>3 DEF CollectOk
  <2>3. QED
    BY <1>a, <1>b, <2>1, <2>2 DEF Position
<1>4. CASE CollectFailed
  <2>1. Len(out') = Len(out) + 1 /\ Len(out) \in Nat
    BY <1>4 DEF CollectFailed, TypeOK
  <2>2. /\ pc = "collect" /\ cursor <= last /\ first' = first /\ last' = last /\ work' = work
        /\ \/ pc' = "hook" /\ cursor' = cursor
           \/ pc' = "collect" /\ cursor' = cursor + 1
    BY <1>4 DEF CollectFailed
  <2>3. QED
    BY <1>a, <1>b, <2>1, <2>2 DEF Position
<1>5. CASE FailureHook
  BY <1>a, <1>b, <1>5 DEF FailureHook, outcome, Position
<1>6. CASE Restore
  BY <1>a, <1>b, <1>6 DEF Restore, outcome, Position
<1>7. CASE PlanHook
  BY <1>a, <1>b, <1>7 DEF PlanHook, Position
<1>8. CASE NextBatch
  <2>1. /\ Len(out) = last /\ cursor = last + 1 /\ pc = "collect"
        /\ UNCHANGED <<first, last, cursor, work>>
    BY <1>8, <1>b DEF NextBatch, Position
  <2>2. CASE Stops
    <3>1. Len(out') = Len(steps) /\ pc' = "done"
      BY <1>8, <2>1, <2>2, SkippedAreAdded DEF NextBatch
    <3>2. QED
      BY <1>a, <1>b, <2>1, <3>1 DEF Position
  <2>3. CASE ~Stops
    BY <1>a, <1>b, <1>8, <2>1, <2>3 DEF NextBatch, Position
  <2>4. QED
    BY <2>2, <2>3
<1>9. CASE Return
  BY <1>a, <1>b, <1>9 DEF Return, outcome, Position
<1>10. ASSUME NEW i \in Index, Begin(i) PROVE Position'
  <2>1. /\ pc = "run" /\ work[i] = "queued" /\ UNCHANGED <<pc, first, last, cursor, out>>
        /\ \E w \in {"ended", "command"} : work' = [work EXCEPT ![i] = w]
    BY <1>10 DEF Begin, outcome
  <2>2. i \in first .. last
    BY <2>1, AtWork
  <2>3. QED
    BY <1>a, <1>b, <2>1, <2>2 DEF Position
<1>11. ASSUME NEW i \in Index, Run(i) PROVE Position'
  <2>1. /\ work[i] = "command" /\ UNCHANGED <<pc, first, last, cursor, out>>
        /\ work' = [work EXCEPT ![i] = "ended"]
    BY <1>11 DEF Run, outcome
  <2>2. pc = "run"
    BY <1>b, <2>1 DEF Position
  <2>3. i \in first .. last
    BY <2>1, <2>2, AtWork
  <2>4. QED
    BY <1>a, <1>b, <2>1, <2>2, <2>3 DEF Position
<1>12. CASE UNCHANGED vars
  BY <1>a, <1>12 DEF vars, Position
<1>13. QED
  BY <1>1, <1>2, <1>3, <1>4, <1>5, <1>6, <1>7, <1>8, <1>9, <1>10, <1>11, <1>12
     DEF Next, Main, Terminated

-----------------------------------------------------------------------------
(* Without a new event nothing that the trace says changes.                 *)
LEMMA SameTrace ==
  ASSUME trace' = trace
  PROVE  /\ \A a : Events(a)' = Events(a)
         /\ \A j, b : CommandRan(j, b)' <=> CommandRan(j, b)
         /\ \A j : RestoredOk(j)' <=> RestoredOk(j)
         /\ Restored' = Restored
  BY DEF Events, CommandRan, RestoredOk, Restored

(* A step that runs no step's command says nothing new about commands.      *)
LEMMA NoCommand ==
  ASSUME TypeOK, steps' = steps,
         \/ trace' = trace
         \/ \E act \in {"hook", "restore", "planHook"}, i \in Index, ok \in BOOLEAN : Ran(act, i, ok)
  PROVE  /\ \A j, b : CommandRan(j, b)' <=> CommandRan(j, b)
         /\ Events("command")' = Events("command")
         /\ \A e \in Events("command") : trace'[e] = trace[e]
         /\ opt.dryRun => trace' = trace
<1>1. CASE trace' = trace
  BY <1>1, SameTrace
<1>2. CASE trace' # trace
  <2>1. PICK act \in {"hook", "restore", "planHook"}, i \in Index, ok \in BOOLEAN : Ran(act, i, ok)
    BY <1>2
  <2>2. ~opt.dryRun
    BY <1>2, <2>1 DEF Ran
  <2>3. \A e \in DOMAIN trace : trace'[e] = trace[e]
    BY <2>1, <2>2, Traced
  <2>4. /\ \A a : Events(a)' = IF a = act THEN Events(a) \union {Len(trace) + 1} ELSE Events(a)
        /\ \A j, b : CommandRan(j, b)' <=> CommandRan(j, b) \/ (act = "command" /\ j = i /\ b = ok)
    BY <2>1, <2>2, TracedEvents
  <2>5. act # "command"
    BY <2>1
  <2>6. \A e \in Events("command") : trace'[e] = trace[e]
    BY <2>3 DEF Events
  <2>7. QED
    BY <2>2, <2>4, <2>5, <2>6
<1>3. QED
  BY <1>1, <1>2

(* A record says of a step what its command did, and says it once.          *)
LEMMA ToldStep ==
  ASSUME TypeOK, Position, Told, [Next]_vars
  PROVE  Told'
<1>a. steps' = steps /\ opt' = opt /\ Index' = Index
  BY SameInputs
<1>b. /\ Len(steps) \in Nat /\ Index = 1 .. Len(steps) /\ first \in Int /\ last \in Int /\ cursor \in Int
      /\ last <= Len(steps) /\ DOMAIN work = Index /\ DOMAIN result = Index
      /\ DOMAIN out = 1 .. Len(out) /\ Len(out) \in Nat
  BY Steps, Batch DEF Index, TypeOK
<1>1. ASSUME UNCHANGED <<work, result, out, last>>,
             \/ trace' = trace
             \/ \E act \in {"hook", "restore", "planHook"}, i \in Index, ok \in BOOLEAN : Ran(act, i, ok)
      PROVE  Told'
  <2>1. /\ \A j, b : CommandRan(j, b)' <=> CommandRan(j, b)
        /\ opt.dryRun => trace' = trace
    BY <1>a, <1>1, NoCommand
  <2>2. QED
    BY <1>a, <1>1, <2>1 DEF Told
<1>2. CASE Submit
  <2>1. UNCHANGED <<result, out, trace>> /\ Len(out) = last /\ pc = "loop"
    BY <1>2 DEF Submit, Position, outcome
  <2>2. \A i \in Index : work'[i] = "ended" <=> work[i] = "ended"
    <3>1. \A i \in Index : work'[i] = IF i \in first' .. last' THEN "queued" ELSE work[i]
      BY <1>2 DEF Submit
    <3>2. \A i \in Index : i \in first' .. last' => work[i] = "idle"
      BY <1>2, <1>b, <2>1 DEF Submit, Position
    <3>3. QED
      BY <3>1, <3>2
  <2>3. \A k \in DOMAIN out : k <= last /\ ~(k > last')
    <3>1. first' <= last' /\ first' = last + 1 /\ last' \in Int
      BY <1>2, PositionStep, TypeStep DEF Submit, Position, TypeOK
    <3>2. QED
      BY <1>b, <2>1, <3>1
  <2>4. \A j, b : CommandRan(j, b)' <=> CommandRan(j, b)
    BY <2>1, SameTrace
  <2>5. QED
    BY <1>a, <2>1, <2>2, <2>3, <2>4 DEF Told
<1>3. CASE Join
  BY <1>1, <1>3 DEF Join, outcome
<1>4. CASE CollectOk
  <2> DEFINE r == [step |-> cursor, rc |-> 0, converged |-> result[cursor].converged]
  <2>1. cursor \in Index /\ cursor \in first .. last /\ Len(out) = cursor - 1 /\ result[cursor].rc = 0
    BY <1>4, Batch DEF CollectOk, Position
  <2>2. r \in Record /\ out' = Append(out, r)
    BY <1>4, <2>1 DEF TypeOK, Record, CollectOk
  <2>3. r.step = cursor /\ r.rc = 0 /\ r.converged = result[cursor].converged
    OBVIOUS
  <2> HIDE DEF r
  <2>4. /\ DOMAIN out' = DOMAIN out \union {cursor} /\ out'[cursor] = r
        /\ \A k \in DOMAIN out : out'[k] = out[k]
    BY <1>b, <2>1, <2>2, OneMoreRecord
  <2>5. UNCHANGED <<work, result, last, trace>>
    BY <1>4 DEF CollectOk
  <2>6. \A j, b : CommandRan(j, b)' <=> CommandRan(j, b)
    BY <2>5, SameTrace
  <2>7. QED
    BY <1>a, <1>b, <2>1, <2>3, <2>4, <2>5, <2>6 DEF Told
<1>5. CASE CollectFailed
  <2> DEFINE r == [step |-> cursor, rc |-> result[cursor].rc, converged |-> FALSE]
  <2>1. cursor \in Index /\ cursor \in first .. last /\ Len(out) = cursor - 1 /\ result[cursor].rc = 1
    BY <1>5, Batch DEF CollectFailed, Position, TypeOK
  <2>2. r \in Record /\ out' = Append(out, r)
    BY <1>5, <2>1 DEF TypeOK, Record, CollectFailed
  <2>3. r.step = cursor /\ r.rc = result[cursor].rc /\ r.converged = FALSE
    OBVIOUS
  <2> HIDE DEF r
  <2>4. /\ DOMAIN out' = DOMAIN out \union {cursor} /\ out'[cursor] = r
        /\ \A k \in DOMAIN out : out'[k] = out[k]
    BY <1>b, <2>1, <2>2, OneMoreRecord
  <2>5. UNCHANGED <<work, result, last, trace>>
    BY <1>5 DEF CollectFailed
  <2>6. \A j, b : CommandRan(j, b)' <=> CommandRan(j, b)
    BY <2>5, SameTrace
  <2>7. result[cursor].converged = FALSE
    BY <2>1 DEF Told, TypeOK
  <2>8. \A k \in DOMAIN out' :
          /\ out'[k].step = k /\ k <= last
          /\ out'[k].rc = result[k].rc /\ out'[k].converged = result[k].converged
    <3>1. \A k \in DOMAIN out : k <= last /\ k \in Int
      BY <1>b, <2>1
    <3>2. ASSUME NEW k \in DOMAIN out
          PROVE  /\ out'[k].step = k /\ k <= last
                 /\ out'[k].rc = result[k].rc /\ out'[k].converged = result[k].converged
      BY <2>4, <3>1, <3>2 DEF Told
    <3>3. /\ out'[cursor].step = cursor /\ cursor <= last
          /\ out'[cursor].rc = result[cursor].rc /\ out'[cursor].converged = result[cursor].converged
      <4>1. cursor <= last
        BY <1>b, <2>1
      <4>2. QED
        BY <2>3, <2>4, <2>7, <4>1
    <3>4. QED
      BY <2>4, <3>2, <3>3
  <2>9. last \in Int /\ \A k \in DOMAIN out' : k \in Int
    BY <1>b, <2>1, <2>4
  <2>10. QED
    BY <1>a, <2>5, <2>6, <2>8, <2>9 DEF Told
<1>6. CASE FailureHook
  <2>1. cursor \in Index
    BY <1>6, Batch DEF FailureHook
  <2>2. QED
    BY <1>1, <1>6, <2>1 DEF FailureHook, outcome
<1>7. CASE Restore
  <2>1. undoing[Len(undoing)] \in Index
    BY <1>7 DEF Restore, TypeOK
  <2>2. QED
    BY <1>1, <1>7, <2>1 DEF Restore, outcome
<1>8. CASE PlanHook
  <2>1. cursor \in Index
    BY <1>8, Batch DEF PlanHook
  <2>2. QED
    BY <1>1, <1>8, <2>1 DEF PlanHook
<1>9. CASE NextBatch
  <2>1. Len(out) = last /\ UNCHANGED <<work, result, last, trace>>
    <3>1. pc = "collect" /\ cursor > last /\ UNCHANGED <<work, result, last, trace>>
      BY <1>9 DEF NextBatch
    <3>2. cursor \in first .. last + 1 /\ Len(out) = cursor - 1
      BY <3>1 DEF Position
    <3>3. QED
      BY <1>b, <3>1, <3>2
  <2>2. CASE Stops
    <3>1. /\ DOMAIN out' = Index /\ DOMAIN out = 1 .. last
          /\ \A k \in DOMAIN out : out'[k] = out[k]
          /\ \A k \in Index : k > last => out'[k] = [step |-> k, rc |-> -1, converged |-> FALSE]
      BY <1>9, <2>1, <2>2, SkippedAreAdded DEF NextBatch
    <3>2. \A k \in Index : k > last => out'[k].step = k /\ out'[k].rc = -1 /\ ~out'[k].converged
      BY <3>1
    <3>3. \A j, b : CommandRan(j, b)' <=> CommandRan(j, b)
      BY <2>1, SameTrace
    <3>4. QED
      BY <1>a, <1>b, <2>1, <3>1, <3>2, <3>3 DEF Told
  <2>3. CASE ~Stops
    BY <1>1, <1>9, <2>1, <2>3 DEF NextBatch
  <2>4. QED
    BY <2>2, <2>3
<1>10. CASE Return
  BY <1>1, <1>10 DEF Return, outcome
<1>11. ASSUME NEW i \in Index, Begin(i) PROVE Told'
  <2>1. /\ pc = "run" /\ work[i] = "queued" /\ UNCHANGED <<last, out, trace>>
        /\ \/ /\ work' = [work EXCEPT ![i] = "ended"] /\ ~opt.dryRun
              /\ result' = [result EXCEPT ![i] = [rc |-> 0, converged |-> TRUE]]
           \/ work' = [work EXCEPT ![i] = "command"] /\ result' = result
    BY <1>11 DEF Begin, outcome
  <2>2. i \in first .. last /\ Len(out) = first - 1
    BY <2>1, AtWork DEF Position
  <2>3. \A k \in DOMAIN out : k \in Index /\ k # i /\ result'[k] = result[k]
    BY <1>b, <2>1, <2>2
  <2>4. \A j, b : CommandRan(j, b)' <=> CommandRan(j, b)
    BY <2>1, SameTrace
  <2>5. \A j \in Index : j # i => work'[j] = work[j] /\ result'[j] = result[j]
    BY <1>b, <2>1
  <2>6. \/ work'[i] = "ended" /\ result'[i].rc = 0 /\ result'[i].converged
        \/ work'[i] = "command" /\ result'[i] = result[i]
    BY <1>b, <2>1
  <2>7. QED
    BY <1>a, <2>1, <2>3, <2>4, <2>5, <2>6 DEF Told
<1>12. ASSUME NEW i \in Index, Run(i) PROVE Told'
  <2>1. PICK code \in {0, 1} :
          /\ opt.dryRun => code = 0
          /\ result' = [result EXCEPT ![i] = [rc |-> code, converged |-> FALSE]]
          /\ Ran("command", i, code = 0)
    BY <1>12 DEF Run
  <2>2. work[i] = "command" /\ UNCHANGED <<last, out>> /\ work' = [work EXCEPT ![i] = "ended"]
    BY <1>12 DEF Run, outcome
  <2>3. pc = "run"
    BY <2>2, AtWorkInRun
  <2>4. i \in first .. last /\ Len(out) = first - 1
    BY <2>2, <2>3, AtWork DEF Position
  <2>5. \A k \in DOMAIN out : k \in Index /\ k # i /\ result'[k] = result[k]
    BY <1>b, <2>1, <2>4
  <2>6. \A j \in Index : j # i => work'[j] = work[j] /\ result'[j] = result[j]
    BY <1>b, <2>1, <2>2
  <2>7. work'[i] = "ended" /\ result'[i].rc = code /\ ~result'[i].converged
    BY <1>b, <2>1, <2>2
  <2>8. opt.dryRun => trace' = trace
    BY <2>1 DEF Ran
  <2>9. ~opt.dryRun => \A j, b : CommandRan(j, b)' <=> CommandRan(j, b) \/ (j = i /\ b = (code = 0))
    BY <1>a, <2>1, TracedEvents
  <2>10. \A k \in DOMAIN out' :
          /\ out'[k].step = k
          /\ k <= last' => out'[k].rc = result'[k].rc /\ out'[k].converged = result'[k].converged
          /\ k > last' => out'[k].rc = -1 /\ ~out'[k].converged
    BY <2>2, <2>5 DEF Told
  <2>11. \A j \in Index : result'[j].rc = 1 => ~result'[j].converged /\ ~opt.dryRun
    BY <2>1, <2>6, <2>7 DEF Told
  <2>12. ~opt.dryRun => \A j \in Index : \A ok \in BOOLEAN :
           CommandRan(j, ok)' <=> work'[j] = "ended" /\ ~result'[j].converged /\ ok = (result'[j].rc = 0)
    BY <2>2, <2>6, <2>7, <2>9 DEF Told
  <2>13. QED
    BY <1>a, <2>8, <2>10, <2>11, <2>12 DEF Told
<1>13. CASE UNCHANGED vars
  BY <1>1, <1>13 DEF vars
<1>14. QED
  BY <1>2, <1>3, <1>4, <1>5, <1>6, <1>7, <1>8, <1>9, <1>10, <1>11, <1>12, <1>13
     DEF Next, Main, Terminated

-----------------------------------------------------------------------------
(* The record that collecting a result adds.                                *)
LEMMA Collecting ==
  ASSUME TypeOK, Position, Told, CollectOk \/ CollectFailed
  PROVE  /\ cursor \in Index /\ cursor \in first .. last /\ cursor \notin DOMAIN out
         /\ DOMAIN out = 1 .. cursor - 1 /\ DOMAIN out' = DOMAIN out \union {cursor}
         /\ \A k \in DOMAIN out : out'[k] = out[k] /\ k < cursor
         /\ out'[cursor].rc = result[cursor].rc
         /\ out'[cursor].converged = result[cursor].converged
<1> DEFINE c == IF CollectOk THEN result[cursor].converged ELSE FALSE
           r == [step |-> cursor, rc |-> result[cursor].rc, converged |-> c]
<1>1. cursor \in Index /\ cursor \in first .. last /\ Len(out) = cursor - 1 /\ cursor \in Nat
  BY Batch, Steps DEF CollectOk, CollectFailed, Position
<1>2. result[cursor] \in [rc : {0, 1}, converged : BOOLEAN]
  BY <1>1 DEF TypeOK
<1>3. c \in BOOLEAN /\ result[cursor].rc \in {-1, 0, 1}
  BY <1>2
<1>4. out' = Append(out, r)
  BY DEF CollectOk, CollectFailed
<1>5. c = result[cursor].converged
  <2>1. CASE CollectOk
    BY <2>1
  <2>2. CASE ~CollectOk
    <3>1. result[cursor].rc = 1
      BY <1>2, <2>2 DEF CollectFailed
    <3>2. QED
      BY <1>1, <1>2, <2>2, <3>1 DEF Told
  <2>3. QED
    BY <2>1, <2>2
<1> HIDE DEF c
<1>6. r \in Record /\ r.rc = result[cursor].rc /\ r.converged = c
  BY <1>1, <1>3 DEF Record
<1> HIDE DEF r
<1>7. /\ DOMAIN out = 1 .. Len(out) /\ DOMAIN out' = 1 .. Len(out) + 1
      /\ \A k \in DOMAIN out : out'[k] = out[k]
      /\ out'[Len(out) + 1] = r
  BY <1>4, <1>6, OneMoreRecord
<1>8. Len(out) + 1 = cursor
  BY <1>1
<1>9. QED
  BY <1>1, <1>5, <1>6, <1>7, <1>8

(* Skipped steps count neither as failed nor as pushed.                     *)
LEMMA SkippingCounts ==
  ASSUME TypeOK, steps' = steps, Len(out) = last, out' = out \o SkippedRecords
  PROVE  Failures' = Failures /\ Pushed' = Pushed /\ Succeeded' = Succeeded
<1>1. /\ DOMAIN out' = Index /\ DOMAIN out = 1 .. last /\ last \in 0 .. Len(steps) /\ Index = 1 .. Len(steps)
      /\ \A k \in DOMAIN out : out'[k] = out[k]
      /\ \A k \in Index : k > last => out'[k].rc = -1
  <2>1. /\ DOMAIN out' = Index /\ DOMAIN out = 1 .. last /\ last \in 0 .. Len(steps)
        /\ \A k \in DOMAIN out : out'[k] = out[k]
        /\ \A k \in Index : k > last => out'[k] = [step |-> k, rc |-> -1, converged |-> FALSE]
    BY SkippedAreAdded
  <2>2. ASSUME NEW k \in Index, k > last PROVE out'[k].rc = -1
    <3>1. out'[k] = [step |-> k, rc |-> -1, converged |-> FALSE]
      BY <2>1, <2>2
    <3>2. QED
      BY <3>1
  <2>3. QED
    BY <2>1, <2>2 DEF Index
<1>2. \A k \in DOMAIN out' : k \in DOMAIN out \/ out'[k].rc = -1
  BY <1>1, Steps
<1>3. DOMAIN out \subseteq DOMAIN out'
  BY <1>1, Steps
<1>4. QED
  BY <1>1, <1>2, <1>3 DEF Failures, Pushed, Succeeded

(* failure_seen, rc and deployed_files keep up with the records.            *)
LEMMA SummedStep ==
  ASSUME TypeOK, Position, Told, Summed, [Next]_vars
  PROVE  Summed'
<1>a. steps' = steps
  BY SameInputs
<1>1. ASSUME UNCHANGED <<out, failureSeen, rc, deployed>>, last' >= last, last \in Int, last' \in Int,
             pc' = "done" => pc = "done" \/ last = Len(steps),
             (pc \in {"hook", "restore"}) <=> (pc' \in {"hook", "restore"}),
             pc \in {"hook", "restore"} => UNCHANGED <<result, cursor>>
      PROVE  Summed'
  <2>1. Failures' = Failures /\ Pushed' = Pushed
    BY <1>a, <1>1 DEF Failures, Pushed
  <2>2. Len(steps) \in Nat /\ last \in Int
    BY Steps, Batch
  <2>3. QED
    BY <1>a, <1>1, <2>1, <2>2 DEF Summed
<1>b. last \in Int /\ last' \in Int /\ last <= Len(steps) /\ Len(steps) \in Nat
  BY Steps, Batch, TypeStep DEF TypeOK
<1>2. CASE Submit
  <2>1. last' >= last
    <3>1. first' <= last' /\ first' = last + 1
      BY <1>2, PositionStep DEF Submit, Position
    <3>2. QED
      BY <1>b, <3>1
  <2>2. QED
    BY <1>1, <1>2, <1>b, <2>1 DEF Submit, outcome
<1>3. CASE Join
  BY <1>1, <1>3, <1>b DEF Join, outcome
<1>4. CASE CollectOk
  <2>1. /\ DOMAIN out' = DOMAIN out \union {cursor} /\ cursor \notin DOMAIN out
        /\ \A k \in DOMAIN out : out'[k] = out[k]
        /\ out'[cursor].rc = 0 /\ out'[cursor].converged = result[cursor].converged
    BY <1>4, Collecting DEF CollectOk
  <2>2. /\ UNCHANGED <<failureSeen, rc, pc, last>> /\ pc = "collect"
        /\ deployed' = IF Deploys(cursor) THEN deployed + 1 ELSE deployed
    BY <1>4 DEF CollectOk
  <2>3. Failures' = Failures
    BY <2>1 DEF Failures
  <2>4. Pushed' = IF Deploys(cursor) THEN Pushed \union {cursor} ELSE Pushed
    BY <1>a, <2>1 DEF Pushed, Deploys
  <2>5. IsFiniteSet(Pushed) /\ cursor \notin Pushed
    <3>1. DOMAIN out = 1 .. Len(out) /\ Len(out) \in Nat
      BY DEF TypeOK
    <3>2. Pushed \in SUBSET (1 .. Len(out)) /\ IsFiniteSet(1 .. Len(out))
      BY <3>1, FS_Interval DEF Pushed
    <3>3. QED
      BY <2>1, <3>2, FS_Subset DEF Pushed
  <2>6. Cardinality(Pushed \union {cursor}) = Cardinality(Pushed) + 1
    BY <2>5, FS_AddElement
  <2>7. deployed' = Cardinality(Pushed')
    BY <2>2, <2>4, <2>6 DEF Summed
  <2>8. QED
    BY <1>a, <2>2, <2>3, <2>7 DEF Summed
<1>5. CASE CollectFailed
  <2>1. /\ DOMAIN out' = DOMAIN out \union {cursor} /\ cursor \in Index
        /\ \A k \in DOMAIN out : out'[k] = out[k]
        /\ out'[cursor].rc = result[cursor].rc
    BY <1>5, Collecting
  <2>2. result[cursor].rc = 1
    BY <1>5, <2>1 DEF CollectFailed, TypeOK
  <2>3. Failures' = Failures \union {cursor} /\ Pushed' = Pushed
    BY <1>a, <2>1, <2>2 DEF Failures, Pushed
  <2>4. /\ UNCHANGED <<rc, deployed, result, last>> /\ pc = "collect" /\ failureSeen' = TRUE
        /\ \/ pc' = "hook" /\ cursor' = cursor
           \/ pc' = "collect" /\ failureSeen
    BY <1>5 DEF CollectFailed, Handles
  <2>5. QED
    BY <1>a, <2>2, <2>3, <2>4 DEF Summed
<1>6. CASE FailureHook
  BY <1>1, <1>6, <1>b DEF FailureHook, outcome
<1>7. CASE Restore
  BY <1>1, <1>7, <1>b DEF Restore, outcome
<1>8. CASE PlanHook
  <2>1. UNCHANGED <<out, failureSeen, deployed, result>> /\ pc = "restore" /\ pc' = "collect" /\ rc' = result[cursor].rc
    BY <1>8 DEF PlanHook
  <2>2. Failures' = Failures /\ Pushed' = Pushed
    BY <1>a, <2>1 DEF Failures, Pushed
  <2>3. QED
    BY <2>1, <2>2 DEF Summed
<1>9. CASE NextBatch
  <2>1. /\ pc = "collect" /\ cursor > last /\ UNCHANGED <<failureSeen, rc, deployed, last>>
        /\ \/ Stops /\ pc' = "done" /\ out' = out \o SkippedRecords
           \/ pc' = "loop" /\ out' = out
    BY <1>9 DEF NextBatch
  <2>2. Len(out) = last
    <3>1. cursor \in first .. last + 1 /\ Len(out) = cursor - 1
      BY <2>1 DEF Position
    <3>2. QED
      BY <1>b, <2>1, <3>1, Batch
  <2>3. Failures' = Failures /\ Pushed' = Pushed
    <3>1. CASE out' = out
      BY <1>a, <3>1 DEF Failures, Pushed
    <3>2. CASE out' = out \o SkippedRecords
      BY <1>a, <2>2, <3>2, SkippingCounts
    <3>3. QED
      BY <2>1, <3>1, <3>2
  <2>4. QED
    BY <1>a, <2>1, <2>3 DEF Summed, Stops
<1>10. CASE Return
  BY <1>1, <1>10, <1>b DEF Return, outcome
<1>11. ASSUME NEW i \in Index, Begin(i) PROVE Summed'
  BY <1>1, <1>11, <1>b DEF Begin, outcome
<1>12. ASSUME NEW i \in Index, Run(i) PROVE Summed'
  <2>1. work[i] = "command" /\ UNCHANGED <<out, failureSeen, rc, deployed, last, pc>>
    BY <1>12 DEF Run, outcome
  <2>2. pc = "run"
    BY <2>1, AtWorkInRun
  <2>3. QED
    BY <1>1, <1>b, <2>1, <2>2
<1>13. CASE UNCHANGED vars
  BY <1>1, <1>13, <1>b DEF vars
<1>14. QED
  BY <1>2, <1>3, <1>4, <1>5, <1>6, <1>7, <1>8, <1>9, <1>10, <1>11, <1>12, <1>13
     DEF Next, Main, Terminated

(* With --fail-fast the loop goes on only as long as nothing has failed.    *)
LEMMA ContainedStep ==
  ASSUME TypeOK, Position, Contained, [Next]_vars
  PROVE  Contained'
<1>a. opt' = opt
  BY SameInputs
<1>b. first \in Int /\ last \in Int /\ cursor \in Int
  BY Batch
<1>1. CASE Submit
  BY <1>a, <1>1 DEF Submit, outcome, Contained
<1>2. CASE Join
  BY <1>a, <1>2 DEF Join, outcome, Contained
<1>3. CASE CollectOk
  <2>1. cursor' = cursor + 1 /\ cursor \in first .. last + 1 /\ first' = first /\ pc' = "collect"
    BY <1>3 DEF CollectOk, Position
  <2>2. cursor' # first'
    BY <1>b, <2>1
  <2>3. QED
    BY <2>1, <2>2 DEF Contained
<1>4. CASE CollectFailed
  <2>1. /\ pc = "collect" /\ first' = first
        /\ pc' = "hook" \/ (pc' = "collect" /\ cursor' = cursor + 1)
    BY <1>4 DEF CollectFailed
  <2>2. cursor' = cursor + 1 => cursor' # first'
    BY <1>b, <2>1 DEF Position
  <2>3. QED
    BY <2>1, <2>2 DEF Contained
<1>5. CASE FailureHook
  BY <1>5 DEF FailureHook, Contained
<1>6. CASE Restore
  BY <1>6 DEF Restore, Contained
<1>7. CASE PlanHook
  <2>1. pc = "restore" /\ first' = first /\ pc' = "collect" /\ cursor' = cursor + 1
    BY <1>7 DEF PlanHook
  <2>2. cursor' # first'
    BY <1>b, <2>1 DEF Position
  <2>3. QED
    BY <2>1, <2>2 DEF Contained
<1>8. CASE NextBatch
  BY <1>a, <1>8 DEF NextBatch, Stops, Contained
<1>9. CASE Return
  BY <1>9 DEF Return, Contained
<1>10. ASSUME NEW i \in Index, Begin(i) PROVE Contained'
  BY <1>a, <1>10 DEF Begin, outcome, Contained
<1>11. ASSUME NEW i \in Index, Run(i) PROVE Contained'
  BY <1>a, <1>11 DEF Run, outcome, Contained
<1>12. CASE UNCHANGED vars
  BY <1>12 DEF vars, Contained
<1>13. QED
  BY <1>1, <1>2, <1>3, <1>4, <1>5, <1>6, <1>7, <1>8, <1>9, <1>10, <1>11, <1>12
     DEF Next, Main, Terminated

-----------------------------------------------------------------------------
(* Only a step's command adds an event of a command.                        *)
LEMMA Quiet ==
  ASSUME TypeOK, Position, [Next]_vars, ~\E i \in Index : Run(i)
  PROVE  /\ \A j, b : CommandRan(j, b)' <=> CommandRan(j, b)
         /\ Events("command")' = Events("command")
         /\ \A e \in Events("command") : trace'[e] = trace[e]
         /\ opt.dryRun => trace' = trace
<1>a. steps' = steps
  BY SameInputs
<1>1. \/ trace' = trace
      \/ \E act \in {"hook", "restore", "planHook"}, i \in Index, ok \in BOOLEAN : Ran(act, i, ok)
  <2>1. CASE FailureHook
    <3>1. cursor \in Index
      BY <2>1, Batch DEF FailureHook
    <3>2. QED
      BY <2>1, <3>1 DEF FailureHook
  <2>2. CASE Restore
    <3>1. undoing[Len(undoing)] \in Index
      BY <2>2 DEF Restore, TypeOK
    <3>2. QED
      BY <2>2, <3>1 DEF Restore
  <2>3. CASE PlanHook
    <3>1. cursor \in Index
      BY <2>3, Batch DEF PlanHook
    <3>2. QED
      BY <2>3, <3>1 DEF PlanHook
  <2>4. CASE Submit \/ Join \/ CollectOk \/ CollectFailed \/ NextBatch \/ Return
    BY <2>4 DEF Submit, Join, CollectOk, CollectFailed, NextBatch, Return
  <2>5. ASSUME NEW i \in Index, Begin(i) PROVE trace' = trace
    BY <2>5 DEF Begin
  <2>6. CASE UNCHANGED vars
    BY <2>6 DEF vars
  <2>7. QED
    BY <2>1, <2>2, <2>3, <2>4, <2>5, <2>6 DEF Next, Main, Terminated
<1>2. QED
  BY <1>a, <1>1, NoCommand

(* A command that has begun comes from a batch that is open: an event of a  *)
(* command before it is of a step that the batch contains or of one that    *)
(* an earlier batch has finished with.                                      *)
LEMMA OrderStep ==
  ASSUME TypeOK, Position, Told, Summed, Contained, PlanOrder, FailFastContains, [Next]_vars
  PROVE  PlanOrder' /\ FailFastContains'
<1>a. steps' = steps /\ opt' = opt /\ Index' = Index
  BY SameInputs
<1>b. \A i, j : Batched(i, j)' <=> Batched(i, j)
  BY <1>a DEF Batched
<1>1. CASE ~\E i \in Index : Run(i)
  <2>1. Events("command")' = Events("command") /\ \A e \in Events("command") : trace'[e] = trace[e]
    BY <1>1, Quiet
  <2>2. PlanOrder'
    BY <1>b, <2>1 DEF PlanOrder
  <2>3. FailFastContains'
    BY <1>a, <1>b, <2>1 DEF FailFastContains
  <2>4. QED
    BY <2>2, <2>3
<1>2. ASSUME NEW i \in Index, Run(i) PROVE PlanOrder' /\ FailFastContains'
  <2>1. /\ work[i] = "command" /\ pc = "run"
        /\ \E ok \in BOOLEAN : Ran("command", i, ok)
    BY <1>2, AtWorkInRun DEF Run
  <2>2. CASE opt.dryRun
    <3>1. trace' = trace
      BY <2>1, <2>2 DEF Ran
    <3>2. Events("command")' = Events("command") /\ \A e \in Events("command") : trace'[e] = trace[e]
      BY <3>1, SameTrace
    <3>3. QED
      BY <1>a, <1>b, <3>2 DEF PlanOrder, FailFastContains
  <2>3. CASE ~opt.dryRun
    <3> DEFINE n == Len(trace) + 1
    <3>1. PICK ok \in BOOLEAN : Ran("command", i, ok)
      BY <2>1
    <3>2. /\ \A e \in DOMAIN trace : e \in Nat /\ e < n /\ trace'[e] = trace[e]
          /\ trace'[n].step = i
      <4>1. /\ \A e \in DOMAIN trace : e \in Nat /\ e < Len(trace) + 1 /\ trace'[e] = trace[e]
            /\ trace'[Len(trace) + 1] = [act |-> "command", step |-> i, ok |-> ok]
        BY <1>a, <2>3, <3>1, Traced
      <4>2. trace'[Len(trace) + 1].step = i
        BY <4>1
      <4>3. QED
        BY <4>1, <4>2
    <3>3. Events("command")' = Events("command") \union {n}
      BY <1>a, <2>3, <3>1, TracedEvents
    <3>4. n \in Nat
      BY DEF TypeOK
    <3> HIDE DEF n
    <3>5. \A e \in Events("command") : e \in Nat /\ e < n /\ trace'[e] = trace[e]
      BY <3>2 DEF Events
    <3>6. ASSUME NEW p \in Events("command")
          PROVE  /\ trace[p].step > i => Batched(trace[p].step, i)
                 /\ opt.failFast /\ ~trace[p].ok => Batched(trace[p].step, i)
      <4> DEFINE s == trace[p].step
      <4>1. s \in Index /\ trace[p].ok \in BOOLEAN
        <5>1. p \in DOMAIN trace /\ trace \in Seq(Event)
          BY DEF Events, TypeOK
        <5>2. trace[p] \in Event
          BY <5>1, ElementOfSeq
        <5>3. QED
          BY <5>2 DEF Event
      <4>2. CommandRan(s, trace[p].ok)
        BY DEF CommandRan
      <4>3. work[s] = "ended" /\ ~result[s].converged /\ trace[p].ok = (result[s].rc = 0)
        BY <2>3, <4>1, <4>2 DEF Told
      <4>4. s # i
        BY <2>1, <4>3
      <4> HIDE DEF s
      <4>5. s \in Int /\ i \in Int /\ first \in Int /\ i >= first
        BY <2>1, <4>1, AtWork, Steps, Batch
      <4>6. s >= first => Batched(s, i)
        BY <2>1, <4>1, <4>3, <4>4, AtWork
      <4>7. ASSUME opt.failFast, ~trace[p].ok PROVE s >= first
        <5> SUFFICES ASSUME s < first PROVE FALSE
          BY <4>5
        <5>1. result[s].rc = 1
          BY <4>1, <4>3, <4>7 DEF TypeOK
        <5>2. Len(out) = first - 1 /\ first - 1 <= last
          BY <2>1 DEF Position, TypeOK
        <5>3. s \in DOMAIN out /\ s <= last
          BY <4>1, <4>5, <5>2, Steps DEF TypeOK, Index
        <5>4. out[s].rc = 1
          BY <5>1, <5>3 DEF Told
        <5>5. failureSeen
          BY <5>3, <5>4 DEF Summed, Failures
        <5>6. QED
          BY <2>1, <4>7, <5>5 DEF Contained
      <4>8. s > i => s >= first
        BY <4>5
      <4>9. QED
        BY <4>6, <4>7, <4>8 DEF s
    <3>7. PlanOrder'
      <4> SUFFICES ASSUME NEW p \in Events("command")', NEW q \in Events("command")',
                          p < q, trace'[p].step > trace'[q].step
                   PROVE  Batched(trace'[p].step, trace'[q].step)
        BY <1>a DEF PlanOrder, Batched
      <4>1. p \in Events("command") /\ trace'[p] = trace[p]
        BY <3>3, <3>4, <3>5
      <4>2. CASE q = n
        BY <3>2, <3>6, <4>1, <4>2
      <4>3. CASE q \in Events("command")
        BY <3>5, <4>1, <4>3 DEF PlanOrder
      <4>4. QED
        BY <3>3, <4>2, <4>3
    <3>8. FailFastContains'
      <4> SUFFICES ASSUME opt.failFast,
                          NEW p \in Events("command")', NEW q \in Events("command")',
                          p < q, ~trace'[p].ok
                   PROVE  Batched(trace'[p].step, trace'[q].step)
        BY <1>a DEF FailFastContains, Batched
      <4>1. p \in Events("command") /\ trace'[p] = trace[p]
        BY <3>3, <3>4, <3>5
      <4>2. CASE q = n
        BY <3>2, <3>6, <4>1, <4>2
      <4>3. CASE q \in Events("command")
        BY <3>5, <4>1, <4>3 DEF FailFastContains
      <4>4. QED
        BY <3>3, <4>2, <4>3
    <3>9. QED
      BY <3>7, <3>8
  <2>4. QED
    BY <2>2, <2>3
<1>3. QED
  BY <1>1, <1>2

-----------------------------------------------------------------------------
(* Only a rollback command adds an event of a restore.                      *)
LEMMA NothingRestored ==
  ASSUME TypeOK, Position, [Next]_vars, ~Restore
  PROVE  /\ Events("restore")' = Events("restore")
         /\ \A e \in Events("restore") : trace'[e] = trace[e]
         /\ Restored' = Restored
         /\ \A j : RestoredOk(j)' <=> RestoredOk(j)
<1>a. steps' = steps
  BY SameInputs
<1>1. \/ trace' = trace
      \/ \E act \in {"command", "hook", "planHook"}, i \in Index, ok \in BOOLEAN : Ran(act, i, ok)
  <2>1. CASE FailureHook
    <3>1. cursor \in Index
      BY <2>1, Batch DEF FailureHook
    <3>2. QED
      BY <2>1, <3>1 DEF FailureHook
  <2>2. CASE PlanHook
    <3>1. cursor \in Index
      BY <2>2, Batch DEF PlanHook
    <3>2. QED
      BY <2>2, <3>1 DEF PlanHook
  <2>3. CASE Submit \/ Join \/ CollectOk \/ CollectFailed \/ NextBatch \/ Return
    BY <2>3 DEF Submit, Join, CollectOk, CollectFailed, NextBatch, Return
  <2>4. ASSUME NEW i \in Index, Begin(i) PROVE trace' = trace
    BY <2>4 DEF Begin
  <2>5. ASSUME NEW i \in Index, Run(i) PROVE \E ok \in BOOLEAN : Ran("command", i, ok)
    BY <2>5 DEF Run
  <2>6. CASE UNCHANGED vars
    BY <2>6 DEF vars
  <2>7. QED
    BY <2>1, <2>2, <2>3, <2>4, <2>5, <2>6 DEF Next, Main, Terminated
<1>2. CASE trace' = trace
  BY <1>2, SameTrace
<1>3. CASE trace' # trace
  <2>1. PICK act \in {"command", "hook", "planHook"}, i \in Index, ok \in BOOLEAN : Ran(act, i, ok)
    BY <1>1, <1>3
  <2>2. ~opt.dryRun
    BY <1>3, <2>1 DEF Ran
  <2>3. \A e \in DOMAIN trace : trace'[e] = trace[e]
    BY <1>a, <2>1, <2>2, Traced
  <2>4. /\ \A a : Events(a)' = IF a = act THEN Events(a) \union {Len(trace) + 1} ELSE Events(a)
        /\ \A j : RestoredOk(j)' <=> RestoredOk(j) \/ (act = "restore" /\ j = i /\ ok)
        /\ Restored' = IF act = "restore" THEN Restored \union {i} ELSE Restored
    BY <1>a, <2>1, <2>2, TracedEvents
  <2>5. act # "restore"
    BY <2>1
  <2>6. \A e \in Events("restore") : trace'[e] = trace[e]
    BY <2>3 DEF Events
  <2>7. QED
    BY <2>4, <2>5, <2>6
<1>4. QED
  BY <1>2, <1>3

(* Under --fail-fast the failure that is handled is the first one: a step   *)
(* outside a pool is a batch by itself, and no batch begins after a failure. *)
LEMMA HandlesTheFirst ==
  ASSUME TypeOK, Position, Summed, Contained, CollectFailed, Handles, opt.failFast
  PROVE  Failures = {}
<1>1. pc = "collect" /\ cursor <= last /\ first \in Int /\ last \in Int /\ cursor \in first .. last
  BY Batch DEF CollectFailed
<1>2. CASE Pooled
  BY <1>2 DEF Handles, Summed
<1>3. CASE ~Pooled
  <2>1. ~(first < last)
    <3>1. first \in first .. last
      BY <1>1
    <3>2. QED
      BY <1>3, <3>1 DEF Pooled, Position
  <2>2. cursor = first
    BY <1>1, <2>1
  <2>3. QED
    BY <1>1, <2>2 DEF Contained, Summed
<1>4. QED
  BY <1>2, <1>3

(* Steps are undone from the last to the first, each of them once.          *)
LEMMA UndoneStep ==
  ASSUME TypeOK, Position, Told, Summed, Contained, Undone, [Next]_vars
  PROVE  Undone'
<1>a. steps' = steps /\ opt' = opt /\ Index' = Index
  BY SameInputs
<1>b. /\ Len(steps) \in Nat /\ Index = 1 .. Len(steps) /\ first \in Int /\ last \in Int /\ cursor \in Int
  BY Steps, Batch DEF Index
<1>1. ASSUME UNCHANGED <<undoable, undoing>>, Succeeded' = Succeeded, Failures' = Failures,
             pc \notin {"hook", "restore"}, pc' \notin {"hook", "restore"}, ~Restore
      PROVE  Undone'
  <2>1. /\ Events("restore")' = Events("restore") /\ Restored' = Restored
        /\ \A e \in Events("restore") : trace'[e] = trace[e]
    BY <1>1, NothingRestored
  <2>2. Prior' = Prior
    BY <1>1 DEF Prior
  <2>3. QED
    BY <1>a, <1>1, <2>1, <2>2 DEF Undone, Ascending
<1>2. ASSUME out' = out PROVE Succeeded' = Succeeded /\ Failures' = Failures /\ Prior' = Prior
  BY <1>a, <1>2 DEF Succeeded, Failures, Prior
<1>3. CASE Submit
  BY <1>1, <1>2, <1>3 DEF Submit, outcome, Restore
<1>4. CASE Join
  BY <1>1, <1>2, <1>4 DEF Join, outcome, Restore
<1>5. CASE CollectOk
  <2>1. /\ cursor \in Index /\ DOMAIN out' = DOMAIN out \union {cursor} /\ cursor \notin DOMAIN out
        /\ \A k \in DOMAIN out : out'[k] = out[k] /\ k < cursor
        /\ out'[cursor].rc = 0
    BY <1>5, Collecting DEF CollectOk
  <2>2. /\ UNCHANGED <<undoing, pc, trace>> /\ pc = "collect"
        /\ undoable' = IF steps[cursor].undo THEN Append(undoable, cursor) ELSE undoable
    BY <1>5 DEF CollectOk
  <2>3. Failures' = Failures
    BY <2>1 DEF Failures
  <2>4. Succeeded' = IF steps[cursor].undo THEN Succeeded \union {cursor} ELSE Succeeded
    BY <1>a, <2>1 DEF Succeeded
  <2>5. Failures # {} => Prior' = Prior
    <3>1. \A f \in Failures : f < cursor
      BY <2>1 DEF Failures
    <3>2. \A f \in Failures : f \in Int /\ ~(cursor < f)
      <4>1. \A f \in Failures : f \in Int
        BY DEF Failures, TypeOK
      <4>2. QED
        BY <1>b, <3>1, <4>1
    <3>3. QED
      BY <2>3, <2>4, <3>2 DEF Prior
  <2>6. /\ Ascending(undoable')
        /\ {undoable'[n] : n \in DOMAIN undoable'} = Succeeded'
    <3>1. CASE ~steps[cursor].undo
      BY <2>2, <2>4, <3>1 DEF Undone
    <3>2. CASE steps[cursor].undo
      <4>1. undoable \in Seq(Index) /\ undoable' = Append(undoable, cursor)
        BY <2>2, <3>2 DEF TypeOK
      <4>2. /\ Len(undoable) \in Nat /\ DOMAIN undoable = 1 .. Len(undoable)
            /\ DOMAIN undoable' = 1 .. Len(undoable) + 1
            /\ \A n \in 1 .. Len(undoable) : undoable'[n] = undoable[n]
            /\ undoable'[Len(undoable) + 1] = cursor
        BY <2>1, <4>1, AppendProperties
      <4>3. \A n \in DOMAIN undoable : undoable[n] \in Succeeded
        BY DEF Undone
      <4>4. \A n \in DOMAIN undoable : undoable[n] < cursor
        BY <2>1, <4>3 DEF Succeeded
      <4>5. Ascending(undoable')
        BY <4>2, <4>4 DEF Undone, Ascending
      <4>6. {undoable'[n] : n \in DOMAIN undoable'}
              = {undoable[n] : n \in DOMAIN undoable} \union {cursor}
        BY <4>2
      <4>7. QED
        BY <2>4, <3>2, <4>5, <4>6 DEF Undone
    <3>3. QED
      BY <3>1, <3>2
  <2>7. /\ Events("restore")' = Events("restore") /\ Restored' = Restored
    BY <2>2, SameTrace
  <2>8. QED
    BY <1>a, <2>2, <2>3, <2>5, <2>6, <2>7 DEF Undone
<1>6. CASE CollectFailed
  <2>1. /\ cursor \in Index /\ DOMAIN out' = DOMAIN out \union {cursor}
        /\ \A k \in DOMAIN out : out'[k] = out[k] /\ k < cursor
        /\ out'[cursor].rc = 1
    <3>1. result[cursor].rc # 0 /\ cursor \in Index
      BY <1>6, Collecting DEF CollectFailed
    <3>2. result[cursor].rc = 1
      BY <3>1 DEF TypeOK
    <3>3. QED
      BY <1>6, <3>2, Collecting
  <2>2. UNCHANGED <<undoable, undoing, trace>> /\ pc = "collect"
    BY <1>6 DEF CollectFailed
  <2>3. Failures' = Failures \union {cursor} /\ Succeeded' = Succeeded
    BY <1>a, <2>1 DEF Failures, Succeeded
  <2>4. Prior' = Prior
    <3>1. \A k \in Succeeded : k < cursor
      BY <2>1 DEF Succeeded
    <3>2. QED
      BY <2>3, <3>1 DEF Prior
  <2>5. /\ Events("restore")' = Events("restore") /\ Restored' = Restored
    BY <2>2, SameTrace
  <2>6. CASE Handles
    <3>1. pc' = "hook" /\ cursor' = cursor
      BY <1>6, <2>6 DEF CollectFailed
    <3>2. opt.failFast => Failures = {}
      BY <1>6, <2>6, HandlesTheFirst
    <3>3. opt.failFast => Failures' = {cursor}
      BY <2>3, <3>2
    <3>4. QED
      BY <1>a, <2>2, <2>3, <2>5, <3>1, <3>2, <3>3 DEF Undone
  <2>7. CASE ~Handles
    <3>1. pc' = "collect" /\ failureSeen
      BY <1>6, <2>7 DEF CollectFailed, Handles, TypeOK
    <3>2. Failures # {}
      BY <3>1 DEF Summed
    <3>3. QED
      BY <1>a, <2>2, <2>3, <2>4, <2>5, <3>1, <3>2 DEF Undone
  <2>8. QED
    BY <2>6, <2>7
<1>7. CASE FailureHook
  <2>1. /\ pc = "hook" /\ pc' = "restore" /\ UNCHANGED <<out, undoable, cursor>>
        /\ undoing' = IF opt.rollback THEN undoable ELSE <<>>
    BY <1>7 DEF FailureHook, outcome
  <2>2. /\ Events("restore")' = Events("restore") /\ Restored' = Restored
        /\ \A e \in Events("restore") : trace'[e] = trace[e]
    BY <2>1, NothingRestored DEF Restore
  <2>3. opt.failFast /\ ~opt.dryRun => Restored = {} /\ Failures = {cursor}
    BY <2>1 DEF Undone
  <2>4. Failures = {cursor} => Prior = Succeeded
    <3>1. Len(out) = cursor /\ DOMAIN out = 1 .. Len(out)
      BY <2>1 DEF Position, TypeOK
    <3>2. Failures = {cursor} => cursor \notin Succeeded
      BY DEF Failures, Succeeded
    <3>3. \A k \in Succeeded : k \in 1 .. cursor
      BY <3>1 DEF Succeeded
    <3>4. Failures = {cursor} => \A k \in Succeeded : k < cursor
      BY <1>b, <3>2, <3>3
    <3>5. QED
      BY <3>4 DEF Prior
  <2>5. opt.rollback => Ascending(undoing') /\ Undoing' = Succeeded
    BY <2>1 DEF Undone, Undoing, Ascending
  <2>6. ~opt.rollback => undoing' = <<>> /\ Ascending(undoing') /\ Undoing' = {}
    BY <2>1 DEF Undoing, Ascending
  <2>7. Succeeded' = Succeeded /\ Failures' = Failures /\ Prior' = Prior
    BY <1>2, <2>1
  <2>8. opt.failFast /\ ~opt.dryRun => Events("restore") = {}
    BY <2>3 DEF Restored
  <2>9. QED
    BY <1>a, <2>1, <2>2, <2>3, <2>4, <2>5, <2>6, <2>7, <2>8 DEF Undone
<1>8. CASE Restore
  <2> DEFINE i == undoing[Len(undoing)]
  <2>1. /\ pc = "restore" /\ pc' = "restore" /\ UNCHANGED <<out, undoable, cursor>> /\ undoing # <<>>
        /\ undoing' = SubSeq(undoing, 1, Len(undoing) - 1)
    BY <1>8 DEF Restore, outcome
  <2>2. /\ undoing \in Seq(Index) /\ Len(undoing) \in Nat \ {0} /\ i \in Index
    BY <2>1 DEF TypeOK
  <2>3. /\ DOMAIN undoing = 1 .. Len(undoing) /\ DOMAIN undoing' = 1 .. Len(undoing) - 1
        /\ \A n \in 1 .. Len(undoing) - 1 : undoing'[n] = undoing[n]
    BY <2>1, <2>2
  <2>4. Undoing = Undoing' \union {i}
    <3>1. \A n \in DOMAIN undoing : n = Len(undoing) \/ n \in DOMAIN undoing'
      BY <2>2, <2>3
    <3>2. \A n \in DOMAIN undoing' : n \in DOMAIN undoing
      BY <2>2, <2>3
    <3>3. Len(undoing) \in DOMAIN undoing
      BY <2>2, <2>3
    <3>4. QED
      BY <2>3, <3>1, <3>2, <3>3 DEF Undoing
  <2>5. Succeeded' = Succeeded /\ Failures' = Failures /\ Prior' = Prior
    BY <1>2, <2>1
  <2>6. CASE ~opt.failFast \/ opt.dryRun
    BY <1>a, <2>1, <2>5, <2>6 DEF Undone
  <2>7. CASE opt.failFast /\ ~opt.dryRun
    <3>1. /\ Ascending(undoing) /\ opt.rollback /\ Restored \union Undoing = Prior
          /\ \A a \in Undoing, b \in Restored : a < b
          /\ Failures = {cursor}
          /\ \A p, q \in Events("restore") : p < q => trace[p].step > trace[q].step
      BY <2>1, <2>7 DEF Undone
    <3>2. \E ok \in BOOLEAN : Ran("restore", i, ok)
      BY <1>8 DEF Restore
    <3> HIDE DEF i
    <3>3. PICK ok \in BOOLEAN : Ran("restore", i, ok)
      BY <3>2
    <3>4. /\ Events("restore")' = Events("restore") \union {Len(trace) + 1}
          /\ Restored' = Restored \union {i}
      BY <1>a, <2>2, <2>7, <3>3, TracedEvents
    <3>5. /\ \A e \in DOMAIN trace : e \in Nat /\ e < Len(trace) + 1 /\ trace'[e] = trace[e]
          /\ trace'[Len(trace) + 1].step = i
      <4>1. /\ \A e \in DOMAIN trace : e \in Nat /\ e < Len(trace) + 1 /\ trace'[e] = trace[e]
            /\ trace'[Len(trace) + 1] = [act |-> "restore", step |-> i, ok |-> ok]
        BY <1>a, <2>2, <2>7, <3>3, Traced
      <4>2. trace'[Len(trace) + 1].step = i
        BY <4>1
      <4>3. QED
        BY <4>1, <4>2
    <3>6. Ascending(undoing')
      BY <2>2, <2>3, <3>1 DEF Ascending
    <3>7. \A a \in Undoing' : a < i
      <4>1. \A n \in 1 .. Len(undoing) - 1 : undoing[n] < undoing[Len(undoing)]
        BY <2>2, <2>3, <3>1 DEF Ascending
      <4>2. QED
        BY <2>3, <4>1 DEF Undoing, i
    <3>8. \A a \in Undoing', b \in Restored' : a < b
      BY <2>4, <3>1, <3>4, <3>7
    <3>9. Restored' \union Undoing' = Prior'
      BY <2>4, <2>5, <3>1, <3>4
    <3>10. \A p, q \in Events("restore")' : p < q => trace'[p].step > trace'[q].step
      <4>1. \A e \in Events("restore") : e \in Nat /\ e < Len(trace) + 1 /\ trace'[e] = trace[e]
        BY <3>5 DEF Events
      <4>2. Len(trace) + 1 \in Nat
        BY DEF TypeOK
      <4>3. \A e \in Events("restore") : trace[e].step > i
        <5>1. \A e \in Events("restore") : i < trace[e].step
          BY <2>4, <3>1 DEF Restored
        <5>2. \A e \in Events("restore") : trace[e].step \in Int /\ i \in Int
          <6>1. \A e \in Events("restore") : trace[e] \in Event
            BY ElementOfSeq DEF TypeOK, Events
          <6>2. \A e \in Events("restore") : trace[e].step \in Index
            BY <6>1 DEF Event
          <6>3. QED
            BY <2>2, <6>2, Steps
        <5>3. QED
          BY <5>1, <5>2
      <4>4. ASSUME NEW p \in Events("restore")', NEW q \in Events("restore")', p < q
            PROVE  trace'[p].step > trace'[q].step
        <5>1. p \in Events("restore") /\ trace'[p] = trace[p]
          BY <3>4, <4>1, <4>2, <4>4
        <5>2. CASE q = Len(trace) + 1
          BY <3>5, <4>3, <5>1, <5>2
        <5>3. CASE q \in Events("restore")
          BY <3>1, <4>1, <4>4, <5>1, <5>3
        <5>4. QED
          BY <3>4, <5>2, <5>3
      <4>5. QED
        BY <4>4
    <3>11. Ascending(undoable)' /\ {undoable[n] : n \in DOMAIN undoable}' = Succeeded'
      BY <2>1, <2>5 DEF Undone, Ascending
    <3>12. QED
      BY <1>a, <2>1, <2>5, <3>1, <3>6, <3>8, <3>9, <3>10, <3>11 DEF Undone
  <2>8. QED
    BY <2>6, <2>7
<1>9. CASE PlanHook
  <2>1. /\ pc = "restore" /\ pc' = "collect" /\ UNCHANGED <<out, undoable, undoing>> /\ undoing = <<>>
    BY <1>9 DEF PlanHook
  <2>2. /\ Events("restore")' = Events("restore") /\ Restored' = Restored
        /\ \A e \in Events("restore") : trace'[e] = trace[e]
    BY <1>9, NothingRestored DEF Restore, PlanHook
  <2>3. Undoing = {}
    BY <2>1 DEF Undoing
  <2>4. Succeeded' = Succeeded /\ Failures' = Failures /\ Prior' = Prior
    BY <1>2, <2>1
  <2>5. opt.failFast /\ ~opt.dryRun => /\ opt.rollback => Restored = Prior
                                       /\ ~opt.rollback => Restored = {}
                                       /\ Failures # {}
    BY <2>1, <2>3 DEF Undone
  <2>6. QED
    BY <1>a, <2>1, <2>2, <2>4, <2>5 DEF Undone
<1>10. CASE NextBatch
  <2>1. /\ pc = "collect" /\ cursor > last /\ UNCHANGED <<undoable, undoing>> /\ pc' \in {"done", "loop"}
        /\ out' = out \/ out' = out \o SkippedRecords
    BY <1>10 DEF NextBatch
  <2>2. Len(out) = last
    <3>1. cursor \in first .. last + 1 /\ Len(out) = cursor - 1
      BY <2>1 DEF Position
    <3>2. QED
      BY <1>b, <2>1, <3>1
  <2>3. Failures' = Failures /\ Succeeded' = Succeeded
    BY <1>a, <1>2, <2>1, <2>2, SkippingCounts
  <2>4. QED
    BY <1>1, <2>1, <2>3 DEF Restore
<1>11. CASE Return
  BY <1>1, <1>2, <1>11 DEF Return, outcome, Restore
<1>12. ASSUME NEW i \in Index, Begin(i) PROVE Undone'
  BY <1>1, <1>2, <1>12 DEF Begin, outcome, Restore
<1>13. ASSUME NEW i \in Index, Run(i) PROVE Undone'
  <2>1. work[i] = "command" /\ UNCHANGED <<out, pc, undoable, undoing>>
    BY <1>13 DEF Run, outcome
  <2>2. pc = "run"
    BY <2>1, AtWorkInRun
  <2>3. QED
    BY <1>1, <1>2, <2>1, <2>2 DEF Restore
<1>14. CASE UNCHANGED vars
  <2>1. /\ Events("restore")' = Events("restore") /\ Restored' = Restored /\ trace' = trace
    BY <1>14, SameTrace DEF vars
  <2>2. UNCHANGED <<out, pc, undoable, undoing, cursor>>
    BY <1>14 DEF vars
  <2>3. Undoing' = Undoing
    BY <2>2 DEF Undoing
  <2>4. QED
    BY <1>a, <1>2, <2>1, <2>2, <2>3 DEF Undone, Ascending
<1>15. QED
  BY <1>3, <1>4, <1>5, <1>6, <1>7, <1>8, <1>9, <1>10, <1>11, <1>12, <1>13, <1>14
     DEF Next, Main, Terminated

-----------------------------------------------------------------------------
(* What Saved says of the commands that ran is unchanged when they are.     *)
LEMMA SameCommands ==
  ASSUME steps' = steps, Index' = Index, \A j, b : CommandRan(j, b)' <=> CommandRan(j, b)
  PROVE  \A o : Touched(o)' = Touched(o) /\ (Reversible(o)' <=> Reversible(o))
<1>1. ASSUME NEW o PROVE Touched(o)' = Touched(o)
  BY DEF Touched
<1>2. ASSUME NEW o PROVE Reversible(o)' <=> Reversible(o)
  BY <1>1 DEF Reversible
<1>3. QED
  BY <1>1, <1>2

(* What a target and its backup hold follows from the steps that touched it. *)
LEMMA SavedStep ==
  ASSUME TypeOK, Position, Told, Summed, Contained, Undone, Saved, [Next]_vars
  PROVE  Saved'
<1>a. steps' = steps /\ opt' = opt /\ start' = start /\ Index' = Index
  BY SameInputs
<1>1. CASE ~Restore /\ ~\E i \in Index : Run(i)
  <2>1. live' = live /\ backup' = backup
    BY <1>1 DEF Next, Main, vars, target, Submit, Join, CollectOk, CollectFailed, FailureHook,
                PlanHook, NextBatch, Return, Begin, Terminated
  <2>2. \A j, b : CommandRan(j, b)' <=> CommandRan(j, b)
    BY <1>1, Quiet
  <2>3. Restored' = Restored /\ \A j : RestoredOk(j)' <=> RestoredOk(j)
    BY <1>1, NothingRestored
  <2>4. \A o : Touched(o)' = Touched(o) /\ (Reversible(o)' <=> Reversible(o))
    BY <1>a, <2>2, SameCommands
  <2>5. QED
    BY <1>a, <2>1, <2>3, <2>4 DEF Saved
<1>2. CASE Restore
  <2> DEFINE i == undoing[Len(undoing)]
             s == steps[i]
  <2>1. i \in Index /\ s \in Step
    BY <1>2, Steps DEF Restore, TypeOK
  <2>2. PICK ok \in BOOLEAN :
          /\ Ran("restore", i, ok) /\ backup' = backup
          /\ ok => /\ ~opt.dryRun /\ s.kind = "rsync"
                   /\ live' = [live EXCEPT ![s.object] = backup[s.object]]
          /\ ~ok => live' = live
    BY <1>2 DEF Restore
  <2>3. ~\E j \in Index : Run(j)
    BY <1>2, AtWorkInRun DEF Restore, Run
  <2>4. \A j, b : CommandRan(j, b)' <=> CommandRan(j, b)
    BY <2>3, Quiet
  <2>5. \A o : Touched(o)' = Touched(o) /\ (Reversible(o)' <=> Reversible(o))
    BY <1>a, <2>4, SameCommands
  <2> HIDE DEF i, s
  <2>6. CASE opt.dryRun
    <3>1. trace' = trace /\ live' = live
      BY <2>2, <2>6 DEF Ran
    <3>2. Restored' = Restored /\ \A j : RestoredOk(j)' <=> RestoredOk(j)
      BY <3>1, SameTrace
    <3>3. QED
      BY <1>a, <2>2, <2>5, <3>1, <3>2 DEF Saved
  <2>7. CASE ~opt.dryRun
    <3>1. /\ \A j : RestoredOk(j)' <=> RestoredOk(j) \/ (j = i /\ ok)
          /\ Restored' = Restored \union {i}
      BY <1>a, <2>1, <2>2, <2>7, TracedEvents
    <3>2. \A j \in Index : RestoredOk(j)' => steps[j].kind = "rsync"
      BY <2>2, <3>1 DEF Saved, s
    <3>3. ASSUME opt.failFast, NEW o \in Objects, start[o] \notin {"absent", "new"},
                 Reversible(o), Touched(o) # {}
          PROVE  /\ backup'[o] = start[o]
                 /\ live'[o] = IF \E j \in Index : steps[j].object = o /\ RestoredOk(j)'
                                 THEN start[o] ELSE "new"
      <4>1. /\ backup[o] = start[o]
            /\ live[o] = IF \E j \in Index : steps[j].object = o /\ RestoredOk(j)
                           THEN start[o] ELSE "new"
        BY <3>3 DEF Saved
      <4>2. CASE ~ok
        BY <2>2, <3>1, <4>1, <4>2
      <4>3. CASE ok /\ s.object = o
        <5>1. live'[o] = backup[o]
          BY <2>2, <4>3 DEF TypeOK, Content
        <5>2. \E j \in Index : steps[j].object = o /\ RestoredOk(j)'
          BY <2>1, <3>1, <4>3 DEF s
        <5>3. QED
          BY <2>2, <4>1, <5>1, <5>2
      <4>4. CASE ok /\ s.object # o
        <5>1. live'[o] = live[o]
          BY <2>2, <4>4 DEF TypeOK, Content
        <5>2. \A j \in Index : steps[j].object = o => (RestoredOk(j)' <=> RestoredOk(j))
          BY <3>1, <4>4 DEF s
        <5>3. QED
          BY <2>2, <4>1, <5>1, <5>2
      <4>5. QED
        BY <4>2, <4>3, <4>4
    <3>4. Restored' # {}
      BY <3>1
    <3>5. QED
      BY <1>a, <2>5, <3>2, <3>3, <3>4 DEF Saved
  <2>8. QED
    BY <2>6, <2>7
<1>3. ASSUME NEW i \in Index, Run(i) PROVE Saved'
  <2> DEFINE s == steps[i]
  <2>1. ~Restore /\ pc = "run" /\ work[i] = "command"
    BY <1>3, AtWorkInRun DEF Run, Restore
  <2>2. Restored' = Restored /\ \A j : RestoredOk(j)' <=> RestoredOk(j)
    BY <2>1, NothingRestored
  <2>3. PICK ok \in BOOLEAN, effect \in BOOLEAN :
          /\ Ran("command", i, ok)
          /\ opt.dryRun => ~effect
          /\ ~opt.dryRun /\ ok => effect
          /\ IF effect THEN Apply(s) ELSE UNCHANGED target
    BY <1>3 DEF Run
  <2>4. s \in Step /\ s.object \in Objects
    BY Steps
  <2> HIDE DEF s
  <2>5. CASE opt.dryRun
    <3>1. trace' = trace /\ live' = live /\ backup' = backup
      BY <2>3, <2>5 DEF Ran, target
    <3>2. \A j, b : CommandRan(j, b)' <=> CommandRan(j, b)
      BY <3>1, SameTrace
    <3>3. \A o : Touched(o)' = Touched(o) /\ (Reversible(o)' <=> Reversible(o))
      BY <1>a, <3>2, SameCommands
    <3>4. QED
      BY <1>a, <2>2, <3>1, <3>3 DEF Saved
  <2>6. CASE ~opt.failFast
    BY <1>a, <2>2, <2>6 DEF Saved
  <2>7. CASE ~opt.dryRun /\ opt.failFast
    <3>1. Restored = {}
      <4>1. Failures = {}
        BY <2>1, <2>7 DEF Contained, Summed
      <4>2. QED
        BY <2>7, <4>1 DEF Undone
    <3>2. \A j \in Index : ~RestoredOk(j)
      BY <3>1 DEF Restored, RestoredOk
    <3>3. \A j, b : CommandRan(j, b)' <=> CommandRan(j, b) \/ (j = i /\ b = ok)
      BY <1>a, <2>3, <2>7, TracedEvents
    <3>4. \A o : Touched(o) \subseteq Touched(o)' /\ (Reversible(o)' => Reversible(o))
      <4>1. \A o : Touched(o) \subseteq Touched(o)'
        BY <1>a, <3>3 DEF Touched
      <4>2. QED
        BY <1>a, <3>3, <4>1 DEF Reversible
    <3>5. ASSUME NEW o \in Objects, start[o] \notin {"absent", "new"}, Reversible(o)'
          PROVE  /\ Touched(o)' = {} => live'[o] = start[o]
                 /\ Touched(o)' # {} => backup'[o] = start[o] /\ live'[o] = "new"
      <4>1. /\ Touched(o) = {} => live[o] = start[o]
            /\ Touched(o) # {} => backup[o] = start[o] /\ live[o] = "new"
        BY <2>7, <3>1, <3>2, <3>4, <3>5 DEF Saved
      <4>2. /\ live \in [Objects -> Version] /\ backup \in [Objects -> Version]
        BY DEF TypeOK, Content
      <4>3. CASE s.object # o \/ s.kind = "raw"
        <5>1. Touched(o)' = Touched(o)
          BY <1>a, <3>3, <4>3 DEF Touched, s
        <5>2. live'[o] = live[o] /\ backup'[o] = backup[o]
          BY <2>3, <4>2, <4>3 DEF Apply, Changes, Saves, target
        <5>3. QED
          BY <4>1, <5>1, <5>2
      <4>4. CASE s.object = o /\ s.kind # "raw"
        <5>1. i \in Touched(o)'
          BY <1>a, <3>3, <4>4 DEF Touched, s
        <5>2. s.kind = "rsync" /\ s.undo /\ ok
          BY <1>a, <3>3, <3>5, <5>1 DEF Reversible, s
        <5>3. Apply(s)
          BY <2>3, <2>7, <5>2
        <5>4. CASE Touched(o) = {}
          <6>1. live[o] # "new" /\ live[o] # "absent" /\ live[o] = start[o]
            BY <3>5, <4>1, <5>4
          <6>2. Changes(s) /\ Saves(s)
            BY <4>4, <5>2, <6>1 DEF Changes, Saves, Converged
          <6>3. live'[o] = "new" /\ backup'[o] = live[o]
            BY <2>4, <4>2, <4>4, <5>3, <6>2 DEF Apply
          <6>4. QED
            BY <5>1, <6>1, <6>3
        <5>5. CASE Touched(o) # {}
          <6>1. live[o] = "new" /\ backup[o] = start[o]
            BY <4>1, <5>5
          <6>2. live' = live /\ backup' = backup
            BY <4>4, <5>2, <5>3, <6>1 DEF Apply, Changes, Saves, Converged
          <6>3. QED
            BY <5>1, <6>1, <6>2
        <5>6. QED
          BY <5>4, <5>5
      <4>5. QED
        BY <4>3, <4>4
    <3>6. QED
      BY <1>a, <2>2, <3>1, <3>2, <3>5 DEF Saved
  <2>8. QED
    BY <2>5, <2>6, <2>7
<1>4. QED
  BY <1>1, <1>2, <1>3

-----------------------------------------------------------------------------
(* A scope that has not begun. *)
LEMMA Starts ==
  ASSUME Init
  PROVE  IInv
<1>1. steps \in Seq(Step) /\ Len(steps) \in Nat /\ Index = 1 .. Len(steps)
  BY PlansAssumption DEF Init, Index
<1>2. out = <<>> /\ trace = <<>> /\ undoable = <<>> /\ undoing = <<>>
  BY DEF Init
<1>3. /\ \A a : Events(a) = {}
      /\ \A j, b : ~CommandRan(j, b)
      /\ \A j : ~RestoredOk(j)
      /\ Restored = {} /\ Failures = {} /\ Succeeded = {} /\ Pushed = {}
  BY <1>2 DEF Events, CommandRan, RestoredOk, Restored, Failures, Succeeded, Pushed
<1>4. TypeOK
  <2>1. live \in Content /\ backup \in Content /\ start \in Content
    BY TargetsAssumption DEF Init
  <2>2. /\ out \in Seq(Record) /\ undoable \in Seq(Index) /\ undoing \in Seq(Index)
        /\ trace \in Seq(Event)
    BY <1>2, EmptySeq
  <2>3. first \in 1 .. Len(steps) + 1 /\ last \in 0 .. Len(steps) /\ cursor \in 1 .. Len(steps) + 1
    BY <1>1 DEF Init
  <2>4. QED
    BY <2>1, <2>2, <2>3 DEF Init, TypeOK
<1>5. Position
  BY <1>1, <1>2 DEF Init, Position
<1>6. Told
  BY <1>1, <1>2, <1>3 DEF Init, Told
<1>7. Summed
  BY <1>3, FS_EmptySet DEF Init, Summed
<1>8. Contained
  BY DEF Init, Contained
<1>9. PlanOrder /\ FailFastContains
  BY <1>3 DEF PlanOrder, FailFastContains
<1>10. Undone
  BY <1>2, <1>3 DEF Init, Undone, Ascending
<1>11. Saved
  <2>1. \A o : Touched(o) = {}
    BY <1>3 DEF Touched
  <2>2. live = start
    BY DEF Init
  <2>3. QED
    BY <1>3, <2>1, <2>2 DEF Saved
<1>12. QED
  BY <1>4, <1>5, <1>6, <1>7, <1>8, <1>9, <1>10, <1>11 DEF IInv

(* IInv is an invariant of every scope. *)
THEOREM Invariance == Spec => []IInv
<1>1. Init => IInv
  BY Starts
<1>2. IInv /\ [Next]_vars => IInv'
  <2> SUFFICES ASSUME IInv, [Next]_vars PROVE IInv'
    OBVIOUS
  <2>1. /\ TypeOK /\ Position /\ Told /\ Summed /\ Contained /\ PlanOrder /\ FailFastContains
        /\ Undone /\ Saved
    BY DEF IInv
  <2>2. TypeOK' /\ Position' /\ Told' /\ Summed' /\ Contained'
    BY <2>1, TypeStep, PositionStep, ToldStep, SummedStep, ContainedStep
  <2>3. PlanOrder' /\ FailFastContains'
    BY <2>1, OrderStep
  <2>4. Undone' /\ Saved'
    BY <2>1, UndoneStep, SavedStep
  <2>5. QED
    BY <2>2, <2>3, <2>4 DEF IInv
<1>3. QED
  BY <1>1, <1>2, PTL DEF Spec

(* The variables of _deploy_scope_steps keep their types. *)
THEOREM TypeCorrect == Spec => []TypeOK
<1>1. IInv => TypeOK
  BY DEF IInv
<1>2. QED
  BY <1>1, Invariance, PTL

(* Whatever the pool's interleaving, the records of _deploy_scope_steps are  *)
(* one per step, in plan order, each says what its step's command did, and   *)
(* the exit code and deployed_files follow from them.                        *)
THEOREM RecordsAreTrue == Spec => []RecordsMatch
<1>1. IInv => RecordsMatch
  <2> SUFFICES ASSUME IInv PROVE RecordsMatch
    OBVIOUS
  <2>1. TypeOK /\ Position /\ Told /\ Summed
    BY DEF IInv
  <2>2. /\ Len(steps) \in Nat /\ Index = 1 .. Len(steps) /\ last \in Int /\ first \in Int /\ cursor \in Int
        /\ last <= Len(steps)
    BY <2>1, Steps, Batch DEF Index, TypeOK
  <2>3. DOMAIN out = 1 .. Len(out) /\ Len(out) \in Nat /\ DOMAIN out \subseteq Index
    <3>1. DOMAIN out = 1 .. Len(out) /\ Len(out) \in Nat
      BY <2>1 DEF TypeOK
    <3>2. Len(out) <= Len(steps)
      BY <2>1, <2>2 DEF Position, TypeOK
    <3>3. QED
      BY <2>2, <3>1, <3>2
  <2>4. \A k \in DOMAIN out : out[k].step = k
    BY <2>1 DEF Told
  <2>5. ASSUME pc = "done"
        PROVE  /\ Len(out) = Len(steps)
               /\ rc = 0 <=> \A k \in DOMAIN out : out[k].rc = 0
    <3>1. Len(out) = Len(steps) /\ (rc = 1 <=> failureSeen) /\ (failureSeen <=> Failures # {})
          /\ (last < Len(steps) => failureSeen) /\ rc \in {0, 1}
      BY <2>1, <2>5 DEF Position, Summed, TypeOK
    <3>2. ASSUME rc = 0, NEW k \in DOMAIN out PROVE out[k].rc = 0
      <4>1. k <= last /\ out[k].rc # 1
        BY <2>2, <2>3, <3>1, <3>2 DEF Failures
      <4>2. out[k].rc = result[k].rc /\ result[k].rc \in {0, 1}
        BY <2>1, <2>3, <4>1 DEF Told, TypeOK
      <4>3. QED
        BY <4>1, <4>2
    <3>3. ASSUME \A k \in DOMAIN out : out[k].rc = 0 PROVE rc = 0
      <4>1. Failures = {}
        BY <3>3 DEF Failures
      <4>2. QED
        BY <3>1, <4>1
    <3>4. QED
      BY <3>1, <3>2, <3>3
  <2>6. deployed = Cardinality({k \in DOMAIN out :
                      steps[k].kind = "rsync" /\ out[k].rc = 0 /\ ~out[k].converged})
    BY <2>1 DEF Summed, Pushed
  <2>7. ASSUME ~opt.dryRun, NEW k \in DOMAIN out, NEW ok \in BOOLEAN
        PROVE  CommandRan(k, ok) <=> out[k].rc # -1 /\ ~out[k].converged /\ ok = (out[k].rc = 0)
    <3>1. k \in Index /\ k \in Int
      BY <2>2, <2>3
    <3>2. CommandRan(k, ok) <=> work[k] = "ended" /\ ~result[k].converged /\ ok = (result[k].rc = 0)
      BY <2>1, <2>7, <3>1 DEF Told
    <3>3. CASE k <= last
      <4>1. work[k] = "ended"
        <5>1. pc = "run" => k < first
          BY <2>1, <2>2, <2>3 DEF Position
        <5>2. QED
          BY <2>1, <3>1, <3>3, <5>1 DEF Position
      <4>2. out[k].rc = result[k].rc /\ out[k].converged = result[k].converged /\ result[k].rc # -1
        BY <2>1, <3>1, <3>3 DEF Told, TypeOK
      <4>3. QED
        BY <3>2, <4>1, <4>2
    <3>4. CASE k > last
      <4>1. work[k] = "idle" /\ out[k].rc = -1
        BY <2>1, <3>1, <3>4 DEF Position, Told
      <4>2. QED
        BY <3>2, <4>1
    <3>5. QED
      BY <2>2, <3>1, <3>3, <3>4
  <2>8. QED
    BY <2>4, <2>5, <2>6, <2>7 DEF RecordsMatch
<1>2. QED
  BY <1>1, Invariance, PTL

(* Only steps of one run of parallel steps overtake each other. *)
THEOREM InPlanOrder == Spec => []PlanOrder
<1>1. IInv => PlanOrder
  BY DEF IInv
<1>2. QED
  BY <1>1, Invariance, PTL

(* --fail-fast: after a failed command no command runs outside its batch. *)
THEOREM StopsAtFailure == Spec => []FailFastContains
<1>1. IInv => FailFastContains
  BY DEF IInv
<1>2. QED
  BY <1>1, Invariance, PTL

(* _run_rollbacks undoes what succeeded before the first failed step, each   *)
(* step once and the last one first, and nothing else.                       *)
THEOREM UndoesExactlyPrior == Spec => []ExactlyPriorUndone
<1>1. IInv => ExactlyPriorUndone
  <2> SUFFICES ASSUME IInv, pc = "done", opt.failFast, ~opt.dryRun
      PROVE  LET prior == IF ~opt.rollback \/ Failures = {} THEN {}
                          ELSE {k \in DOMAIN out : /\ out[k].rc = 0 /\ steps[k].undo
                                                   /\ \A f \in Failures : k < f}
             IN  /\ {trace[e].step : e \in Events("restore")} = prior
                 /\ \A p, q \in Events("restore") : p < q => trace[p].step > trace[q].step
    BY DEF ExactlyPriorUndone
  <2>1. /\ ~opt.rollback \/ Failures = {} => Restored = {}
        /\ opt.rollback /\ Failures # {} => Restored = Prior
        /\ \A p, q \in Events("restore") : p < q => trace[p].step > trace[q].step
    BY DEF IInv, Undone
  <2>2. Prior = {k \in DOMAIN out : out[k].rc = 0 /\ steps[k].undo /\ \A f \in Failures : k < f}
    BY DEF Prior, Succeeded
  <2>3. QED
    BY <2>1, <2>2 DEF Restored
<1>2. QED
  BY <1>1, Invariance, PTL

(* An object that this scope replaced has its first version again when every *)
(* step that touched it was restored: a second push of it must not have      *)
(* overwritten the backup of the first.                                      *)
THEOREM RestoresFirstVersion == Spec => []RestoredAsBefore
<1>1. IInv => RestoredAsBefore
  <2> SUFFICES ASSUME IInv, pc = "done", NEW o \in Objects, start[o] \notin {"absent", "new"},
                      opt.failFast,
                      {trace[e].step : e \in Events("command")}
                        \intersect {i \in Index : steps[i].object = o /\ steps[i].kind # "raw"} # {},
                      \A i \in {trace[e].step : e \in Events("command")}
                        \intersect {j \in Index : steps[j].object = o /\ steps[j].kind # "raw"} :
                          \E e \in Events("restore") : trace[e].step = i /\ trace[e].ok
               PROVE  live[o] = start[o]
    BY DEF RestoredAsBefore
  <2>1. TypeOK /\ Position /\ Told /\ Summed /\ Undone /\ Saved
    BY DEF IInv
  <2>2. \A e \in Events("command") : CommandRan(trace[e].step, trace[e].ok) /\ trace[e].ok \in BOOLEAN
    <3>1. \A e \in Events("command") : trace[e] \in Event
      BY <2>1, ElementOfSeq DEF TypeOK, Events
    <3>2. QED
      BY <3>1 DEF CommandRan, Event
  <2>3. Touched(o) # {} /\ \A i \in Touched(o) : RestoredOk(i)
    <3>1. Touched(o) = {trace[e].step : e \in Events("command")}
                         \intersect {i \in Index : steps[i].object = o /\ steps[i].kind # "raw"}
      BY <2>2 DEF Touched, CommandRan
    <3>2. QED
      BY <3>1 DEF RestoredOk
  <2>4. ~opt.dryRun
    <3>1. Events("command") # {}
      BY <2>3 DEF Touched, CommandRan
    <3>2. QED
      BY <2>1, <3>1 DEF Told, Events
  <2>5. Touched(o) \subseteq Prior
    <3>1. Touched(o) \subseteq Restored
      BY <2>3 DEF RestoredOk, Restored
    <3>2. QED
      BY <2>1, <2>3, <2>4, <3>1 DEF Undone
  <2>6. Reversible(o)
    <3>1. SUFFICES ASSUME NEW i \in Touched(o)
                   PROVE  steps[i].kind = "rsync" /\ steps[i].undo /\ ~CommandRan(i, FALSE)
      BY DEF Reversible
    <3>2. i \in Index /\ steps[i].kind = "rsync"
      BY <2>1, <2>3 DEF Touched, Saved
    <3>3. i \in DOMAIN out /\ out[i].rc = 0 /\ steps[i].undo
      BY <2>5 DEF Prior, Succeeded
    <3>4. last \in Int /\ i \in Int
      BY <2>1, <3>2, Steps, Batch
    <3>5. result[i].rc = 0
      BY <2>1, <3>3, <3>4 DEF Told
    <3>6. ~CommandRan(i, FALSE)
      BY <2>1, <2>4, <3>2, <3>5 DEF Told
    <3>7. QED
      BY <3>2, <3>3, <3>6
  <2>7. \E i \in Index : steps[i].object = o /\ RestoredOk(i)
    BY <2>3 DEF Touched
  <2>8. QED
    BY <2>1, <2>3, <2>6, <2>7 DEF Saved
<1>2. QED
  BY <1>1, Invariance, PTL

-----------------------------------------------------------------------------
(* The unit: what has not returned has no code yet.                         *)
Unit == INSTANCE ScopeUnit WITH
          dryRun <- opt.dryRun,
          code <- IF pc = "done" THEN rc ELSE -2,
          content <- target,
          trace <- trace

(* The code of a unit that has returned.                                    *)
CodeOfUnit == pc = "done" => rc = IF Unit!StepFailed THEN 1 ELSE 0

(* The records sum up what the trace says.                                  *)
LEMMA CodeTells ==
  ASSUME IInv
  PROVE  CodeOfUnit
<1>0. SUFFICES ASSUME pc = "done" PROVE rc = IF Unit!StepFailed THEN 1 ELSE 0
  BY DEF CodeOfUnit
<1>1. /\ TypeOK /\ Position /\ Told /\ Summed /\ rc \in {0, 1}
      /\ Len(steps) \in Nat /\ Index = 1 .. Len(steps) /\ last \in 0 .. Len(steps)
  BY Steps DEF IInv, TypeOK, Index
<1>2. DOMAIN out = Index
  BY <1>0, <1>1 DEF Position, TypeOK
<1>3. rc = 1 <=> \E k \in Index : out[k].rc = 1
  BY <1>0, <1>1, <1>2 DEF Summed, Failures
<1>4. Unit!StepFailed <=> \E i \in Index : CommandRan(i, FALSE)
  <2>1. \A e \in DOMAIN trace : trace[e].step \in Index /\ trace[e].ok \in BOOLEAN
    <3>1. \A e \in DOMAIN trace : trace[e] \in Event
      BY <1>1, ElementOfSeq DEF TypeOK
    <3>2. QED
      BY <3>1 DEF Event
  <2>2. QED
    BY <2>1 DEF Unit!StepFailed, CommandRan, Events
<1>5. ASSUME NEW i \in Index PROVE CommandRan(i, FALSE) <=> out[i].rc = 1
  <2>1. i \in Int /\ last \in Int /\ result[i].rc \in {0, 1}
    <3>1. result \in [Index -> [rc : {0, 1}, converged : BOOLEAN]]
      BY <1>1 DEF TypeOK
    <3>2. result[i].rc \in {0, 1}
      BY <3>1
    <3>3. QED
      BY <1>1, <3>2
  <2>2. /\ i <= last => work[i] = "ended" /\ out[i].rc = result[i].rc
        /\ i > last => work[i] = "idle" /\ out[i].rc = -1
    BY <1>0, <1>1, <1>2, <2>1 DEF Position, Told
  <2>3. result[i].rc = 1 => ~result[i].converged /\ ~opt.dryRun
    BY <1>1 DEF Told
  <2>4. CommandRan(i, FALSE) <=> ~opt.dryRun /\ work[i] = "ended" /\ ~result[i].converged /\ result[i].rc # 0
    <3>1. CASE opt.dryRun
      <4>1. trace = <<>>
        BY <1>1, <3>1 DEF Told
      <4>2. QED
        BY <3>1, <4>1 DEF CommandRan, Events
    <3>2. CASE ~opt.dryRun
      <4>1. CommandRan(i, FALSE) <=> work[i] = "ended" /\ ~result[i].converged /\ FALSE = (result[i].rc = 0)
        BY <1>1, <3>2 DEF Told
      <4>2. QED
        BY <3>2, <4>1
    <3>3. QED
      BY <3>1, <3>2
  <2>5. i <= last \/ i > last
    BY <2>1
  <2>6. ASSUME i <= last PROVE CommandRan(i, FALSE) <=> out[i].rc = 1
    <3>1. work[i] = "ended" /\ out[i].rc = result[i].rc
      BY <2>2, <2>6
    <3>2. ~opt.dryRun /\ work[i] = "ended" /\ ~result[i].converged /\ result[i].rc # 0 <=> out[i].rc = 1
      BY <2>1, <2>3, <3>1
    <3>3. QED
      BY <2>4, <3>2, Zenon
  <2>7. ASSUME i > last PROVE CommandRan(i, FALSE) <=> out[i].rc = 1
    <3>1. work[i] # "ended" /\ out[i].rc # 1
      BY <2>2, <2>7
    <3>2. QED
      BY <2>4, <3>1, Zenon
  <2>8. QED
    BY <2>5, <2>6, <2>7
<1>6. QED
  BY <1>1, <1>3, <1>4, <1>5

(* A step of the scope is a command of the unit, its return, or a stutter.  *)
LEMMA UnitStep ==
  ASSUME IInv, CodeOfUnit', [Next]_vars
  PROVE  [Unit!Next]_Unit!vars
<1> USE DEF inputs, target, outcome
<1>1. TypeOK /\ Position /\ steps' = steps /\ opt' = opt
  BY DEF IInv, Next, Main, Submit, Join, CollectOk, CollectFailed, FailureHook, Restore, PlanHook,
         NextBatch, Return, Begin, Run, Terminated, vars
<1>2. ASSUME NEW act \in {"command", "hook", "restore", "planHook"}, NEW i \in Index, NEW ok \in BOOLEAN,
             Ran(act, i, ok), pc # "done", pc' # "done", opt.dryRun => UNCHANGED target
      PROVE  [Unit!Next]_Unit!vars
  <2>1. CASE opt.dryRun
    BY <1>1, <1>2, <2>1 DEF Ran, Unit!vars
  <2>2. CASE ~opt.dryRun
    <3>1. /\ DOMAIN trace' = DOMAIN trace \union {Len(trace) + 1}
          /\ \A e \in DOMAIN trace : trace'[e] = trace[e]
          /\ trace \in Seq(Event) /\ trace' \in Seq(Event)
      BY <1>1, <1>2, <2>2, Traced DEF TypeOK
    <3>2. Len(trace') = Len(trace) + 1
      <4>1. /\ Len(trace) \in Nat /\ DOMAIN trace = 1 .. Len(trace)
            /\ Len(trace') \in Nat /\ DOMAIN trace' = 1 .. Len(trace')
        BY <3>1
      <4>2. QED
        BY <3>1, <4>1
    <3>3. Unit!Command
      BY <1>1, <1>2, <2>2, <3>1, <3>2 DEF Unit!Command, Unit!Running
    <3>4. QED
      BY <3>3 DEF Unit!Next
  <2>3. QED
    BY <2>1, <2>2
<1>3. ASSUME UNCHANGED <<target, trace>>, pc # "done", pc' # "done"
      PROVE  [Unit!Next]_Unit!vars
  BY <1>1, <1>3 DEF Unit!vars
<1>4. CASE Submit \/ Join \/ CollectOk \/ CollectFailed
  BY <1>3, <1>4 DEF Submit, Join, CollectOk, CollectFailed
<1>5. CASE NextBatch \/ Return
  <2>1. UNCHANGED <<opt, target, trace>> /\ pc # "done" /\ pc' \in {"done", "loop"}
    BY <1>1, <1>5 DEF NextBatch, Return
  <2>2. CASE pc' = "done"
    <3>1. rc' = IF Unit!StepFailed' THEN 1 ELSE 0
      BY <2>2 DEF CodeOfUnit
    <3>2. Unit!StepFailed' <=> Unit!StepFailed
      BY <2>1 DEF Unit!StepFailed
    <3>3. Unit!Return
      BY <2>1, <2>2, <3>1, <3>2 DEF Unit!Return, Unit!Running
    <3>4. QED
      BY <3>3 DEF Unit!Next
  <2>3. CASE pc' # "done"
    BY <1>3, <2>1, <2>3
  <2>4. QED
    BY <2>2, <2>3
<1>6. pc \in {"hook", "restore"} => cursor \in Index
  BY <1>1, Batch
<1>7. CASE FailureHook
  <2>1. pc = "hook" /\ pc' = "restore" /\ UNCHANGED target
    BY <1>7 DEF FailureHook
  <2>2. Ran("hook", cursor, TRUE) \/ UNCHANGED trace
    BY <1>7 DEF FailureHook
  <2>3. QED
    BY <1>2, <1>3, <1>6, <2>1, <2>2
<1>8. CASE PlanHook
  <2>1. pc = "restore" /\ pc' = "collect" /\ UNCHANGED target
    BY <1>8 DEF PlanHook
  <2>2. Ran("planHook", cursor, TRUE) \/ UNCHANGED trace
    BY <1>8 DEF PlanHook
  <2>3. QED
    BY <1>2, <1>3, <1>6, <2>1, <2>2
<1>9. CASE Restore
  <2>1. pc = "restore" /\ pc' = pc /\ (opt.dryRun => UNCHANGED target)
    BY <1>9 DEF Restore
  <2>2. undoing[Len(undoing)] \in Index
    BY <1>1, <1>9, EmptySeq, LenProperties, ElementOfSeq DEF Restore, TypeOK
  <2>3. \E ok \in BOOLEAN : Ran("restore", undoing[Len(undoing)], ok)
    BY <1>9 DEF Restore
  <2>4. QED
    BY <1>2, <2>1, <2>2, <2>3
<1>10. ASSUME NEW i \in Index, Begin(i) PROVE [Unit!Next]_Unit!vars
  BY <1>3, <1>10 DEF Begin
<1>11. ASSUME NEW i \in Index, Run(i) PROVE [Unit!Next]_Unit!vars
  <2>1. pc = "run"
    <3>1. work[i] = "command"
      BY <1>11 DEF Run
    <3>2. pc # "run" => work[i] \in {"idle", "ended"}
      <4>1. last \in Int /\ i \in Int
        BY <1>1, Steps, Batch
      <4>2. QED
        BY <1>1, <4>1 DEF Position
    <3>3. QED
      BY <3>1, <3>2
  <2>2. pc' = pc /\ (opt.dryRun => UNCHANGED target) /\ \E ok \in BOOLEAN : Ran("command", i, ok)
    BY <1>11 DEF Run
  <2>3. QED
    BY <1>2, <2>1, <2>2
<1>12. CASE Terminated \/ UNCHANGED vars
  BY <1>12 DEF Terminated, vars, Unit!vars
<1>13. QED
  BY <1>4, <1>5, <1>7, <1>8, <1>9, <1>10, <1>11, <1>12 DEF Next, Main

(* _deploy_scope_steps is the unit that the fleet and the loops of           *)
(* run_deploy take it for: its code says whether the command of a step       *)
(* failed, and nothing runs on a dry run or after it has returned.           *)
THEOREM ScopeImplementsUnit == Spec => Unit!Spec
<1>1. Init => Unit!Init
  BY OptionsAssumption DEF Init, Unit!Init, Unit!Running, Option
<1>2. IInv => CodeOfUnit
  BY CodeTells
<1>3. IInv /\ CodeOfUnit' /\ [Next]_vars => [Unit!Next]_Unit!vars
  BY UnitStep
<1>4. QED
  BY <1>1, <1>2, <1>3, Invariance, PTL DEF Spec, Unit!Spec
=============================================================================
