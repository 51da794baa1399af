------------------------- MODULE DeployModes_proofs -------------------------
(***************************************************************************)
(* The deploy command: DeployModes and Preflight.                          *)
(*                                                                         *)
(* DeployModes for any plan, any command line, any hosts file.  IInv says  *)
(* how the position of the command, the units that have ended, those it    *)
(* has taken up and overall_rc hang together.                              *)
(*                                                                         *)
(* Preflight, in the second part, for any plans, configurations, answers   *)
(* of the interview and users.  A check that passed speaks for the deploy  *)
(* because what it has seen stays seen: nobody but a deploy touches what   *)
(* is unchanged, and a deploy makes no drift (Vouched).  What a command    *)
(* has left is found converged by every later probe (Settled), and what a  *)
(* probe has found converged is as wanted (Delivering).                    *)
(***************************************************************************)
EXTENDS DeployModes, Preflight, SequenceTheorems, FiniteSetTheorems, TLAPS

(* The members of a sequence that are picked make up a sequence of their    *)
(* own, none is lost and none is added.                                     *)
LEMMA PickedMembers ==
  ASSUME NEW S, NEW seq \in Seq(S), NEW K \in SUBSET DOMAIN seq
  PROVE  /\ Picked(seq, K) \in Seq(S)
         /\ ToSet(Picked(seq, K)) = {seq[k] : k \in K}
<1> DEFINE rank(k) == Cardinality({j \in K : j <= k})
           pick(n) == CHOOSE k \in K : rank(k) = n
           C == Cardinality(K)
           ranks == [k \in K |-> rank(k)]
<1>1. K \in SUBSET Nat /\ IsFiniteSet(K) /\ C \in Nat
  <2>1. DOMAIN seq = 1 .. Len(seq) /\ Len(seq) \in Nat
    OBVIOUS
  <2>2. IsFiniteSet(DOMAIN seq)
    BY <2>1, FS_Interval
  <2>3. QED
    BY <2>1, <2>2, FS_Subset, FS_CardinalityType
<1>2. \A k \in K : /\ IsFiniteSet({j \in K : j <= k})
                   /\ rank(k) \in 1 .. C
  <2> TAKE k \in K
  <2>1. {j \in K : j <= k} \in SUBSET K /\ k \in {j \in K : j <= k}
    BY <1>1
  <2>2. IsFiniteSet({j \in K : j <= k}) /\ rank(k) <= C /\ rank(k) \in Nat
    BY <1>1, <2>1, FS_Subset, FS_CardinalityType
  <2>3. rank(k) # 0
    BY <2>1, <2>2, FS_EmptySet
  <2>4. QED
    BY <1>1, <2>2, <2>3
<1>3. \A i, j \in K : i < j => rank(i) # rank(j)
  <2> SUFFICES ASSUME NEW i \in K, NEW j \in K, i < j PROVE rank(i) # rank(j)
    OBVIOUS
  <2>1. {x \in K : x <= i} \in SUBSET {x \in K : x <= j}
    BY <1>1
  <2>2. {x \in K : x <= i} # {x \in K : x <= j}
    BY <1>1
  <2>3. QED
    BY <1>2, <2>1, <2>2, FS_Subset
<1> HIDE DEF rank, C
<1>4. \A n \in 1 .. C : \E k \in K : rank(k) = n
  <2>1. ranks \in Injection(K, 1 .. C)
    <3>1. ranks \in [K -> 1 .. C]
      BY <1>2
    <3>2. \A i, j \in K : rank(i) = rank(j) => i = j
      BY <1>1, <1>3
    <3>3. QED
      BY <3>1, <3>2 DEF Injection, IsInjective
  <2>2. IsFiniteSet(1 .. C) /\ Cardinality(1 .. C) = C
    BY <1>1, FS_Interval
  <2>3. ranks \in Surjection(K, 1 .. C)
    <3> HIDE DEF ranks
    <3> QED
      BY <2>1, <2>2, FS_Injection DEF C
  <2>4. QED
    BY <2>3 DEF Surjection
<1>5. \A n \in 1 .. C : pick(n) \in K /\ rank(pick(n)) = n
  BY <1>4
<1>6. \A k \in K : pick(rank(k)) = k
  BY <1>1, <1>2, <1>3, <1>5
<1>7. Picked(seq, K) = [n \in 1 .. C |-> seq[pick(n)]]
  BY DEF Picked, rank, C
<1> HIDE DEF pick
<1>8. Picked(seq, K) \in Seq(S)
  <2>1. \A n \in 1 .. C : seq[pick(n)] \in S
    BY <1>5
  <2>2. QED
    BY <1>1, <1>7, <2>1, IsASeq
<1>9. ToSet(Picked(seq, K)) = {seq[k] : k \in K}
  <2>1. DOMAIN Picked(seq, K) = 1 .. C /\ \A n \in 1 .. C : Picked(seq, K)[n] = seq[pick(n)]
    BY <1>7
  <2>2. ToSet(Picked(seq, K)) \subseteq {seq[k] : k \in K}
    BY <1>5, <2>1 DEF ToSet
  <2>3. ASSUME NEW k \in K PROVE seq[k] \in ToSet(Picked(seq, K))
    <3>1. rank(k) \in 1 .. C /\ seq[k] = Picked(seq, K)[rank(k)]
      BY <1>2, <1>6, <2>1
    <3>2. QED
      BY <2>1, <3>1 DEF ToSet
  <2>4. QED
    BY <2>2, <2>3
<1>10. QED
  BY <1>8, <1>9

-----------------------------------------------------------------------------
(* The order of the units is fixed when the loop begins, and of scopes when *)
(* it goes scope by scope.                                                  *)
Before == pc \in {"check", "hook"}
Unbegun ==
  /\ Before => order = <<>> /\ outcome = <<>> /\ results = <<>> /\ rc = 0 /\ ~stopped
  /\ pc = "record" => order = <<>> /\ outcome = <<>> /\ results = <<>> /\ rc = 1
  /\ Mode = "scopes" => ToSet(order) \subseteq Scopes
  /\ pc \notin {"check", "end"} => ~Refuses
  /\ pc \in {"units", "stamp"} => order # <<>> \/ Planned = {}

(* exit and runDir follow the command's position, and what is still to be   *)
(* stamped belongs to the loop or to the stamping after it.                 *)
Phases ==
  /\ exit = Running <=> pc # "end"
  /\ stamps # {} => pc \in {"units", "stamp"}
  /\ pc = "check" => runDir = "none"
  /\ pc \in {"hook", "units", "stamp", "record"} => runDir = "started"
  /\ pc \in {"ledger", "notify", "post"} => runDir = "recorded"
  /\ runDir = "recorded" => record = [rc |-> rc, units |-> results]

(* overall_rc while the loop goes on: the code of a unit it has taken up,   *)
(* or 0 when none of those failed.                                          *)
Looping == Mode # "fleet" /\ pc = "units"
CodeOfTaken ==
  /\ Looping /\ rc = 0 => \A u \in ToSet(results) : outcome[u] = 0
  /\ Looping /\ rc # 0 => \E u \in ToSet(results) : outcome[u] = rc
  /\ Looping /\ stopped => rc # 0 /\ input.failFast
  /\ \A u \in ToSet(results) : outcome[u] # Raised \/ Mode = "fleet"

(* One by one, at most the unit after those taken up has ended without      *)
(* being taken up; none has when the loop was left.                         *)
OneByOne ==
  Looping /\ ~Pooled =>
    /\ \A u \in Dropped : Len(results) + 1 \in DOMAIN order /\ u = order[Len(results) + 1]
    /\ stopped => Dropped = {}

(* Once the loop is over nothing but what a pool dropped is missing, and    *)
(* code 0 stands for a run in which all units ended with 0.                 *)
Counted ==
  pc \in {"stamp", "ledger", "notify", "post"} \/ (exit \in Codes /\ runDir = "recorded") =>
    /\ rc = 0 => (order # <<>> \/ Planned = {}) /\ \A u \in ToSet(order) : Ended(u) /\ outcome[u] = 0
    /\ Dropped # {} => /\ Pooled /\ input.failFast /\ rc # 0
                       /\ \E u \in ToSet(results) : outcome[u] = rc

(* How a command that was not killed came to its end.                       *)
Endings ==
  exit \in Codes =>
    /\ runDir = "recorded" => exit = rc
    /\ runDir # "recorded" => exit # 0 /\ (DOMAIN outcome = {} \/ Raises)
Sent ==
  pc = "post" \/ (exit \in Codes /\ runDir = "recorded") =>
    notified = IF StaysSilent THEN "none" ELSE IF rc = 0 THEN "success" ELSE "failed"

(* A scope that is stamped, or about to be, has earned it for good.         *)
Earned ==
  \A s \in stamped \union stamps :
    /\ ~input.dryRun
    /\ Mode = "scopes" => Ended(s) /\ outcome[s] = 0
    /\ Mode # "scopes" => /\ pc \notin {"check", "hook", "units", "record"}
                          /\ \A u \in DOMAIN outcome : outcome[u] = 0

(* The inductive invariant. *)
IInv == TypeOK /\ Unbegun /\ Phases /\ CodeOfTaken /\ OneByOne /\ Counted /\ Endings /\ Sent /\ Earned

-----------------------------------------------------------------------------
(* The lists of a command line: a unit is a scope of the plan or a host, and *)
(* only a fleet has no units although there are steps to run.                *)
LEMMA Lists ==
  ASSUME input \in Inputs
  PROVE  /\ ToSet(Chosen) \subseteq Scopes
         /\ Units \in Seq(Scopes \union Hosts)
         /\ Mode = "scopes" => ToSet(Units) \subseteq Scopes
         /\ ~Refuses /\ Units = <<>> => Mode = "fleet" \/ Planned = {}
<1> DEFINE hosts == [j \in DOMAIN Plan.steps |-> Plan.steps[j].host]
           aliases == [i \in DOMAIN input.hostsFile |-> input.hostsFile[i].alias]
<1>1. input \in Input
  BY InputsAssumption
<1>2. Plan.scopes \in Seq(Scopes)
  <2>1. Plan.scopes \in Seq(STRING)
    BY PlanAssumption
  <2>2. \A i \in 1 .. Len(Plan.scopes) : Plan.scopes[i] \in Scopes
    BY <2>1 DEF Scopes, ToSet
  <2>3. QED
    BY <2>1, <2>2
<1>3. hosts \in Seq(Hosts)
  <2>1. Plan.steps \in Seq([scope : Scopes, host : Hosts])
    BY PlanAssumption
  <2>2. DOMAIN Plan.steps = 1 .. Len(Plan.steps) /\ Len(Plan.steps) \in Nat
    BY <2>1
  <2>3. \A j \in 1 .. Len(Plan.steps) : Plan.steps[j].host \in Hosts
    <3>1. \A j \in 1 .. Len(Plan.steps) : Plan.steps[j] \in [scope : Scopes, host : Hosts]
      BY <2>1, ElementOfSeq
    <3>2. QED
      BY <3>1
  <2>4. QED
    BY <2>2, <2>3, IsASeq
<1>4. input.hostsFile \in Seq([alias : Hosts, names : SUBSET Hosts])
  BY <1>1 DEF Input
<1>4a. aliases \in Seq(Hosts) /\ (aliases = <<>> => input.hostsFile = <<>>)
  <2>2. DOMAIN input.hostsFile = 1 .. Len(input.hostsFile) /\ Len(input.hostsFile) \in Nat
    BY <1>4
  <2>3. \A i \in 1 .. Len(input.hostsFile) : input.hostsFile[i].alias \in Hosts
    <3>1. \A i \in 1 .. Len(input.hostsFile) :
            input.hostsFile[i] \in [alias : Hosts, names : SUBSET Hosts]
      BY <1>4, ElementOfSeq
    <3>2. QED
      BY <3>1
  <2>4. aliases \in Seq(Hosts)
    BY <2>2, <2>3, IsASeq
  <2>5. DOMAIN aliases = 1 .. Len(input.hostsFile)
    BY <2>2
  <2>6. aliases = <<>> => Len(input.hostsFile) = 0
    <3>1. aliases = <<>> => DOMAIN aliases = {}
      OBVIOUS
    <3> HIDE DEF aliases
    <3>2. QED
      BY <2>2, <2>5, <3>1
  <2>7. QED
    BY <1>4, <2>4, <2>6
<1>5. ASSUME NEW seq \in Seq(Hosts)
      PROVE  Distinct(seq) \in Seq(Hosts) /\ (seq # <<>> => Distinct(seq) # <<>>)
  <2> DEFINE K == {i \in DOMAIN seq : \A j \in 1 .. i - 1 : seq[j] # seq[i]}
  <2>1. Distinct(seq) \in Seq(Hosts) /\ ToSet(Distinct(seq)) = {seq[k] : k \in K}
    BY PickedMembers DEF Distinct
  <2>2. ASSUME seq # <<>> PROVE Distinct(seq) # <<>>
    <3>1. 1 \in K
      BY <2>2
    <3>2. seq[1] \in ToSet(Distinct(seq))
      BY <2>1, <3>1
    <3>3. QED
      BY <3>2 DEF ToSet
  <2>3. QED
    BY <2>1, <2>2
<1>6. Chosen \in Seq(Scopes) /\ ToSet(Chosen) \subseteq Scopes
  <2> DEFINE K == {i \in DOMAIN Plan.scopes : input.scope \in {"", Plan.scopes[i]}}
  <2>1. K \in SUBSET DOMAIN Plan.scopes
    OBVIOUS
  <2> HIDE DEF K
  <2>2. Picked(Plan.scopes, K) \in Seq(Scopes)
    BY <1>2, <2>1, PickedMembers
  <2>3. Chosen \in Seq(Scopes)
    BY <2>2 DEF Chosen, K
  <2>4. QED
    BY <2>3 DEF ToSet
<1>7. ASSUME NEW S PROVE Groups(S) \in Seq(Hosts)
  <2> DEFINE K == {j \in Planned : Plan.steps[j].host \in S}
  <2>1. K \in SUBSET DOMAIN hosts
    BY DEF Planned
  <2> HIDE DEF K, hosts
  <2>2. Picked(hosts, K) \in Seq(Hosts)
    BY <1>3, <2>1, PickedMembers
  <2>3. Groups(S) = Distinct(Picked(hosts, K))
    BY DEF Groups, hosts, K
  <2>4. QED
    BY <1>5, <2>2, <2>3
<1>8. FileGroups \in Seq(Hosts) /\ (~Refuses /\ input.byFile /\ FileGroups = <<>> => Planned = {})
  <2>1. CASE Groups(Listed) # <<>>
    BY <1>7, <2>1 DEF FileGroups
  <2>2. CASE Groups(Listed) = <<>> /\ Planned # {}
    <3>1. FileGroups = Distinct(aliases)
      BY <2>2 DEF FileGroups
    <3>2. ~Refuses /\ input.byFile => aliases # <<>>
      BY <1>4a DEF Refuses
    <3> HIDE DEF aliases
    <3>3. QED
      BY <1>4a, <1>5, <3>1, <3>2
  <2>3. CASE Groups(Listed) = <<>> /\ Planned = {}
    BY <2>3, EmptySeq DEF FileGroups
  <2>4. QED
    BY <2>1, <2>2, <2>3
<1>9. ASSUME NEW s, s \in Seq(Scopes) \/ s \in Seq(Hosts) PROVE s \in Seq(Scopes \union Hosts)
  BY <1>9
<1>10. CASE Mode = "fleet"
  BY <1>6, <1>7, <1>9, <1>10 DEF Units
<1>11. CASE Mode = "hosts"
  BY <1>6, <1>8, <1>9, <1>11 DEF Units, Mode
<1>12. CASE Mode = "scopes"
  <2>1. Units = Chosen
    BY <1>12 DEF Units
  <2>2. Chosen = <<>> => Planned = {}
    BY DEF Planned, ToSet
  <2>3. QED
    BY <1>6, <1>9, <1>12, <2>1, <2>2
<1>13. QED
  BY <1>6, <1>10, <1>11, <1>12 DEF Mode

-----------------------------------------------------------------------------
(* A step leaves the command line alone, and what depends on it only.       *)
LEMMA SameInput ==
  ASSUME [Next]_vars
  PROVE  /\ input' = input /\ Mode' = Mode /\ Chosen' = Chosen /\ Planned' = Planned
         /\ Refuses' = Refuses /\ Units' = Units
<1>1. input' = input
  BY DEF Next, Main, vars, Refuse, OpenRun, PreHook, Take, Propagate, LoopEnds, FleetReturns,
         StampScope, WriteRecord, RecordInLedger, Notify, PostHook, RunUnit, Kill
<1>2. QED
  BY <1>1 DEF Mode, Chosen, Planned, Refuses, Units, FileGroups, Groups, Listed

(* Taking a unit up adds it to those taken up.                              *)
LEMMA OneMoreTaken ==
  ASSUME TypeOK, NEW u \in Scopes \union Hosts
  PROVE  /\ Append(results, u) \in Seq(Scopes \union Hosts)
         /\ ToSet(Append(results, u)) = ToSet(results) \union {u}
<1>1. results \in Seq(Scopes \union Hosts)
  BY DEF TypeOK
<1>2. /\ Append(results, u) \in Seq(Scopes \union Hosts)
      /\ Len(Append(results, u)) = Len(results) + 1
      /\ \A i \in 1 .. Len(results) : Append(results, u)[i] = results[i]
      /\ Append(results, u)[Len(results) + 1] = u
  BY <1>1, AppendProperties
<1>3. DOMAIN results = 1 .. Len(results) /\ Len(results) \in Nat
  BY <1>1
<1>4. DOMAIN Append(results, u) = 1 .. Len(results) + 1
  BY <1>2, <1>3
<1>5. QED
  BY <1>2, <1>3, <1>4 DEF ToSet

(* A unit is taken when its result has been collected.                      *)
LEMMA TakenUnits ==
  ASSUME TypeOK
  PROVE  \A u : Taken(u) <=> u \in ToSet(results)
<1>1. results \in Seq(Scopes \union Hosts)
  BY DEF TypeOK
<1>2. DOMAIN results = 1 .. Len(results)
  BY <1>1
<1>3. QED
  BY <1>2 DEF Taken, Contains, ToSet

(* What run_fleet returns are the units that have ended.                    *)
LEMMA FleetResults ==
  ASSUME TypeOK, FleetReturns
  PROVE  results' \in Seq(Scopes \union Hosts) /\ ToSet(results') = DOMAIN outcome
<1> DEFINE K == {i \in DOMAIN order : Ended(order[i])}
<1>1. order \in Seq(Scopes \union Hosts) /\ DOMAIN outcome \subseteq ToSet(order)
  BY DEF TypeOK
<1>2. K \in SUBSET DOMAIN order
  OBVIOUS
<1>3. {order[k] : k \in K} = DOMAIN outcome
  BY <1>1 DEF ToSet, Ended
<1>4. results' = Picked(order, K)
  BY DEF FleetReturns
<1> HIDE DEF K
<1>5. QED
  BY <1>1, <1>2, <1>3, <1>4, PickedMembers

(* Every step of a deploy keeps its state well typed.                        *)
LEMMA TypeStep ==
  ASSUME IInv, [Next]_vars
  PROVE  TypeOK'
<1>0. TypeOK /\ Codes = {0, 1, 2} /\ input \in Input
  BY InputsAssumption DEF IInv, TypeOK, Codes
<1>1. CASE Refuse
  BY <1>0, <1>1 DEF TypeOK, Refuse
<1>2. CASE OpenRun
  BY <1>0, <1>2 DEF TypeOK, OpenRun
<1>3. CASE PreHook
  <2>1. outcome = <<>> /\ results = <<>>
    BY <1>3 DEF IInv, Unbegun, PreHook, Before
  <2>2. DOMAIN outcome = {} /\ ToSet(results) = {}
    BY <2>1 DEF ToSet
  <2>3. input.pre \in Codes
    BY <1>0 DEF Input
  <2>4. order' \in Seq(Scopes \union Hosts) /\ pc' \in {"end", "record", "units"}
          /\ exit' \in Codes \union {Running, Killed} /\ rc' \in Codes
    BY <1>0, <1>3, <2>3, Lists DEF PreHook, TypeOK
  <2>5. outcome' = outcome /\ results' = results
    BY <1>3 DEF PreHook
  <2>6. QED
    BY <1>0, <1>3, <2>2, <2>4, <2>5 DEF PreHook, TypeOK
<1>4. CASE Take
  <2>1. PICK u \in DOMAIN outcome :
          /\ outcome[u] # Raised
          /\ results' = Append(results, u)
          /\ rc' = NextCode(u)
          /\ stopped' = (outcome[u] # 0 /\ input.failFast)
          /\ stamps' = IF StampsNow(u) THEN {u} ELSE {}
    BY <1>4 DEF Take
  <2>2. u \in ToSet(order) /\ u \in Scopes \union Hosts /\ outcome[u] \in Codes
    <3>1. order \in Seq(Scopes \union Hosts) /\ u \in ToSet(order)
      BY <1>0 DEF TypeOK
    <3>2. QED
      BY <1>0, <2>1, <3>1 DEF TypeOK, ToSet
  <2>3. results' \in Seq(Scopes \union Hosts) /\ ToSet(results') \subseteq DOMAIN outcome
    BY <1>0, <2>1, <2>2, OneMoreTaken DEF TypeOK
  <2>4. rc' \in Codes /\ stopped' \in BOOLEAN
    BY <1>0, <2>1, <2>2 DEF NextCode, TypeOK
  <2>5. stamps' \subseteq Scopes
    BY <2>1, <2>2 DEF StampsNow, IInv, Unbegun
  <2>6. QED
    BY <1>0, <1>4, <2>3, <2>4, <2>5 DEF TypeOK, Take
<1>5. CASE Propagate
  BY <1>0, <1>5 DEF TypeOK, Propagate
<1>6. CASE LoopEnds
  <2>1. stamps' \subseteq Scopes
    BY <1>0, <1>6, Lists DEF LoopEnds, StampsLater, TypeOK
  <2>2. QED
    BY <1>0, <1>6, <2>1 DEF TypeOK, LoopEnds
<1>7. CASE FleetReturns
  <2>1. stamps' \subseteq Scopes
    BY <1>0, <1>7, Lists DEF FleetReturns, StampsLater, TypeOK
  <2>2. rc' \in Codes /\ stopped' \in BOOLEAN
    BY <1>0, <1>7 DEF FleetReturns
  <2>3. results' \in Seq(Scopes \union Hosts) /\ ToSet(results') = DOMAIN outcome
    BY <1>0, <1>7, FleetResults
  <2>4. QED
    BY <1>0, <1>7, <2>1, <2>2, <2>3 DEF TypeOK, FleetReturns
<1>8. CASE StampScope
  BY <1>0, <1>8 DEF TypeOK, StampScope
<1>9. CASE WriteRecord
  <2>1. record'.rc = rc
    BY <1>9 DEF WriteRecord
  <2>2. QED
    BY <1>0, <1>9, <2>1 DEF TypeOK, WriteRecord
<1>10. CASE RecordInLedger
  BY <1>0, <1>10 DEF TypeOK, RecordInLedger
<1>11. CASE Notify
  BY <1>0, <1>11 DEF TypeOK, Notify
<1>12. CASE PostHook
  BY <1>0, <1>12 DEF TypeOK, PostHook, ExitCode
<1>13. CASE RunUnit
  <2>1. PICK i \in DOMAIN order, o \in Codes \union {Raised} :
          outcome' = [u \in DOMAIN outcome \union {order[i]} |->
                        IF u = order[i] THEN o ELSE outcome[u]]
    BY <1>0, <1>13 DEF RunUnit
  <2>2. DOMAIN outcome' = DOMAIN outcome \union {order[i]} /\ order[i] \in ToSet(order)
    BY <2>1 DEF ToSet
  <2>3. \A u \in DOMAIN outcome' : outcome'[u] \in Codes \union {Raised}
    BY <1>0, <2>1 DEF TypeOK
  <2>4. QED
    BY <1>0, <1>13, <2>2, <2>3 DEF TypeOK, RunUnit
<1>14. CASE Kill
  BY <1>0, <1>14 DEF TypeOK, Kill
<1>15. CASE UNCHANGED vars
  BY <1>0, <1>15 DEF TypeOK, vars
<1>16. QED
  BY <1>1, <1>2, <1>3, <1>4, <1>5, <1>6, <1>7, <1>8, <1>9, <1>10, <1>11, <1>12, <1>13,
     <1>14, <1>15 DEF Next, Main

(* Where the command is, and what follows from it.                          *)
LEMMA ControlStep ==
  ASSUME IInv, [Next]_vars
  PROVE  Unbegun' /\ Phases' /\ Endings' /\ Sent'
<1>0. TypeOK /\ Unbegun /\ Phases /\ CodeOfTaken /\ Counted /\ Endings /\ Sent
  BY DEF IInv
<1>a. /\ input' = input /\ Mode' = Mode /\ Planned' = Planned /\ Refuses' = Refuses
      /\ Running \notin Codes /\ Killed \notin Codes /\ Running # Killed /\ 1 \in Codes /\ 0 \in Codes
  BY SameInput DEF Running, Killed, Codes
<1> USE <1>0, <1>a
<1>1. CASE Refuse
  BY <1>1 DEF Refuse, TypeOK, Before, Unbegun, Phases, Endings, Sent
<1>2. CASE OpenRun
  BY <1>2 DEF OpenRun, TypeOK, Before, Unbegun, Phases, Endings, Sent
<1>3. CASE PreHook
  <2>1. /\ Mode = "scopes" => ToSet(Units) \subseteq Scopes
        /\ ~Refuses /\ Units = <<>> => Mode = "fleet" \/ Planned = {}
    BY Lists DEF TypeOK
  <2>2. input.pre \in Codes
    BY InputsAssumption DEF TypeOK, Input
  <2>3. ~Refuses /\ ToSet(<<>>) = {}
    BY <1>3 DEF Unbegun, PreHook, ToSet
  <2>4. CASE input.pre # 0
    BY <1>3, <2>2, <2>4 DEF PreHook, TypeOK, Before, Unbegun, Phases, Endings, Sent
  <2>5. CASE input.pre = 0
    <3>1. order' = Units /\ pc' \in {"record", "units"} /\ exit' = exit /\ exit = Running
      BY <1>3, <2>5 DEF PreHook, Phases
    <3>2. Unbegun'
      BY <1>3, <2>1, <2>3, <2>5, <3>1 DEF PreHook, TypeOK, Before, Unbegun
    <3>3. QED
      BY <1>3, <3>1, <3>2 DEF PreHook, Phases, Endings, Sent
  <2>6. QED
    BY <2>4, <2>5
<1>4. CASE Take
  BY <1>4 DEF Take, Before, Unbegun, Phases, Endings, Sent
<1>5. CASE Propagate
  BY <1>5 DEF Propagate, Before, Unbegun, Phases, Endings, Sent, Raises
<1>6. CASE LoopEnds
  BY <1>6 DEF LoopEnds, Before, Unbegun, Phases, Endings, Sent
<1>7. CASE FleetReturns
  <2>1. rc' = 1 \/ rc = rc' \/ rc' = 0
    BY <1>7 DEF FleetReturns
  <2>2. Unbegun'
    BY <1>7 DEF FleetReturns, Before, Unbegun
  <2>3. QED
    BY <1>7, <2>2 DEF FleetReturns, Before, Phases, Endings, Sent
<1>8. CASE StampScope
  BY <1>8 DEF StampScope, Before, Unbegun, Phases, Endings, Sent, Raises, StaysSilent
<1>9. CASE WriteRecord
  BY <1>9 DEF WriteRecord, Before, Unbegun, Phases, Endings, Sent
<1>10. CASE RecordInLedger
  BY <1>10 DEF RecordInLedger, Before, Unbegun, Phases, Endings, Sent
<1>11. CASE Notify
  BY <1>11 DEF Notify, Before, Unbegun, Phases, Endings, Sent, StaysSilent
<1>12. CASE PostHook
  BY <1>12 DEF PostHook, ExitCode, TypeOK, Before, Unbegun, Phases, Endings, Sent, StaysSilent
<1>13. CASE RunUnit
  BY <1>13 DEF RunUnit, Before, Unbegun, Phases, Endings, Sent, StaysSilent
<1>14. CASE Kill
  BY <1>14 DEF Kill, Before, Unbegun, Phases, Endings, Sent
<1>15. CASE UNCHANGED vars
  BY <1>15 DEF vars, Before, Unbegun, Phases, Endings, Sent, Raises, StaysSilent
<1>16. QED
  BY <1>1, <1>2, <1>3, <1>4, <1>5, <1>6, <1>7, <1>8, <1>9, <1>10, <1>11, <1>12, <1>13,
     <1>14, <1>15 DEF Next, Main

(* The loop: what was taken up and what it added to overall_rc.             *)
LEMMA LoopStep ==
  ASSUME IInv, [Next]_vars
  PROVE  CodeOfTaken' /\ OneByOne'
<1>0. TypeOK /\ Unbegun /\ CodeOfTaken /\ OneByOne /\ Codes = {0, 1, 2}
  BY DEF IInv, Codes
<1>a. Mode' = Mode /\ input' = input
  BY SameInput
<1>1. ASSUME UNCHANGED <<order, outcome, results, rc, stopped>>, pc' = "units" => pc = "units"
      PROVE  CodeOfTaken' /\ OneByOne'
  <2>1. Pooled' = Pooled /\ Dropped' = Dropped /\ (Looping' => Looping)
    BY <1>a, <1>1 DEF Pooled, Dropped, Looping
  <2>2. QED
    BY <1>0, <1>a, <1>1, <2>1 DEF CodeOfTaken, OneByOne
<1>2. CASE Refuse
  BY <1>1, <1>2 DEF Refuse
<1>3. CASE OpenRun
  BY <1>1, <1>3 DEF OpenRun
<1>4. CASE PreHook
  <2>1. outcome = <<>> /\ results = <<>> /\ rc = 0 /\ ~stopped
    BY <1>0, <1>4 DEF Unbegun, Before, PreHook
  <2>2. outcome' = <<>> /\ results' = <<>> /\ ~stopped' /\ (pc' = "units" => rc' = 0)
    BY <1>4, <2>1 DEF PreHook
  <2>3. ToSet(results') = {} /\ Dropped' = {}
    BY <2>2 DEF ToSet, Dropped
  <2>4. QED
    BY <2>2, <2>3 DEF CodeOfTaken, OneByOne, Looping
<1>5. CASE Take
  <2>1. PICK u \in DOMAIN outcome :
          /\ ~Taken(u) /\ outcome[u] # Raised
          /\ results' = Append(results, u)
          /\ rc' = NextCode(u)
          /\ stopped' = (outcome[u] # 0 /\ input.failFast)
    BY <1>5 DEF Take
  <2>2. Looping /\ ~stopped /\ outcome' = outcome /\ order' = order /\ Pooled' = Pooled
    BY <1>a, <1>5 DEF Take, Looping, Pooled
  <2>3. u \in Scopes \union Hosts
    BY <1>0 DEF TypeOK, ToSet
  <2>4. ToSet(results') = ToSet(results) \union {u}
    BY <1>0, <2>1, <2>3, OneMoreTaken
  <2>5. CodeOfTaken'
    BY <1>0, <1>a, <2>1, <2>2, <2>4 DEF CodeOfTaken, NextCode, Looping
  <2>6. Dropped' = Dropped \ {u} /\ u \in Dropped
    BY <1>0, <2>1, <2>2, <2>4, TakenUnits DEF Dropped
  <2>7. QED
    BY <1>0, <2>2, <2>5, <2>6 DEF OneByOne
<1>6. CASE Propagate
  BY <1>1, <1>6 DEF Propagate
<1>7. CASE LoopEnds
  BY <1>1, <1>7 DEF LoopEnds
<1>8. CASE FleetReturns
  BY <1>a, <1>8 DEF FleetReturns, CodeOfTaken, OneByOne, Looping
<1>9. CASE StampScope
  BY <1>1, <1>9 DEF StampScope
<1>10. CASE WriteRecord
  BY <1>1, <1>10 DEF WriteRecord
<1>11. CASE RecordInLedger
  BY <1>1, <1>11 DEF RecordInLedger
<1>12. CASE Notify
  BY <1>1, <1>12 DEF Notify
<1>13. CASE PostHook
  BY <1>1, <1>13 DEF PostHook
<1>14. CASE RunUnit
  <2>1. PICK i \in DOMAIN order, o \in Codes \union {Raised} :
          /\ ~Ended(order[i]) /\ MayRun(i)
          /\ outcome' = [u \in DOMAIN outcome \union {order[i]} |->
                           IF u = order[i] THEN o ELSE outcome[u]]
    BY <1>0, <1>14 DEF RunUnit
  <2>2. /\ UNCHANGED <<order, results, rc, stopped, pc>>
        /\ Pooled' = Pooled /\ (Looping' <=> Looping)
    BY <1>a, <1>14 DEF RunUnit, Pooled, Looping
  <2>3. \A u \in DOMAIN outcome : u \in DOMAIN outcome' /\ outcome'[u] = outcome[u]
    BY <2>1 DEF Ended
  <2>4. ToSet(results') = ToSet(results) /\ ToSet(results) \subseteq DOMAIN outcome
    BY <1>0, <2>2 DEF TypeOK, ToSet
  <2>5. CodeOfTaken'
    BY <1>0, <1>a, <2>2, <2>3, <2>4 DEF CodeOfTaken
  <2>6. Dropped' = Dropped \union {order[i]}
    BY <2>1, <2>3, <2>4 DEF Dropped, Ended
  <2>7. Looping /\ ~Pooled => i = Len(results) + 1 /\ ~stopped
    BY <2>1 DEF MayRun, Looping
  <2>8. QED
    BY <1>0, <2>2, <2>5, <2>6, <2>7 DEF OneByOne
<1>15. CASE Kill
  BY <1>1, <1>15 DEF Kill
<1>16. CASE UNCHANGED vars
  BY <1>1, <1>16 DEF vars
<1>17. QED
  BY <1>2, <1>3, <1>4, <1>5, <1>6, <1>7, <1>8, <1>9, <1>10, <1>11, <1>12, <1>13, <1>14,
     <1>15, <1>16 DEF Next, Main

(* What the loop leaves behind.                                             *)
LEMMA CountedStep ==
  ASSUME IInv, [Next]_vars
  PROVE  Counted'
<1> DEFINE AfterLoop(p, e, d) == p \in {"stamp", "ledger", "notify", "post"} \/ (e \in Codes /\ d = "recorded")
<1>0. TypeOK /\ Unbegun /\ Phases /\ CodeOfTaken /\ OneByOne /\ Counted
  BY DEF IInv
<1>a. /\ Mode' = Mode /\ input' = input /\ Planned' = Planned
      /\ Running \notin Codes /\ Killed \notin Codes /\ Codes = {0, 1, 2}
  BY SameInput DEF Running, Killed, Codes
<1>1. ASSUME UNCHANGED <<order, outcome, results, rc>>,
             AfterLoop(pc', exit', runDir') => AfterLoop(pc, exit, runDir)
      PROVE  Counted'
  <2>1. Pooled' = Pooled /\ Dropped' = Dropped
    BY <1>a, <1>1 DEF Pooled, Dropped
  <2>2. QED
    BY <1>0, <1>a, <1>1, <2>1 DEF Counted, Ended
<1>2. CASE Refuse
  BY <1>0, <1>2 DEF Refuse, Phases, Counted
<1>3. CASE OpenRun
  BY <1>0, <1>a, <1>3 DEF OpenRun, Phases, Counted
<1>4. CASE PreHook
  BY <1>0, <1>a, <1>4 DEF PreHook, Phases, Counted
<1>5. CASE Take
  BY <1>0, <1>a, <1>5 DEF Take, Phases, Counted
<1>6. CASE Propagate
  BY <1>0, <1>6 DEF Propagate, Phases, Counted
<1>7. CASE LoopEnds
  <2>1. /\ Looping /\ Pooled' = Pooled /\ Dropped' = Dropped
        /\ UNCHANGED <<order, outcome, results, rc, input>>
    BY <1>a, <1>7 DEF LoopEnds, Looping, Pooled, Dropped
  <2>2. order # <<>> \/ Planned = {}
    BY <1>0, <1>7 DEF LoopEnds, Unbegun
  <2>3. CASE stopped
    <3>1. rc # 0 /\ input.failFast /\ \E u \in ToSet(results) : outcome[u] = rc
      BY <1>0, <2>1, <2>3 DEF CodeOfTaken
    <3>2. ~Pooled => Dropped = {}
      BY <1>0, <2>1, <2>3 DEF OneByOne
    <3>3. QED
      BY <2>1, <3>1, <3>2 DEF Counted
  <2>4. CASE \A u \in ToSet(order) : Taken(u)
    <3>1. ToSet(order) \subseteq ToSet(results) /\ ToSet(results) \subseteq DOMAIN outcome
      BY <1>0, <2>4, TakenUnits DEF TypeOK
    <3>2. Dropped = {}
      BY <1>0, <3>1 DEF TypeOK, Dropped
    <3>3. rc = 0 => \A u \in ToSet(order) : Ended(u) /\ outcome[u] = 0
      BY <1>0, <2>1, <3>1 DEF CodeOfTaken, Ended
    <3>4. QED
      BY <1>a, <2>1, <2>2, <3>2, <3>3 DEF Counted, Ended
  <2>5. QED
    BY <1>7, <2>3, <2>4 DEF LoopEnds
<1>8. CASE FleetReturns
  <2>1. ToSet(results') = DOMAIN outcome /\ UNCHANGED <<order, outcome>>
    BY <1>0, <1>8, FleetResults DEF FleetReturns
  <2>2. Dropped' = {}
    BY <2>1 DEF Dropped
  <2>3. rc' = 0 => \A u \in ToSet(order) : Ended(u) /\ outcome[u] = 0
    BY <1>8 DEF FleetReturns, Failures, Ended
  <2>4. order # <<>> \/ Planned = {}
    BY <1>0, <1>8 DEF FleetReturns, Unbegun
  <2>5. QED
    BY <1>a, <2>1, <2>2, <2>3, <2>4 DEF Counted, Ended
<1>9. CASE StampScope
  BY <1>1, <1>9 DEF StampScope
<1>10. CASE WriteRecord
  <2>1. UNCHANGED <<order, outcome, results, rc, input>> /\ pc' = "ledger"
    BY <1>10 DEF WriteRecord
  <2>2. CASE pc = "stamp"
    BY <1>1, <2>1, <2>2
  <2>3. CASE pc = "record"
    <3>1. rc' = 1 /\ Dropped' = {}
      BY <1>0, <2>1, <2>3 DEF Unbegun, Dropped, ToSet
    <3>2. QED
      BY <3>1 DEF Counted
  <2>4. QED
    BY <1>10, <2>2, <2>3 DEF WriteRecord
<1>11. CASE RecordInLedger
  BY <1>1, <1>11 DEF RecordInLedger
<1>12. CASE Notify
  BY <1>1, <1>12 DEF Notify
<1>13. CASE PostHook
  BY <1>1, <1>13 DEF PostHook
<1>14. CASE RunUnit
  BY <1>0, <1>a, <1>14 DEF RunUnit, Phases, Counted
<1>15. CASE Kill
  BY <1>a, <1>15 DEF Kill, Counted
<1>16. CASE UNCHANGED vars
  BY <1>1, <1>16 DEF vars
<1>17. QED
  BY <1>2, <1>3, <1>4, <1>5, <1>6, <1>7, <1>8, <1>9, <1>10, <1>11, <1>12, <1>13, <1>14,
     <1>15, <1>16 DEF Next, Main

(* A stamp that was earned stays earned, and only earned ones are added.    *)
LEMMA EarnedStep ==
  ASSUME IInv, [Next]_vars
  PROVE  Earned'
<1>0. TypeOK /\ Unbegun /\ Phases /\ CodeOfTaken /\ Earned
  BY DEF IInv
<1>a. Mode' = Mode /\ input' = input
  BY SameInput
<1>1. ASSUME outcome' = outcome, stamped' \union stamps' \subseteq stamped \union stamps,
             pc' \in {"check", "hook", "units", "record"} => pc' = pc
      PROVE  Earned'
  BY <1>0, <1>a, <1>1 DEF Earned, Ended
<1>2. CASE Refuse
  BY <1>1, <1>2 DEF Refuse
<1>3. CASE OpenRun
  <2>1. \A s \in stamped \union stamps : Mode = "scopes" /\ Ended(s)
    BY <1>0, <1>3 DEF OpenRun, Earned
  <2>2. outcome = <<>>
    BY <1>0, <1>3 DEF OpenRun, Unbegun, Before
  <2>3. stamped \union stamps = {}
    BY <2>1, <2>2 DEF Ended
  <2>4. QED
    BY <1>3, <2>3 DEF OpenRun, Earned
<1>4. CASE PreHook
  <2>1. \A s \in stamped \union stamps : Mode = "scopes" /\ Ended(s)
    BY <1>0, <1>4 DEF PreHook, Earned
  <2>2. outcome = <<>>
    BY <1>0, <1>4 DEF PreHook, Unbegun, Before
  <2>3. stamped \union stamps = {}
    BY <2>1, <2>2 DEF Ended
  <2>4. QED
    BY <1>4, <2>3 DEF PreHook, Earned
<1>5. CASE Take
  <2>1. PICK u \in DOMAIN outcome : stamps' = IF StampsNow(u) THEN {u} ELSE {}
    BY <1>5 DEF Take
  <2>2. UNCHANGED <<outcome, stamped, pc>>
    BY <1>5 DEF Take
  <2>3. \A s \in stamps' : s = u /\ Mode = "scopes" /\ ~input.dryRun /\ Ended(s) /\ outcome[s] = 0
    BY <2>1 DEF StampsNow, Ended
  <2>4. QED
    BY <1>0, <1>a, <2>2, <2>3 DEF Earned, Ended
<1>6. CASE Propagate
  BY <1>1, <1>6 DEF Propagate
<1>7. CASE LoopEnds
  <2>1. stamps = {} /\ UNCHANGED <<outcome, stamped, rc>> /\ pc' = "stamp" /\ stamps' = StampsLater(rc)
    BY <1>7 DEF LoopEnds
  <2>2. CASE stamps' = {}
    BY <1>1, <2>1, <2>2
  <2>3. CASE stamps' # {}
    <3>1. Mode # "scopes" /\ ~input.dryRun /\ rc = 0
      BY <2>1, <2>3 DEF StampsLater
    <3>2. Looping /\ ~stopped
      BY <1>0, <1>7, <3>1 DEF LoopEnds, Looping, CodeOfTaken
    <3>3. \A u \in ToSet(order) : u \in ToSet(results)
      BY <1>0, <1>7, <3>2, TakenUnits DEF LoopEnds
    <3>4. \A u \in DOMAIN outcome : outcome[u] = 0
      BY <1>0, <3>1, <3>2, <3>3 DEF CodeOfTaken, TypeOK
    <3>5. QED
      BY <1>0, <1>a, <2>1, <3>1, <3>4 DEF Earned
  <2>4. QED
    BY <2>2, <2>3
<1>8. CASE FleetReturns
  <2>1. /\ UNCHANGED <<outcome, stamped>> /\ pc' = "stamp" /\ Mode = "fleet"
        /\ stamps' # {} => ~input.dryRun /\ Failures = {}
    BY <1>8 DEF FleetReturns, StampsLater
  <2>2. stamped = {} /\ stamps = {}
    BY <1>0, <1>8 DEF FleetReturns, Earned
  <2>3. QED
    BY <1>a, <2>1, <2>2 DEF Earned, Failures
<1>9. CASE StampScope
  BY <1>1, <1>9 DEF StampScope
<1>10. CASE WriteRecord
  BY <1>1, <1>10 DEF WriteRecord
<1>11. CASE RecordInLedger
  BY <1>1, <1>11 DEF RecordInLedger
<1>12. CASE Notify
  BY <1>1, <1>12 DEF Notify
<1>13. CASE PostHook
  BY <1>1, <1>13 DEF PostHook
<1>14. CASE RunUnit
  <2>1. PICK i \in DOMAIN order, o \in (IF input.dryRun THEN {0} ELSE Codes \union {Raised}) :
          /\ ~Ended(order[i])
          /\ outcome' = [u \in DOMAIN outcome \union {order[i]} |->
                           IF u = order[i] THEN o ELSE outcome[u]]
    BY <1>14 DEF RunUnit
  <2>2. UNCHANGED <<stamps, stamped, pc>> /\ pc = "units"
    BY <1>14 DEF RunUnit
  <2>3. \A s \in DOMAIN outcome : s \in DOMAIN outcome' /\ outcome'[s] = outcome[s]
    BY <2>1 DEF Ended
  <2>4. QED
    BY <1>0, <1>a, <2>2, <2>3 DEF Earned, Ended
<1>15. CASE Kill
  BY <1>1, <1>15 DEF Kill
<1>16. CASE UNCHANGED vars
  BY <1>1, <1>16 DEF vars
<1>17. QED
  BY <1>2, <1>3, <1>4, <1>5, <1>6, <1>7, <1>8, <1>9, <1>10, <1>11, <1>12, <1>13, <1>14,
     <1>15, <1>16 DEF Next, Main

-----------------------------------------------------------------------------
(* The invariant holds from the start and every step keeps it.              *)
THEOREM Invariance == Spec => []IInv
<1>1. Init => IInv
  <2> SUFFICES ASSUME Init PROVE IInv
    OBVIOUS
  <2>1. /\ pc = "check" /\ order = <<>> /\ outcome = <<>> /\ results = <<>> /\ rc = 0 /\ ~stopped
        /\ stopped \in BOOLEAN /\ stamps = {} /\ stamped = {} /\ runDir = "none"
        /\ exit = Running /\ notified = "none" /\ ledger = "none" /\ input \in Inputs
    BY DEF Init
  <2>2. record.rc = Running
    BY DEF Init, NoRecord
  <2>3. /\ <<>> \in Seq(Scopes \union Hosts)
        /\ DOMAIN outcome = {} /\ ToSet(<<>>) = {} /\ Running \notin Codes /\ 0 \in Codes
    BY <2>1 DEF ToSet, Codes, Running
  <2>4. TypeOK
    BY <2>1, <2>2, <2>3 DEF TypeOK
  <2>5. Unbegun /\ Phases /\ CodeOfTaken /\ OneByOne /\ Counted /\ Endings /\ Sent /\ Earned
    BY <2>1, <2>3 DEF Unbegun, Before, Phases, CodeOfTaken, OneByOne, Looping, Counted, Endings,
                      Sent, Earned
  <2>6. QED
    BY <2>4, <2>5 DEF IInv
<1>2. IInv /\ [Next]_vars => IInv'
  BY TypeStep, ControlStep, LoopStep, CountedStep, EarnedStep DEF IInv
<1>3. QED
  BY <1>1, <1>2, PTL DEF Spec

(* Every variable of run_deploy stays in its type.                          *)
THEOREM TypeCorrect == Spec => []TypeOK
<1>1. IInv => TypeOK
  BY DEF IInv
<1>2. QED
  BY <1>1, Invariance, PTL

(* What a deploy reports is what happened: its exit code, run.json and the  *)
(* units that ran agree, in every mode and for every hook and early return. *)
THEOREM ReportsHonestly == Spec => []ReportIsHonest
<1>1. IInv => ReportIsHonest
  <2> SUFFICES ASSUME IInv, Over PROVE ReportIsHonest
    BY DEF ReportIsHonest
  <2>1. exit \in Codes
    BY DEF Over
  <2>2. CASE runDir = "recorded"
    <3>1. exit = rc /\ record = [rc |-> rc, units |-> results]
      BY <2>1, <2>2 DEF IInv, Endings, Phases
    <3>2. record.rc = rc /\ record.units = results
      BY <3>1
    <3>3. QED
      BY <2>1, <2>2, <3>1, <3>2 DEF IInv, Counted, ReportIsHonest
  <2>3. CASE runDir # "recorded"
    <3>1. exit # 0 /\ (DOMAIN outcome = {} \/ Raises)
      BY <2>1, <2>3 DEF IInv, Endings
    <3>2. Dropped # {} => Raises
      BY <3>1 DEF Dropped
    <3>3. QED
      BY <2>3, <3>1, <3>2 DEF ReportIsHonest
  <2>4. QED
    BY <2>2, <2>3
<1>2. QED
  BY <1>1, Invariance, PTL

(* A scope is stamped as deployed only by a live run in which no unit with  *)
(* a step of that scope failed, also when the command is killed.            *)
THEOREM StampsEarned == Spec => []StampsAreEarned
<1>1. IInv => StampsAreEarned
  BY DEF IInv, Earned, StampsAreEarned
<1>2. QED
  BY <1>1, Invariance, PTL

(* A failed deploy that ran its course is notified unless --quiet, and a    *)
(* success on request only.                                                 *)
THEOREM FailuresNotified == Spec => []FailuresAreNotified
<1>1. IInv => FailuresAreNotified
  BY DEF IInv, Endings, Sent, StaysSilent, Over, FailuresAreNotified
<1>2. QED
  BY <1>1, Invariance, PTL

-----------------------------------------------------------------------------
(***************************************************************************)
(* Preflight.                                                              *)
(***************************************************************************)
(* Every boolean and integer that a loader reads is one that validation has *)
(* looked at.                                                               *)
LEMMA CheckedCells ==
  /\ LoadedBooleans \subseteq Booleans
  /\ PolicyBooleans \subseteq Booleans
  /\ CharAt \in AtLeastOne
  /\ <<"database", "password">> \notin Allowed
<1>1. LoadedBooleans \subseteq Booleans
  BY DEF LoadedBooleans, Booleans
<1>2. PolicyBooleans \subseteq Booleans
  <2>1. Providers \X {"enabled", "fail_closed"} \subseteq Booleans
    BY Zenon DEF Booleans
  <2>2. {"access"} \X {"deny_root", "allow_remote_cmd"} \subseteq Booleans
    BY Zenon DEF Booleans
  <2>3. <<"access.providers", "fail_closed">> \in Booleans
    BY DEF Booleans
  <2>4. QED
    BY <2>1, <2>2, <2>3 DEF PolicyBooleans
<1>3. CharAt \in AtLeastOne
  BY DEF CharAt, AtLeastOne
<1>4. <<"database", "password">> \notin Allowed
  BY DEF Allowed, Booleans, AtLeastOne, AtLeastZero, OneOf, Required, RequiredOfScope, Providers
<1>5. QED
  BY <1>1, <1>2, <1>3, <1>4

(* What validate_config accepts can be used: an INI file by load_config and *)
(* the access policy, the databases of a YAML file by load_database_targets. *)
LEMMA ValidLoads ==
  ASSUME NEW c, Valid(c)
  PROVE  /\ c.format = "ini" => ~LoadRaises(c) /\ Policy(c).errors = {}
         /\ c.format = "yaml" => ~DatabasesRaise(c)
<1>1. ASSUME c.format = "ini"
      PROVE  ~LoadRaises(c) /\ Policy(c).errors = {}
  <2>1. c.parses /\ IniFaults(c) = {}
    BY <1>1 DEF Valid
  <2>2. \A x \in Booleans \intersect Present(c) : IsBool(c.cell[x])
    BY <2>1 DEF IniFaults, BadBooleans
  <2>3. \A x \in AtLeastOne \intersect Present(c) : IsInt(c.cell[x])
    BY <2>1 DEF IniFaults, BadIntegers
  <2>4. ~IniLoadRaises(c)
    BY <2>2, <2>3, CheckedCells DEF IniLoadRaises
  <2>5. {x \in PolicyBooleans \intersect Present(c) : ~IsBool(c.cell[x])} = {}
    BY <2>2, CheckedCells
  <2>6. Policy(c).errors = {}
    BY <1>1, <2>1, <2>5 DEF Policy
  <2>7. QED
    BY <1>1, <2>1, <2>4, <2>6 DEF LoadRaises
<1>2. ASSUME c.format = "yaml"
      PROVE  ~DatabasesRaise(c)
  <2>1. c.parses /\ YamlDatabase(c) = {}
    BY <1>2 DEF Valid, YamlFaults
  <2>2. SecretKeys \intersect Present(c) = {}
    BY <2>1, CheckedCells DEF SecretKeys, YamlDatabase
  <2>3. BadDatabase(c) = {} /\ (Has(c, "database") => <<"database", "engine">> \in Present(c))
    BY <2>1 DEF YamlDatabase
  <2>4. QED
    BY <2>1, <2>2, <2>3 DEF DatabasesRaise
<1>3. QED
  BY <1>1, <1>2

(* The keys of the access policy that init writes, and the names of others. *)
PolicyKeys == {"access"} \X {"allowed_users", "allowed_groups", "denied_users", "deny_root", "allow_remote_cmd"}
MaxParallel == <<"local81", "max_parallel">>
SourceDir == <<"scope", "source_dir">>
TargetDir == <<"scope", "target_dir">>

(* The keys that guided and init write: all are known, none is of a         *)
(* database, and two of them are integers.                                  *)
LEMMA KnownKeys ==
  /\ Keys \union PolicyKeys \subseteq Allowed
  /\ \A x \in Keys \union PolicyKeys : x[1] # "database"
  /\ (AtLeastOne \union AtLeastZero) \intersect (Keys \union PolicyKeys) = {MaxParallel, CharAt}
  /\ OneOf \intersect PolicyKeys = {} /\ NonEmpty \intersect PolicyKeys = {}
<1>1. Keys \subseteq Allowed
  <2>1. {<<"scope", "backup">>} \subseteq Booleans
    BY DEF Booleans
  <2>2. Required \union RequiredOfScope \union Booleans \union {<<"scope", "rsync_opts">>} \subseteq Allowed
    BY Zenon DEF Allowed
  <2>3. QED
    BY <2>1, <2>2, Zenon DEF Keys
<1>2. PolicyKeys \subseteq Allowed
  <2>1. {"access"} \X {"deny_root", "allow_remote_cmd"} \subseteq Booleans
    BY Zenon DEF Booleans
  <2>2. ({"access"} \X {"allowed_users", "denied_users", "allowed_groups"}) \union Booleans \subseteq Allowed
    BY Zenon DEF Allowed
  <2>3. QED
    BY <2>1, <2>2 DEF PolicyKeys
<1>3. \A x \in Keys \union PolicyKeys : x[1] # "database"
  BY DEF Keys, PolicyKeys, Required, RequiredOfScope
<1>4. (AtLeastOne \union AtLeastZero) \intersect (Keys \union PolicyKeys) = {MaxParallel, CharAt}
  BY DEF Keys, PolicyKeys, Required, RequiredOfScope, AtLeastOne, AtLeastZero, MaxParallel, CharAt
<1>5. OneOf \intersect PolicyKeys = {} /\ NonEmpty \intersect PolicyKeys = {}
  BY DEF OneOf, NonEmpty, PolicyKeys
<1>6. QED
  BY <1>1, <1>2, <1>3, <1>4, <1>5

(* A key is a boolean, an integer, a choice or a text, one of these only.   *)
LEMMA Disjoint ==
  /\ Booleans \intersect OneOf = {} /\ AtLeastOne \intersect (Booleans \union OneOf) = {}
  /\ {MaxParallel, CharAt} \intersect (Booleans \union OneOf) = {}
  /\ {Project, Servers, SourceDir, TargetDir} \intersect (Booleans \union OneOf \union AtLeastOne) = {}
  /\ NonEmpty \subseteq {Project, Servers, SourceDir, TargetDir} \union OneOf
<1>1. <<"local81", "version">> \notin Booleans
  BY DEF Booleans, Providers
<1>2. <<"local81", "default_scope">> \notin Booleans
  BY DEF Booleans, Providers
<1>3. <<"compliance", "fail_on">> \notin Booleans
  BY DEF Booleans, Providers
<1>4. <<"ssh", "strict_host_key_checking">> \notin Booleans
  BY DEF Booleans, Providers
<1>5. <<"compliance", "scope">> \notin Booleans
  BY DEF Booleans, Providers
<1>6. <<"scope", "discovery">> \notin Booleans
  BY DEF Booleans, Providers
<1>7. Project \notin Booleans /\ Servers \notin Booleans
  BY DEF Booleans, Providers, Project, Servers
<1>8. SourceDir \notin Booleans /\ TargetDir \notin Booleans
  BY DEF Booleans, Providers, SourceDir, TargetDir
<1>9. MaxParallel \notin Booleans /\ CharAt \notin Booleans
  BY DEF Booleans, Providers, MaxParallel, CharAt
<1>10. Booleans \intersect OneOf = {}
  BY <1>1, <1>2, <1>3, <1>4, <1>5, <1>6 DEF OneOf
<1>11. {MaxParallel, CharAt} \intersect OneOf = {}
  BY DEF OneOf, MaxParallel, CharAt
<1>12. {Project, Servers, SourceDir, TargetDir} \intersect (OneOf \union AtLeastOne) = {}
  BY DEF OneOf, AtLeastOne, Project, Servers, SourceDir, TargetDir
<1>13. NonEmpty \subseteq {Project, Servers, SourceDir, TargetDir} \union OneOf
  BY DEF NonEmpty, OneOf, Project, Servers, SourceDir, TargetDir
<1>14. <<"ssh", "port">> \notin Booleans /\ <<"ssh", "connect_timeout">> \notin Booleans
  BY DEF Booleans, Providers
<1>15. <<"access.external", "timeout_seconds">> \notin Booleans
  BY DEF Booleans, Providers
<1>16. AtLeastOne \intersect (Booleans \union OneOf) = {}
  <2>1. AtLeastOne \intersect Booleans = {}
    BY <1>9, <1>14, <1>15 DEF AtLeastOne, MaxParallel, CharAt
  <2>2. AtLeastOne \intersect OneOf = {}
    BY DEF AtLeastOne, OneOf
  <2>3. QED
    BY <2>1, <2>2
<1>17. {Project, Servers, SourceDir, TargetDir} \intersect (Booleans \union OneOf \union AtLeastOne) = {}
  BY <1>7, <1>8, <1>12
<1>18. {MaxParallel, CharAt} \intersect (Booleans \union OneOf) = {}
  BY <1>9, <1>11
<1>19. QED
  BY <1>10, <1>13, <1>16, <1>17, <1>18, Zenon

(* What guided and init write of a key without asking is what it expects.   *)
LEMMA Literals ==
  /\ \A x \in Booleans : Literal(x) \in {"on", "off"}
  /\ \A x \in OneOf : Literal(x) = "ok"
  /\ Literal(MaxParallel) = "9" /\ Literal(CharAt) = "9"
  /\ Literal(TargetDir) = "text"
<1>1. <<"defaults", "dry_run_default">> \in Booleans
  BY DEF Booleans
<1>2. MaxParallel \in AtLeastOne /\ CharAt \in AtLeastOne
  BY DEF AtLeastOne, MaxParallel, CharAt
<1>3. ASSUME NEW x \in Booleans PROVE Literal(x) \in {"on", "off"}
  BY Disjoint DEF Literal
<1>4. ASSUME NEW x \in OneOf PROVE Literal(x) = "ok"
  BY <1>1, Disjoint DEF Literal
<1>5. Literal(MaxParallel) = "9" /\ Literal(CharAt) = "9"
  BY <1>1, <1>2, Disjoint DEF Literal
<1>6. Literal(TargetDir) = "text"
  BY <1>1, Disjoint DEF Literal
<1>7. QED
  BY <1>3, <1>4, <1>5, <1>6

(* A file with every required key, no unknown one, and values of the kinds  *)
(* that the keys expect has no fault but what is blank.                     *)
LEMMA FaultsAreBlanks ==
  ASSUME NEW c,
         Required \union RequiredOfScope \subseteq Present(c),
         Present(c) \subseteq Keys \union PolicyKeys,
         \A x \in Booleans \intersect Present(c) : c.cell[x] \in {"on", "off"},
         \A x \in OneOf \intersect Present(c) : c.cell[x] = "ok",
         \A x \in {MaxParallel, CharAt} \intersect Present(c) : c.cell[x] \in {"1", "9"}
  PROVE  /\ IniFaults(c) = Blank(c)
         /\ Blank(c) \subseteq {Project, Servers, SourceDir, TargetDir}
<1>1. Present(c) \ Allowed = {}
  BY KnownKeys
<1>2. Missing(c) = {}
  BY KnownKeys DEF Missing, Has
<1>3. BadBooleans(c) = {}
  BY DEF BadBooleans, IsBool
<1>4. BadIntegers(c) = {}
  <2>1. \A x \in (AtLeastOne \union AtLeastZero) \intersect Present(c) : c.cell[x] \in {"1", "9"}
    BY KnownKeys
  <2>2. \A v \in {"1", "9"} : IsInt(v) /\ Number(v) >= 1 /\ Number(v) \in Int
    BY DEF IsInt, Number
  <2>3. \A x : Minimum(x) \in {0, 1}
    BY DEF Minimum
  <2>4. \A v \in {"1", "9"}, m \in {0, 1} : IsInt(v) /\ ~(Number(v) < m)
    BY <2>2
  <2>5. QED
    BY <2>1, <2>3, <2>4 DEF BadIntegers
<1>5. BadChoices(c) = {}
  BY DEF BadChoices
<1>6. Blank(c) \subseteq {Project, Servers, SourceDir, TargetDir}
  BY Disjoint DEF Blank
<1>7. QED
  BY <1>1, <1>2, <1>3, <1>4, <1>5, <1>6 DEF IniFaults

(* What guided writes has no fault but an empty project or list of servers. *)
LEMMA GuidedIsValid ==
  ASSUME NEW r, ~Cancelled(r)
  PROVE  /\ IniFaults(Guided(r)) = Blank(Guided(r))
         /\ Blank(Guided(r)) \subseteq {Project, Servers}
<1> DEFINE c == Guided(r)
           Backups == {<<"defaults", "backup">>, <<"scope", "backup">>}
           FailFast == <<"local81", "fail_fast">>
<1>1. Present(c) = Keys
  BY DEF Present, Guided
<1>2. ASSUME NEW x \in Keys
      PROVE  c.cell[x] = CASE x = Project -> r.project
                           [] x = Servers -> Normalized(Asked(r.servers))
                           [] x = MaxParallel -> Positive(r.maxParallel)
                           [] x = FailFast -> OnOff(r.failFast)
                           [] x \in Backups -> OnOff(r.backup)
                           [] x = SourceDir -> Source(r)
                           [] OTHER -> Literal(x)
  BY DEF Guided, MaxParallel, SourceDir
<1> HIDE DEF c
<1>3. ASSUME NEW x \in Booleans \intersect Keys PROVE c.cell[x] \in {"on", "off"}
  <2>1. x \notin {Project, Servers, MaxParallel, SourceDir}
    BY Disjoint
  <2>2. Literal(x) \in {"on", "off"} /\ OnOff(r.failFast) \in {"on", "off"} /\ OnOff(r.backup) \in {"on", "off"}
    BY Literals DEF OnOff
  <2>3. QED
    BY <1>2, <2>1, <2>2
<1>4. ASSUME NEW x \in OneOf \intersect Keys PROVE c.cell[x] = "ok"
  <2>1. x \notin {Project, Servers, MaxParallel, SourceDir}
    BY Disjoint
  <2>2. FailFast \in Booleans /\ Backups \subseteq Booleans
    BY DEF Booleans
  <2>3. x # FailFast /\ x \notin Backups
    BY <2>2, Disjoint
  <2>4. QED
    BY <1>2, <2>1, <2>3, Literals
<1>5. c.cell[MaxParallel] \in {"1", "9"} /\ c.cell[CharAt] = "9"
  <2>1. Positive(r.maxParallel) \in {"1", "9"}
    BY DEF Positive, IsInt, Number
  <2>2. MaxParallel \in Keys /\ CharAt \in Keys
    BY DEF Keys, Required, MaxParallel, CharAt
  <2>3. c.cell[MaxParallel] = Positive(r.maxParallel)
    BY <1>2, <2>2 DEF MaxParallel, Project, Servers, SourceDir
  <2>4. c.cell[CharAt] = Literal(CharAt)
    BY <1>2, <2>2 DEF MaxParallel, CharAt, Project, Servers, SourceDir
  <2>5. QED
    BY <2>1, <2>3, <2>4, Literals
<1>6. /\ IniFaults(c) = Blank(c)
      /\ Blank(c) \subseteq {Project, Servers, SourceDir, TargetDir}
  <2>1. Required \union RequiredOfScope \subseteq Keys
    BY DEF Keys
  <2>2. QED
    BY <1>1, <1>3, <1>4, <1>5, <2>1, FaultsAreBlanks
<1>7. SourceDir \notin Blank(c) /\ TargetDir \notin Blank(c)
  <2>1. SourceDir \in Keys /\ TargetDir \in Keys
    BY DEF SourceDir, TargetDir, Keys, RequiredOfScope
  <2>2. c.cell[SourceDir] = Source(r)
    BY <1>2, <2>1 DEF MaxParallel, Project, Servers, SourceDir
  <2>3. c.cell[TargetDir] = Literal(TargetDir)
    BY <1>2, <2>1 DEF MaxParallel, Project, Servers, SourceDir, TargetDir
  <2>4. QED
    BY <2>2, <2>3, Literals DEF Cancelled, Blank
<1>8. QED
  BY <1>6, <1>7 DEF c

(* What init makes of a legacy file has no fault but what was blank there.  *)
LEMMA ConvertedIsValid ==
  ASSUME NEW l, NEW p, Complete(l)
  PROVE  IniFaults(Converted(l, p)) = Blank(Converted(l, p))
<1> DEFINE c == Converted(l, p)
           scope == {"scope"} \X (Kept(l) \union {"source_dir", "target_dir", "servers"})
           D == Required \union RequiredOfScope \union PolicyKeys \union scope
<1>1. Present(c) = D
  BY DEF Present, Converted, PolicyKeys
<1>2. ASSUME NEW x \in D
      PROVE  c.cell[x] = CASE x = Project -> p
                           [] x \in scope -> Normalized(l[x[2]])
                           [] x \in PolicyKeys -> IF x \in Booleans THEN "off" ELSE ""
                           [] OTHER -> Literal(x)
  BY DEF Converted, PolicyKeys
<1> HIDE DEF c
<1>3. Kept(l) \subseteq {"rsync_opts", "backup"} /\ ("backup" \in Kept(l) => l["backup"] \in {"on", "off"})
  BY DEF Kept
<1>4. D \subseteq Keys \union PolicyKeys
  <2>1. scope \subseteq RequiredOfScope \union {<<"scope", "rsync_opts">>, <<"scope", "backup">>}
    BY <1>3 DEF RequiredOfScope
  <2>2. QED
    BY <2>1, Zenon DEF Keys
<1>5. /\ scope \intersect PolicyKeys = {} /\ Project \notin scope \union PolicyKeys
      /\ scope \intersect {MaxParallel, CharAt} = {} /\ scope \intersect OneOf = {}
  BY <1>3 DEF PolicyKeys, Project, MaxParallel, CharAt, OneOf
<1>6. scope \intersect Booleans \subseteq {<<"scope", "backup">>}
  <2>1. <<"scope", "rsync_opts">> \notin Booleans
    BY DEF Booleans, Providers
  <2>2. scope \subseteq {<<"scope", "rsync_opts">>, <<"scope", "backup">>, SourceDir, TargetDir, Servers}
    BY <1>3 DEF SourceDir, TargetDir, Servers
  <2>3. QED
    BY <2>1, <2>2, Disjoint
<1>7. ASSUME NEW x \in Booleans \intersect D PROVE c.cell[x] \in {"on", "off"}
  <2>1. x # Project /\ Literal(x) \in {"on", "off"}
    BY Disjoint, Literals
  <2>2. CASE x \in scope
    <3>1. x = <<"scope", "backup">> /\ "backup" \in Kept(l)
      BY <1>6, <2>2
    <3>2. Normalized(l[x[2]]) \in {"on", "off"}
      BY <1>3, <3>1 DEF Normalized
    <3>3. QED
      BY <1>2, <1>5, <2>1, <2>2, <3>2
  <2>3. CASE x \notin scope
    BY <1>2, <2>1, <2>3
  <2>4. QED
    BY <2>2, <2>3
<1>8. ASSUME NEW x \in OneOf \intersect D PROVE c.cell[x] = "ok"
  BY <1>2, <1>5, KnownKeys, Disjoint, Literals
<1>9. ASSUME NEW x \in {MaxParallel, CharAt} \intersect D PROVE c.cell[x] = "9"
  <2>1. x \notin PolicyKeys /\ x # Project
    BY DEF PolicyKeys, MaxParallel, CharAt, Project
  <2>2. QED
    BY <1>2, <1>5, <2>1, Literals
<1>10. QED
  BY <1>1, <1>4, <1>7, <1>8, <1>9, FaultsAreBlanks DEF c

ActionNames == {"create", "update", "none", "unknown", "run"}

(* What the gate comes to is one of five actions.                           *)
LEMMA Actions ==
  ASSUME NEW step, NEW t, NEW way
  PROVE  StepAction(step, t, way) \in ActionNames
<1>1. \A f, w : FileAction(f, w) \in ActionNames /\ DirAction(f, w) \in ActionNames
                  /\ ServiceAction(f, w) \in ActionNames /\ PackageAction(f, w) \in ActionNames
  BY DEF FileAction, DirAction, ServiceAction, PackageAction, ActionNames
<1>2. Gated(step) => \A out : Action(step, out) \in ActionNames
  BY <1>1 DEF Gated, Ops, Action
<1>3. QED
  BY <1>2 DEF StepAction, ActionNames

(* Probes tell the truth of what a command has brought about: once a step's *)
(* command has done its work on a host that answers, the gate finds the     *)
(* target converged, unless it is one that no probe can tell about.         *)
LEMMA BroughtIsFound ==
  ASSUME NEW step, NEW t, Gated(step), Fits(step, t), ~Blind(step, Brought(step, t))
  PROVE  Action(step, Printed(step, Brought(step, t))) = "none"
<1>1. CASE step.op = "file.synced"
  <2> DEFINE u == Brought(step, t)
  <2>1. u.is = "file" /\ u.content = step.want.sha256 /\ (step.want.meta # "" => u.meta = step.want.meta)
    BY <1>1 DEF Brought, Blind, Unprovable
  <2> HIDE DEF u
  <2>2. PathFact(FileProbe(u), "is_file") = [there |-> TRUE, meta |-> u.meta, content |-> u.content]
    BY <2>1 DEF FileProbe, PathFact, Get
  <2>3. FileAction(PathFact(FileProbe(u), "is_file"), step.want) = "none"
    <3> DEFINE f == PathFact(FileProbe(u), "is_file")
    <3>1. f = [there |-> TRUE, meta |-> u.meta, content |-> u.content]
      BY <2>2
    <3> HIDE DEF f
    <3>2. f.there = TRUE /\ f.content = step.want.sha256 /\ (step.want.meta # "" => f.meta = step.want.meta)
      BY <2>1, <3>1
    <3>3. FileAction(f, step.want) = "none"
      BY <3>2 DEF FileAction, MetaDrift
    <3>4. QED
      BY <3>3 DEF f
  <2>4. QED
    BY <1>1, <2>3 DEF Action, Printed, u
<1>2. CASE step.op = "dir.present"
  BY <1>2 DEF Fits, Brought, Action, Printed, DirProbe,
              PathFact, DirAction, MetaDrift, Get
<1>3. CASE step.op = "service.running"
  BY <1>3 DEF Fits, Blind, Brought, Action, Printed, ServiceProbe,
              ServiceFact, ServiceAction, Get, ActiveStates
<1>4. CASE step.op = "package.present"
  BY <1>4 DEF Fits, Blind, Brought, Action, Printed, PackageProbe,
              Installed, PackageAction, Get
<1>5. QED
  BY <1>1, <1>2, <1>3, <1>4 DEF Gated, Ops

(* What the gate takes for converged is as wanted, or no probe can tell.    *)
LEMMA ConvergedIsWanted ==
  ASSUME NEW step, NEW t, Gated(step), Fits(step, t), Action(step, Printed(step, t)) = "none"
  PROVE  AsWanted(step, t) \/ Blind(step, t)
<1>1. CASE step.op = "file.synced"
  BY <1>1 DEF Fits, AsWanted, Action, Printed, FileProbe,
              PathFact, FileAction, MetaDrift, Get
<1>2. CASE step.op = "dir.present"
  BY <1>2 DEF Fits, AsWanted, Action, Printed, DirProbe,
              PathFact, DirAction, MetaDrift, Get
<1>3. CASE step.op = "service.running"
  BY <1>3 DEF Fits, AsWanted, Action, Printed, ServiceProbe,
              ServiceFact, ServiceAction, Get
<1>4. CASE step.op = "package.present"
  BY <1>4 DEF Fits, Blind, AsWanted, Action, Printed, PackageProbe,
              Installed, PackageAction, Get
<1>5. QED
  BY <1>1, <1>2, <1>3, <1>4 DEF Gated, Ops

(* What a command leaves is as wanted, or no probe could tell.              *)
LEMMA BroughtIsWanted ==
  ASSUME NEW step, NEW t, Gated(step), Fits(step, t)
  PROVE  /\ Fits(step, Brought(step, t))
         /\ AsWanted(step, Brought(step, t)) \/ Blind(step, Brought(step, t))
<1>1. CASE step.op = "file.synced"
  BY <1>1 DEF Fits, Brought, AsWanted, Blind, Unprovable
<1>2. CASE step.op = "dir.present"
  BY <1>2 DEF Fits, Brought, AsWanted
<1>3. CASE step.op = "service.running"
  <2> DEFINE u == Brought(step, t)
             w == step.want
  <2>1. w \in [active : BOOLEAN, enabled : BOOLEAN] /\ Fits(step, u)
    BY <1>3 DEF Fits
  <2>2. /\ u.active = IF w.active THEN "active" ELSE "inactive"
        /\ t.enabled = "static" => u.enabled = "static"
        /\ t.enabled # "static" => u.enabled = IF w.enabled THEN "enabled" ELSE "disabled"
    BY <1>3 DEF Brought
  <2>3. AsWanted(step, u) \/ Blind(step, u)
    <3> HIDE DEF u
    <3>1. CASE t.enabled = "static"
      BY <1>3, <2>2, <3>1 DEF Blind
    <3>2. CASE t.enabled # "static"
      BY <1>3, <2>1, <2>2, <3>2 DEF AsWanted
    <3>3. QED
      BY <3>1, <3>2
  <2>4. QED
    BY <2>1, <2>3
<1>4. CASE step.op = "package.present"
  BY <1>4 DEF Fits, Brought, AsWanted
<1>5. QED
  BY <1>1, <1>2, <1>3, <1>4 DEF Gated, Ops

(* A command makes no drift: where the probe of a host that answers saw     *)
(* nothing to update, it sees nothing to update afterwards.                 *)
LEMMA BroughtIsNoDrift ==
  ASSUME NEW step, NEW t, Fits(step, t), StepAction(step, t, "answers") # "update"
  PROVE  StepAction(step, Brought(step, t), "answers") # "update"
<1>1. CASE ~Gated(step) \/ Unprovable(step)
  BY <1>1 DEF StepAction
<1>2. CASE Gated(step) /\ ~Unprovable(step)
  <2>1. Action(step, Printed(step, t)) # "update"
    BY <1>2 DEF StepAction
  <2>2. Action(step, Printed(step, Brought(step, t))) # "update"
    <3>1. CASE ~Blind(step, Brought(step, t))
      BY <1>2, <3>1, BroughtIsFound
    <3>2. CASE Blind(step, Brought(step, t)) /\ step.op = "service.running"
      BY <2>1, <3>2 DEF Fits, Blind, Unprovable, Brought, Action, Printed, ServiceProbe,
                        ServiceFact, ServiceAction, Get, ActiveStates
    <3>3. CASE Blind(step, Brought(step, t)) /\ step.op # "service.running"
      BY <1>2, <2>1, <3>3 DEF Fits, Blind, Brought, Action, Printed, PackageProbe,
                        Installed, PackageAction, Get
    <3>4. QED
      BY <3>1, <3>2, <3>3
  <2>3. QED
    BY <1>2, <2>2 DEF StepAction
<1>3. QED
  BY <1>1, <1>2

-----------------------------------------------------------------------------
Users == Actors \union {Nobody}
JobType == [cmd : {"none", "check", "deploy"}, at : {"none", "config", "probe", "policy", "load", "gate", "run"},
            step : Nat, actions : Seq(ActionNames), failed : BOOLEAN, allowDrift : BOOLEAN, actor : Users]
RunType == [actor : Users, end : {"none", "working", "refused", "raised", "finished"},
            actions : Seq(ActionNames), rcs : Seq({0, 1})]
CheckType == [actor : Users, allowDrift : BOOLEAN]

(* A configuration is written by hand, imported, or what guided or init     *)
(* writes.                                                                  *)
Written(c) ==
  \/ HandWritten(c)
  \/ c.format = "ini" /\ c.by = "import"
  \/ \E r \in Replies : ~Cancelled(r) /\ c = Guided(r)
  \/ \E l \in Legacies, p \in {"text", ""} : Complete(l) /\ c = Converted(l, p)

Typed ==
  /\ job \in JobType /\ run \in RunType /\ passed \in CheckType
  /\ calm \in BOOLEAN /\ same \in SUBSET {"config", "world"}
  /\ changes \in Nat /\ jobs \in 0 .. MaxJobs
  /\ Written(config)
  /\ \E w \in Worlds : plan = w.plan

(* What a plan of a world is like, as far as anything depends on it.        *)
LEMMA PlanFacts ==
  ASSUME Typed
  PROVE  /\ Steps \in Seq(StepType)
         /\ DOMAIN Steps = 1 .. Len(Steps) /\ Len(Steps) \in Nat
         /\ plan.parses \in BOOLEAN /\ plan.sound \in BOOLEAN
         /\ \A i \in DOMAIN Steps : \A t \in Others(Steps[i].op) : Fits(Steps[i], t)
<1>1. PICK w \in Worlds : plan = w.plan
  BY DEF Typed
<1>2. /\ w.plan.steps \in Seq(StepType)
      /\ w.plan.parses \in BOOLEAN /\ w.plan.sound \in BOOLEAN
      /\ \A i \in DOMAIN w.plan.steps : \A t \in Others(w.plan.steps[i].op) : Fits(w.plan.steps[i], t)
  BY WorldsAssumption
<1>3. Steps = w.plan.steps
  BY <1>1 DEF Steps
<1>4. Steps \in Seq(StepType)
  BY <1>2, <1>3
<1>5. DOMAIN Steps = 1 .. Len(Steps) /\ Len(Steps) \in Nat
  BY <1>4
<1>6. QED
  BY <1>1, <1>2, <1>3, <1>4, <1>5

(* A cell map aside, the configuration keeps being one of the four kinds.   *)
LEMMA ImportedIsWritten ==
  ASSUME NEW c, HandWritten(c), Importable(c), NEW p
  PROVE  Written(Imported(c, p))
<1> DEFINE d == Imported(c, p)
<1>1. c \in [format : {"none", "ini", "yaml"}, parses : BOOLEAN, by : {"hand"}, cell : [DOMAIN c.cell -> Values]]
  BY DEF HandWritten
<1>2. d.by = "import" /\ d.format = c.format
  BY <1>1 DEF Imported
<1>3. QED
  BY <1>2 DEF Written, Importable

Moved(at, n, actions, f) ==
  [cmd |-> job.cmd, at |-> at, step |-> n, actions |-> actions, failed |-> f,
   allowDrift |-> job.allowDrift, actor |-> job.actor]

(* A command at work keeps its type when it moves on.                       *)
LEMMA JobMoves ==
  ASSUME job \in JobType, NEW at \in {"probe", "load", "gate", "run"}, NEW n \in Nat,
         NEW actions \in Seq(ActionNames), NEW f \in BOOLEAN
  PROVE  Moved(at, n, actions, f) \in JobType
<1>1. job.cmd \in {"none", "check", "deploy"} /\ job.allowDrift \in BOOLEAN /\ job.actor \in Users
  BY DEF JobType
<1>2. QED
  BY <1>1 DEF JobType, Moved

(* Nothing at work, no deploy and no check are of their types.              *)
LEMMA InitialTypes ==
  Nobody \in Users /\ Idle \in JobType /\ NoRun \in RunType /\ NoCheck \in CheckType
<1>1. Nobody \in Users
  BY DEF Users
<1>2. Idle \in JobType
  BY <1>1 DEF Idle, JobType
<1>3. NoRun \in RunType
  BY <1>1 DEF NoRun, RunType
<1>4. NoCheck \in CheckType
  BY <1>1 DEF NoCheck, CheckType
<1>5. QED
  BY <1>1, <1>2, <1>3, <1>4

(* What the commands do with the job, field by field.                       *)
LEMMA JobSteps ==
  ASSUME job \in JobType
  PROVE  /\ CheckConfig => \E f \in BOOLEAN : job' = Moved("probe", 1, job.actions, f)
         /\ CheckProbe => \E f \in BOOLEAN :
              job' = Moved("probe", job.step + 1, Append(job.actions, Probed(job.step)), f)
         /\ [job EXCEPT !.at = "load"] = Moved("load", job.step, job.actions, job.failed)
         /\ [job EXCEPT !.at = "run"] = Moved("run", job.step, job.actions, job.failed)
         /\ [job EXCEPT !.at = "gate", !.step = 1] = Moved("gate", 1, job.actions, job.failed)
         /\ [job EXCEPT !.step = job.step + 1] = Moved(job.at, job.step + 1, job.actions, job.failed)
         /\ [job EXCEPT !.at = "gate", !.step = job.step + 1] = Moved("gate", job.step + 1, job.actions, job.failed)
<1>1. ASSUME CheckConfig PROVE \E f \in BOOLEAN : job' = Moved("probe", 1, job.actions, f)
  <2> DEFINE f == job.failed \/ ~Valid(config)
  <2>1. job' = [job EXCEPT !.failed = f, !.at = "probe", !.step = 1] /\ f \in BOOLEAN
    BY <1>1 DEF CheckConfig
  <2> HIDE DEF f
  <2>2. job' = Moved("probe", 1, job.actions, f)
    BY <2>1 DEF JobType, Moved
  <2>3. QED
    BY <2>1, <2>2
<1>2. ASSUME CheckProbe
      PROVE  \E f \in BOOLEAN : job' = Moved("probe", job.step + 1, Append(job.actions, Probed(job.step)), f)
  <2> DEFINE f == job.failed \/ (Drift(Probed(job.step)) /\ ~job.allowDrift)
             actions == Append(job.actions, Probed(job.step))
  <2>1. job' = [job EXCEPT !.step = job.step + 1, !.actions = actions, !.failed = f] /\ f \in BOOLEAN /\ job.at = "probe"
    BY <1>2 DEF CheckProbe
  <2> HIDE DEF f, actions
  <2>2. job' = Moved("probe", job.step + 1, actions, f)
    BY <2>1 DEF JobType, Moved
  <2>3. QED
    BY <2>1, <2>2 DEF actions
<1>3. [job EXCEPT !.at = "load"] = Moved("load", job.step, job.actions, job.failed)
  BY DEF JobType, Moved
<1>4. [job EXCEPT !.at = "run"] = Moved("run", job.step, job.actions, job.failed)
  BY DEF JobType, Moved
<1>5. ASSUME NEW at, NEW n PROVE [job EXCEPT !.at = at, !.step = n] = Moved(at, n, job.actions, job.failed)
  <2> DEFINE j == [job EXCEPT !.at = at]
  <2>1. j = Moved(at, job.step, job.actions, job.failed)
    BY DEF JobType, Moved
  <2>2. [job EXCEPT !.at = at, !.step = n] = [j EXCEPT !.step = n]
    OBVIOUS
  <2> HIDE DEF j
  <2>3. [j EXCEPT !.step = n] = Moved(at, n, job.actions, job.failed)
    BY <2>1 DEF Moved
  <2>4. QED
    BY <2>2, <2>3
<1>6. [job EXCEPT !.step = job.step + 1] = Moved(job.at, job.step + 1, job.actions, job.failed)
  BY DEF JobType, Moved
<1>7. QED
  BY <1>1, <1>2, <1>3, <1>4, <1>5, <1>6, Zenon

(* Every step of the system keeps the types, and a configuration that       *)
(* somebody, guided or init has written.                                    *)
LEMMA TypedStep ==
  ASSUME Typed, [PreflightNext]_preflightVars
  PROVE  Typed'
<1> DEFINE Rest == /\ job \in JobType /\ run \in RunType /\ passed \in CheckType
                   /\ calm \in BOOLEAN /\ same \in SUBSET {"config", "world"}
                   /\ changes \in Nat /\ jobs \in 0 .. MaxJobs
<1>1. Rest /\ Written(config) /\ \E w \in Worlds : plan = w.plan
  BY DEF Typed
<1>2. ASSUME Rest', Written(config)', plan' = plan PROVE Typed'
  BY <1>1, <1>2 DEF Typed
<1>3. ASSUME Rest', config' = config, plan' = plan PROVE Typed'
  BY <1>1, <1>2, <1>3 DEF Written
<1>4. MaxJobs \in Nat /\ \A c \in Configs : HandWritten(c)
  BY JobsAssumption, ConfigsAssumption
<1>5. Nobody \in Users /\ \A a \in Actors : a \in Users
  BY DEF Users
<1>6. CASE EditConfig
  <2>1. Written(config)'
    BY <1>4, <1>6 DEF EditConfig, Written
  <2>2. Rest' /\ plan' = plan
    BY <1>1, <1>6 DEF EditConfig
  <2>3. QED
    BY <1>2, <2>1, <2>2
<1>7. CASE SetUp
  <2>1. Written(config)'
    <3>1. ASSUME NEW c \in Configs, NEW p \in {"text", ""}, Importable(c), config' = Imported(c, p)
          PROVE  Written(config)'
      <4>1. Written(Imported(c, p))
        BY <1>4, <3>1, ImportedIsWritten
      <4>2. QED
        BY <3>1, <4>1 DEF Written
    <3>2. QED
      BY <1>7, <3>1 DEF SetUp, Written
  <2>2. /\ changes > 0 /\ changes' = changes - 1 /\ same' = same \ {"config"}
        /\ UNCHANGED <<plan, job, run, passed, calm, jobs>>
    BY <1>7 DEF SetUp
  <2>3. Rest' /\ plan' = plan
    BY <1>1, <2>2
  <2>4. QED
    BY <1>2, <2>1, <2>3
<1>8. CASE TargetChanges \/ LinkChanges
  <2>1. /\ changes > 0 /\ changes' = changes - 1 /\ same' = same \ {"world"} /\ calm' = FALSE
        /\ UNCHANGED <<config, plan, job, run, passed, jobs>>
    BY <1>8 DEF TargetChanges, LinkChanges
  <2>2. changes' \in Nat
    BY <1>1, <2>1
  <2>3. same' \in SUBSET {"config", "world"} /\ calm' \in BOOLEAN
    BY <1>1, <2>1
  <2>4. QED
    BY <1>1, <1>3, <2>1, <2>2, <2>3
<1>9. ASSUME NEW a \in Actors, StartDeploy(a) PROVE Typed'
  <2>1. job' = [cmd |-> "deploy", at |-> "policy", step |-> 0, actions |-> <<>>, failed |-> FALSE,
                allowDrift |-> FALSE, actor |-> a]
    BY <1>9 DEF StartDeploy, Idle
  <2>2. job' \in JobType
    BY <1>5, <2>1 DEF JobType
  <2>3. run' = [actor |-> a, end |-> "working", actions |-> <<>>, rcs |-> <<>>]
    BY <1>9 DEF StartDeploy, NoRun
  <2>4. run' \in RunType
    BY <1>5, <2>3 DEF RunType
  <2>5. jobs' \in 0 .. MaxJobs /\ calm' \in BOOLEAN
    BY <1>1, <1>4, <1>9 DEF StartDeploy
  <2>6. UNCHANGED <<config, plan, passed, same, changes>>
    BY <1>9 DEF StartDeploy
  <2>7. QED
    BY <1>1, <1>3, <2>2, <2>4, <2>5, <2>6
<1>10. ASSUME NEW a \in Actors, NEW d \in BOOLEAN, StartCheck(a, d) PROVE Typed'
  <2>1. plan.sound \in BOOLEAN
    BY PlanFacts
  <2>2. \/ job' = [cmd |-> "check", at |-> "config", step |-> 0, actions |-> <<>>, failed |-> ~plan.sound,
                   allowDrift |-> d, actor |-> a]
        \/ job' = Idle
    BY <1>10 DEF StartCheck, Idle
  <2>3. job' \in JobType
    <3>1. CASE job' = Idle
      BY <3>1, InitialTypes
    <3>2. CASE job' # Idle
      <4> DEFINE f == ~plan.sound
      <4>1. f \in BOOLEAN
        BY <2>1
      <4>2. job' = [cmd |-> "check", at |-> "config", step |-> 0, actions |-> <<>>, failed |-> f,
                    allowDrift |-> d, actor |-> a]
        BY <2>2, <3>2
      <4> HIDE DEF f
      <4>3. QED
        BY <1>5, <4>1, <4>2 DEF JobType
    <3>3. QED
      BY <3>1, <3>2
  <2>4. run' = NoRun /\ passed' = NoCheck
    BY <1>10 DEF StartCheck
  <2>5. run' \in RunType /\ passed' \in CheckType
    BY <2>4, InitialTypes
  <2>6. jobs' \in 0 .. MaxJobs /\ same' \in SUBSET {"config", "world"}
    BY <1>1, <1>4, <1>10 DEF StartCheck
  <2>7. UNCHANGED <<config, plan, calm, changes>>
    BY <1>10 DEF StartCheck
  <2>8. QED
    BY <1>1, <1>3, <2>3, <2>5, <2>6, <2>7
<1>11. CASE CheckConfig \/ CheckProbe
  <2>1. job.step \in Nat /\ job.actions \in Seq(ActionNames) /\ Probed(job.step) \in ActionNames
    BY <1>1, Actions DEF JobType, Probed
  <2>2. Append(job.actions, Probed(job.step)) \in Seq(ActionNames) /\ job.step + 1 \in Nat
    BY <2>1
  <2>3. job' \in JobType
    <3> DEFINE Probes == Append(job.actions, Probed(job.step))
    <3>1. PICK n \in Nat, actions \in Seq(ActionNames), f \in BOOLEAN : job' = Moved("probe", n, actions, f)
      <4>1. CASE CheckConfig
        <5>1. PICK f \in BOOLEAN : job' = Moved("probe", 1, job.actions, f)
          BY <1>1, <4>1, JobSteps
        <5>2. QED
          BY <2>1, <5>1
      <4>2. CASE CheckProbe
        <5>1. PICK f \in BOOLEAN : job' = Moved("probe", job.step + 1, Probes, f)
          BY <1>1, <4>2, JobSteps
        <5>2. QED
          BY <2>2, <5>1
      <4>3. QED
        BY <1>11, <4>1, <4>2
    <3>2. Moved("probe", n, actions, f) \in JobType
      BY <1>1, <3>1, JobMoves
    <3>3. QED
      BY <3>1, <3>2
  <2>4. QED
    BY <1>1, <1>3, <1>11, <2>3 DEF CheckConfig, CheckProbe
<1>13. CASE CheckPolicy
  <2>1. job' = Idle
    BY <1>13 DEF CheckPolicy
  <2>2. job' \in JobType
    BY <2>1, InitialTypes
  <2>3. passed' \in CheckType
    BY <1>1, <1>5, <1>13 DEF CheckPolicy, JobType, CheckType, NoCheck
  <2>4. QED
    BY <1>1, <1>3, <1>13, <2>2, <2>3 DEF CheckPolicy
<1>14. ASSUME NEW end \in {"refused", "raised", "finished"}, Ends(end) PROVE Typed'
  <2>1. job' = Idle
    BY <1>14 DEF Ends
  <2>2. job' \in JobType
    BY <2>1, InitialTypes
  <2>3. run' \in RunType
    BY <1>1, <1>14 DEF Ends, RunType
  <2>4. QED
    BY <1>1, <1>3, <1>14, <2>2, <2>3 DEF Ends
<1>15. CASE DeployPolicy \/ DeployLoad
  <2>1. CASE \E end \in {"refused", "raised", "finished"} : Ends(end)
    BY <1>14, <2>1
  <2>2. CASE ~\E end \in {"refused", "raised", "finished"} : Ends(end)
    <3>1. /\ job' = [job EXCEPT !.at = "load"] \/ job' = [job EXCEPT !.at = "gate", !.step = 1]
          /\ UNCHANGED <<config, plan, run, passed, same, calm, changes, jobs>>
      <4>1. CASE DeployPolicy
        BY <2>2, <4>1, Zenon DEF DeployPolicy
      <4>2. CASE DeployLoad
        BY <2>2, <4>2 DEF DeployLoad
      <4>3. QED
        BY <1>15, <4>1, <4>2
    <3>2. job.step \in Nat /\ job.actions \in Seq(ActionNames) /\ job.failed \in BOOLEAN
      BY <1>1 DEF JobType
    <3>3. job' \in JobType
      <4>1. \/ job' = Moved("load", job.step, job.actions, job.failed)
            \/ job' = Moved("gate", 1, job.actions, job.failed)
        BY <1>1, <3>1, JobSteps
      <4>2. /\ Moved("load", job.step, job.actions, job.failed) \in JobType
            /\ Moved("gate", 1, job.actions, job.failed) \in JobType
        BY <1>1, <3>2, JobMoves
      <4>3. QED
        BY <4>1, <4>2
    <3>4. QED
      BY <1>1, <1>3, <3>1, <3>3
  <2>3. QED
    BY <2>1, <2>2
<1>16. CASE DeployGate
  <2>1. CASE Ends("raised")
    BY <1>14, <2>1
  <2>2. CASE ~Ends("raised")
    <3>1. Probed(job.step) \in ActionNames
      BY Actions DEF Probed
    <3>2. PICK rcs \in {run.rcs, Append(run.rcs, 0)} :
            run' = [run EXCEPT !.actions = Append(run.actions, Probed(job.step)), !.rcs = rcs]
      BY <1>16, <2>2 DEF DeployGate
    <3>3. run.actions \in Seq(ActionNames) /\ run.rcs \in Seq({0, 1})
      BY <1>1 DEF RunType
    <3>4. Append(run.actions, Probed(job.step)) \in Seq(ActionNames) /\ rcs \in Seq({0, 1})
      BY <3>1, <3>2, <3>3
    <3>5. run' \in RunType
      BY <1>1, <3>2, <3>4 DEF RunType
    <3>6. job' = [job EXCEPT !.step = job.step + 1] \/ job' = [job EXCEPT !.at = "run"]
      BY <1>16, <2>2 DEF DeployGate
    <3>7. job' \in JobType
      BY <1>1, <3>6 DEF JobType
    <3>8. UNCHANGED <<config, plan, passed, same, calm, changes, jobs>>
      BY <1>16, <2>2 DEF DeployGate
    <3>9. QED
      BY <1>1, <1>3, <3>5, <3>7, <3>8
  <2>3. QED
    BY <2>1, <2>2
<1>17. CASE DeployRun
  <2>1. PICK code \in {0, 1} : /\ run' = [run EXCEPT !.rcs = Append(run.rcs, code)]
                             /\ job' = [job EXCEPT !.at = "gate", !.step = job.step + 1]
                             /\ UNCHANGED <<config, plan, passed, same, calm, changes, jobs>>
    BY <1>17 DEF DeployRun
  <2>2. run.rcs \in Seq({0, 1})
    BY <1>1 DEF RunType
  <2>3. Append(run.rcs, code) \in Seq({0, 1})
    BY <2>2
  <2>4. run' \in RunType
    BY <1>1, <2>1, <2>3 DEF RunType
  <2>5. job.step + 1 \in Nat /\ job.actions \in Seq(ActionNames) /\ job.failed \in BOOLEAN
    BY <1>1 DEF JobType
  <2>6. job' \in JobType
    BY <1>1, <2>1, <2>5, JobSteps, JobMoves
  <2>7. QED
    BY <1>1, <1>3, <2>1, <2>4, <2>6
<1>18. CASE DeployFinish
  BY <1>14, <1>18 DEF DeployFinish
<1>19. CASE UNCHANGED preflightVars
  BY <1>1, <1>3, <1>19 DEF preflightVars
<1>20. QED
  BY <1>6, <1>7, <1>8, <1>9, <1>10, <1>11, <1>13, <1>15, <1>16, <1>17, <1>18, <1>19 DEF PreflightNext

(* No command touches the plan.                                             *)
LEMMA SamePlan ==
  ASSUME [PreflightNext]_preflightVars
  PROVE  plan' = plan /\ Steps' = Steps
<1>1. plan' = plan
  <2>1. CASE EditConfig \/ SetUp \/ TargetChanges \/ LinkChanges
    BY <2>1 DEF EditConfig, SetUp, TargetChanges, LinkChanges
  <2>2. CASE \E a \in Actors : StartDeploy(a) \/ \E d \in BOOLEAN : StartCheck(a, d)
    BY <2>2 DEF StartDeploy, StartCheck
  <2>3. CASE CheckConfig \/ CheckProbe \/ CheckPolicy
    BY <2>3 DEF CheckConfig, CheckProbe, CheckPolicy
  <2>4. CASE DeployPolicy
    BY <2>4, Zenon DEF DeployPolicy, Ends
  <2>5. CASE DeployLoad \/ DeployGate \/ DeployRun \/ DeployFinish
    BY <2>5 DEF DeployLoad, DeployGate, DeployRun, DeployFinish, Ends
  <2>6. CASE UNCHANGED preflightVars
    BY <2>6 DEF preflightVars
  <2>7. QED
    BY <2>1, <2>2, <2>3, <2>4, <2>5, <2>6 DEF PreflightNext
<1>2. QED
  BY <1>1 DEF Steps

(* Where the command at work is, and what it has noted by then.             *)
CheckAt ==
  /\ plan.parses /\ run = NoRun /\ passed = NoCheck
  /\ \/ job.at = "config" /\ job.step = 0 /\ job.actions = <<>>
     \/ job.at = "probe" /\ job.step \in 1 .. Len(Steps) + 1 /\ Len(job.actions) = job.step - 1
DeployAt ==
  /\ run.actor = job.actor /\ run.end = "working" /\ job.actions = <<>>
  /\ \/ job.at \in {"policy", "load"} /\ job.step = 0 /\ run.actions = <<>> /\ run.rcs = <<>>
     \/ job.at = "gate" /\ job.step \in 1 .. Len(Steps) + 1
          /\ Len(run.actions) = job.step - 1 /\ Len(run.rcs) = job.step - 1
     \/ job.at = "run" /\ job.step \in 1 .. Len(Steps)
          /\ Len(run.actions) = job.step /\ Len(run.rcs) = job.step - 1
Noted == Len(run.rcs) <= Len(run.actions) /\ Len(run.actions) <= Len(Steps)
Placed ==
  /\ job.cmd = "none" => job = Idle
  /\ job.cmd = "check" => CheckAt
  /\ job.cmd = "deploy" => DeployAt
  /\ Noted

(* Every step keeps what is noted in line with where the command is.        *)
LEMMA PlacedStep ==
  ASSUME Typed, Placed, [PreflightNext]_preflightVars
  PROVE  Placed'
<1>1. plan' = plan /\ Steps' = Steps /\ Len(Steps) \in Nat
  BY SamePlan, PlanFacts
<1>2. job \in JobType /\ run \in RunType
  BY DEF Typed
<1>3. job.cmd \in {"none", "check", "deploy"} /\ job.step \in Nat /\ job.actions \in Seq(ActionNames)
  BY <1>2 DEF JobType
<1>4. run.actions \in Seq(ActionNames) /\ run.rcs \in Seq({0, 1})
  BY <1>2 DEF RunType
<1>5. Idle.cmd = "none" /\ NoRun.actions = <<>> /\ NoRun.rcs = <<>>
  BY DEF Idle, NoRun
<1>6. ASSUME UNCHANGED <<job, run, passed>> PROVE Placed'
  BY <1>1, <1>6 DEF Placed, CheckAt, DeployAt, Noted
<1>7. CASE EditConfig \/ SetUp \/ TargetChanges \/ LinkChanges \/ UNCHANGED preflightVars
  BY <1>6, <1>7 DEF EditConfig, SetUp, TargetChanges, LinkChanges, preflightVars
<1>8. ASSUME NEW a \in Actors, StartDeploy(a) PROVE Placed'
  <2>1. job'.cmd = "deploy" /\ job'.at = "policy" /\ job'.step = 0 /\ job'.actions = <<>> /\ job'.actor = a
    BY <1>8 DEF StartDeploy, Idle
  <2>2. run'.actor = a /\ run'.end = "working" /\ run'.actions = <<>> /\ run'.rcs = <<>>
    BY <1>8 DEF StartDeploy, NoRun
  <2>3. DeployAt'
    BY <2>1, <2>2 DEF DeployAt
  <2>4. Noted'
    BY <1>1, <2>2 DEF Noted
  <2>5. QED
    BY <2>1, <2>3, <2>4 DEF Placed
<1>9. ASSUME NEW a \in Actors, NEW d \in BOOLEAN, StartCheck(a, d) PROVE Placed'
  <2>1. run' = NoRun /\ passed' = NoCheck
    BY <1>9 DEF StartCheck
  <2>2. Noted'
    BY <1>1, <1>5, <2>1 DEF Noted
  <2>3. CASE plan.parses
    <3>1. job'.cmd = "check" /\ job'.at = "config" /\ job'.step = 0 /\ job'.actions = <<>>
      BY <1>9, <2>3 DEF StartCheck, Idle
    <3>2. CheckAt'
      BY <1>1, <2>1, <2>3, <3>1 DEF CheckAt
    <3>3. QED
      BY <2>2, <3>1, <3>2 DEF Placed
  <2>4. CASE ~plan.parses
    <3>1. job' = Idle
      BY <1>9, <2>4 DEF StartCheck
    <3>2. QED
      BY <1>5, <2>2, <3>1 DEF Placed
  <2>5. QED
    BY <2>3, <2>4
<1>10. CASE CheckConfig
  <2>1. PICK f \in BOOLEAN : job' = Moved("probe", 1, job.actions, f)
    BY <1>2, <1>10, JobSteps
  <2>2. job'.cmd = "check" /\ job'.at = "probe" /\ job'.step = 1 /\ job'.actions = job.actions
    BY <1>10, <2>1 DEF Moved, CheckConfig
  <2>3. job.actions = <<>> /\ CheckAt
    BY <1>10 DEF CheckConfig, Placed, CheckAt
  <2>4. UNCHANGED <<run, passed>>
    BY <1>10 DEF CheckConfig
  <2>5. CheckAt'
    BY <1>1, <2>2, <2>3, <2>4 DEF CheckAt
  <2>6. QED
    BY <1>1, <2>2, <2>4, <2>5 DEF Placed, Noted
<1>11. CASE CheckProbe
  <2>1. PICK f \in BOOLEAN : job' = Moved("probe", job.step + 1, Append(job.actions, Probed(job.step)), f)
    BY <1>2, <1>11, JobSteps
  <2>2. job.cmd = "check" /\ job.at = "probe" /\ job.step <= Len(Steps) /\ UNCHANGED <<run, passed>>
    BY <1>11 DEF CheckProbe
  <2>3. /\ job'.cmd = "check" /\ job'.at = "probe" /\ job'.step = job.step + 1
        /\ job'.actions = Append(job.actions, Probed(job.step))
    BY <2>1, <2>2 DEF Moved
  <2>4. CheckAt /\ Len(job'.actions) = Len(job.actions) + 1
    BY <1>3, <2>2, <2>3 DEF Placed
  <2>5. CheckAt'
    BY <1>1, <2>2, <2>3, <2>4 DEF CheckAt
  <2>6. QED
    BY <1>1, <2>2, <2>3, <2>5 DEF Placed, Noted
<1>12. CASE CheckPolicy
  <2>1. job' = Idle /\ run' = run
    BY <1>12 DEF CheckPolicy
  <2>2. QED
    BY <1>1, <1>5, <2>1 DEF Placed, Noted
<1>13. ASSUME NEW end, Ends(end) PROVE Placed'
  <2>1. job' = Idle /\ run'.actions = run.actions /\ run'.rcs = run.rcs
    BY <1>2, <1>13 DEF Ends, RunType
  <2>2. QED
    BY <1>1, <1>5, <2>1 DEF Placed, Noted
<1>14. CASE DeployPolicy
  <2>1. CASE \E end : Ends(end)
    BY <1>13, <2>1
  <2>2. CASE ~\E end : Ends(end)
    <3>1. /\ job.cmd = "deploy" /\ job.at = "policy" /\ job' = Moved("load", job.step, job.actions, job.failed)
          /\ UNCHANGED <<run, passed>>
      BY <1>2, <1>14, <2>2, JobSteps, Zenon DEF DeployPolicy
    <3>2. job'.cmd = "deploy" /\ job'.at = "load" /\ UNCHANGED <<job.step, job.actions, job.actor>>
      BY <3>1 DEF Moved
    <3>3. DeployAt'
      BY <3>1, <3>2 DEF Placed, DeployAt
    <3>4. QED
      BY <1>1, <3>1, <3>2, <3>3 DEF Placed, Noted
  <2>3. QED
    BY <2>1, <2>2
<1>15. CASE DeployLoad
  <2>1. CASE Ends("raised")
    BY <1>13, <2>1
  <2>2. CASE ~Ends("raised")
    <3>1. /\ job.cmd = "deploy" /\ job.at = "load" /\ job' = Moved("gate", 1, job.actions, job.failed)
          /\ UNCHANGED <<run, passed>>
      BY <1>2, <1>15, <2>2, JobSteps DEF DeployLoad
    <3>2. job'.cmd = "deploy" /\ job'.at = "gate" /\ job'.step = 1 /\ UNCHANGED <<job.actions, job.actor>>
      BY <3>1 DEF Moved
    <3>3. DeployAt'
      BY <1>1, <3>1, <3>2 DEF Placed, DeployAt
    <3>4. QED
      BY <1>1, <3>1, <3>2, <3>3 DEF Placed, Noted
  <2>3. QED
    BY <2>1, <2>2
<1>16. CASE DeployGate
  <2>1. CASE Ends("raised")
    BY <1>13, <2>1
  <2>2. CASE ~Ends("raised")
    <3> DEFINE action == Probed(job.step)
    <3>1. /\ job.cmd = "deploy" /\ job.at = "gate" /\ job.step <= Len(Steps)
          /\ job' = IF Skips(action) THEN [job EXCEPT !.step = job.step + 1] ELSE [job EXCEPT !.at = "run"]
          /\ run' = [run EXCEPT !.actions = Append(run.actions, action),
                                !.rcs = IF Skips(action) THEN Append(run.rcs, 0) ELSE run.rcs]
      BY <1>16, <2>2 DEF DeployGate
    <3>2. action \in ActionNames
      BY Actions DEF Probed
    <3>3. /\ run'.actor = run.actor /\ run'.end = run.end /\ run'.actions = Append(run.actions, action)
          /\ run'.rcs = IF Skips(action) THEN Append(run.rcs, 0) ELSE run.rcs
      BY <1>2, <3>1 DEF RunType
    <3>4. job' = IF Skips(action) THEN Moved(job.at, job.step + 1, job.actions, job.failed)
                 ELSE Moved("run", job.step, job.actions, job.failed)
      BY <1>2, <3>1, JobSteps
    <3>5. /\ job'.cmd = "deploy" /\ UNCHANGED <<job.actions, job.actor>>
          /\ job'.at = (IF Skips(action) THEN "gate" ELSE "run")
          /\ job'.step = (IF Skips(action) THEN job.step + 1 ELSE job.step)
      BY <3>1, <3>4 DEF Moved
    <3>6. DeployAt /\ Len(run.actions) = job.step - 1 /\ Len(run.rcs) = job.step - 1 /\ job.step >= 1
      BY <3>1 DEF Placed, DeployAt
    <3> HIDE DEF action
    <3>7. Len(run'.actions) = job.step
      BY <1>3, <1>4, <3>2, <3>3, <3>6
    <3>8. Len(run'.rcs) = IF Skips(action) THEN job.step ELSE job.step - 1
      BY <1>3, <1>4, <3>3, <3>6
    <3>9. DeployAt'
      BY <1>1, <1>3, <3>1, <3>3, <3>5, <3>6, <3>7, <3>8 DEF DeployAt
    <3>10. Noted'
      BY <1>1, <1>3, <3>1, <3>7, <3>8 DEF Noted
    <3>11. QED
      BY <3>5, <3>9, <3>10 DEF Placed
  <2>3. QED
    BY <2>1, <2>2
<1>17. CASE DeployRun
  <2>1. PICK code \in {0, 1} : /\ run' = [run EXCEPT !.rcs = Append(run.rcs, code)]
                             /\ job' = [job EXCEPT !.at = "gate", !.step = job.step + 1]
    BY <1>17 DEF DeployRun
  <2>2. job.cmd = "deploy" /\ job.at = "run"
    BY <1>17 DEF DeployRun
  <2>3. /\ run'.actor = run.actor /\ run'.end = run.end /\ run'.actions = run.actions
        /\ run'.rcs = Append(run.rcs, code)
    BY <1>2, <2>1 DEF RunType
  <2>4. job' = Moved("gate", job.step + 1, job.actions, job.failed)
    BY <1>2, <2>1, JobSteps
  <2>5. job'.cmd = "deploy" /\ job'.at = "gate" /\ job'.step = job.step + 1 /\ UNCHANGED <<job.actions, job.actor>>
    BY <2>2, <2>4 DEF Moved
  <2>6. DeployAt /\ Len(run.actions) = job.step /\ Len(run.rcs) = job.step - 1 /\ job.step \in 1 .. Len(Steps)
    BY <2>2 DEF Placed, DeployAt
  <2>7. Len(run'.rcs) = job.step
    BY <1>3, <1>4, <2>3, <2>6
  <2>8. DeployAt'
    BY <1>1, <1>3, <2>3, <2>5, <2>6, <2>7 DEF DeployAt
  <2>9. Noted'
    BY <1>1, <1>3, <2>3, <2>6, <2>7 DEF Noted
  <2>10. QED
    BY <2>5, <2>8, <2>9 DEF Placed
<1>18. CASE DeployFinish
  BY <1>13, <1>18 DEF DeployFinish
<1>19. QED
  BY <1>7, <1>8, <1>9, <1>10, <1>11, <1>12, <1>14, <1>15, <1>16, <1>17, <1>18 DEF PreflightNext

(* The targets are of the kinds that their steps are for, and the links of  *)
(* the hosts come back in the ways that their connectors can.               *)
Targeted ==
  /\ DOMAIN target = DOMAIN Steps /\ left \in [DOMAIN Steps -> BOOLEAN]
  /\ \A i \in DOMAIN Steps : Fits(Steps[i], target[i])
  /\ DOMAIN link = HostsOf(Steps) /\ \A h \in DOMAIN link : link[h] \in Ways(h)

(* What a step of the system leaves alone.                                  *)
LEMMA Frames ==
  ASSUME [PreflightNext]_preflightVars
  PROVE  /\ UNCHANGED <<target, link, left>> \/ TargetChanges \/ LinkChanges \/ DeployRun
         /\ "config" \in same' => config' = config
         /\ "world" \in same' => ~TargetChanges /\ ~LinkChanges
         /\ (passed' = passed /\ same' \subseteq same) \/ passed' = NoCheck \/ CheckPolicy
         /\ calm' => (calm /\ ~TargetChanges /\ ~LinkChanges) \/ \E a \in Actors : StartDeploy(a)
<1> DEFINE All == /\ UNCHANGED <<target, link, left>> \/ TargetChanges \/ LinkChanges \/ DeployRun
                  /\ "config" \in same' => config' = config
                  /\ (passed' = passed /\ same' \subseteq same) \/ passed' = NoCheck \/ CheckPolicy
                  /\ calm' => calm \/ \E a \in Actors : StartDeploy(a)
<1>1. /\ TargetChanges \/ LinkChanges => "world" \notin same' /\ calm' = FALSE
      /\ EditConfig \/ SetUp => "config" \notin same'
  BY DEF TargetChanges, LinkChanges, EditConfig, SetUp
<1>2. ASSUME EditConfig \/ SetUp \/ TargetChanges \/ LinkChanges PROVE All
  <2>1. passed' = passed /\ same' \subseteq same
    BY <1>2 DEF EditConfig, SetUp, TargetChanges, LinkChanges
  <2>2. EditConfig \/ SetUp => UNCHANGED <<target, link, left, calm>>
    BY DEF EditConfig, SetUp
  <2>3. TargetChanges \/ LinkChanges => config' = config
    BY DEF TargetChanges, LinkChanges
  <2>4. QED
    BY <1>1, <1>2, <2>1, <2>2, <2>3
<1>3. ASSUME \E a \in Actors : StartDeploy(a) PROVE All
  BY <1>1, <1>3 DEF StartDeploy
<1>4. ASSUME NEW a \in Actors, NEW d \in BOOLEAN, StartCheck(a, d) PROVE All
  BY <1>4 DEF StartCheck
<1>5. ASSUME CheckConfig \/ CheckProbe \/ CheckPolicy PROVE All
  BY <1>5 DEF CheckConfig, CheckProbe, CheckPolicy
<1>6. ASSUME DeployPolicy PROVE All
  <2>1. UNCHANGED <<config, target, link, passed, same, calm, left>>
    BY <1>6, Zenon DEF DeployPolicy, Ends
  <2>2. QED
    BY <2>1
<1>7. ASSUME DeployLoad \/ DeployGate \/ DeployRun \/ DeployFinish PROVE All
  BY <1>7 DEF DeployLoad, DeployGate, DeployRun, DeployFinish, Ends
<1>8. ASSUME UNCHANGED preflightVars PROVE All
  BY <1>8 DEF preflightVars
<1>9. All
  <2> HIDE DEF All
  <2>1. QED
    BY <1>2, <1>3, <1>4, <1>5, <1>6, <1>7, <1>8 DEF PreflightNext
<1>10. QED
  <2>1. calm' /\ (TargetChanges \/ LinkChanges) => FALSE
    BY <1>1
  <2>2. QED
    BY <1>1, <1>9, <2>1

(* The command of a step may change its target, and that one only, when the *)
(* host answers.                                                            *)
LEMMA Runs ==
  ASSUME Typed, Placed, Targeted, DeployRun
  PROVE  /\ job.step \in DOMAIN Steps /\ link' = link
         /\ \/ UNCHANGED <<target, left>>
            \/ /\ link[Steps[job.step].host] = "answers"
               /\ target' = [target EXCEPT ![job.step] = Brought(Steps[job.step], target[job.step])]
               /\ \E ok \in BOOLEAN : left' = [left EXCEPT ![job.step] = ok]
<1>1. job.step \in DOMAIN Steps /\ link' = link
  BY PlanFacts DEF DeployRun, Placed, DeployAt
<1>2. PICK code \in {0, 1}, done \in BOOLEAN :
         /\ done => link[Steps[job.step].host] = "answers"
         /\ target' = IF done THEN [target EXCEPT ![job.step] = Brought(Steps[job.step], target[job.step])] ELSE target
         /\ left' = [left EXCEPT ![job.step] = IF done THEN code = 0 ELSE left[job.step]]
  BY DEF DeployRun
<1>3. CASE done
  <2> DEFINE ok == code = 0
  <2>1. left' = [left EXCEPT ![job.step] = ok] /\ ok \in BOOLEAN
    BY <1>2, <1>3
  <2> HIDE DEF ok
  <2>2. \E b \in BOOLEAN : left' = [left EXCEPT ![job.step] = b]
    BY <2>1
  <2>3. QED
    BY <1>1, <1>2, <1>3, <2>2
<1>4. CASE ~done
  <2>1. left' = left
    BY <1>2, <1>4 DEF Targeted
  <2>2. QED
    BY <1>1, <1>2, <1>4, <2>1
<1>5. QED
  BY <1>3, <1>4

(* Somebody else's change makes another target of the same operation.       *)
LEMMA Changed ==
  ASSUME Targeted, TargetChanges
  PROVE  \E i \in DOMAIN Steps : \E t \in Others(Steps[i].op) :
           /\ target' = [target EXCEPT ![i] = t] /\ left' = [left EXCEPT ![i] = FALSE] /\ link' = link
  BY DEF TargetChanges

(* Targets stay of their kinds, and links of their connectors' ways.        *)
LEMMA TargetedStep ==
  ASSUME Typed, Placed, Targeted, [PreflightNext]_preflightVars
  PROVE  Targeted'
<1>1. Steps' = Steps
  BY SamePlan
<1>2. CASE UNCHANGED <<target, link, left>>
  BY <1>1, <1>2 DEF Targeted, HostsOf
<1>3. CASE TargetChanges
  <2>0. PICK i \in DOMAIN Steps : \E t \in Others(Steps[i].op) :
           target' = [target EXCEPT ![i] = t] /\ left' = [left EXCEPT ![i] = FALSE] /\ link' = link
    BY <1>3, Changed
  <2>1. PICK t \in Others(Steps[i].op) :
           target' = [target EXCEPT ![i] = t] /\ left' = [left EXCEPT ![i] = FALSE] /\ link' = link
    BY <2>0
  <2>2. Fits(Steps[i], t)
    BY PlanFacts
  <2>3. DOMAIN target' = DOMAIN target /\ \A k \in DOMAIN Steps : target'[k] = IF k = i THEN t ELSE target[k]
    BY <2>1 DEF Targeted
  <2>4. left' \in [DOMAIN Steps -> BOOLEAN]
    BY <2>1 DEF Targeted
  <2>5. \A k \in DOMAIN Steps : Fits(Steps[k], target'[k])
    BY <2>2, <2>3 DEF Targeted
  <2>6. QED
    BY <1>1, <2>1, <2>3, <2>4, <2>5 DEF Targeted, HostsOf
<1>4. CASE LinkChanges
  <2>1. PICK h \in DOMAIN link : \E w \in Ways(h) : link' = [link EXCEPT ![h] = w]
    BY <1>4 DEF LinkChanges
  <2>2. UNCHANGED <<target, left>>
    BY <1>4 DEF LinkChanges
  <2>3. DOMAIN link' = DOMAIN link /\ \A k \in DOMAIN link : link'[k] \in Ways(k)
    BY <2>1 DEF Targeted
  <2>4. QED
    BY <1>1, <2>2, <2>3 DEF Targeted, HostsOf
<1>5. CASE DeployRun
  <2> DEFINE t == Brought(Steps[job.step], target[job.step])
  <2>1. /\ job.step \in DOMAIN Steps /\ link' = link
        /\ \/ UNCHANGED <<target, left>>
           \/ /\ target' = [target EXCEPT ![job.step] = t]
              /\ \E ok \in BOOLEAN : left' = [left EXCEPT ![job.step] = ok]
    BY <1>5, Runs
  <2>2. Fits(Steps[job.step], t)
    <3>1. Fits(Steps[job.step], target[job.step])
      BY <2>1 DEF Targeted
    <3>2. CASE Gated(Steps[job.step])
      BY <3>1, <3>2, BroughtIsWanted
    <3>3. CASE ~Gated(Steps[job.step])
      BY <3>3 DEF Gated, Ops, Fits
    <3>4. QED
      BY <3>2, <3>3
  <2> HIDE DEF t
  <2>3. DOMAIN target' = DOMAIN target /\ \A k \in DOMAIN Steps : target'[k] \in {target[k]} \union (IF k = job.step THEN {t} ELSE {})
    BY <2>1 DEF Targeted
  <2>4. left' \in [DOMAIN Steps -> BOOLEAN]
    BY <2>1 DEF Targeted
  <2>5. \A k \in DOMAIN Steps : Fits(Steps[k], target'[k])
    BY <2>2, <2>3 DEF Targeted
  <2>6. QED
    BY <1>1, <2>1, <2>3, <2>4, <2>5 DEF Targeted, HostsOf
<1>6. QED
  BY <1>2, <1>3, <1>4, <1>5, Frames

(* What a check vouches for: while the world is as it was, none of the      *)
(* first n targets would be overwritten.                                    *)
NoDriftTo(n) == \A i \in 1 .. n : Probed(i) # "update"

(* A deploy makes no drift, and nobody else does as long as the world is as *)
(* it was.                                                                  *)
LEMMA NoDriftStays ==
  ASSUME Typed, Placed, Targeted, [PreflightNext]_preflightVars, "world" \in same',
         NEW n \in Nat, n <= Len(Steps), NoDriftTo(n)
  PROVE  NoDriftTo(n)'
<1>1. Steps' = Steps /\ DOMAIN Steps = 1 .. Len(Steps) /\ Len(Steps) \in Nat
  BY SamePlan, PlanFacts
<1>2. SUFFICES ASSUME NEW i \in 1 .. n PROVE Probed(i)' # "update"
  BY DEF NoDriftTo
<1>3. i \in DOMAIN Steps /\ Probed(i) # "update" /\ Fits(Steps[i], target[i])
  BY <1>1 DEF NoDriftTo, Targeted
<1>4. ASSUME target'[i] = target[i], link' = link PROVE Probed(i)' # "update"
  BY <1>1, <1>3, <1>4 DEF Probed
<1>5. CASE UNCHANGED <<target, link, left>>
  BY <1>4, <1>5
<1>6. CASE DeployRun
  <2>1. /\ job.step \in DOMAIN Steps /\ link' = link
        /\ \/ target' = target
           \/ /\ link[Steps[job.step].host] = "answers"
              /\ target' = [target EXCEPT ![job.step] = Brought(Steps[job.step], target[job.step])]
    BY <1>6, Runs
  <2>2. CASE target'[i] = target[i]
    BY <1>4, <2>1, <2>2
  <2>3. CASE target'[i] # target[i]
    <3>1. i = job.step /\ link[Steps[i].host] = "answers" /\ target'[i] = Brought(Steps[i], target[i])
      BY <1>3, <2>1, <2>3 DEF Targeted
    <3>2. StepAction(Steps[i], target[i], "answers") # "update"
      BY <1>3, <3>1 DEF Probed
    <3>3. StepAction(Steps[i], Brought(Steps[i], target[i]), "answers") # "update"
      BY <1>3, <3>2, BroughtIsNoDrift
    <3>4. QED
      BY <1>1, <2>1, <3>1, <3>3 DEF Probed
  <2>4. QED
    BY <2>2, <2>3
<1>7. QED
  BY <1>5, <1>6, Frames

(* What a check at work that has found nothing so far has seen.             *)
SoFar ==
  job.cmd = "check" /\ ~job.failed =>
    /\ plan.sound
    /\ job.at = "probe" /\ "config" \in same => Valid(config)
    /\ job.at = "probe" /\ "world" \in same /\ ~job.allowDrift => NoDriftTo(job.step - 1)

(* A check at work has seen what it has not complained of, whoever edits or *)
(* changes what meanwhile.                                                  *)
LEMMA SoFarStep ==
  ASSUME Typed, Placed, Targeted, SoFar, [PreflightNext]_preflightVars
  PROVE  SoFar'
<1>1. plan' = plan /\ Steps' = Steps /\ Len(Steps) \in Nat /\ DOMAIN Steps = 1 .. Len(Steps)
  BY SamePlan, PlanFacts
<1>2. job \in JobType /\ job.step \in Nat /\ job.failed \in BOOLEAN
  BY DEF Typed, JobType
<1>3. job.cmd = "check" /\ job.at = "probe" => job.step \in 1 .. Len(Steps) + 1
  BY DEF Placed, CheckAt
<1>4. ASSUME job' = job, same' \subseteq same PROVE SoFar'
  <2>1. SUFFICES ASSUME job.cmd = "check", ~job.failed
                 PROVE  /\ plan.sound
                        /\ job.at = "probe" /\ "config" \in same' => Valid(config)'
                        /\ job.at = "probe" /\ "world" \in same' /\ ~job.allowDrift => (NoDriftTo(job.step - 1))'
    BY <1>1, <1>4 DEF SoFar
  <2>2. "config" \in same' => config' = config
    BY Frames
  <2>3. job.at = "probe" /\ "config" \in same' => Valid(config)'
    BY <1>4, <2>1, <2>2 DEF SoFar
  <2>4. ASSUME job.at = "probe", "world" \in same', ~job.allowDrift PROVE (NoDriftTo(job.step - 1))'
    <3>1. job.step - 1 \in Nat /\ job.step - 1 <= Len(Steps) /\ NoDriftTo(job.step - 1)
      BY <1>1, <1>3, <1>4, <2>1, <2>4 DEF SoFar
    <3>2. PICK n \in Nat : n = job.step - 1
      BY <3>1
    <3>3. NoDriftTo(n)'
      BY <2>4, <3>1, <3>2, NoDriftStays
    <3>4. job'.step - 1 = n
      BY <1>4, <3>2
    <3>5. QED
      BY <3>3, <3>4
  <2>5. QED
    BY <2>1, <2>3, <2>4 DEF SoFar
<1>5. CASE EditConfig \/ SetUp \/ TargetChanges \/ LinkChanges \/ UNCHANGED preflightVars
  <2>1. job' = job /\ same' \subseteq same
    BY <1>5 DEF EditConfig, SetUp, TargetChanges, LinkChanges, preflightVars
  <2>2. QED
    BY <1>4, <2>1
<1>6. ASSUME job'.cmd # "check" PROVE SoFar'
  BY <1>6 DEF SoFar
<1>7. CASE \E a \in Actors : StartDeploy(a)
  <2>1. job'.cmd = "deploy"
    BY <1>7 DEF StartDeploy, Idle
  <2>2. QED
    BY <1>6, <2>1
<1>8. ASSUME NEW a \in Actors, NEW d \in BOOLEAN, StartCheck(a, d) PROVE SoFar'
  <2>1. CASE plan.parses
    <3>1. job'.at = "config" /\ job'.failed = ~plan.sound
      BY <1>8, <2>1 DEF StartCheck, Idle
    <3>2. QED
      BY <1>1, <3>1, PlanFacts DEF SoFar
  <2>2. CASE ~plan.parses
    <3>1. job'.cmd = "none"
      BY <1>8, <2>2 DEF StartCheck, Idle
    <3>2. QED
      BY <1>6, <3>1
  <2>3. QED
    BY <2>1, <2>2
<1>9. CASE CheckConfig
  <2>1. /\ job.cmd = "check" /\ job' = [job EXCEPT !.failed = job.failed \/ ~Valid(config), !.at = "probe", !.step = 1]
        /\ config' = config /\ same' = same
    BY <1>9 DEF CheckConfig
  <2>2. job'.step = 1 /\ (~job'.failed => ~job.failed /\ Valid(config))
    BY <1>2, <2>1 DEF JobType
  <2>3. (NoDriftTo(job.step - 1))'
    BY <2>2 DEF NoDriftTo
  <2>4. Valid(config)' <=> Valid(config)
    BY <2>1
  <2>5. QED
    BY <1>1, <2>1, <2>2, <2>3, <2>4 DEF SoFar
<1>10. CASE CheckProbe
  <2> DEFINE action == Probed(job.step)
  <2>1. /\ job.cmd = "check" /\ job.at = "probe" /\ job.step <= Len(Steps)
        /\ job' = [job EXCEPT !.step = job.step + 1, !.actions = Append(job.actions, action),
                              !.failed = job.failed \/ (Drift(action) /\ ~job.allowDrift)]
        /\ UNCHANGED <<config, same, target, link>>
    BY <1>10 DEF CheckProbe
  <2>2. /\ job'.at = "probe" /\ job'.step = job.step + 1 /\ job'.allowDrift = job.allowDrift
        /\ job'.failed = (job.failed \/ (Drift(action) /\ ~job.allowDrift))
    BY <1>2, <2>1 DEF JobType
  <2>3. SUFFICES ASSUME ~job'.failed
                 PROVE  /\ plan.sound
                        /\ "config" \in same => Valid(config)
                        /\ "world" \in same /\ ~job.allowDrift => (NoDriftTo(job.step - 1))'
    BY <1>1, <2>1, <2>2 DEF SoFar
  <2>4. ~job.failed /\ (~job.allowDrift => action # "update")
    BY <2>2, <2>3 DEF Drift
  <2>5. plan.sound /\ ("config" \in same => Valid(config))
    BY <2>1, <2>4 DEF SoFar
  <2>6. ASSUME "world" \in same, ~job.allowDrift PROVE (NoDriftTo(job.step - 1))'
    <3>1. NoDriftTo(job.step - 1)
      BY <2>1, <2>4, <2>6 DEF SoFar
    <3>2. \A i \in 1 .. job.step : Probed(i) # "update"
      BY <1>2, <2>4, <2>6, <3>1 DEF NoDriftTo
    <3>3. \A i \in 1 .. job.step : Probed(i)' = Probed(i)
      BY <1>1, <2>1 DEF Probed
    <3>4. job'.step - 1 = job.step
      BY <1>2, <2>2
    <3>5. QED
      BY <3>2, <3>3, <3>4 DEF NoDriftTo
  <2>7. QED
    BY <2>5, <2>6
<1>11. CASE CheckPolicy
  <2>1. job'.cmd = "none"
    BY <1>11 DEF CheckPolicy, Idle
  <2>2. QED
    BY <1>6, <2>1
<1>12. CASE DeployPolicy \/ DeployLoad \/ DeployGate \/ DeployRun \/ DeployFinish
  <2>1. job.cmd = "deploy" /\ (job' = Idle \/ job'.cmd = job.cmd)
    <3>1. job.cmd = "deploy"
      BY <1>12 DEF DeployPolicy, DeployLoad, DeployGate, DeployRun, DeployFinish
    <3>2. \A end : Ends(end) => job' = Idle
      BY DEF Ends
    <3>3. CASE DeployPolicy
      <4>1. job' = Idle \/ job' = [job EXCEPT !.at = "load"]
        BY <3>2, <3>3, Zenon DEF DeployPolicy
      <4>2. QED
        BY <1>2, <3>1, <4>1 DEF JobType
    <3>4. CASE DeployLoad
      BY <1>2, <3>1, <3>2, <3>4 DEF DeployLoad, JobType
    <3>5. CASE DeployGate
      BY <1>2, <3>1, <3>2, <3>5 DEF DeployGate, JobType
    <3>6. CASE DeployRun
      BY <1>2, <3>1, <3>6 DEF DeployRun, JobType
    <3>7. CASE DeployFinish
      BY <3>1, <3>2, <3>7 DEF DeployFinish
    <3>8. QED
      BY <1>12, <3>1, <3>3, <3>4, <3>5, <3>6, <3>7
  <2>2. job'.cmd # "check"
    BY <2>1 DEF Idle
  <2>3. QED
    BY <1>6, <2>2
<1>13. QED
  BY <1>5, <1>7, <1>8, <1>9, <1>10, <1>11, <1>12 DEF PreflightNext

(* What a check that passed has seen, for the user who asked.               *)
Vouched ==
  passed # NoCheck =>
    /\ plan.parses /\ plan.sound
    /\ "config" \in same => Valid(config) /\ ~Blocked(config, passed.actor, StepSet)
    /\ "world" \in same /\ ~passed.allowDrift => NoDriftTo(Len(Steps))

(* What a check that passed has seen stays true, as far as nobody changed   *)
(* what it looked at.                                                       *)
LEMMA VouchedStep ==
  ASSUME Typed, Placed, Targeted, SoFar, Vouched, [PreflightNext]_preflightVars
  PROVE  Vouched'
<1>1. plan' = plan /\ Steps' = Steps /\ Len(Steps) \in Nat /\ DOMAIN Steps = 1 .. Len(Steps)
  BY SamePlan, PlanFacts
<1>2. StepSet' = StepSet
  BY <1>1 DEF StepSet
<1>3. CASE passed' = passed /\ same' \subseteq same
  <2>1. SUFFICES ASSUME passed # NoCheck
                 PROVE  /\ plan.parses /\ plan.sound
                        /\ "config" \in same' => Valid(config)' /\ ~Blocked(config, passed.actor, StepSet)'
                        /\ "world" \in same' /\ ~passed.allowDrift => NoDriftTo(Len(Steps))'
    <3>1. NoCheck' = NoCheck
      BY DEF NoCheck, Nobody
    <3>2. QED
      BY <1>1, <1>3, <3>1 DEF Vouched
  <2>2. ASSUME "config" \in same' PROVE Valid(config)' /\ ~Blocked(config, passed.actor, StepSet)'
    <3>1. config' = config /\ Valid(config) /\ ~Blocked(config, passed.actor, StepSet)
      BY <1>3, <2>1, <2>2, Frames DEF Vouched
    <3>2. QED
      BY <1>2, <1>3, <3>1
  <2>3. ASSUME "world" \in same', ~passed.allowDrift PROVE NoDriftTo(Len(Steps))'
    <3>1. NoDriftTo(Len(Steps))
      BY <1>3, <2>1, <2>3 DEF Vouched
    <3>2. PICK n \in Nat : n = Len(Steps)
      BY <1>1
    <3>3. NoDriftTo(n)'
      BY <1>1, <2>3, <3>1, <3>2, NoDriftStays
    <3>4. QED
      BY <1>1, <3>2, <3>3
  <2>4. QED
    BY <2>1, <2>2, <2>3 DEF Vouched
<1>4. CASE passed' = NoCheck
  BY <1>4 DEF Vouched, NoCheck, Nobody
<1>5. CASE CheckPolicy /\ passed' # NoCheck
  <2>1. /\ job.cmd = "check" /\ job.at = "probe" /\ job.step > Len(Steps)
        /\ ~job.failed /\ ~Blocked(config, job.actor, StepSet)
        /\ passed' = [actor |-> job.actor, allowDrift |-> job.allowDrift]
        /\ UNCHANGED <<config, target, link, same>>
    BY <1>5 DEF CheckPolicy
  <2>2. plan.parses /\ plan.sound /\ job.step - 1 = Len(Steps)
    BY <1>1, <2>1 DEF Placed, CheckAt, SoFar
  <2>3. passed'.actor = job.actor /\ passed'.allowDrift = job.allowDrift
    BY <2>1
  <2>4. "config" \in same => Valid(config)
    BY <2>1 DEF SoFar
  <2>5. "world" \in same /\ ~job.allowDrift => NoDriftTo(Len(Steps))
    BY <2>1, <2>2 DEF SoFar
  <2>6. Blocked(config, passed.actor, StepSet)' <=> Blocked(config, job.actor, StepSet)
    BY <1>2, <2>1, <2>3
  <2>7. NoDriftTo(Len(Steps)) => NoDriftTo(Len(Steps))'
    BY <1>1, <2>1 DEF NoDriftTo, Probed
  <2>8. QED
    BY <1>1, <2>1, <2>2, <2>3, <2>4, <2>5, <2>6, <2>7 DEF Vouched
<1>6. QED
  BY <1>3, <1>4, <1>5, Frames

(* What becomes of the record of the last deploy.                           *)
LEMMA RunFrames ==
  ASSUME Typed, Placed, [PreflightNext]_preflightVars
  PROVE  \/ UNCHANGED <<run, job>>
         \/ /\ job'.cmd # "deploy"
            /\ run' = run \/ (run' = NoRun /\ passed' = NoCheck)
         \/ \E a \in Actors : StartDeploy(a)
         \/ /\ job.cmd = "deploy"
            /\ DeployPolicy \/ DeployLoad \/ DeployGate \/ DeployRun \/ DeployFinish
<1>1. CASE EditConfig \/ SetUp \/ TargetChanges \/ LinkChanges \/ UNCHANGED preflightVars
  BY <1>1 DEF EditConfig, SetUp, TargetChanges, LinkChanges, preflightVars
<1>2. CASE \E a \in Actors, d \in BOOLEAN : StartCheck(a, d)
  <2>1. ASSUME NEW a \in Actors, NEW d \in BOOLEAN, StartCheck(a, d) PROVE job'.cmd # "deploy"
    <3>1. CASE plan.parses
      <4> DEFINE f == ~plan.sound
      <4>1. job' = [Idle EXCEPT !.cmd = "check", !.at = "config", !.actor = a, !.allowDrift = d, !.failed = f]
        BY <2>1, <3>1 DEF StartCheck
      <4> HIDE DEF f
      <4>2. job'.cmd = "check"
        BY <4>1 DEF Idle
      <4>3. QED
        BY <4>2
    <3>2. CASE ~plan.parses
      BY <2>1, <3>2 DEF StartCheck, Idle
    <3>3. QED
      BY <3>1, <3>2
  <2>2. QED
    BY <1>2, <2>1 DEF StartCheck
<1>3. CASE CheckConfig \/ CheckProbe \/ CheckPolicy
  <2>1. job.cmd = "check" /\ (job' = Idle \/ job'.cmd = job.cmd)
    BY <1>3, JobSteps DEF CheckConfig, CheckProbe, CheckPolicy, Moved, Typed
  <2>2. QED
    BY <1>3, <2>1 DEF CheckConfig, CheckProbe, CheckPolicy, Idle
<1>4. CASE DeployPolicy \/ DeployLoad \/ DeployGate \/ DeployRun \/ DeployFinish
  BY <1>4 DEF DeployPolicy, DeployLoad, DeployGate, DeployRun, DeployFinish
<1>5. QED
  BY <1>1, <1>2, <1>3, <1>4, Zenon DEF PreflightNext

(* How a deploy goes on: it ends, or goes through its steps one by one.     *)
LEMMA DeploySteps ==
  ASSUME Typed
  PROVE  /\ DeployPolicy \/ DeployLoad \/ DeployGate \/ DeployFinish => UNCHANGED <<target, link, left>>
         /\ DeployPolicy \/ DeployLoad \/ DeployGate \/ DeployRun \/ DeployFinish =>
              UNCHANGED <<config, plan, passed, same, calm>>
         /\ \A end : Ends(end) =>
              job' = Idle /\ run'.end = end /\ UNCHANGED <<run.actor, run.actions, run.rcs>>
         /\ DeployPolicy =>
              \/ ~plan.parses /\ Ends("raised")
              \/ Refused /\ Ends("refused")
              \/ job'.cmd = job.cmd /\ job'.step = job.step /\ run' = run
         /\ DeployLoad =>
              \/ config.format # "none" /\ LoadRaises(config) /\ Ends("raised")
              \/ job'.cmd = job.cmd /\ job'.step = 1 /\ run' = run
         /\ DeployGate =>
              \/ ~plan.sound /\ Ends("raised")
              \/ /\ job.at = "gate" /\ job.step <= Len(Steps) /\ job'.cmd = job.cmd
                 /\ run'.actor = run.actor /\ run'.end = run.end
                 /\ run'.actions = Append(run.actions, Probed(job.step))
                 /\ \/ Probed(job.step) = "none" /\ job'.step = job.step + 1 /\ run'.rcs = Append(run.rcs, 0)
                    \/ Probed(job.step) # "none" /\ job'.step = job.step /\ run'.rcs = run.rcs
         /\ DeployRun =>
              /\ job'.cmd = job.cmd /\ job'.step = job.step + 1
              /\ UNCHANGED <<run.actor, run.end, run.actions>>
              /\ \E code \in {0, 1} : run'.rcs = Append(run.rcs, code)
<1>1. job \in JobType /\ run \in RunType
  BY DEF Typed
<1>2. \A end : Ends(end) => UNCHANGED <<config, plan, target, link, passed, same, calm, left>>
  BY DEF Ends
<1>3. \A end : Ends(end) => job' = Idle /\ run'.end = end /\ UNCHANGED <<run.actor, run.actions, run.rcs>>
  BY <1>1 DEF Ends, RunType
<1>4. ASSUME DeployPolicy
      PROVE  /\ UNCHANGED <<config, plan, target, link, passed, same, calm, left>>
             /\ \/ ~plan.parses /\ Ends("raised")
                \/ Refused /\ Ends("refused")
                \/ job'.cmd = job.cmd /\ job'.step = job.step /\ run' = run
  <2>1. \/ ~plan.parses /\ Ends("raised")
        \/ Refused /\ Ends("refused")
        \/ /\ job' = [job EXCEPT !.at = "load"]
           /\ UNCHANGED <<config, plan, target, link, run, passed, same, calm, left, changes, jobs>>
    BY <1>4, Zenon DEF DeployPolicy
  <2>2. QED
    BY <1>1, <1>2, <2>1 DEF JobType
<1>5. ASSUME DeployLoad
      PROVE  /\ UNCHANGED <<config, plan, target, link, passed, same, calm, left>>
             /\ \/ config.format # "none" /\ LoadRaises(config) /\ Ends("raised")
                \/ job'.cmd = job.cmd /\ job'.step = 1 /\ run' = run
  <2>1. CASE config.format # "none" /\ LoadRaises(config)
    BY <1>2, <1>5, <2>1 DEF DeployLoad
  <2>2. CASE ~(config.format # "none" /\ LoadRaises(config))
    <3>1. /\ job' = [job EXCEPT !.at = "gate", !.step = 1]
          /\ UNCHANGED <<config, plan, target, link, run, passed, same, calm, left, changes, jobs>>
      BY <1>5, <2>2 DEF DeployLoad
    <3>2. job' = Moved("gate", 1, job.actions, job.failed)
      BY <1>1, <3>1, JobSteps
    <3>3. QED
      BY <3>1, <3>2 DEF Moved
  <2>3. QED
    BY <2>1, <2>2
<1>6. ASSUME DeployGate
      PROVE  /\ UNCHANGED <<config, plan, target, link, passed, same, calm, left>>
             /\ \/ ~plan.sound /\ Ends("raised")
                \/ /\ job.at = "gate" /\ job.step <= Len(Steps) /\ job'.cmd = job.cmd
                   /\ run'.actor = run.actor /\ run'.end = run.end
                   /\ run'.actions = Append(run.actions, Probed(job.step))
                   /\ \/ Probed(job.step) = "none" /\ job'.step = job.step + 1 /\ run'.rcs = Append(run.rcs, 0)
                      \/ Probed(job.step) # "none" /\ job'.step = job.step /\ run'.rcs = run.rcs
  <2>1. CASE ~plan.sound
    BY <1>2, <1>6, <2>1 DEF DeployGate
  <2>2. CASE plan.sound
    <3> DEFINE action == Probed(job.step)
    <3>1. /\ job.at = "gate" /\ job.step <= Len(Steps)
          /\ job' = IF action = "none" THEN [job EXCEPT !.step = job.step + 1] ELSE [job EXCEPT !.at = "run"]
          /\ run' = [run EXCEPT !.actions = Append(run.actions, action),
                                !.rcs = IF action = "none" THEN Append(run.rcs, 0) ELSE run.rcs]
          /\ UNCHANGED <<config, plan, target, link, passed, same, calm, left>>
      BY <1>6, <2>2 DEF DeployGate, Skips
    <3>2. job'.cmd = job.cmd /\ job'.step = IF action = "none" THEN job.step + 1 ELSE job.step
      BY <1>1, <3>1 DEF JobType
    <3> HIDE DEF action
    <3>3. /\ run'.actor = run.actor /\ run'.end = run.end /\ run'.actions = Append(run.actions, action)
          /\ run'.rcs = IF action = "none" THEN Append(run.rcs, 0) ELSE run.rcs
      BY <1>1, <3>1 DEF RunType
    <3>4. QED
      BY <3>1, <3>2, <3>3 DEF action
  <2>3. QED
    BY <2>1, <2>2
<1>7. ASSUME DeployRun
      PROVE  /\ job'.cmd = job.cmd /\ job'.step = job.step + 1
             /\ UNCHANGED <<run.actor, run.end, run.actions>>
             /\ \E code \in {0, 1} : run'.rcs = Append(run.rcs, code)
             /\ UNCHANGED <<config, plan, passed, same, calm>>
  <2>1. PICK code \in {0, 1} : /\ run' = [run EXCEPT !.rcs = Append(run.rcs, code)]
                             /\ job' = [job EXCEPT !.at = "gate", !.step = job.step + 1]
                             /\ UNCHANGED <<config, plan, passed, same, calm>>
    BY <1>7 DEF DeployRun
  <2>2. job' = Moved("gate", job.step + 1, job.actions, job.failed)
    BY <1>1, <2>1, JobSteps
  <2>3. run'.rcs = Append(run.rcs, code) /\ UNCHANGED <<run.actor, run.end, run.actions>>
    BY <1>1, <2>1 DEF RunType
  <2>4. QED
    BY <2>1, <2>2, <2>3 DEF Moved
<1>8. ASSUME DeployFinish PROVE UNCHANGED <<config, plan, target, link, passed, same, calm, left>>
  BY <1>2, <1>8 DEF DeployFinish
<1>9. QED
  BY <1>3, <1>4, <1>5, <1>6, <1>7, <1>8

(* Because it stays true, a deploy cannot contradict it at any of its steps.*)
LEMMA ForecastStep ==
  ASSUME Typed, Placed, Targeted, Vouched, CheckForecasts, [PreflightNext]_preflightVars
  PROVE  CheckForecasts'
<1> DEFINE Update == \E i \in DOMAIN run.actions : run.actions[i] = "update"
           Said == /\ run.end = "refused" => Steps = <<>>
                   /\ run.end = "raised" => config.format = "yaml"
                   /\ "world" \in same /\ Update => passed.allowDrift
           Spoken == passed # NoCheck /\ passed.actor = run.actor /\ "config" \in same
<1>1. CheckForecasts <=> (Spoken => Said)
  BY DEF CheckForecasts
<1>2. SUFFICES ASSUME Spoken' PROVE Said'
  BY DEF CheckForecasts
<1>3. /\ config' = config /\ Steps' = Steps /\ passed' # NoCheck
      /\ (passed' = passed /\ same' \subseteq same) \/ CheckPolicy
  <2>1. NoCheck' = NoCheck
    BY DEF NoCheck, Nobody
  <2>2. QED
    BY <1>2, <2>1, Frames, SamePlan
<1>4. ASSUME run' = NoRun PROVE Said'
  BY <1>4 DEF NoRun
<1>5. CASE CheckPolicy
  <2>1. run' = NoRun
    BY <1>5 DEF CheckPolicy, Placed, CheckAt
  <2>2. QED
    BY <1>4, <2>1
<1>6. CASE passed' = passed /\ same' \subseteq same /\ run' = run
  <2>1. Spoken
    BY <1>2, <1>3, <1>6
  <2>2. QED
    BY <1>1, <1>3, <1>6, <2>1
<1>7. CASE run' = NoRun /\ passed' = NoCheck
  BY <1>3, <1>7
<1>8. CASE \E a \in Actors : StartDeploy(a)
  <2>1. run'.end = "working" /\ run'.actions = <<>>
    BY <1>8 DEF StartDeploy, NoRun
  <2>2. QED
    BY <2>1
<1>9. CASE /\ passed' = passed /\ same' \subseteq same /\ job.cmd = "deploy"
           /\ DeployPolicy \/ DeployLoad \/ DeployGate \/ DeployRun \/ DeployFinish
  <2>1. DeployAt /\ UNCHANGED <<run.actor, same>>
    <3>1. UNCHANGED run.actor
      <4>1. CASE DeployPolicy
        BY <4>1, DeploySteps
      <4>2. CASE DeployLoad
        BY <4>2, DeploySteps
      <4>3. CASE DeployGate
        BY <4>3, DeploySteps
      <4>4. CASE DeployRun
        BY <4>4, DeploySteps
      <4>5. CASE DeployFinish
        BY <4>5, DeploySteps DEF DeployFinish
      <4>6. QED
        BY <1>9, <4>1, <4>2, <4>3, <4>4, <4>5
    <3>2. QED
      BY <1>9, <3>1, DeploySteps DEF Placed
  <2>2. /\ passed # NoCheck /\ passed.actor = run.actor /\ "config" \in same
        /\ plan.parses /\ plan.sound /\ Valid(config) /\ ~Blocked(config, run.actor, StepSet)
        /\ "world" \in same /\ ~passed.allowDrift => NoDriftTo(Len(Steps))
    BY <1>2, <1>3, <1>9, <2>1 DEF Vouched
  <2>3. Said /\ run.end = "working"
    BY <1>1, <2>1, <2>2 DEF DeployAt
  <2>4. ASSUME NEW end, Ends(end),
               end = "refused" => Steps = <<>>, end = "raised" => config.format = "yaml"
        PROVE  Said'
    <3>1. run'.end = end /\ run'.actions = run.actions
      BY <2>4, DeploySteps
    <3>2. QED
      BY <1>3, <1>9, <2>1, <2>3, <2>4, <3>1
  <2>5. ASSUME run' = run PROVE Said'
    BY <1>3, <1>9, <2>1, <2>3, <2>5
  <2>6. CASE DeployPolicy
    <3>1. Refused => Steps = <<>>
      BY <2>1, <2>2 DEF Refused, DeployAt
    <3>2. QED
      BY <2>2, <2>4, <2>5, <2>6, <3>1, DeploySteps
  <2>7. CASE DeployLoad
    <3>1. LoadRaises(config) /\ config.format # "none" => config.format = "yaml"
      <4>1. config.format \in {"none", "ini", "yaml"}
        <5>1. HandWritten(config) => config.format \in {"none", "ini", "yaml"}
          BY DEF HandWritten
        <5>2. \A r : Guided(r).format = "ini"
          BY DEF Guided
        <5>3. \A l, p : Converted(l, p).format = "ini"
          BY DEF Converted
        <5>4. QED
          BY <5>1, <5>2, <5>3 DEF Typed, Written
      <4>2. QED
        BY <2>2, <4>1, ValidLoads
    <3>2. QED
      BY <2>4, <2>5, <2>7, <3>1, DeploySteps
  <2>8. CASE DeployGate
    <3>1. CASE Ends("raised")
      BY <2>2, <2>4, <2>8, <3>1, DeploySteps DEF DeployGate
    <3>2. CASE ~Ends("raised")
      <4>1. /\ job.at = "gate" /\ job.step <= Len(Steps)
            /\ run'.end = run.end /\ run'.actions = Append(run.actions, Probed(job.step))
        BY <2>8, <3>2, DeploySteps
      <4>2. run.actions \in Seq(ActionNames)
        BY DEF Typed, RunType
      <4>3. Update' => Update \/ Probed(job.step) = "update"
        BY <4>1, <4>2
      <4>4. "world" \in same /\ Probed(job.step) = "update" => passed.allowDrift
        <5>1. job.step \in 1 .. Len(Steps)
          BY <2>1, <4>1, PlanFacts DEF DeployAt
        <5>2. passed.allowDrift \in BOOLEAN
          BY DEF Typed, CheckType
        <5>3. QED
          BY <2>2, <5>1, <5>2 DEF NoDriftTo
      <4>5. QED
        BY <1>9, <2>1, <2>3, <4>1, <4>3, <4>4
    <3>3. QED
      BY <3>1, <3>2
  <2>9. CASE DeployRun
    <3>1. run'.end = run.end /\ run'.actions = run.actions
      BY <2>9, DeploySteps
    <3>2. QED
      BY <1>9, <2>1, <2>3, <3>1
  <2>10. CASE DeployFinish
    BY <2>4, <2>10 DEF DeployFinish
  <2>11. QED
    BY <1>9, <2>6, <2>7, <2>8, <2>9, <2>10
<1>10. QED
  BY <1>3, <1>5, <1>6, <1>7, <1>8, <1>9, RunFrames

(* A deploy that nobody disturbs has every host answering.                  *)
Undisturbed == calm => \A h \in DOMAIN link : link[h] = "answers"

(* Every step keeps the hosts of an undisturbed deploy answering.           *)
LEMMA UndisturbedStep ==
  ASSUME Typed, Placed, Targeted, Undisturbed, [PreflightNext]_preflightVars
  PROVE  Undisturbed'
<1>1. CASE \E a \in Actors : StartDeploy(a)
  <2>1. calm' = (\A h \in DOMAIN link : link[h] = "answers") /\ link' = link
    BY <1>1 DEF StartDeploy
  <2>2. QED
    BY <2>1 DEF Undisturbed
<1>2. CASE calm' /\ calm /\ ~TargetChanges /\ ~LinkChanges
  <2>1. link' = link
    BY <1>2, Frames, Runs
  <2>2. QED
    BY <1>2, <2>1 DEF Undisturbed
<1>3. QED
  BY <1>1, <1>2, Frames DEF Undisturbed

(* As wanted, as far as a probe could tell.                                 *)
Right(i) == Gated(Steps[i]) => AsWanted(Steps[i], target[i]) \/ Blind(Steps[i], target[i])
AllWell == \A i \in DOMAIN run.rcs : run.rcs[i] = 0
Delivering ==
  job.cmd = "deploy" /\ calm /\ AllWell => \A i \in DOMAIN Steps : i < job.step => Right(i)

(* The steps that a deploy is done with are right, and at its end all are.  *)
LEMMA DeliveringStep ==
  ASSUME Typed, Placed, Targeted, Undisturbed, Delivering, DeployDelivers, [PreflightNext]_preflightVars
  PROVE  Delivering' /\ DeployDelivers'
<1>1. Steps' = Steps /\ Len(Steps) \in Nat /\ DOMAIN Steps = 1 .. Len(Steps)
  BY SamePlan, PlanFacts
<1>2. job \in JobType /\ job.step \in Nat /\ run.rcs \in Seq({0, 1})
  BY DEF Typed, JobType, RunType
<1>3. DeployDelivers <=> (run.end = "finished" /\ calm /\ AllWell => \A i \in DOMAIN Steps : Right(i))
  BY DEF DeployDelivers, AllWell, Right
<1>4. DeployDelivers' <=> (run'.end = "finished" /\ calm' /\ AllWell' => \A i \in DOMAIN Steps : Right(i)')
  BY <1>1 DEF DeployDelivers, AllWell, Right
<1>5. Delivering' <=> (job'.cmd = "deploy" /\ calm' /\ AllWell' => \A i \in DOMAIN Steps : i < job'.step => Right(i)')
  BY <1>1 DEF Delivering
<1>6. ASSUME NEW i \in DOMAIN Steps, target' = target, Right(i) PROVE Right(i)'
  BY <1>1, <1>6 DEF Right
<1>7. ASSUME NEW i \in DOMAIN Steps, i # job.step, DeployRun, Right(i) PROVE Right(i)'
  <2>1. target'[i] = target[i]
    BY <1>7, Runs DEF Targeted
  <2>2. QED
    BY <1>1, <1>7, <2>1 DEF Right
<1>8. ASSUME NEW code \in {0, 1}, run'.rcs = Append(run.rcs, code), AllWell' PROVE AllWell /\ code = 0
  <2>1. Len(run.rcs) \in Nat /\ DOMAIN run.rcs = 1 .. Len(run.rcs) /\ DOMAIN run'.rcs = 1 .. Len(run.rcs) + 1
    BY <1>2, <1>8
  <2>2. /\ \A i \in 1 .. Len(run.rcs) : run'.rcs[i] = run.rcs[i]
        /\ run'.rcs[Len(run.rcs) + 1] = code
    BY <1>2, <1>8
  <2>3. \A i \in 1 .. Len(run.rcs) + 1 : run'.rcs[i] = 0
    BY <1>8, <2>1 DEF AllWell
  <2>4. QED
    BY <2>1, <2>2, <2>3 DEF AllWell
<1>9. CASE \E a \in Actors : StartDeploy(a)
  <2>1. run'.end = "working" /\ job'.step = 0
    BY <1>9 DEF StartDeploy, NoRun, Idle
  <2>2. QED
    BY <1>1, <1>4, <1>5, <2>1
<1>10. CASE DeployRun
  <2>1. /\ job.cmd = "deploy" /\ job.at = "run" /\ job'.step = job.step + 1 /\ run'.end = run.end
        /\ calm' = calm
    BY <1>10, DeploySteps DEF DeployRun
  <2>2. run'.end # "finished"
    BY <2>1 DEF Placed, DeployAt
  <2>3. SUFFICES ASSUME calm', AllWell', NEW i \in DOMAIN Steps, i < job'.step PROVE Right(i)'
    BY <1>4, <1>5, <2>2
  <2>4. PICK code \in {0, 1}, done \in BOOLEAN :
          /\ code = 0 => done
          /\ target' = IF done THEN [target EXCEPT ![job.step] = Brought(Steps[job.step], target[job.step])] ELSE target
          /\ run' = [run EXCEPT !.rcs = Append(run.rcs, code)]
    BY <1>10 DEF DeployRun
  <2>5. run'.rcs = Append(run.rcs, code)
    BY <2>4 DEF Typed, RunType
  <2>6. AllWell /\ code = 0 /\ done
    BY <1>8, <2>3, <2>4, <2>5
  <2>7. CASE i # job.step
    <3>1. i < job.step
      BY <1>1, <1>2, <2>1, <2>3, <2>7
    <3>2. Right(i)
      BY <2>1, <2>3, <2>6, <3>1 DEF Delivering
    <3>3. QED
      BY <1>7, <1>10, <2>7, <3>2
  <2>8. CASE i = job.step
    <3>1. target'[i] = Brought(Steps[i], target[i]) /\ Fits(Steps[i], target[i])
      BY <2>4, <2>6, <2>8 DEF Targeted
    <3>2. QED
      BY <1>1, <3>1, BroughtIsWanted DEF Right
  <2>9. QED
    BY <2>7, <2>8
<1>11. ASSUME calm', ~DeployRun, ~\E a \in Actors : StartDeploy(a)
       PROVE  Delivering' /\ DeployDelivers'
  <2>1. calm /\ target' = target
    BY <1>11, Frames
  <2>2. ASSUME run' = run, job'.cmd = "deploy" => job.cmd = "deploy" /\ job'.step = job.step
        PROVE  Delivering' /\ DeployDelivers'
    <3>1. AllWell' => AllWell
      BY <2>2 DEF AllWell
    <3>2. DeployDelivers'
      BY <1>3, <1>4, <1>6, <2>1, <2>2, <3>1
    <3>3. Delivering'
      BY <1>5, <1>6, <2>1, <2>2, <3>1 DEF Delivering
    <3>4. QED
      BY <3>2, <3>3
  <2>3. CASE UNCHANGED <<run, job>>
    BY <2>2, <2>3
  <2>4. CASE job'.cmd # "deploy" /\ (run' = run \/ (run' = NoRun /\ passed' = NoCheck))
    <3>1. NoRun.end # "finished"
      BY DEF NoRun
    <3>2. QED
      BY <1>4, <1>5, <2>2, <2>4, <3>1
  <2>5. CASE job.cmd = "deploy" /\ (DeployPolicy \/ DeployLoad \/ DeployGate \/ DeployFinish)
    <3>1. DeployAt
      BY <2>5 DEF Placed
    <3>2. ASSUME NEW end, Ends(end), end # "finished" PROVE Delivering' /\ DeployDelivers'
      <4>1. job'.cmd = "none" /\ run'.end # "finished"
        BY <3>2, DeploySteps DEF Idle
      <4>2. QED
        BY <1>4, <1>5, <4>1
    <3>3. CASE DeployPolicy
      BY <2>2, <2>5, <3>2, <3>3, DeploySteps
    <3>4. CASE DeployLoad
      <4>1. CASE Ends("raised")
        BY <3>2, <4>1
      <4>2. CASE job'.cmd = job.cmd /\ job'.step = 1 /\ run' = run
        <5>1. run'.end # "finished"
          BY <3>1, <4>2 DEF DeployAt
        <5>2. QED
          BY <1>1, <1>4, <1>5, <4>2, <5>1
      <4>3. QED
        BY <3>4, <4>1, <4>2, DeploySteps
    <3>5. CASE DeployGate
      <4>1. CASE Ends("raised")
        BY <3>2, <4>1
      <4>2. CASE ~Ends("raised")
        <5>1. /\ job.step \in DOMAIN Steps /\ run'.end # "finished"
              /\ \/ Probed(job.step) = "none" /\ job'.step = job.step + 1 /\ run'.rcs = Append(run.rcs, 0)
                 \/ job'.step = job.step /\ run'.rcs = run.rcs
          BY <1>1, <3>1, <3>5, <4>2, DeploySteps DEF DeployAt
        <5>2. SUFFICES ASSUME AllWell', NEW i \in DOMAIN Steps, i < job'.step PROVE Right(i)'
          BY <1>4, <1>5, <5>1
        <5>3. AllWell
          <6>1. CASE run'.rcs = run.rcs
            BY <5>2, <6>1 DEF AllWell
          <6>2. CASE run'.rcs = Append(run.rcs, 0)
            BY <1>8, <5>2, <6>2
          <6>3. QED
            BY <5>1, <6>1, <6>2
        <5>4. CASE i < job.step
          BY <1>6, <2>1, <2>5, <5>3, <5>4 DEF Delivering
        <5>5. CASE ~(i < job.step)
          <6>1. i = job.step /\ Probed(i) = "none"
            BY <1>1, <1>2, <5>1, <5>2, <5>5
          <6>2. link[Steps[i].host] = "answers" /\ Fits(Steps[i], target[i])
            BY <2>1 DEF Undisturbed, Targeted, HostsOf
          <6>3. Gated(Steps[i]) => Action(Steps[i], Printed(Steps[i], target[i])) = "none"
            BY <6>1, <6>2 DEF Probed, StepAction
          <6>4. Right(i)
            BY <6>2, <6>3, ConvergedIsWanted DEF Right
          <6>5. QED
            BY <1>6, <2>1, <6>4
        <5>6. QED
          BY <5>4, <5>5
      <4>3. QED
        BY <4>1, <4>2
    <3>6. CASE DeployFinish
      <4>1. job.step > Len(Steps) /\ Ends("finished")
        BY <3>6 DEF DeployFinish
      <4>2. job'.cmd = "none" /\ run'.rcs = run.rcs
        BY <4>1, DeploySteps DEF Idle
      <4>3. AllWell' => AllWell
        BY <4>2 DEF AllWell
      <4>4. \A i \in DOMAIN Steps : i < job.step
        BY <1>1, <1>2, <4>1
      <4>5. QED
        BY <1>4, <1>5, <1>6, <2>1, <2>5, <4>2, <4>3, <4>4 DEF Delivering
    <3>7. QED
      BY <2>5, <3>3, <3>4, <3>5, <3>6
  <2>6. QED
    BY <1>11, <2>3, <2>4, <2>5, RunFrames
<1>12. QED
  BY <1>4, <1>5, <1>9, <1>10, <1>11

(* A target that is as a command of deploy has left it is found converged,  *)
(* when a probe can tell.                                                   *)
Found(i) == Gated(Steps[i]) /\ ~Blind(Steps[i], target[i]) =>
              Action(Steps[i], Printed(Steps[i], target[i])) = "none"
Settled == \A i \in DOMAIN Steps : left[i] => Found(i)

(* Commands settle their targets, and what disturbs them is noted.          *)
LEMMA SettledStep ==
  ASSUME Typed, Placed, Targeted, Settled, [PreflightNext]_preflightVars
  PROVE  Settled'
<1>1. Steps' = Steps
  BY SamePlan
<1>2. SUFFICES ASSUME NEW i \in DOMAIN Steps, left'[i] PROVE Found(i)'
  BY <1>1 DEF Settled
<1>3. ASSUME target'[i] = target[i], left'[i] = left[i] PROVE Found(i)'
  <2>1. Found(i)
    BY <1>2, <1>3 DEF Settled
  <2>2. QED
    BY <1>1, <1>3, <2>1 DEF Found
<1>4. CASE UNCHANGED <<target, link, left>>
  BY <1>3, <1>4
<1>5. CASE TargetChanges
  <2>1. PICK k \in DOMAIN Steps : \E t \in Others(Steps[k].op) :
           target' = [target EXCEPT ![k] = t] /\ left' = [left EXCEPT ![k] = FALSE]
    BY <1>5, Changed
  <2>2. k # i
    BY <1>2, <2>1 DEF Targeted
  <2>3. target'[i] = target[i] /\ left'[i] = left[i]
    BY <2>1, <2>2 DEF Targeted
  <2>4. QED
    BY <1>3, <2>3
<1>6. CASE LinkChanges
  BY <1>3, <1>6 DEF LinkChanges
<1>7. CASE DeployRun
  <2>1. PICK code \in {0, 1}, done \in BOOLEAN :
          /\ code = 0 => done
          /\ target' = IF done THEN [target EXCEPT ![job.step] = Brought(Steps[job.step], target[job.step])] ELSE target
          /\ left' = [left EXCEPT ![job.step] = IF done THEN code = 0 ELSE left[job.step]]
    BY <1>7 DEF DeployRun
  <2>2. CASE i # job.step \/ ~done
    <3>1. target'[i] = target[i] /\ left'[i] = left[i]
      BY <2>1, <2>2 DEF Targeted
    <3>2. QED
      BY <1>3, <3>1
  <2>3. CASE i = job.step /\ done
    <3>1. target'[i] = Brought(Steps[i], target[i]) /\ Fits(Steps[i], target[i])
      BY <2>1, <2>3 DEF Targeted
    <3>2. QED
      BY <1>1, <3>1, BroughtIsFound DEF Found
  <2>4. QED
    BY <2>2, <2>3
<1>8. QED
  BY <1>4, <1>5, <1>6, <1>7, Frames

PreflightInv ==
  /\ Typed /\ Placed /\ Targeted /\ SoFar /\ Vouched /\ CheckForecasts
  /\ Undisturbed /\ Delivering /\ DeployDelivers /\ Settled

(* The invariant holds to begin with.                                       *)
LEMMA PreflightStarts ==
  ASSUME PreflightInit
  PROVE  PreflightInv
<1>1. PICK w \in Worlds :
        /\ config = w.config /\ plan = w.plan /\ target = w.target /\ changes = w.changes
        /\ link = [h \in HostsOf(w.plan.steps) |-> "answers"]
        /\ left = [i \in DOMAIN w.plan.steps |-> FALSE]
  BY DEF PreflightInit
<1>2. job = Idle /\ run = NoRun /\ passed = NoCheck /\ same = {} /\ calm = FALSE /\ jobs = 0
  BY DEF PreflightInit
<1>3. /\ HandWritten(w.config) /\ w.changes \in Nat /\ MaxJobs \in Nat
      /\ DOMAIN w.target = DOMAIN w.plan.steps
      /\ \A i \in DOMAIN w.plan.steps : Fits(w.plan.steps[i], w.target[i])
  BY WorldsAssumption, JobsAssumption
<1>4. Steps = w.plan.steps
  BY <1>1 DEF Steps
<1>5. Typed
  <2>1. job \in JobType /\ run \in RunType /\ passed \in CheckType
    BY <1>2, InitialTypes
  <2>2. Written(config)
    BY <1>1, <1>3 DEF Written
  <2>3. calm \in BOOLEAN /\ same \in SUBSET {"config", "world"} /\ changes \in Nat /\ jobs \in 0 .. MaxJobs
    <3>1. same \in SUBSET {"config", "world"} /\ calm \in BOOLEAN
      BY <1>2
    <3>2. changes \in Nat /\ jobs \in 0 .. MaxJobs
      BY <1>1, <1>2, <1>3
    <3>3. QED
      BY <3>1, <3>2
  <2>4. QED
    BY <1>1, <2>1, <2>2, <2>3 DEF Typed
<1>6. Placed
  <2>1. job.cmd = "none" /\ run.rcs = <<>> /\ run.actions = <<>> /\ Len(Steps) \in Nat
    BY <1>2, <1>5, PlanFacts DEF Idle, NoRun
  <2>2. QED
    BY <1>2, <2>1 DEF Placed, Noted
<1>7. Targeted
  <2>1. \A h : "answers" \in Ways(h)
    BY DEF Ways
  <2>2. QED
    BY <1>1, <1>3, <1>4, <2>1 DEF Targeted
<1>8. job.cmd = "none" /\ run.end = "none" /\ run.actions = <<>>
  BY <1>2 DEF Idle, NoRun
<1>9. SoFar /\ Vouched /\ CheckForecasts
  BY <1>2, <1>8 DEF SoFar, Vouched, CheckForecasts
<1>10. Undisturbed /\ Delivering /\ DeployDelivers
  BY <1>2, <1>8 DEF Undisturbed, Delivering, DeployDelivers
<1>11. Settled
  BY <1>1, <1>4 DEF Settled
<1>12. QED
  BY <1>5, <1>6, <1>7, <1>9, <1>10, <1>11 DEF PreflightInv

(* Every step of the system keeps it.                                       *)
THEOREM PreflightInvariance == PreflightSpec => []PreflightInv
<1>1. PreflightInit => PreflightInv
  BY PreflightStarts
<1>2. PreflightInv /\ [PreflightNext]_preflightVars => PreflightInv'
  <2>1. SUFFICES ASSUME PreflightInv, [PreflightNext]_preflightVars PROVE PreflightInv'
    OBVIOUS
  <2>2. /\ Typed /\ Placed /\ Targeted /\ SoFar /\ Vouched /\ CheckForecasts
        /\ Undisturbed /\ Delivering /\ DeployDelivers /\ Settled
    BY <2>1 DEF PreflightInv
  <2>3. Typed' /\ Placed' /\ Targeted'
    BY <2>1, <2>2, TypedStep, PlacedStep, TargetedStep
  <2>4. SoFar' /\ Vouched' /\ CheckForecasts'
    BY <2>1, <2>2, SoFarStep, VouchedStep, ForecastStep
  <2>5. Undisturbed' /\ Delivering' /\ DeployDelivers' /\ Settled'
    BY <2>1, <2>2, UndisturbedStep, DeliveringStep, SettledStep
  <2>6. QED
    BY <2>3, <2>4, <2>5 DEF PreflightInv
<1>3. QED
  BY <1>1, <1>2, PTL DEF PreflightSpec

(* Type correctness of check and deploy over any plans and configurations.  *)
THEOREM PreflightTypes == PreflightSpec => []PreflightTypeOK
<1>1. PreflightInv => PreflightTypeOK
  <2>1. SUFFICES ASSUME PreflightInv PROVE PreflightTypeOK
    OBVIOUS
  <2>2. Typed /\ Placed /\ Targeted
    BY <2>1 DEF PreflightInv
  <2>3. job.cmd \in {"none", "check", "deploy"} /\ run.end \in {"none", "working", "refused", "raised", "finished"}
    BY <2>2 DEF Typed, JobType, RunType
  <2>4. job.step \in 0 .. Len(Steps) + 1
    <3>1. Len(Steps) \in Nat
      BY <2>2, PlanFacts
    <3>2. CASE job.cmd = "none"
      <4>1. job.step = 0
        BY <2>2, <3>2 DEF Placed, Idle
      <4>2. QED
        BY <3>1, <4>1
    <3>3. CASE job.cmd \in {"check", "deploy"}
      BY <2>2, <3>1, <3>3 DEF Placed, CheckAt, DeployAt
    <3>4. QED
      BY <2>3, <3>2, <3>3
  <2>5. QED
    BY <2>2, <2>3, <2>4 DEF PreflightTypeOK, Typed, Placed, Noted, Targeted
<1>2. QED
  BY <1>1, PreflightInvariance, PTL

(* What validate_config accepts, load_config, the access policy and the     *)
(* databases can use; and it accepts what guided and init write.            *)
THEOREM AcceptedLoads == PreflightSpec => []ValidConfigLoads
<1>1. PreflightInv => ValidConfigLoads
  <2>1. SUFFICES ASSUME Written(config) PROVE ValidConfigLoads
    BY DEF PreflightInv, Typed
  <2>2. Valid(config) =>
          /\ config.format = "ini" => ~LoadRaises(config) /\ Policy(config).errors = {}
          /\ config.format = "yaml" => ~DatabasesRaise(config)
    BY ValidLoads
  <2>3. CASE HandWritten(config) \/ config.by = "import"
    <3>1. config.by \in {"hand", "import"}
      BY <2>3 DEF HandWritten
    <3>2. QED
      BY <2>2, <3>1 DEF ValidConfigLoads
  <2>4. ASSUME NEW r, ~Cancelled(r), config = Guided(r) PROVE ValidConfigLoads
    BY <2>2, <2>4, GuidedIsValid DEF ValidConfigLoads
  <2>5. ASSUME NEW l, NEW p, Complete(l), config = Converted(l, p) PROVE ValidConfigLoads
    <3>1. config.by = "init"
      BY <2>5 DEF Converted
    <3>2. QED
      BY <2>2, <2>5, <3>1, ConvertedIsValid DEF ValidConfigLoads
  <2>6. QED
    BY <2>1, <2>3, <2>4, <2>5 DEF Written
<1>2. QED
  BY <1>1, PreflightInvariance, PTL

(* A check that passed speaks for the deploy that follows.                  *)
THEOREM PassedForecasts == PreflightSpec => []CheckForecasts
<1>1. PreflightInv => CheckForecasts
  BY DEF PreflightInv
<1>2. QED
  BY <1>1, PreflightInvariance, PTL

(* A deploy that ends well leaves every target as wanted.                   *)
THEOREM FinishedDelivers == PreflightSpec => []DeployDelivers
<1>1. PreflightInv => DeployDelivers
  BY DEF PreflightInv
<1>2. QED
  BY <1>1, PreflightInvariance, PTL

(* The steps that add to what a check, or a deploy, has looked at.          *)
LEMMA Looks ==
  ASSUME Typed, Placed, [PreflightNext]_preflightVars, NEW i \in DOMAIN Steps
  PROVE  /\ Len(job'.actions) = i /\ Len(job.actions) = i - 1 => job'.actions[i] = Probed(i)
         /\ Len(run'.actions) = i /\ Len(run.actions) = i - 1 => run'.actions[i] = Probed(i)
<1>1. i \in Nat /\ i >= 1 /\ job \in JobType /\ job.actions \in Seq(ActionNames) /\ run.actions \in Seq(ActionNames)
  BY PlanFacts DEF Typed, JobType, RunType
<1>2. Len(Idle.actions) = 0 /\ Len(NoRun.actions) = 0 /\ Len(<<>>) = 0
  BY DEF Idle, NoRun
<1>3. i # i - 1 /\ i # 0
  BY <1>1
<1>4. ASSUME Len(job'.actions) = i, Len(job.actions) = i - 1 PROVE job'.actions[i] = Probed(i)
  <2>1. job'.actions # job.actions /\ job'.actions # <<>>
    BY <1>2, <1>3, <1>4
  <2>2. CheckProbe
    <3>1. CASE EditConfig \/ SetUp \/ TargetChanges \/ LinkChanges \/ UNCHANGED preflightVars
      BY <2>1, <3>1 DEF EditConfig, SetUp, TargetChanges, LinkChanges, preflightVars
    <3>2. CASE \E a \in Actors : StartDeploy(a)
      BY <2>1, <3>2 DEF StartDeploy, Idle
    <3>3. ASSUME NEW a \in Actors, NEW d \in BOOLEAN, StartCheck(a, d) PROVE FALSE
      <4> DEFINE f == ~plan.sound
      <4>1. job' = Idle \/ job' = [Idle EXCEPT !.cmd = "check", !.at = "config", !.actor = a, !.allowDrift = d, !.failed = f]
        BY <3>3 DEF StartCheck
      <4> HIDE DEF f
      <4>2. job'.actions = Idle.actions
        <5>1. job'.actions = Idle.actions \/ job' = [Idle EXCEPT !.cmd = "check", !.at = "config", !.actor = a, !.allowDrift = d, !.failed = f]
          BY <4>1
        <5>2. ASSUME NEW b, NEW g
              PROVE  [Idle EXCEPT !.cmd = "check", !.at = "config", !.actor = a, !.allowDrift = b, !.failed = g].actions = <<>>
          BY DEF Idle
        <5>3. QED
          BY <5>1, <5>2 DEF Idle
      <4>3. QED
        BY <2>1, <4>2 DEF Idle
    <3>4. CASE CheckConfig
      BY <1>1, <2>1, <3>4, JobSteps DEF Moved
    <3>5. CASE CheckPolicy
      BY <2>1, <3>5 DEF CheckPolicy, Idle
    <3>6. ASSUME NEW end, Ends(end) PROVE FALSE
      BY <2>1, <3>6 DEF Ends, Idle
    <3>7. CASE DeployPolicy
      <4>1. job' = [job EXCEPT !.at = "load"]
        BY <3>6, <3>7, Zenon DEF DeployPolicy
      <4>2. QED
        BY <1>1, <2>1, <4>1, JobSteps DEF Moved
    <3>8. CASE DeployLoad
      BY <1>1, <2>1, <3>6, <3>8, JobSteps DEF DeployLoad, Moved
    <3>9. CASE DeployGate
      BY <1>1, <2>1, <3>6, <3>9, JobSteps DEF DeployGate, Moved
    <3>10. CASE DeployRun
      BY <1>1, <2>1, <3>10, JobSteps DEF DeployRun, Moved
    <3>11. CASE DeployFinish
      BY <3>6, <3>11 DEF DeployFinish
    <3>12. QED
      BY <3>1, <3>2, <3>3, <3>4, <3>5, <3>7, <3>8, <3>9, <3>10, <3>11 DEF PreflightNext
  <2>3. job'.actions = Append(job.actions, Probed(job.step)) /\ Len(job.actions) = job.step - 1
    BY <1>1, <2>2, JobSteps DEF Moved, Placed, CheckAt, CheckProbe
  <2>4. job.step \in Nat
    BY <1>1 DEF JobType
  <2>5. job.step = i
    BY <1>1, <1>4, <2>3, <2>4
  <2>6. QED
    BY <1>1, <1>4, <2>3, <2>5
<1>5. ASSUME Len(run'.actions) = i, Len(run.actions) = i - 1 PROVE run'.actions[i] = Probed(i)
  <2>1. run'.actions # run.actions /\ run'.actions # <<>> /\ run' # run
    BY <1>2, <1>3, <1>5
  <2>2. job.cmd = "deploy" /\ DeployGate /\ ~Ends("raised")
    <3>1. run' # NoRun /\ ~\E a \in Actors : StartDeploy(a)
      <4>1. NoRun.actions = <<>>
        BY DEF NoRun
      <4>2. ASSUME NEW a \in Actors, StartDeploy(a) PROVE run'.actions = <<>>
        BY <4>2 DEF StartDeploy, NoRun
      <4>3. QED
        BY <2>1, <4>1, <4>2
    <3>2. \A end : ~Ends(end)
      BY <2>1, DeploySteps
    <3>3. ~DeployPolicy
      BY <2>1, <3>2, DeploySteps
    <3>4. ~DeployLoad
      BY <2>1, <3>2, DeploySteps
    <3>5. ~DeployRun
      BY <2>1, DeploySteps
    <3>6. ~DeployFinish
      BY <3>2 DEF DeployFinish
    <3>7. QED
      BY <2>1, <3>1, <3>2, <3>3, <3>4, <3>5, <3>6, RunFrames
  <2>3. run'.actions = Append(run.actions, Probed(job.step)) /\ Len(run.actions) = job.step - 1
    BY <2>2, DeploySteps DEF Placed, DeployAt
  <2>4. job.step \in Nat
    BY <1>1 DEF JobType
  <2>5. job.step = i
    BY <1>1, <1>5, <2>3, <2>4
  <2>6. QED
    BY <1>1, <1>5, <2>3, <2>5
<1>6. QED
  BY <1>4, <1>5

(* The second pass is quiet: what a command of deploy has left is found     *)
(* converged, by check and by deploy.                                       *)
THEOREM LeftIsQuiet == PreflightSpec => SecondPassQuiet
<1>1. PreflightInv /\ [PreflightNext]_preflightVars => [~Looked(job, job') /\ ~Looked(run, run')]_preflightVars
  <2>1. SUFFICES ASSUME PreflightInv, [PreflightNext]_preflightVars PROVE ~Looked(job, job') /\ ~Looked(run, run')
    OBVIOUS
  <2>2. Typed /\ Placed /\ Settled
    BY <2>1 DEF PreflightInv
  <2>3. ASSUME NEW i \in DOMAIN Steps, left[i], Gated(Steps[i]), ~Blind(Steps[i], target[i]),
               link[Steps[i].host] = "answers"
        PROVE  Probed(i) = "none"
    <3>1. Action(Steps[i], Printed(Steps[i], target[i])) = "none"
      BY <2>2, <2>3 DEF Settled, Found
    <3>2. ~Unprovable(Steps[i])
      BY <2>3 DEF Blind
    <3>3. QED
      BY <2>3, <3>1, <3>2 DEF Probed, StepAction
  <2>4. QED
    BY <2>1, <2>2, <2>3, Looks DEF Looked
<1>2. QED
  BY <1>1, PreflightInvariance, PTL DEF PreflightSpec, SecondPassQuiet
=============================================================================
