-------------------------- MODULE Schedule_proofs --------------------------
(***************************************************************************)
(* The properties of Schedule for every set of names and definitions and   *)
(* every bound on the commands a schedule starts.                          *)
(*                                                                         *)
(* Two invariants: FilesInv says what is in the files while `add` or       *)
(* `remove` is on its way through them, LockInv that a running command     *)
(* holds the lock file that is there.                                      *)
(***************************************************************************)
EXTENDS Schedule, TLAPS

-----------------------------------------------------------------------------
\* The files are written and unlinked in an order that misses none.
LEMMA RenderedOrder ==
  /\ Len(Rendered) = 4
  /\ \A j \in 1 .. 4 : Rendered[j] \in Kinds
  /\ \A k \in Kinds : \E j \in 1 .. 4 : Rendered[j] = k
  /\ \A i, j \in 1 .. 4 : Rendered[i] = Rendered[j] => i = j
  /\ Rendered[1] = "definition"
<1>1. /\ Rendered[1] = "definition" /\ Rendered[2] = "wrapper"
      /\ Rendered[3] = "service" /\ Rendered[4] = "timer" /\ Len(Rendered) = 4
  BY DEF Rendered
<1>2. \A j \in 1 .. 4 : j = 1 \/ j = 2 \/ j = 3 \/ j = 4
  OBVIOUS
<1> QED  BY <1>1, <1>2 DEF Kinds

Contents == Defs \union {Absent, Torn}

\* The command at work has done the files before `at`, and only `add` of a
\* valid definition is ever at work on new content.
CliInv ==
  cli # NoCli =>
    /\ cli \in [op : {"add", "remove"}, name : Names, def : Contents, at : 1 .. 5]
    /\ cli.op = "add" => cli.def \in Defs /\ cli.def.valid
    /\ cli.op = "remove" => cli.def = Absent
    /\ \A j \in 1 .. 4 : j < cli.at => file[cli.name][Rendered[j]] = cli.def

\* Where no command is at work or was cut short the files are of one
\* definition; only a definition is ever torn, and one that parses is valid.
FilesInv ==
  /\ file \in [Names -> [Kinds -> Contents]]
  /\ installed \in [Names -> Defs \union {Absent}]
  /\ cut \subseteq Names
  /\ CliInv
  /\ \A n \in Names \ cut : cli = NoCli \/ cli.name # n =>
       \A j, k \in Kinds : file[n][j] = file[n][k]
  /\ \A n \in Names, k \in Kinds : file[n][k] = Torn => k = "definition"
  /\ \A n \in Names : file[n]["definition"] \in {Absent, Torn} \/ file[n]["definition"].valid

LEMMA FilesInit == Init => FilesInv
<1> SUFFICES ASSUME Init PROVE FilesInv
  OBVIOUS
<1>1. /\ file = [n \in Names |-> [k \in Kinds |-> Absent]]
      /\ installed = [n \in Names |-> Absent] /\ cli = NoCli /\ cut = {}
  BY DEF Init
<1>2. "definition" \in Kinds /\ Absent # Torn
  BY DEF Kinds, Absent, Torn
<1>3. QED
  BY <1>1, <1>2 DEF FilesInv, CliInv, Contents

LEMMA FilesStep == FilesInv /\ [Next]_vars => FilesInv'
<1> SUFFICES ASSUME FilesInv, [Next]_vars PROVE FilesInv'
  OBVIOUS
<1> USE DefsAssumption, RenderedOrder
<1>0. NoCli.op = "none" /\ Absent # Torn
  BY DEF NoCli, Absent, Torn
<1>1. ASSUME NEW n \in Names, NEW d \in Defs, Add(n, d) PROVE FilesInv'
  <2>1. cli' = [op |-> "add", name |-> n, def |-> d, at |-> 1] /\ d.valid /\ cli = NoCli
        /\ UNCHANGED <<file, installed, cut>>
    BY <1>1 DEF Add, Accepts
  <2>2. CliInv'
    BY <2>1 DEF CliInv, Contents
  <2>3. QED
    BY <2>1, <2>2 DEF FilesInv
<1>2. ASSUME NEW n \in Names, Remove(n) PROVE FilesInv'
  <2>1. cli' = [op |-> "remove", name |-> n, def |-> Absent, at |-> 1] /\ cli = NoCli
        /\ UNCHANGED <<file, installed, cut>>
    BY <1>2 DEF Remove
  <2>2. CliInv'
    BY <2>1 DEF CliInv, Contents
  <2>3. QED
    BY <2>1, <2>2 DEF FilesInv
<1>3. ASSUME NEW k \in 1 .. 4,
             cli # NoCli, cli.at = k,
             file' = [file EXCEPT ![cli.name][Rendered[k]] = cli.def],
             cli' = [cli EXCEPT !.at = @ + 1], UNCHANGED <<installed, cut>>
      PROVE  FilesInv'
  <2> DEFINE n == cli.name
  <2>1. /\ cli \in [op : {"add", "remove"}, name : Names, def : Contents, at : 1 .. 5]
        /\ n \in Names /\ cli.def \in Contents /\ cli.def # Torn
        /\ cli.def = Absent \/ cli.def.valid
        /\ cli.op = "add" => cli.def \in Defs /\ cli.def.valid
        /\ cli.op = "remove" => cli.def = Absent
    BY <1>0, <1>3 DEF FilesInv, CliInv
  <2>2. /\ cli' \in [op : {"add", "remove"}, name : Names, def : Contents, at : 1 .. 5]
        /\ cli'.op = cli.op /\ cli'.name = n /\ cli'.def = cli.def /\ cli'.at = k + 1
        /\ cli' # NoCli
    BY <1>0, <1>3, <2>1
  <2>3. file' \in [Names -> [Kinds -> Contents]]
    BY <1>3, <2>1 DEF FilesInv
  <2>4. \A m \in Names, j \in Kinds :
          file'[m][j] = IF m = n /\ j = Rendered[k] THEN cli.def ELSE file[m][j]
    BY <1>3, <2>1 DEF FilesInv
  <2>5. \A j \in 1 .. 4 : j < k + 1 => file'[n][Rendered[j]] = cli.def
    <3> TAKE j \in 1 .. 4
    <3>1. j < k => file[n][Rendered[j]] = cli.def
      BY <1>3 DEF FilesInv, CliInv
    <3>2. QED
      BY <2>1, <2>4, <3>1
  <2>6. CliInv'
    BY <2>1, <2>2, <2>5 DEF CliInv
  <2>7. \A m \in Names \ cut' : cli' = NoCli \/ cli'.name # m =>
          \A i, j \in Kinds : file'[m][i] = file'[m][j]
    BY <1>3, <2>2, <2>4 DEF FilesInv
  <2>8. \A m \in Names, j \in Kinds : file'[m][j] = Torn => j = "definition"
    BY <2>1, <2>4 DEF FilesInv
  <2>9. \A m \in Names : file'[m]["definition"] \in {Absent, Torn} \/ file'[m]["definition"].valid
    <3>1. "definition" \in Kinds
      BY DEF Kinds
    <3>2. QED
      BY <2>1, <2>4, <3>1 DEF FilesInv
  <2>10. QED
    BY <1>3, <2>3, <2>6, <2>7, <2>8, <2>9 DEF FilesInv
<1>4. CASE WriteFile
  <2>1. cli # NoCli /\ cli.at \in 1 .. 4
    BY <1>0, <1>4 DEF WriteFile, FilesInv, CliInv
  <2>2. QED
    BY <1>3, <1>4, <2>1 DEF WriteFile, Content
<1>5. CASE UnlinkFile
  <2>1. cli # NoCli /\ cli.at \in 1 .. 4 /\ cli.def = Absent
    BY <1>0, <1>5 DEF UnlinkFile, FilesInv, CliInv
  <2>2. QED
    BY <1>3, <1>5, <2>1 DEF UnlinkFile
<1>6. CASE CliEnds
  <2>1. cli # NoCli /\ cli.at = 5 /\ cli' = NoCli /\ cut' = cut \ {cli.name}
        /\ UNCHANGED <<file, installed>>
    BY <1>6 DEF CliEnds, FilesInv, CliInv
  <2>2. \A k \in Kinds : file[cli.name][k] = cli.def
    BY <2>1 DEF FilesInv, CliInv
  <2>3. \A m \in Names \ cut' : \A i, j \in Kinds : file[m][i] = file[m][j]
    BY <2>1, <2>2 DEF FilesInv
  <2>4. QED
    BY <2>1, <2>3 DEF FilesInv, CliInv
<1>7. CASE CliKilled
  <2>1. /\ cli # NoCli /\ cli' = NoCli /\ cut' = cut \union {cli.name} /\ UNCHANGED installed
        /\ cli.name \in Names
    BY <1>7 DEF CliKilled, FilesInv, CliInv
  <2>2. CASE UNCHANGED file
    BY <2>1, <2>2 DEF FilesInv, CliInv
  <2>3. CASE file' = [file EXCEPT ![cli.name]["definition"] = Torn]
    <3>1. file' \in [Names -> [Kinds -> Contents]]
      BY <2>1, <2>3 DEF FilesInv, Contents
    <3>2. \A m \in Names, j \in Kinds :
            file'[m][j] = IF m = cli.name /\ j = "definition" THEN Torn ELSE file[m][j]
      BY <2>1, <2>3 DEF FilesInv
    <3>3. \A m \in Names \ cut' : \A i, j \in Kinds : file'[m][i] = file'[m][j]
      BY <2>1, <3>2 DEF FilesInv
    <3>4. "definition" \in Kinds
      BY DEF Kinds
    <3>5. QED
      BY <2>1, <3>1, <3>2, <3>3, <3>4 DEF FilesInv, CliInv
  <2>4. QED
    BY <1>7, <2>2, <2>3 DEF CliKilled
<1>8. ASSUME NEW n \in Names, Install(n) PROVE FilesInv'
  <2>1. /\ installed' = [installed EXCEPT ![n] = file[n]["timer"]]
        /\ UNCHANGED <<file, cli, cut>>
    BY <1>8 DEF Install
  <2>2. file[n]["timer"] \in Defs \union {Absent}
    BY DEF FilesInv, Contents, Kinds
  <2>3. QED
    BY <2>1, <2>2 DEF FilesInv, CliInv
<1>9. ASSUME NEW n \in Names, Disable(n) PROVE FilesInv'
  BY <1>9 DEF Disable, FilesInv, CliInv
<1>10. ASSUME NEW n \in Names, Fire(n) \/ RunEnds(n) PROVE FilesInv'
  BY <1>10 DEF Fire, RunEnds, FilesInv, CliInv
<1>11. CASE UNCHANGED vars
  BY <1>11 DEF vars, FilesInv, CliInv
<1>12. QED
  BY <1>1, <1>2, <1>4, <1>5, <1>6, <1>7, <1>8, <1>9, <1>10, <1>11 DEF Next

LEMMA FilesAlways == Spec => []FilesInv
  BY FilesInit, FilesStep, PTL DEF Spec

-----------------------------------------------------------------------------
(* The lock.                                                               *)

Run == [def : Contents, lock : Nat, running : BOOLEAN]

\* A command that runs holds the lock file that is there; nothing removes it.
LockInv ==
  /\ lock \in [Names -> Nat] /\ made \in [Names -> Nat]
  /\ \A n \in Names : lock[n] <= made[n]
  /\ runs \in [Names -> Seq(Run)]
  /\ \A n \in Names : \A r \in DOMAIN runs[n] :
       runs[n][r].running => lock[n] # 0 /\ runs[n][r].lock = lock[n]
  /\ NoOverlap

LEMMA LockInit == Init => LockInv
<1> SUFFICES ASSUME Init PROVE LockInv
  OBVIOUS
<1>1. \A n \in Names : runs[n] = <<>> /\ lock[n] = 0 /\ made[n] = 0
  BY DEF Init
<1>2. runs \in [Names -> Seq(Run)] /\ lock \in [Names -> Nat] /\ made \in [Names -> Nat]
  BY DEF Init
<1>3. QED
  BY <1>1, <1>2 DEF LockInv, NoOverlap

LEMMA LockStep == FilesInv /\ LockInv /\ [Next]_vars => LockInv'
<1> SUFFICES ASSUME FilesInv, LockInv, [Next]_vars PROVE LockInv'
  OBVIOUS
<1>1. ASSUME UNCHANGED <<lock, made, runs>> PROVE LockInv'
  BY <1>1 DEF LockInv, NoOverlap
<1>2. CASE UnlinkFile
  <2>1. lock' = lock /\ UNCHANGED <<made, runs>>
    BY <1>2 DEF UnlinkFile, LockAfter, LockInv
  <2>2. QED
    BY <1>1, <2>1
<1>3. ASSUME NEW n \in Names, Fire(n) PROVE LockInv'
  <2> DEFINE l == IF lock[n] = 0 THEN made[n] + 1 ELSE lock[n]
             new == [def |-> Starts(n), lock |-> l, running |-> TRUE]
  <2>1. /\ lock' = [lock EXCEPT ![n] = l]
        /\ made' = [made EXCEPT ![n] = IF l > @ THEN l ELSE @]
        /\ runs' = [runs EXCEPT ![n] = Append(@, new)]
        /\ lock[n] = 0 \/ ~Held(n, lock[n])
    BY <1>3 DEF Fire
  <2>2. \A r \in DOMAIN runs[n] : ~runs[n][r].running
    BY <2>1 DEF LockInv, Held
  <2>3. l \in Nat /\ l # 0 /\ lock[n] \in Nat /\ made[n] \in Nat
    BY DEF LockInv
  <2>4. Starts(n) \in Contents
    BY DEF Starts, FilesInv, Kinds
  <2>5. new \in Run
    BY <2>3, <2>4 DEF Run
  <2> HIDE DEF l, new
  <2>6. runs' \in [Names -> Seq(Run)]
    BY <2>1, <2>5 DEF LockInv
  <2>7. /\ lock' \in [Names -> Nat] /\ made' \in [Names -> Nat]
        /\ \A m \in Names : lock'[m] <= made'[m]
    BY <2>1, <2>3 DEF LockInv
  <2>8. /\ DOMAIN runs'[n] = 1 .. Len(runs[n]) + 1 /\ runs'[n][Len(runs[n]) + 1] = new
        /\ \A r \in 1 .. Len(runs[n]) : runs'[n][r] = runs[n][r]
        /\ DOMAIN runs[n] = 1 .. Len(runs[n]) /\ Len(runs[n]) \in Nat
    BY <2>1, <2>5 DEF LockInv
  <2>9. \A r \in DOMAIN runs'[n] : runs'[n][r].running => r = Len(runs[n]) + 1
    BY <2>2, <2>8
  <2>10. new.lock = l /\ lock'[n] = l
    BY <2>1 DEF new, LockInv
  <2>11. \A m \in Names : \A r \in DOMAIN runs'[m] :
           runs'[m][r].running => lock'[m] # 0 /\ runs'[m][r].lock = lock'[m]
    <3> TAKE m \in Names
    <3>1. CASE m = n
      BY <2>3, <2>8, <2>9, <2>10, <3>1
    <3>2. CASE m # n
      BY <2>1, <3>2 DEF LockInv
    <3>3. QED
      BY <3>1, <3>2
  <2>12. NoOverlap'
    <3> SUFFICES ASSUME NEW m \in Names, NEW r \in DOMAIN runs'[m], NEW q \in DOMAIN runs'[m],
                        runs'[m][r].running, runs'[m][q].running
                 PROVE  r = q
      BY DEF NoOverlap
    <3>1. CASE m = n
      BY <2>9, <3>1
    <3>2. CASE m # n
      BY <2>1, <3>2 DEF LockInv, NoOverlap
    <3>3. QED
      BY <3>1, <3>2
  <2>13. QED
    BY <2>6, <2>7, <2>11, <2>12 DEF LockInv
<1>4. ASSUME NEW n \in Names, RunEnds(n) PROVE LockInv'
  <2>1. PICK r \in DOMAIN runs[n] : runs' = [runs EXCEPT ![n][r].running = FALSE]
    BY <1>4 DEF RunEnds
  <2>2. UNCHANGED <<lock, made>>
    BY <1>4 DEF RunEnds
  <2>3. runs' \in [Names -> Seq(Run)]
    <3> DEFINE ended == [runs[n][r] EXCEPT !.running = FALSE]
               seq == [runs[n] EXCEPT ![r] = ended]
    <3>1. runs[n] \in Seq(Run) /\ runs[n][r] \in Run
      BY <2>1 DEF LockInv
    <3>2. ended \in Run
      BY <3>1 DEF Run
    <3>3. runs' = [runs EXCEPT ![n] = seq]
      BY <2>1 DEF LockInv
    <3> HIDE DEF ended
    <3>4. seq \in Seq(Run)
      BY <3>1, <3>2
    <3> HIDE DEF seq
    <3>5. QED
      BY <3>3, <3>4 DEF LockInv
  <2>4. \A m \in Names :
          /\ DOMAIN runs'[m] = DOMAIN runs[m]
          /\ \A q \in DOMAIN runs[m] : /\ runs'[m][q].lock = runs[m][q].lock
                                       /\ runs'[m][q].running => runs[m][q].running
    BY <2>1 DEF LockInv, Run
  <2>5. NoOverlap'
    BY <2>4 DEF LockInv, NoOverlap
  <2>6. QED
    BY <2>2, <2>3, <2>4, <2>5 DEF LockInv
<1>5. CASE WriteFile \/ CliEnds \/ CliKilled
  BY <1>1, <1>5 DEF WriteFile, CliEnds, CliKilled
<1>6. ASSUME NEW n \in Names, NEW d \in Defs, Add(n, d) PROVE LockInv'
  BY <1>1, <1>6 DEF Add
<1>7. ASSUME NEW n \in Names, Remove(n) \/ Install(n) \/ Disable(n) PROVE LockInv'
  BY <1>1, <1>7 DEF Remove, Install, Disable
<1>8. CASE UNCHANGED vars
  BY <1>1, <1>8 DEF vars
<1>9. QED
  BY <1>2, <1>3, <1>4, <1>5, <1>6, <1>7, <1>8 DEF Next

LEMMA LockAlways == Spec => []LockInv
<1>1. FilesInv /\ LockInv /\ [Next]_vars => LockInv'
  BY LockStep
<1>2. QED
  BY <1>1, LockInit, FilesAlways, PTL DEF Spec

-----------------------------------------------------------------------------
\* Every variable stays in its type.
THEOREM TypeCorrect == Spec => []TypeOK
<1>1. FilesInv /\ LockInv => TypeOK
  <2> SUFFICES ASSUME FilesInv, LockInv PROVE TypeOK
    OBVIOUS
  <2>1. cli = NoCli \/ (cli.op \in {"add", "remove"} /\ cli.name \in Names /\ cli.at \in 1 .. 5)
    BY DEF FilesInv, CliInv
  <2>2. QED
    BY <2>1 DEF TypeOK, FilesInv, LockInv, Contents
<1>2. QED
  BY <1>1, FilesAlways, LockAlways, PTL

\* At most one command of a schedule runs at a time, whatever is done to its
\* files while it runs (the wrapper's flock, scheduling.py:13-15).
THEOREM NoOverlapHolds == Spec => []NoOverlap
<1>1. LockInv => NoOverlap
  BY DEF LockInv
<1>2. QED
  BY <1>1, LockAlways, PTL

\* An `add` or `remove` that ends leaves four files of one valid definition or
\* none, whatever an earlier one that was cut short has left behind.
THEOREM EndsCoherentHolds == Spec => []EndsCoherent
<1>1. FilesInv => EndsCoherent
  <2> SUFFICES ASSUME FilesInv PROVE EndsCoherent
    OBVIOUS
  <2>1. \A n \in Names \ cut : cli.name # n => \A j, k \in Kinds : file[n][j] = file[n][k]
    BY DEF FilesInv
  <2>2. ~DoctorFails
    <3>1. \A n \in Names : file[n]["definition"] \in {Absent, Torn} \/ file[n]["definition"].valid
      BY DEF FilesInv
    <3>2. QED
      BY <3>1 DEF DoctorFails, ListRaises
  <2>3. QED
    BY <2>1, <2>2 DEF EndsCoherent
<1>2. QED
  BY <1>1, FilesAlways, PTL

\* What a timer starts is the command of the definition that `schedule list`
\* shows at that moment, however old the installed units are.
THEOREM StartsWhatIsListedHolds == Spec => StartsWhatIsListed
<1> DEFINE Listed == \A n \in Names : Len(runs'[n]) > Len(runs[n]) /\ n \notin cut /\ cli.name # n =>
                       /\ file[n]["definition"] # Absent
                       /\ runs'[n][Len(runs'[n])].def.command = file[n]["definition"].command
<1>1. ASSUME FilesInv, LockInv, [Next]_vars PROVE Listed
  <2> SUFFICES ASSUME NEW n \in Names, Len(runs'[n]) > Len(runs[n]), n \notin cut, cli.name # n
               PROVE  /\ file[n]["definition"] # Absent
                      /\ runs'[n][Len(runs'[n])].def.command = file[n]["definition"].command
    OBVIOUS
  <2>1. Len(runs[n]) \in Nat /\ runs[n] \in Seq(Run)
    BY <1>1 DEF LockInv
  <2>2. Fire(n)
    <3>1. runs' # runs
      BY <2>1
    <3>2. ~(WriteFile \/ UnlinkFile \/ CliEnds \/ CliKilled) /\ ~UNCHANGED vars
      BY <3>1 DEF WriteFile, UnlinkFile, CliEnds, CliKilled, vars
    <3>3. PICK m \in Names : Fire(m) \/ RunEnds(m)
      BY <1>1, <3>1, <3>2 DEF Next, Add, Remove, Install, Disable
    <3>4. ~RunEnds(m)
      <4> SUFFICES ASSUME RunEnds(m) PROVE FALSE
        OBVIOUS
      <4>1. PICK r \in DOMAIN runs[m] : runs' = [runs EXCEPT ![m][r].running = FALSE]
        BY DEF RunEnds
      <4>2. Len(runs'[n]) = Len(runs[n])
        BY <1>1, <4>1 DEF LockInv, Run
      <4>3. QED
        BY <2>1, <4>2
    <3>5. m = n
      <4>1. runs' = [runs EXCEPT ![m] = runs'[m]]
        BY <1>1, <3>3, <3>4 DEF Fire, LockInv
      <4>2. QED
        BY <1>1, <2>1, <4>1 DEF LockInv
    <3>6. QED
      BY <3>3, <3>4, <3>5
  <2> DEFINE l == IF lock[n] = 0 THEN made[n] + 1 ELSE lock[n]
             new == [def |-> Starts(n), lock |-> l, running |-> TRUE]
  <2>3. /\ new.def = file[n]["wrapper"]
        /\ runs' = [runs EXCEPT ![n] = Append(@, new)]
    BY <2>2 DEF Fire, Starts
  <2> HIDE DEF l, new
  <2>4. runs'[n][Len(runs'[n])] = new
    BY <1>1, <2>1, <2>3 DEF LockInv
  <2>5. file[n]["wrapper"] = file[n]["definition"]
    BY <1>1 DEF FilesInv, Kinds
  <2>6. file[n]["wrapper"] # Absent
    BY <2>2 DEF Fire, Starts
  <2>7. QED
    BY <2>3, <2>4, <2>5, <2>6
<1>2. QED
  BY <1>1, FilesAlways, LockAlways, PTL DEF Spec, StartsWhatIsListed
=============================================================================
