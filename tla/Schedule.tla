------------------------------ MODULE Schedule ------------------------------
(***************************************************************************)
(* scheduling.py and commands/schedule.py: `schedule add` renders a        *)
(* definition, a wrapper, a service and a timer into .local81/schedules,   *)
(* one file after the other, `schedule remove` unlinks them one after the  *)
(* other, the operator copies service and timer to systemd and enables the *)
(* timer, and a timer that fires runs the wrapper, which runs the command  *)
(* under `flock -n`.  Commands outlive edits and removals of their         *)
(* schedule, and `add` and `remove` can be killed between two files.       *)
(***************************************************************************)
EXTENDS Integers, Sequences

CONSTANTS
  Names,       \* schedule names
  Defs,        \* definitions: [command, calendar, valid]
  MaxRuns      \* bound on the commands a name has started

Absent == [command |-> "none", calendar |-> "none", valid |-> FALSE]
Torn == [command |-> "torn", calendar |-> "none", valid |-> FALSE]
ASSUME DefsAssumption == Absent \notin Defs /\ Torn \notin Defs

\* The files of a schedule in the order in which they are written and unlinked.
Rendered == <<"definition", "wrapper", "service", "timer">>
Kinds == {"definition", "wrapper", "service", "timer"}

VARIABLES
  file,        \* file[n][k]: the definition that file k of n was rendered from
  installed,   \* installed[n]: what the timer in /etc/systemd/system says
  cli,         \* the schedule command at work: [op, name, def, at]
  lock,        \* lock[n]: the generation of the lock file there, 0 without one
  made,        \* made[n]: the lock files made so far
  runs,        \* runs[n]: the commands started: [def, lock, running]
  cut          \* names whose last add or remove was killed half way

vars == <<file, installed, cli, lock, made, runs, cut>>
NoCli == [op |-> "none", name |-> "none", def |-> Absent, at |-> 0]

TypeOK ==
  /\ file \in [Names -> [Kinds -> Defs \union {Absent, Torn}]]
  /\ installed \in [Names -> Defs \union {Absent}]
  /\ cli = NoCli \/ (cli.op \in {"add", "remove"} /\ cli.name \in Names /\ cli.at \in 1 .. 5)
  /\ lock \in [Names -> Nat] /\ \A n \in Names : lock[n] <= made[n]
  /\ cut \subseteq Names

Init ==
  /\ file = [n \in Names |-> [k \in Kinds |-> Absent]]
  /\ installed = [n \in Names |-> Absent]
  /\ cli = NoCli
  /\ lock = [n \in Names |-> 0] /\ made = [n \in Names |-> 0]
  /\ runs = [n \in Names |-> <<>>]
  /\ cut = {}

There(n) == {k \in Kinds : file[n][k] # Absent}

-----------------------------------------------------------------------------
\* validate: name, calendar, notify URL and command, before the first file.
Accepts(d) == d.valid

Add(n, d) ==
  /\ cli = NoCli /\ Accepts(d)
  /\ cli' = [op |-> "add", name |-> n, def |-> d, at |-> 1]
  /\ UNCHANGED <<file, installed, lock, made, runs, cut>>

\* Fault: files that are there are not rendered again.
KeepsOld(n, k) == IF file[n][k] # Absent /\ k # "definition" THEN file[n][k] ELSE cli.def
\* Every file is rendered anew.
Content(n, k) == cli.def

WriteFile ==
  /\ cli.op = "add" /\ cli.at <= Len(Rendered)
  /\ file' = [file EXCEPT ![cli.name][Rendered[cli.at]] = Content(cli.name, Rendered[cli.at])]
  /\ cli' = [cli EXCEPT !.at = @ + 1]
  /\ UNCHANGED <<installed, lock, made, runs, cut>>

\* `remove` of a schedule of which any file is left.
Remove(n) ==
  /\ cli = NoCli /\ There(n) # {}
  /\ cli' = [op |-> "remove", name |-> n, def |-> Absent, at |-> 1]
  /\ UNCHANGED <<file, installed, lock, made, runs, cut>>

\* Fault: the lock goes with the other files.
LockGone(n) == 0
\* The lock file stays.
LockAfter(n) == lock[n]

UnlinkFile ==
  /\ cli.op = "remove" /\ cli.at <= Len(Rendered)
  /\ file' = [file EXCEPT ![cli.name][Rendered[cli.at]] = Absent]
  /\ lock' = [lock EXCEPT ![cli.name] = LockAfter(cli.name)]
  /\ cli' = [cli EXCEPT !.at = @ + 1]
  /\ UNCHANGED <<installed, made, runs, cut>>

CliEnds ==
  /\ cli # NoCli /\ cli.at > Len(Rendered)
  /\ cli' = NoCli /\ cut' = cut \ {cli.name}
  /\ UNCHANGED <<file, installed, lock, made, runs>>

\* The command is killed between two files, or in the middle of a definition,
\* which then does not parse.
CliKilled ==
  /\ cli # NoCli /\ cli.at <= Len(Rendered)
  /\ \/ UNCHANGED file
     \/ cli.op = "add" /\ cli.at = 1 /\ file' = [file EXCEPT ![cli.name]["definition"] = Torn]
  /\ cli' = NoCli /\ cut' = cut \union {cli.name}
  /\ UNCHANGED <<installed, lock, made, runs>>

-----------------------------------------------------------------------------
\* The operator follows the install hint, or disables the timer.
Install(n) ==
  /\ file[n]["service"] # Absent /\ file[n]["timer"] # Absent
  /\ installed' = [installed EXCEPT ![n] = file[n]["timer"]]
  /\ UNCHANGED <<file, cli, lock, made, runs, cut>>

Disable(n) ==
  /\ installed[n] # Absent
  /\ installed' = [installed EXCEPT ![n] = Absent]
  /\ UNCHANGED <<file, cli, lock, made, runs, cut>>

Held(n, l) == \E r \in DOMAIN runs[n] : runs[n][r].running /\ runs[n][r].lock = l

\* Fault: the installed service has the command.
StartsInstalled(n) == installed[n]
\* The installed service names the wrapper of the store by its path.
Starts(n) == file[n]["wrapper"]

\* The timer fires: without the wrapper nothing starts, and with the lock held
\* flock leaves at once.  flock makes the lock file when it is not there.
Fire(n) ==
  /\ installed[n] # Absent /\ Starts(n) # Absent
  /\ Len(runs[n]) < MaxRuns
  /\ lock[n] = 0 \/ ~Held(n, lock[n])
  /\ LET l == IF lock[n] = 0 THEN made[n] + 1 ELSE lock[n]
     IN /\ lock' = [lock EXCEPT ![n] = l]
        /\ made' = [made EXCEPT ![n] = IF l > @ THEN l ELSE @]
        /\ runs' = [runs EXCEPT ![n] = Append(@, [def |-> Starts(n), lock |-> l, running |-> TRUE])]
  /\ UNCHANGED <<file, installed, cli, cut>>

\* The command ends, or its process is killed: the lock is released.
RunEnds(n) ==
  /\ \E r \in DOMAIN runs[n] :
       /\ runs[n][r].running
       /\ runs' = [runs EXCEPT ![n][r].running = FALSE]
  /\ UNCHANGED <<file, installed, cli, lock, made, cut>>

Next ==
  \/ \E n \in Names : \/ \E d \in Defs : Add(n, d)
                      \/ Remove(n) \/ Install(n) \/ Disable(n) \/ Fire(n) \/ RunEnds(n)
  \/ WriteFile \/ UnlinkFile \/ CliEnds \/ CliKilled

Spec == Init /\ [][Next]_vars

-----------------------------------------------------------------------------
\* list and doctor read every definition and raise at one that does not parse.
ListRaises == \E n \in Names : file[n]["definition"] = Torn
\* doctor: the definitions that validate refuses.
DoctorFails == ~ListRaises /\ \E n \in Names : file[n]["definition"] # Absent /\ ~file[n]["definition"].valid

-----------------------------------------------------------------------------
\* No overlap (scheduling.py:13-15): of the commands that a schedule has
\* started at most one runs, also when the schedule was changed, or removed and
\* added again, while it ran.
NoOverlap ==
  \A n \in Names : \A r, q \in DOMAIN runs[n] :
    runs[n][r].running /\ runs[n][q].running => r = q

\* What is started is what `schedule list` shows: the command that a timer
\* starts is that of the definition of that moment, however long ago the units
\* were installed, and nothing once the schedule is removed; unless an add or
\* remove is at work or was cut short.
StartsWhatIsListed ==
  [][\A n \in Names : Len(runs'[n]) > Len(runs[n]) /\ n \notin cut /\ cli.name # n =>
       /\ file[n]["definition"] # Absent
       /\ runs'[n][Len(runs'[n])].def.command = file[n]["definition"].command]_vars

\* Whatever an earlier add or remove that was cut short has left behind, one
\* that ends leaves four files of one definition that doctor accepts, or none.
EndsCoherent ==
  /\ \A n \in Names \ cut : cli.name # n => \A j, k \in Kinds : file[n][j] = file[n][k]
  /\ ~DoctorFails
=============================================================================
