------------------------------ MODULE Onboard -------------------------------
(***************************************************************************)
(* onboarding.py, commands/onboard.py and commands/keys.py: commands that  *)
(* ensure a local ssh key, probe hosts and authorize the key on them.      *)
(* Several operators run them at once against the same key files and       *)
(* hosts; hosts go down and come back, and a key file can be lost.         *)
(*                                                                         *)
(* A key pair is a number.  ssh offers the pair at the configured path and *)
(* those of the agent; a command may name another path.                    *)
(***************************************************************************)
EXTENDS Integers, Sequences, FiniteSets, SequencesExt

CONSTANTS
  Operators,
  Inputs,      \* Inputs[p]: the commands of p: [op, path, execute, hosts]
  Hosts,
  Paths,       \* where key pairs may be
  Configured,  \* the path that ssh takes its key from
  Agent,       \* the hosts that accept a key of the agent
  Bare,        \* the hosts without python3, rsync or sha256sum at first
  MaxKeys      \* bound on the key pairs ever generated

ASSUME PathsAssumption == Configured \in Paths /\ Agent \union Bare \subseteq Hosts
ASSUME InputsAssumption ==
  \A p \in Operators : \A c \in Inputs[p] :
    /\ c.hosts \in Seq(Hosts)
    /\ c \in [op : {"onboard", "ensure", "check", "copy"}, path : Paths, execute : BOOLEAN, hosts : {c.hosts}]

VARIABLES
  key,      \* key[k]: the pair at path k: [private, public], 0 without
  made,     \* the key pairs generated so far
  host,     \* host[h]: [door, tools, accepts], door is "shut", "keys" or "passwords"
  calm,     \* hosts and key files no longer change but by these commands
  cmd       \* cmd[p]: the command of p and where it is

onboardVars == <<key, made, host, calm, cmd>>

Absent == [private |-> 0, public |-> 0]
NoCommand == [op |-> "none", path |-> Configured, execute |-> FALSE, hosts |-> <<>>]
Fresh(c) == [input |-> c, pc |-> "start", found |-> FALSE,
             probes |-> <<>>, copies |-> <<>>, exit |-> -1]

Keys == 0 .. made
ProbeType == [host : Hosts, authed : BOOLEAN, ready : BOOLEAN]
CopyType == [host : Hosts, state : {"planned", "ok", "failed"}]
OnboardTypeOK ==
  /\ made \in Nat /\ calm \in BOOLEAN
  /\ key \in [Paths -> [private : Keys, public : Keys]]
  /\ host \in [Hosts -> [door : {"shut", "keys", "passwords"}, tools : BOOLEAN, accepts : SUBSET Keys]]
  /\ \A p \in Operators :
       /\ cmd[p].pc \in {"start", "key", "keygen", "tighten", "probe", "copy", "end"}
       /\ cmd[p].exit \in {-1, 0, 1} /\ cmd[p].found \in BOOLEAN
       /\ cmd[p].probes \in Seq(ProbeType) /\ cmd[p].copies \in Seq(CopyType)

OnboardInit ==
  /\ made \in {0, 1}
  /\ key = [k \in Paths |-> IF k = Configured /\ made = 1
                              THEN [private |-> 1, public |-> 1] ELSE Absent]
  /\ host = [h \in Hosts |-> [door |-> "passwords", tools |-> h \notin Bare, accepts |-> {}]]
  /\ calm = FALSE
  /\ cmd = [p \in Operators |-> Fresh(NoCommand)]

-----------------------------------------------------------------------------
\* Hosts go down and come back, get their tools, stop taking passwords; a
\* private key is lost.  At some point all that ends well.
HostChanges(h) ==
  /\ ~calm
  /\ \/ \E d \in {"shut", "keys", "passwords"} : host' = [host EXCEPT ![h].door = d]
     \/ host' = [host EXCEPT ![h].tools = TRUE]
  /\ UNCHANGED <<key, made, calm, cmd>>

KeyLost(k) ==
  /\ ~calm /\ key[k].private # 0 /\ made < MaxKeys
  /\ \E left \in {0, key[k].public} : key' = [key EXCEPT ![k] = [Absent EXCEPT !.public = left]]
  /\ UNCHANGED <<made, host, calm, cmd>>

Settle ==
  /\ ~calm /\ calm' = TRUE
  /\ host' = [h \in Hosts |-> [host[h] EXCEPT !.door = "passwords", !.tools = TRUE]]
  /\ UNCHANGED <<key, made, cmd>>

-----------------------------------------------------------------------------
In(p) == cmd[p].input
\* parse_host_list: in order, each host once.  The next of them is the first of
\* the named ones that is in S.
Named(c) == ToSet(c.input.hosts)
First(c, S) == c.input.hosts[Min({i \in DOMAIN c.input.hosts : c.input.hosts[i] \in S})]
HostsIn(results) == {r.host : r \in ToSet(results)}

Idle(p) == cmd[p].pc \in {"start", "end"}
Goes(p, c) == cmd' = [cmd EXCEPT ![p] = c] /\ UNCHANGED calm
\* Of the keys commands only the exit code is kept.
Exits(p, c, code) == Goes(p, [(IF c.input.op = "onboard" THEN c ELSE Fresh(NoCommand))
                                EXCEPT !.pc = "end", !.exit = code])

Start(p) ==
  /\ Idle(p)
  /\ \E c \in Inputs[p] : Goes(p, [Fresh(c) EXCEPT !.pc = "key"])
  /\ UNCHANGED <<key, made, host>>

\* inspect_key, and what each command does at once on what it says: onboard
\* and copy leave without hosts, copy without a key, check tells about the key
\* (it also fails when the mode is too open);
\* a plan generates none.
Inspect(p) ==
  /\ cmd[p].pc = "key"
  /\ LET files == key[In(p).path]
         found == files.private # 0
         c == [cmd[p] EXCEPT !.found = found]
         op == In(p).op
     IN CASE op \in {"onboard", "copy"} /\ In(p).hosts = <<>> -> Exits(p, c, 1)
          [] op = "check" -> \E mode \in {0, 1} : Exits(p, c, IF found THEN mode ELSE 1)
          [] op = "copy" /\ In(p).hosts # <<>> ->
               IF found THEN Goes(p, [c EXCEPT !.pc = "copy"]) ELSE Exits(p, c, 1)
          [] op = "ensure" /\ ~found /\ ~In(p).execute -> Exits(p, c, 0)
          [] OTHER -> Goes(p, [c EXCEPT !.pc = CASE found -> "tighten"
                                                 [] ~found /\ In(p).execute -> "keygen"
                                                 [] OTHER -> "probe"])
  /\ UNCHANGED <<key, made, host>>

\* ssh-keygen -f: makes a pair where there is no private key; where one has
\* appeared since, it asks and gets no answer.
Keygen(p, k) ==
  IF key[k].private = 0
    THEN /\ made < MaxKeys /\ made' = made + 1
         /\ key' = [key EXCEPT ![k] = [private |-> made', public |-> made']]
    ELSE FALSE

\* ensure_key, when it generates: a failure ends both commands with 1.
Generate(p) ==
  /\ cmd[p].pc = "keygen"
  /\ \/ Keygen(p, In(p).path) /\ Goes(p, [cmd[p] EXCEPT !.pc = "tighten"])
     \/ UNCHANGED <<key, made>> /\ Exits(p, cmd[p], 1)
  /\ UNCHANGED host

\* The end of ensure_key: chmod, and a second inspection.  A key lost in between
\* is not there for onboard, and fails ensure.
Tighten(p) ==
  /\ cmd[p].pc = "tighten"
  /\ LET found == key[In(p).path].private # 0
         c == [cmd[p] EXCEPT !.found = found]
     IN CASE In(p).op = "ensure" -> Exits(p, c, IF found THEN 0 ELSE 1)
          [] In(p).op = "onboard" /\ ~found /\ In(p).execute -> Exits(p, c, 1)
          [] OTHER -> Goes(p, [c EXCEPT !.pc = "probe"])
  /\ UNCHANGED <<key, made, host>>

-----------------------------------------------------------------------------
\* A login without a password: with the configured key or one of the agent.
KeyAuthed(h) == host[h].door # "shut" /\ (h \in Agent \/ (key[Configured].private # 0
                                                /\ key[Configured].private \in host[h].accepts))
Ready(h) == KeyAuthed(h) /\ host[h].tools

\* probe_host of the next host: what it saw stays in the report.
Probe(p) ==
  /\ cmd[p].pc = "probe"
  /\ LET h == First(cmd[p], Named(cmd[p]) \ HostsIn(cmd[p].probes))
         c == [cmd[p] EXCEPT !.probes = Append(@, [host |-> h, authed |-> KeyAuthed(h), ready |-> Ready(h)])]
     IN Goes(p, IF Named(c) \subseteq HostsIn(c.probes) THEN [c EXCEPT !.pc = "copy"] ELSE c)
  /\ UNCHANGED <<key, made, host>>

\* Fault: the hosts that are not ready, those that only miss a tool included.
AllUnready(c) == IF c.input.op = "copy" THEN Named(c)
                 ELSE {r.host : r \in {r \in ToSet(c.probes) : ~r.ready}}
\* onboard copies to the hosts that did not let it in, keys copy to all.
NeedsKey(c) == IF c.input.op = "copy" THEN Named(c)
               ELSE {r.host : r \in {r \in ToSet(c.probes) : ~r.authed}}

Executes(c) == c.input.execute /\ c.found

\* ssh-copy-id adds the public key, when the host lets the operator in.
CopyId(h, k) ==
  IF (host[h].door = "passwords" \/ KeyAuthed(h)) /\ key[k].public # 0
    THEN host' = [host EXCEPT ![h].accepts = @ \union {key[k].public}]
    ELSE FALSE

\* copy_key for the next host; the others follow whatever becomes of it.
ToCopy(c) == NeedsKey(c) \ HostsIn(c.copies)
Copy(p) ==
  /\ cmd[p].pc = "copy" /\ ToCopy(cmd[p]) # {}
  /\ LET h == First(cmd[p], ToCopy(cmd[p]))
         Copied(state) == Goes(p, [cmd[p] EXCEPT !.copies = Append(@, [host |-> h, state |-> state])])
     IN IF ~Executes(cmd[p]) THEN Copied("planned") /\ UNCHANGED host
        ELSE \/ CopyId(h, In(p).path) /\ Copied("ok")
             \/ (host[h].door # "passwords" \/ key[In(p).path].public = 0)
                  /\ Copied("failed") /\ UNCHANGED host
  /\ UNCHANGED <<key, made>>

CopyFailed(c) == \E r \in ToSet(c.copies) : r.state = "failed"
\* Fault: the exit code is that of the copies.
CodeOfCopies(c) == IF c.input.execute /\ CopyFailed(c) THEN 1 ELSE 0
\* Fault: the hosts that are ready are counted against those that were named.
CodeOfNamed(c) ==
  IF c.input.execute
     /\ IF c.input.op = "copy" THEN CopyFailed(c)
        ELSE Cardinality({r \in ToSet(c.probes) : r.ready}) # Len(c.input.hosts)
    THEN 1 ELSE 0
\* onboard --execute fails when a probe did not find its host ready, copy when
\* a copy failed; a plan does not fail.
Code(c) ==
  IF c.input.execute
     /\ IF c.input.op = "copy" THEN CopyFailed(c) ELSE \E r \in ToSet(c.probes) : ~r.ready
    THEN 1 ELSE 0

\* The report is written, and the command ends.
Report(p) ==
  /\ cmd[p].pc = "copy" /\ ToCopy(cmd[p]) = {}
  /\ Exits(p, cmd[p], Code(cmd[p]))
  /\ UNCHANGED <<key, made, host>>

Command(p) == Inspect(p) \/ Generate(p) \/ Tighten(p) \/ Probe(p) \/ Copy(p) \/ Report(p)
OnboardNext ==
  \/ \E p \in Operators : Start(p) \/ Command(p)
  \/ \E h \in Hosts : HostChanges(h)
  \/ \E k \in Paths : KeyLost(k)
  \/ Settle

\* Commands go on, ssh-keygen works at last, and an operator comes back with
\* onboard --execute.
Onboards(c) == c.op = "onboard" /\ c.path = Configured /\ c.execute /\ c.hosts # <<>>
StartWith(p, c) == Idle(p) /\ Goes(p, [Fresh(c) EXCEPT !.pc = "key"]) /\ UNCHANGED <<key, made, host>>
OnboardFairness ==
  \A p \in Operators :
    /\ WF_onboardVars(Command(p))
    /\ \A c \in Inputs[p] : Onboards(c) =>
         SF_onboardVars(StartWith(p, c)) /\ SF_onboardVars(Keygen(p, c.path) /\ Generate(p))
OnboardSpec == OnboardInit /\ [][OnboardNext]_onboardVars /\ OnboardFairness

-----------------------------------------------------------------------------
\* Ended(p): a command of p that did something is over.
Ended(p, op) == cmd[p].pc = "end" /\ In(p).op = op /\ In(p).execute

\* Exit code 0 of an executed onboard means that the hosts can be deployed to:
\* each of them had, when this command looked, everything a deploy needs, and
\* nothing had to be copied; and the key of the command was there.
ReadyMeansReady ==
  \A p \in Operators : Ended(p, "onboard") /\ cmd[p].exit = 0 =>
    /\ cmd[p].found
    /\ cmd[p].copies = <<>>
    /\ \A h \in ToSet(In(p).hosts) : \E r \in ToSet(cmd[p].probes) : r.host = h /\ r.ready

\* No command, alone or with others, replaces a key that is there, or
\* authorizes on a host anything but a key whose private half was at its path,
\* and onboard gives nothing to a host whose probe could log in.
AddsOnlyWhatIsMissing ==
  [][/\ \A k \in Paths : key[k].private # 0 => key'[k].private \in {0, key[k].private}
     /\ \A h \in Hosts : \A n \in host'[h].accepts \ host[h].accepts :
          \E p \in Operators :
            /\ In(p).execute /\ h \in ToSet(In(p).hosts) /\ n = key[In(p).path].public
            /\ \A r \in ToSet(cmd[p].probes) : r.host = h => ~r.authed]_onboardVars

\* Onboarding comes to its end: once hosts and key files stay as they are, an
\* operator who runs onboard --execute with the configured key again and again
\* gets exit code 0.
OnboardingEnds ==
  \A p \in Operators : (\E c \in Inputs[p] : Onboards(c)) =>
    (calm ~> Onboards(In(p)) /\ cmd[p].exit = 0)
=============================================================================
