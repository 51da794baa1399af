----------------------------- MODULE SealedLogs -----------------------------
(***************************************************************************)
(* log_safety.py and its users: `pull-logs` and `diag` capture logs of     *)
(* remote hosts into a directory and seal it with a manifest of the files' *)
(* digests, `scan` writes and verifies the manifest and rates what it      *)
(* reads, and `logs --host` reads one file through read_log.  They are     *)
(* separate processes, each of which lists the directory and then opens    *)
(* its files one by one, and files are changed by others too.              *)
(* A scan and a read are not at work at the same time: neither sees the    *)
(* other.                                                                  *)
(*                                                                         *)
(* A digest stands for the content it was taken of, and the Merkle root    *)
(* for the entries it was computed from (Merkle shows why it may).  What a *)
(* text contains is abstracted to its severity: 0 clean, 1 warn, 2 high.   *)
(***************************************************************************)
EXTENDS Integers, Sequences, FiniteSets, SequencesExt

CONSTANTS
  Units,       \* what a capture copies, in order: host and component
  Contents, Severity,
  Note,        \* what an error file says, if anything
  Captures,    \* the captures run one after the other: "pull" or "diag"
  Scans,       \* the command lines of scan: [dir, write, verify, failOn]
  Scanned,     \* bound on the scans
  MaxEdits     \* bound on the changes made by others

\* A unit's log, and its .pull.err or .stderr.log, in the order of rglob.
Sorted == [k \in 1 .. 2 * Len(Units) |-> <<Units[(k + 1) \div 2], IF k % 2 = 1 THEN "err" ELSE "log">>]
Paths == ToSet(Sorted)
ManifestFile == <<"directory", "manifest">>
Absent == "absent"
Rank(c) == Severity[c]

ASSUME UnitsAssumption == Units \in Seq(STRING)
ASSUME CapturesAssumption == Captures \in Seq({"pull", "diag"})
ASSUME ContentsAssumption == Absent \notin Contents /\ Note \in Contents /\ Severity \in [Contents -> 0 .. 2]
InputType == [dir : BOOLEAN, write : BOOLEAN, verify : BOOLEAN, failOn : 1 .. 3]  \* 3: never
ASSUME ScansAssumption == Scans \subseteq InputType
ASSUME BoundsAssumption == Scanned \in Nat /\ MaxEdits \in Nat

VARIABLES
  file,      \* the captured files
  manifest,  \* [state, entries, root]
  capture,   \* [pc, kind, left, unit, build, rc]
  scan,      \* [pc, input, build, sealed, rc, seen, left]; build and sealed are
             \* the entries of the directory and the manifest that was loaded
  reader,    \* [pc, path, text, status]
  edits,     \* changes made by others
  changed    \* <<r, x>>: x changed since r, "scan" or "reader", has begun

vars == <<file, manifest, capture, scan, reader, edits, changed>>

NoManifest == [state |-> "none", entries |-> <<>>, root |-> <<>>]
Build(listed) == [todo |-> listed, entries |-> <<>>]
NoBuild == Build({})
There == {p \in Paths : file[p] # Absent}

Init ==
  /\ file = [p \in Paths |-> Absent] /\ manifest = NoManifest
  /\ capture = [pc |-> "idle", kind |-> "pull", left |-> Captures, unit |-> 1, build |-> NoBuild, rc |-> 0]
  /\ scan = [pc |-> "idle", input |-> [dir |-> FALSE, write |-> FALSE, verify |-> FALSE, failOn |-> 1],
             build |-> NoBuild, sealed |-> NoManifest, rc |-> 0, seen |-> 0, left |-> Scanned]
  /\ reader = [pc |-> "idle", path |-> ManifestFile, text |-> Absent, status |-> "none"]
  /\ edits = 0 /\ changed = {}

\* Something changes what a scan or a reader under way may have looked at.
Watching == {r \in {"scan", "reader"} : IF r = "scan" THEN scan.pc # "idle" ELSE reader.pc # "idle"}
Touch(xs) == changed' = changed \union (Watching \X xs)
Begin(r) == changed' = {c \in changed : c[1] # r}
Calm(r, x) == <<r, x>> \notin changed

\* Building a manifest: the files that were listed are hashed in their order,
\* and one that is gone by then raises.
First(b) == Sorted[CHOOSE k \in DOMAIN Sorted :
                     Sorted[k] \in b.todo /\ \A j \in 1 .. k - 1 : Sorted[j] \notin b.todo]
Hashable(b) == b.todo # {} /\ file[First(b)] # Absent
Hash(b) == [todo |-> b.todo \ {First(b)},
            entries |-> Append(b.entries, [path |-> First(b), digest |-> file[First(b)]])]

-----------------------------------------------------------------------------
\* The directory is there, and the first unit is next.
StartCapture ==
  /\ capture.pc = "idle" /\ capture.left # <<>>
  /\ capture' = [capture EXCEPT !.pc = "copy", !.kind = Head(capture.left), !.left = Tail(@),
                                !.unit = 1, !.rc = 0]
  /\ UNCHANGED <<file, manifest, scan, reader, edits, changed>>

\* pull-logs opens .pull.err, empty, before scp runs.
OpenErr ==
  /\ capture.pc = "copy" /\ capture.kind = "pull" /\ capture.unit <= Len(Units)
  /\ LET e == <<Units[capture.unit], "err">>
     IN file' = [file EXCEPT ![e] = Note] /\ Touch({e})
  /\ capture' = [capture EXCEPT !.pc = "scp"]
  /\ UNCHANGED <<manifest, scan, reader, edits>>

\* scp -r replaces the log and leaves what it does not find, and .pull.err is
\* unlinked; when it fails, it has replaced the log or not, and said why.
Scp ==
  /\ capture.pc = "scp"
  /\ LET l == <<Units[capture.unit], "log">>
         e == <<Units[capture.unit], "err">>
     IN /\ \E c \in Contents, ok \in BOOLEAN :
             /\ file' = [file EXCEPT ![l] = c, ![e] = IF ok THEN Absent ELSE Note]
                \/ (~ok /\ file' = [file EXCEPT ![e] = Note])
             /\ capture' = [capture EXCEPT !.pc = "copy", !.unit = @ + 1, !.rc = IF ok THEN @ ELSE 1]
        /\ Touch({l, e})
  /\ UNCHANGED <<manifest, scan, reader, edits>>

\* diag writes what a host printed, both streams, whatever the host's code.
Diag ==
  /\ capture.pc = "copy" /\ capture.kind = "diag" /\ capture.unit <= Len(Units)
  /\ LET l == <<Units[capture.unit], "log">>
         e == <<Units[capture.unit], "err">>
     IN /\ \E c \in Contents, ok \in BOOLEAN :
             /\ file' = [file EXCEPT ![l] = c, ![e] = Note]
             /\ capture' = [capture EXCEPT !.unit = @ + 1, !.rc = IF ok THEN @ ELSE 1]
        /\ Touch({l, e})
  /\ UNCHANGED <<manifest, scan, reader, edits>>

\* build_manifest lists every file of the directory, of earlier captures too.
ListFiles ==
  /\ capture.pc = "copy" /\ capture.unit > Len(Units)
  /\ capture' = [capture EXCEPT !.pc = "seal", !.build = Build(There)]
  /\ UNCHANGED <<file, manifest, scan, reader, edits, changed>>

SealNext ==
  /\ capture.pc = "seal" /\ capture.build.todo # {}
  /\ capture' = IF Hashable(capture.build) THEN [capture EXCEPT !.build = Hash(@)]
                ELSE [capture EXCEPT !.pc = "idle", !.build = NoBuild, !.rc = 1]
  /\ UNCHANGED <<file, manifest, scan, reader, edits, changed>>

Sealed(entries) == [state |-> "whole", entries |-> entries, root |-> entries]

\* write_manifest, and the end; what the scan of the sealed files finds is a
\* warning and no exit code.
Seal ==
  /\ capture.pc = "seal" /\ capture.build.todo = {}
  /\ manifest' = Sealed(capture.build.entries) /\ Touch({ManifestFile})
  /\ capture' = [capture EXCEPT !.pc = "idle", !.build = NoBuild]
  /\ UNCHANGED <<file, scan, reader, edits>>

\* A capture is killed, maybe while it writes the manifest.
KillCapture ==
  /\ capture.pc # "idle"
  /\ capture' = [capture EXCEPT !.pc = "idle", !.build = NoBuild]
  /\ \/ UNCHANGED <<manifest, changed>>
     \/ /\ capture.pc = "seal" /\ capture.build.todo = {}
        /\ manifest' = [manifest EXCEPT !.state = "torn"] /\ Touch({ManifestFile})
  /\ UNCHANGED <<file, scan, reader, edits>>

\* Somebody changes, adds or removes a file, or an entry of the manifest.
Edit ==
  /\ edits < MaxEdits /\ edits' = edits + 1
  /\ \/ \E p \in Paths, c \in Contents \union {Absent} :
          file[p] # c /\ file' = [file EXCEPT ![p] = c] /\ Touch({p}) /\ UNCHANGED manifest
     \/ \E i \in DOMAIN manifest.entries, c \in Contents :
          /\ manifest.state = "whole" /\ manifest.entries[i].digest # c
          /\ manifest' = [manifest EXCEPT !.entries[i].digest = c]
          /\ Touch({ManifestFile}) /\ UNCHANGED file
  /\ UNCHANGED <<capture, scan, reader>>

-----------------------------------------------------------------------------
\* run_scan: 2 when a manifest is asked for without a directory.
StartScan ==
  /\ scan.pc \in {"idle", "ended"} /\ scan.left > 0 /\ reader.pc = "idle"
  /\ \E s \in Scans :
       scan' = [scan EXCEPT !.input = s, !.left = @ - 1, !.seen = 0, !.sealed = NoManifest,
                  !.pc = IF (s.write \/ s.verify) /\ ~s.dir THEN "idle"
                         ELSE IF s.write THEN "build" ELSE IF s.verify THEN "load" ELSE "list",
                  !.rc = IF (s.write \/ s.verify) /\ ~s.dir THEN 2 ELSE 0,
                  !.build = IF s.write /\ s.dir THEN Build(There) ELSE NoBuild]
  /\ Begin("scan")
  /\ UNCHANGED <<file, manifest, capture, reader, edits>>

\* A traceback, of a file that is gone or a manifest that does not parse.
ScanRaises == scan' = [scan EXCEPT !.pc = "idle", !.rc = 1, !.build = NoBuild]

ScanHash(pc) ==
  /\ scan.pc = pc /\ scan.build.todo # {}
  /\ IF Hashable(scan.build) THEN scan' = [scan EXCEPT !.build = Hash(@)] ELSE ScanRaises
  /\ UNCHANGED <<file, manifest, capture, reader, edits, changed>>

\* --write-manifest comes before --verify.
ScanWrites ==
  /\ scan.pc = "build" /\ scan.build.todo = {}
  /\ manifest' = Sealed(scan.build.entries)
  /\ changed' = changed \union ((Watching \ {"scan"}) \X {ManifestFile})
  /\ scan' = [scan EXCEPT !.pc = IF scan.input.verify THEN "load" ELSE "list", !.build = NoBuild]
  /\ UNCHANGED <<file, capture, reader, edits>>

\* verify_manifest loads the manifest and lists the directory; without one it
\* fails at once.
Load ==
  /\ scan.pc = "load"
  /\ CASE manifest.state = "torn" -> ScanRaises
       [] manifest.state = "none" -> scan' = [scan EXCEPT !.pc = "list", !.rc = 4]
       [] OTHER -> scan' = [scan EXCEPT !.pc = "verify", !.sealed = manifest, !.build = Build(There)]
  /\ UNCHANGED <<file, manifest, capture, reader, edits, changed>>

Pairs(entries) == {<<entries[i].path, entries[i].digest>> : i \in DOMAIN entries}
Recorded(m) == {e.path : e \in ToSet(m.entries)}

\* Fault: files that are not in the manifest are not looked at.
OkWithoutExtra(m, present) ==
  /\ {x \in Pairs(present) : x[1] \in Recorded(m)} = Pairs(m.entries)
  /\ m.root = m.entries
\* Nothing altered, missing or extra, and the root is that of the entries.
Ok(m, present) == Pairs(present) = Pairs(m.entries) /\ m.root = m.entries

Verify ==
  /\ scan.pc = "verify" /\ scan.build.todo = {}
  /\ scan' = [scan EXCEPT !.pc = "list", !.build = NoBuild,
                          !.rc = IF Ok(scan.sealed, scan.build.entries) THEN @ ELSE 4]
  /\ UNCHANGED <<file, manifest, capture, reader, edits, changed>>

ListTargets ==
  /\ scan.pc = "list"
  /\ scan' = [scan EXCEPT !.pc = "read", !.build = Build(There)]
  /\ UNCHANGED <<file, manifest, capture, reader, edits, changed>>

\* Fault: the code of the last file that is flagged.
LastCode(rc, c) == IF Rank(c) >= scan.input.failOn THEN 3 ELSE rc
\* 3 for findings at or above the threshold, unless it is 4 already.
NextCode(rc, c) == IF Rank(c) >= scan.input.failOn /\ rc < 3 THEN 3 ELSE rc

ReadTarget ==
  /\ scan.pc = "read" /\ scan.build.todo # {}
  /\ IF Hashable(scan.build)
       THEN LET c == file[First(scan.build)]
            IN scan' = [scan EXCEPT !.build = Hash(@), !.rc = NextCode(@, c),
                                    !.seen = IF Rank(c) > @ THEN Rank(c) ELSE @]
       ELSE ScanRaises
  /\ UNCHANGED <<file, manifest, capture, reader, edits, changed>>

ScanEnds ==
  /\ scan.pc = "read" /\ scan.build.todo = {}
  /\ scan' = [scan EXCEPT !.pc = "ended", !.build = NoBuild]
  /\ UNCHANGED <<file, manifest, capture, reader, edits, changed>>

-----------------------------------------------------------------------------
\* read_log reads the text, then the manifest and, a second time, the file.
ReadText ==
  /\ reader.pc = "idle" /\ scan.pc \in {"idle", "ended"}
  /\ \E p \in There : reader' = [pc |-> "text", path |-> p, text |-> file[p], status |-> "none"]
  /\ Begin("reader")
  /\ UNCHANGED <<file, manifest, capture, scan, edits>>

\* Fault: a file that the manifest does not have counts as not sealed.
StatusWithoutEntry(m, p) ==
  IF m.state = "none" \/ p \notin Recorded(m) THEN "unverified"
  ELSE IF <<p, file[p]>> \in Pairs(m.entries) THEN "verified" ELSE "tampered"
Status(m, p) ==
  CASE m.state = "none" -> "unverified"
    [] m.state = "whole" /\ p \notin Recorded(m) -> "unrecorded"
    [] m.state = "whole" /\ <<p, file[p]>> \in Pairs(m.entries) -> "verified"
    [] OTHER -> "tampered"

ReadStatus ==
  /\ reader.pc = "text"
  /\ reader' = IF manifest.state = "torn" \/ file[reader.path] = Absent
                 THEN [reader EXCEPT !.pc = "idle", !.status = "raised"]
                 ELSE [reader EXCEPT !.pc = "ended", !.status = Status(manifest, reader.path)]
  /\ UNCHANGED <<file, manifest, capture, scan, edits, changed>>

CloseLog ==
  /\ reader.pc = "ended" /\ reader' = [reader EXCEPT !.pc = "idle"]
  /\ UNCHANGED <<file, manifest, capture, scan, edits, changed>>

Next ==
  \/ StartCapture \/ OpenErr \/ Scp \/ Diag \/ ListFiles \/ SealNext \/ Seal \/ KillCapture
  \/ Edit
  \/ StartScan \/ ScanHash("build") \/ ScanWrites \/ Load \/ ScanHash("verify") \/ Verify
  \/ ListTargets \/ ReadTarget \/ ScanEnds
  \/ ReadText \/ ReadStatus \/ CloseLog

Spec == Init /\ [][Next]_vars

-----------------------------------------------------------------------------
\* The types of the files, of what is written about them and of the commands.
Entries == Seq([path : Paths, digest : Contents])
BuildType == [todo : SUBSET Paths, entries : Entries]
ManifestType == [state : {"none", "whole", "torn"}, entries : Entries, root : Entries]
CaptureType ==
  [pc : {"idle", "copy", "scp", "seal"}, kind : {"pull", "diag"}, left : Seq({"pull", "diag"}),
   unit : 1 .. Len(Units) + 1, build : BuildType, rc : {0, 1}]
ScanType ==
  [pc : {"idle", "build", "load", "verify", "list", "read", "ended"},
   input : InputType,
   build : BuildType, sealed : ManifestType, rc : {0, 1, 2, 3, 4}, seen : {0, 1, 2}, left : Nat]
ReaderType ==
  [pc : {"idle", "text", "ended"}, path : Paths \union {ManifestFile}, text : Contents \union {Absent},
   status : {"none", "raised", "unverified", "unrecorded", "verified", "tampered"}]
TypeOK ==
  /\ file \in [Paths -> Contents \union {Absent}] /\ manifest \in ManifestType
  /\ capture \in CaptureType /\ scan \in ScanType /\ reader \in ReaderType
  /\ edits \in Nat /\ changed \subseteq {"scan", "reader"} \X (Paths \union {ManifestFile})

\* What was sealed is the directory: root is what the last seal hashed.
AsSealed(p) == IF file[p] = Absent THEN \A x \in Pairs(manifest.root) : x[1] # p
               ELSE <<p, file[p]>> \in Pairs(manifest.root)

\* An edit shows: after a `scan --verify` that does not fail, and as far as
\* nothing changed while it ran, every file of the directory is the one that
\* was sealed and none is missing or new, be it that files, entries of the
\* manifest or both were changed; and nothing but a change makes it fail.
VerifyFindsEdits ==
  scan.pc = "ended" /\ scan.input.verify /\ Calm("scan", ManifestFile) /\ manifest.state = "whole" =>
    /\ scan.rc # 4 => \A p \in Paths : Calm("scan", p) => AsSealed(p)
    /\ (\A p \in Paths : Calm("scan", p) /\ AsSealed(p)) /\ manifest.root = manifest.entries => scan.rc # 4

\* A read that nothing disturbed says what it is worth: "verified" only of the
\* text that it returns, "unverified" only of a directory that was never sealed,
\* and "verified" of every file that is as it was sealed, whatever captures,
\* killed captures and edits came in between.
ReadsAreLabelled ==
  reader.pc = "ended" /\ Calm("reader", reader.path) /\ Calm("reader", ManifestFile) =>
    /\ reader.status = "verified" => <<reader.path, reader.text>> \in Pairs(manifest.entries)
    /\ reader.status = "unverified" => manifest.state = "none"
    /\ manifest.state = "whole" /\ manifest.root = manifest.entries /\ AsSealed(reader.path) => reader.status = "verified"

\* The exit code of a scan is that of the worst thing it met, in whichever
\* order: 4 for a manifest that does not hold, 3 for a text at or above the
\* threshold, 0 only without both.
WorstCode ==
  scan.pc = "ended" =>
    /\ scan.rc = 0 => scan.seen < scan.input.failOn
    /\ scan.rc = 3 => scan.seen >= scan.input.failOn
    /\ scan.input.verify /\ scan.rc # 4 => scan.sealed.state = "whole"
=============================================================================
