------------------------- MODULE SealedLogs_proofs -------------------------
(***************************************************************************)
(* SealedLogs for any units, any contents, any captures and scans.  A scan *)
(* and a read look at one file after the other while captures and others   *)
(* change them: IInv says what each has in hand, as far as nothing has     *)
(* changed since it began.                                                 *)
(***************************************************************************)
EXTENDS SealedLogs, SequenceTheorems, WellFoundedInduction, TLAPS

\* While scp runs there is a unit that it copies.
AtUnit == capture.pc = "scp" => capture.unit \in 1 .. Len(Units)

\* A list of entries has at most one digest of a file, and a file that is
\* still to be hashed has none.
OneDigest(entries) == \A x, y \in Pairs(entries) : x[1] = y[1] => x = y
Building(b) == OneDigest(b.entries) /\ \A x \in Pairs(b.entries) : x[1] \notin b.todo
Unique == OneDigest(manifest.root) /\ Building(capture.build) /\ Building(scan.build)

\* What a verification has loaded and hashed so far is what is there, as far as
\* nothing changed.
Hashed(p) ==
  /\ \A x \in Pairs(scan.build.entries) : x[1] = p => x[2] = file[p] /\ file[p] # Absent
  /\ file[p] # Absent => p \in scan.build.todo \/ <<p, file[p]>> \in Pairs(scan.build.entries)
Loaded ==
  scan.pc = "verify" =>
    /\ Calm("scan", ManifestFile) => scan.sealed = manifest
    /\ \A p \in Paths : Calm("scan", p) => Hashed(p)

\* The verdict of a verification, from when it is given.
Verdict ==
  scan.pc \in {"list", "read", "ended"} /\ scan.input.verify /\ Calm("scan", ManifestFile)
     /\ manifest.state = "whole" =>
    /\ scan.rc # 4 => \A p \in Paths : Calm("scan", p) => AsSealed(p)
    /\ (\A p \in Paths : Calm("scan", p) /\ AsSealed(p)) /\ manifest.root = manifest.entries => scan.rc # 4

\* The code of a scan so far.
Rated ==
  /\ scan.pc \in {"build", "load", "verify"} => scan.rc = 0
  /\ scan.pc = "list" => scan.rc \in {0, 4}
  /\ scan.pc \in {"build", "load", "verify", "list"} => scan.seen = 0
  /\ scan.pc \in {"read", "ended"} => /\ scan.rc = 0 => scan.seen < scan.input.failOn
                                      /\ scan.rc = 3 => scan.seen >= scan.input.failOn
  /\ scan.pc \in {"verify", "list", "read", "ended"} /\ scan.input.verify /\ scan.rc # 4 =>
       scan.sealed.state = "whole"

\* What a read has in hand.
Labelled ==
  /\ reader.pc # "idle" => reader.path \in Paths
  /\ reader.pc # "idle" /\ Calm("reader", reader.path) =>
       reader.text = file[reader.path] /\ reader.text # Absent
  /\ reader.pc = "ended" /\ Calm("reader", reader.path) /\ Calm("reader", ManifestFile) =>
       reader.status = Status(manifest, reader.path)

IInv == TypeOK /\ AtUnit /\ Unique /\ Loaded /\ Verdict /\ Rated /\ Labelled

-----------------------------------------------------------------------------
(* The log and the error file of a unit are captured files.                 *)
LEMMA UnitFiles ==
  /\ Len(Sorted) \in Nat /\ DOMAIN Sorted = 1 .. Len(Sorted)
  /\ \A i \in 1 .. Len(Units), k \in {"err", "log"} : <<Units[i], k>> \in Paths
<1>1. Len(Units) \in Nat
  BY UnitsAssumption
<1>2. DOMAIN Sorted = 1 .. 2 * Len(Units) /\ 2 * Len(Units) \in Nat
  BY <1>1 DEF Sorted
<1>3. Len(Sorted) = 2 * Len(Units)
  BY <1>2
<1>4. ASSUME NEW i \in 1 .. Len(Units) PROVE <<Units[i], "err">> \in Paths
  <2>1. /\ 2 * i - 1 \in 1 .. 2 * Len(Units)
        /\ ((2 * i - 1) + 1) \div 2 = i /\ (2 * i - 1) % 2 = 1
    BY <1>1
  <2>2. Sorted[2 * i - 1] = <<Units[i], "err">>
    BY <2>1 DEF Sorted
  <2>3. QED
    BY <1>2, <2>1, <2>2 DEF Paths, ToSet
<1>5. ASSUME NEW i \in 1 .. Len(Units) PROVE <<Units[i], "log">> \in Paths
  <2>1. 2 * i \in 1 .. 2 * Len(Units) /\ (2 * i + 1) \div 2 = i /\ (2 * i) % 2 = 0
    BY <1>1
  <2>2. Sorted[2 * i] = <<Units[i], "log">>
    BY <2>1 DEF Sorted
  <2>3. QED
    BY <1>2, <2>1, <2>2 DEF Paths, ToSet
<1>6. QED
  BY <1>2, <1>3, <1>4, <1>5

(* While files are left to hash, the next one is one of them.               *)
LEMMA FirstListed ==
  ASSUME NEW b \in BuildType, b.todo # {}
  PROVE  First(b) \in b.todo
<1> DEFINE K == {k \in DOMAIN Sorted : Sorted[k] \in b.todo}
<1>1. K \subseteq Nat /\ K # {}
  BY UnitFiles DEF BuildType, Paths, ToSet
<1> HIDE DEF K
<1>2. PICK k \in K : \A j \in K : <<j, k>> \notin OpToRel(<, Nat)
  BY <1>1, NatLessThanWellFounded, WFMin
<1>3. \A j \in K : ~(j < k)
  BY <1>1, <1>2 DEF OpToRel
<1>4. k \in DOMAIN Sorted /\ Sorted[k] \in b.todo /\ \A j \in 1 .. k - 1 : Sorted[j] \notin b.todo
  <2>1. k \in 1 .. Len(Sorted) /\ Len(Sorted) \in Nat /\ DOMAIN Sorted = 1 .. Len(Sorted)
    BY UnitFiles DEF K
  <2>2. ASSUME NEW j \in 1 .. k - 1 PROVE j \in DOMAIN Sorted /\ j < k
    BY <2>1
  <2>3. QED
    BY <1>3, <2>1, <2>2 DEF K
<1>5. QED
  BY <1>4 DEF First

(* A file is hashed once, and the digest is that of what it holds.          *)
LEMMA PairsAppend ==
  ASSUME NEW entries \in Entries, NEW p \in Paths, NEW c \in Contents
  PROVE  /\ Append(entries, [path |-> p, digest |-> c]) \in Entries
         /\ Pairs(Append(entries, [path |-> p, digest |-> c])) = Pairs(entries) \union {<<p, c>>}
<1> DEFINE e == [path |-> p, digest |-> c]
           longer == Append(entries, e)
<1>1. e \in [path : Paths, digest : Contents] /\ e.path = p /\ e.digest = c
  OBVIOUS
<1>2. entries \in Seq([path : Paths, digest : Contents])
  BY DEF Entries
<1> HIDE DEF e
<1>3. longer \in Seq([path : Paths, digest : Contents])
  BY <1>1, <1>2
<1>4. /\ DOMAIN longer = 1 .. Len(entries) + 1 /\ DOMAIN entries = 1 .. Len(entries) /\ Len(entries) \in Nat
      /\ longer[Len(entries) + 1] = e /\ \A i \in 1 .. Len(entries) : longer[i] = entries[i]
  BY <1>1, <1>2
<1> HIDE DEF longer
<1>5. Pairs(longer) = Pairs(entries) \union {<<p, c>>}
  <2>1. DOMAIN longer = DOMAIN entries \union {Len(entries) + 1}
    BY <1>4
  <2>2. \A i \in DOMAIN entries : longer[i] = entries[i]
    BY <1>4
  <2>3. QED
    BY <1>1, <1>4, <2>1, <2>2 DEF Pairs
<1>6. QED
  BY <1>3, <1>5 DEF longer, e, Entries

(* A manifest starts without entries.                                      *)
LEMMA NothingBuilt ==
  ASSUME NEW S \in SUBSET Paths
  PROVE  /\ Build(S) \in BuildType /\ Building(Build(S)) /\ Build(S).todo = S /\ Pairs(Build(S).entries) = {}
         /\ NoBuild \in BuildType /\ Building(NoBuild) /\ NoManifest \in ManifestType /\ OneDigest(NoManifest.root)
         /\ Pairs(<<>>) = {}
<1>1. <<>> \in Entries /\ Pairs(<<>>) = {}
  BY DEF Entries, Pairs
<1>2. QED
  BY <1>1 DEF Build, NoBuild, BuildType, Building, OneDigest, NoManifest, ManifestType

(* What hashing the next file adds.                                         *)
LEMMA Hashes ==
  ASSUME TypeOK, NEW b \in BuildType, Hashable(b)
  PROVE  /\ First(b) \in b.todo /\ First(b) \in Paths /\ file[First(b)] \in Contents
         /\ Hash(b) \in BuildType /\ Hash(b).todo = b.todo \ {First(b)}
         /\ Pairs(Hash(b).entries) = Pairs(b.entries) \union {<<First(b), file[First(b)]>>}
         /\ Building(b) => Building(Hash(b))
<1>1. First(b) \in b.todo
  BY FirstListed DEF Hashable
<1>2. First(b) \in Paths /\ file[First(b)] \in Contents
  BY <1>1 DEF BuildType, Hashable, TypeOK
<1>3. b.entries \in Entries /\ b.todo \subseteq Paths
  BY DEF BuildType
<1>4. /\ Hash(b).entries \in Entries
      /\ Pairs(Hash(b).entries) = Pairs(b.entries) \union {<<First(b), file[First(b)]>>}
  BY <1>2, <1>3, PairsAppend DEF Hash
<1>5. Hash(b).todo = b.todo \ {First(b)}
  BY DEF Hash
<1>6. Hash(b) \in BuildType
  <2>1. Hash(b) = [todo |-> Hash(b).todo, entries |-> Hash(b).entries]
    BY DEF Hash
  <2>2. QED
    BY <1>3, <1>4, <1>5, <2>1 DEF BuildType
<1>7. ASSUME Building(b) PROVE Building(Hash(b))
  BY <1>1, <1>4, <1>5, <1>7 DEF Building, OneDigest
<1>8. QED
  BY <1>1, <1>2, <1>4, <1>5, <1>6, <1>7

-----------------------------------------------------------------------------
(* A change of a file or of the manifest is noted for whoever is looking.   *)
LEMMA TouchType ==
  ASSUME TypeOK, NEW X \in SUBSET (Paths \union {ManifestFile}), Touch(X)
  PROVE  changed' \subseteq {"scan", "reader"} \X (Paths \union {ManifestFile})
BY DEF Touch, Watching, TypeOK

(* Every step of a capture keeps the state well typed.                      *)
LEMMA CaptureTypes ==
  ASSUME TypeOK, AtUnit,
         StartCapture \/ OpenErr \/ Scp \/ Diag \/ ListFiles \/ SealNext \/ Seal \/ KillCapture
  PROVE  TypeOK'
<1> DEFINE E == <<Units[capture.unit], "err">>
           L == <<Units[capture.unit], "log">>
<1>a. /\ Note \in Contents /\ Len(Units) \in Nat /\ There \in SUBSET Paths
      /\ Build(There) \in BuildType /\ NoBuild \in BuildType
  BY ContentsAssumption, UnitsAssumption, NothingBuilt DEF There
<1>b. capture \in CaptureType /\ capture.unit \in 1 .. Len(Units) + 1 /\ capture.build \in BuildType
  BY DEF TypeOK, CaptureType
<1>c. capture.unit <= Len(Units) => /\ capture.unit + 1 \in 1 .. Len(Units) + 1
                                    /\ E \in Paths /\ L \in Paths
  <2> SUFFICES ASSUME capture.unit <= Len(Units)
               PROVE  capture.unit + 1 \in 1 .. Len(Units) + 1 /\ capture.unit \in 1 .. Len(Units)
    BY UnitFiles
  <2>1. QED
    BY <1>a, <1>b
<1>d. file \in [Paths -> Contents \union {Absent}] /\ manifest \in ManifestType
  BY DEF TypeOK
<1> HIDE DEF E, L
<1>1. CASE StartCapture
  <2>1. Head(capture.left) \in {"pull", "diag"} /\ Tail(capture.left) \in Seq({"pull", "diag"})
    BY <1>1, <1>b DEF StartCapture, CaptureType
  <2>2. 1 \in 1 .. Len(Units) + 1
    BY <1>a
  <2>3. capture' \in CaptureType
    BY <1>1, <1>b, <2>1, <2>2 DEF StartCapture, CaptureType
  <2>4. QED
    BY <1>1, <2>3 DEF StartCapture, TypeOK
<1>2. CASE OpenErr
  <2>1. E \in Paths
    BY <1>2, <1>c DEF OpenErr
  <2>2. file' = [file EXCEPT ![E] = Note] /\ Touch({E})
    BY <1>2 DEF OpenErr, E
  <2>3. changed' \subseteq {"scan", "reader"} \X (Paths \union {ManifestFile})
    BY <2>1, <2>2, TouchType
  <2>4. file' \in [Paths -> Contents \union {Absent}]
    BY <1>a, <1>d, <2>2
  <2>5. capture' \in CaptureType
    BY <1>2, <1>b DEF OpenErr, CaptureType
  <2>6. QED
    BY <1>2, <2>3, <2>4, <2>5 DEF OpenErr, TypeOK
<1>3. CASE Scp \/ Diag
  <2>1. E \in Paths /\ L \in Paths /\ capture.unit + 1 \in 1 .. Len(Units) + 1
    <3>1. CASE Scp
      <4>1. capture.unit \in 1 .. Len(Units)
        BY <3>1 DEF Scp, AtUnit
      <4>2. QED
        BY <1>a, <1>c, <4>1
    <3>2. CASE Diag
      BY <1>c, <3>2 DEF Diag
    <3>3. QED
      BY <1>3, <3>1, <3>2
  <2>2. /\ Touch({L, E})
        /\ \E c \in Contents, x \in {Absent, Note} :
             file' \in {[file EXCEPT ![L] = c, ![E] = x], [file EXCEPT ![E] = Note]}
    BY <1>3 DEF Scp, Diag, E, L
  <2>3. changed' \subseteq {"scan", "reader"} \X (Paths \union {ManifestFile})
    BY <2>1, <2>2, TouchType
  <2>4. file' \in [Paths -> Contents \union {Absent}]
    BY <1>a, <1>d, <2>2
  <2>5. capture' \in CaptureType
    BY <1>3, <1>b, <2>1 DEF Scp, Diag, CaptureType
  <2>6. QED
    BY <1>3, <2>3, <2>4, <2>5 DEF Scp, Diag, TypeOK
<1>4. CASE ListFiles \/ SealNext
  <2>1. ASSUME SealNext, Hashable(capture.build) PROVE capture' \in CaptureType
    <3>1. Hash(capture.build) \in BuildType
      BY <1>b, <2>1, Hashes
    <3>2. QED
      BY <1>b, <2>1, <3>1 DEF SealNext, CaptureType
  <2>2. ASSUME ListFiles \/ (SealNext /\ ~Hashable(capture.build)) PROVE capture' \in CaptureType
    BY <1>a, <1>b, <2>2 DEF ListFiles, SealNext, CaptureType
  <2>3. capture' \in CaptureType
    BY <1>4, <2>1, <2>2
  <2>4. QED
    BY <1>4, <2>3 DEF ListFiles, SealNext, TypeOK
<1>5. CASE Seal \/ KillCapture
  <2>1. Sealed(capture.build.entries) \in ManifestType
    BY <1>b DEF Sealed, ManifestType, BuildType
  <2>2. [manifest EXCEPT !.state = "torn"] \in ManifestType
    BY <1>d DEF ManifestType
  <2>3. manifest' \in ManifestType
    BY <1>5, <1>d, <2>1, <2>2 DEF Seal, KillCapture
  <2>4. changed' \subseteq {"scan", "reader"} \X (Paths \union {ManifestFile})
    <3>1. changed' = changed \/ Touch({ManifestFile})
      BY <1>5 DEF Seal, KillCapture
    <3>2. QED
      BY <3>1, TouchType DEF TypeOK
  <2>5. capture' \in CaptureType
    BY <1>5, <1>a, <1>b DEF Seal, KillCapture, CaptureType
  <2>6. QED
    BY <1>5, <2>3, <2>4, <2>5 DEF Seal, KillCapture, TypeOK
<1>6. QED
  BY <1>1, <1>2, <1>3, <1>4, <1>5

(* So does every step of a scan.                                            *)
LEMMA ScanTypes ==
  ASSUME TypeOK,
         StartScan \/ ScanHash("build") \/ ScanWrites \/ Load \/ ScanHash("verify") \/ Verify
         \/ ListTargets \/ ReadTarget \/ ScanEnds
  PROVE  TypeOK'
<1>a. /\ There \in SUBSET Paths /\ Build(There) \in BuildType /\ NoBuild \in BuildType
      /\ NoManifest \in ManifestType
  BY NothingBuilt DEF There
<1>b. scan \in ScanType /\ scan.build \in BuildType /\ manifest \in ManifestType
  BY DEF TypeOK, ScanType
<1>c. ScanRaises => scan' \in ScanType
  BY <1>a, <1>b DEF ScanRaises, ScanType
<1>d. Hashable(scan.build) => /\ Hash(scan.build) \in BuildType
                              /\ file[First(scan.build)] \in Contents
  BY <1>b, Hashes
<1>1. scan' \in ScanType
  <2>1. CASE StartScan
    <3>1. PICK s \in Scans :
            scan' = [scan EXCEPT !.input = s, !.left = @ - 1, !.seen = 0, !.sealed = NoManifest,
                    !.pc = IF (s.write \/ s.verify) /\ ~s.dir THEN "idle"
                           ELSE IF s.write THEN "build" ELSE IF s.verify THEN "load" ELSE "list",
                    !.rc = IF (s.write \/ s.verify) /\ ~s.dir THEN 2 ELSE 0,
                    !.build = IF s.write /\ s.dir THEN Build(There) ELSE NoBuild]
      BY <2>1 DEF StartScan
    <3>2. s \in InputType
      BY ScansAssumption
    <3>3. scan.left - 1 \in Nat
      <4>1. scan.left \in Nat
        BY <1>b DEF ScanType
      <4>2. scan.left > 0
        BY <2>1 DEF StartScan
      <4>3. QED
        BY <4>1, <4>2
    <3>4. QED
      BY <1>a, <1>b, <3>1, <3>2, <3>3 DEF ScanType
  <2>2. ASSUME NEW pc, ScanHash(pc) PROVE scan' \in ScanType
    BY <1>b, <1>c, <1>d, <2>2 DEF ScanHash, ScanType
  <2>3. CASE ReadTarget
    <3>1. \A c \in Contents : Rank(c) \in {0, 1, 2} /\ NextCode(scan.rc, c) \in {0, 1, 2, 3, 4}
      BY <1>b, ContentsAssumption DEF Rank, NextCode, ScanType
    <3>2. CASE Hashable(scan.build)
      BY <1>b, <1>d, <2>3, <3>1, <3>2 DEF ReadTarget, ScanType
    <3>3. CASE ~Hashable(scan.build)
      BY <1>c, <2>3, <3>3 DEF ReadTarget
    <3>4. QED
      BY <3>2, <3>3
  <2>4. CASE Load
    BY <1>a, <1>b, <1>c, <2>4 DEF Load, ScanType
  <2>5. CASE ScanWrites \/ Verify \/ ListTargets \/ ScanEnds
    BY <1>a, <1>b, <2>5 DEF ScanWrites, Verify, ListTargets, ScanEnds, ScanType
  <2>6. QED
    BY <2>1, <2>2, <2>3, <2>4, <2>5
<1>2. manifest' \in ManifestType
  <2>1. Sealed(scan.build.entries) \in ManifestType
    BY <1>b DEF Sealed, ManifestType, BuildType
  <2>2. QED
    BY <1>b, <2>1 DEF StartScan, ScanHash, ScanWrites, Load, Verify, ListTargets, ReadTarget, ScanEnds
<1>3. changed' \subseteq {"scan", "reader"} \X (Paths \union {ManifestFile})
  <2>1. \/ UNCHANGED changed
        \/ changed' \subseteq changed \union (Watching \X {ManifestFile})
    BY DEF StartScan, Begin, ScanHash, ScanWrites, Load, Verify, ListTargets, ReadTarget, ScanEnds
  <2>2. QED
    BY <2>1 DEF Watching, TypeOK
<1>4. QED
  BY <1>1, <1>2, <1>3
     DEF StartScan, ScanHash, ScanWrites, Load, Verify, ListTargets, ReadTarget, ScanEnds, TypeOK

(* An entry with another digest is an entry.                                *)
LEMMA Redigested ==
  ASSUME NEW entries \in Entries, NEW i \in DOMAIN entries, NEW c \in Contents
  PROVE  [entries EXCEPT ![i].digest = c] \in Entries
<1> DEFINE R == [path : Paths, digest : Contents]
<1>1. entries \in Seq(R) /\ i \in 1 .. Len(entries)
  BY DEF Entries
<1> HIDE DEF R
<1>2. [entries[i] EXCEPT !.digest = c] \in R
  <2>1. entries[i] \in R
    BY <1>1
  <2>2. QED
    BY <2>1 DEF R
<1>3. [entries EXCEPT ![i] = [entries[i] EXCEPT !.digest = c]] \in Seq(R)
  BY <1>1, <1>2, ExceptSeq
<1>4. QED
  BY <1>3 DEF R, Entries

(* So do those who edit, and the readers.                                   *)
LEMMA OtherTypes ==
  ASSUME TypeOK, Edit \/ ReadText \/ ReadStatus \/ CloseLog
  PROVE  TypeOK'
<1>a. file \in [Paths -> Contents \union {Absent}] /\ manifest \in ManifestType /\ reader \in ReaderType
  BY DEF TypeOK
<1>1. CASE Edit
  <2>1. changed' \subseteq {"scan", "reader"} \X (Paths \union {ManifestFile})
    <3>1. \E X \in SUBSET (Paths \union {ManifestFile}) : Touch(X)
      BY <1>1 DEF Edit
    <3>2. QED
      BY <3>1, TouchType
  <2>2. file' \in [Paths -> Contents \union {Absent}]
    BY <1>1, <1>a DEF Edit
  <2>3. manifest' \in ManifestType
    <3>1. ASSUME NEW i \in DOMAIN manifest.entries, NEW c \in Contents
          PROVE  [manifest EXCEPT !.entries[i].digest = c] \in ManifestType
      <4>1. manifest.entries \in Entries
        BY <1>a DEF ManifestType
      <4>2. [manifest.entries EXCEPT ![i].digest = c] \in Entries
        BY <4>1, Redigested
      <4>3. QED
        BY <1>a, <4>2 DEF ManifestType
    <3>2. QED
      BY <1>1, <1>a, <3>1 DEF Edit
  <2>4. edits' \in Nat
    BY <1>1 DEF Edit, TypeOK
  <2>5. QED
    BY <1>1, <2>1, <2>2, <2>3, <2>4 DEF Edit, TypeOK
<1>2. CASE ReadText
  <2>1. changed' \subseteq {"scan", "reader"} \X (Paths \union {ManifestFile})
    BY <1>2 DEF ReadText, Begin, TypeOK
  <2>2. reader' \in ReaderType
    BY <1>2, <1>a DEF ReadText, There, ReaderType
  <2>3. QED
    BY <1>2, <2>1, <2>2 DEF ReadText, TypeOK
<1>3. CASE ReadStatus \/ CloseLog
  <2>1. Status(manifest, reader.path) \in {"unverified", "unrecorded", "verified", "tampered"}
    BY DEF Status
  <2>2. reader' \in ReaderType
    BY <1>3, <1>a, <2>1 DEF ReadStatus, CloseLog, ReaderType
  <2>3. QED
    BY <1>3, <2>2 DEF ReadStatus, CloseLog, TypeOK
<1>4. QED
  BY <1>1, <1>2, <1>3

(* No step leaves the types, and scp copies the unit that is next.          *)
LEMMA TypeStep ==
  ASSUME TypeOK, AtUnit, [Next]_vars
  PROVE  TypeOK' /\ AtUnit'
<1>1. TypeOK'
  <2>1. CASE UNCHANGED vars
    BY <2>1 DEF TypeOK, vars
  <2>2. QED
    BY <2>1, CaptureTypes, ScanTypes, OtherTypes DEF Next
<1>2. AtUnit'
  <2>1. CASE UNCHANGED capture
    BY <2>1 DEF AtUnit
  <2>2. CASE ~UNCHANGED capture
    <3>1. StartCapture \/ OpenErr \/ Scp \/ Diag \/ ListFiles \/ SealNext \/ Seal \/ KillCapture
      BY <2>2 DEF Next, vars, Edit, StartScan, ScanHash, ScanWrites, Load, Verify, ListTargets, ReadTarget,
                  ScanEnds, ReadText, ReadStatus, CloseLog
    <3>2. capture'.pc = "scp" => OpenErr
      BY <3>1 DEF StartCapture, OpenErr, Scp, Diag, ListFiles, SealNext, Seal, KillCapture, TypeOK, CaptureType
    <3>3. QED
      BY <3>2, UnitsAssumption DEF AtUnit, OpenErr, TypeOK, CaptureType
  <2>3. QED
    BY <2>1, <2>2
<1>3. QED
  BY <1>1, <1>2

-----------------------------------------------------------------------------
(* Nobody hashes a file twice for one manifest, and an edit of an entry does *)
(* not reach the root.                                                      *)
LEMMA UniqueStep ==
  ASSUME TypeOK, Unique, [Next]_vars
  PROVE  Unique'
<1>a. /\ There \in SUBSET Paths /\ Building(Build(There)) /\ Building(NoBuild)
      /\ capture.build \in BuildType /\ scan.build \in BuildType
      /\ manifest \in ManifestType /\ capture \in CaptureType /\ scan \in ScanType
  BY NothingBuilt DEF There, TypeOK, CaptureType, ScanType
<1>b. /\ Hashable(capture.build) => Building(Hash(capture.build))
      /\ Hashable(scan.build) => Building(Hash(scan.build))
  BY <1>a, Hashes DEF Unique
<1>1. OneDigest(manifest'.root)
  <2>1. \/ manifest'.root = manifest.root
        \/ manifest'.root \in {capture.build.entries, scan.build.entries}
    <3>1. CASE UNCHANGED manifest
      BY <3>1
    <3>2. CASE Seal \/ ScanWrites
      BY <3>2 DEF Seal, ScanWrites, Sealed
    <3>3. CASE KillCapture \/ Edit
      <4>1. /\ [manifest EXCEPT !.state = "torn"].root = manifest.root
            /\ \A i \in DOMAIN manifest.entries, c \in Contents :
                 [manifest EXCEPT !.entries[i].digest = c].root = manifest.root
        BY <1>a DEF ManifestType
      <4>2. QED
        BY <3>3, <4>1 DEF KillCapture, Edit
    <3>4. QED
      BY <3>1, <3>2, <3>3 DEF Next, vars, StartCapture, OpenErr, Scp, Diag, ListFiles, SealNext, StartScan,
         ScanHash, Load, Verify, ListTargets, ReadTarget, ScanEnds, ReadText, ReadStatus, CloseLog
  <2>2. QED
    BY <2>1 DEF Unique, Building
<1>2. Building(capture'.build)
  <2>1. capture'.build \in {capture.build, NoBuild, Build(There)}
        \/ (Hashable(capture.build) /\ capture'.build = Hash(capture.build))
    <3>1. CASE StartCapture \/ OpenErr \/ Scp \/ Diag \/ ListFiles
      BY <3>1, <1>a DEF StartCapture, OpenErr, Scp, Diag, ListFiles, CaptureType
    <3>2. CASE SealNext \/ Seal \/ KillCapture
      BY <3>2, <1>a DEF SealNext, Seal, KillCapture, CaptureType
    <3>3. CASE UNCHANGED capture
      BY <3>3
    <3>4. QED
      BY <3>1, <3>2, <3>3 DEF Next, vars, Edit, StartScan, ScanHash, ScanWrites, Load, Verify, ListTargets,
         ReadTarget, ScanEnds, ReadText, ReadStatus, CloseLog
  <2>2. QED
    BY <1>a, <1>b, <2>1 DEF Unique
<1>3. Building(scan'.build)
  <2>1. scan'.build \in {scan.build, NoBuild, Build(There)}
        \/ (Hashable(scan.build) /\ scan'.build = Hash(scan.build))
    <3>1. CASE StartScan
      BY <3>1, <1>a DEF StartScan, ScanType
    <3>2. ASSUME NEW pc, ScanHash(pc)
          PROVE  scan'.build = NoBuild \/ (Hashable(scan.build) /\ scan'.build = Hash(scan.build))
      BY <3>2, <1>a DEF ScanHash, ScanRaises, ScanType
    <3>3. CASE ScanWrites \/ Load \/ Verify
      BY <3>3, <1>a DEF ScanWrites, Load, ScanRaises, Verify, ScanType
    <3>4. CASE ListTargets \/ ReadTarget \/ ScanEnds
      BY <3>4, <1>a DEF ListTargets, ReadTarget, ScanRaises, ScanEnds, ScanType
    <3>5. CASE UNCHANGED scan
      BY <3>5
    <3>6. QED
      BY <3>1, <3>2, <3>3, <3>4, <3>5 DEF Next, vars, StartCapture, OpenErr, Scp, Diag, ListFiles, SealNext,
         Seal, KillCapture, Edit, ReadText, ReadStatus, CloseLog
  <2>2. QED
    BY <1>a, <1>b, <2>1 DEF Unique
<1>4. QED
  BY <1>1, <1>2, <1>3 DEF Unique

-----------------------------------------------------------------------------
(* What a scan or a read under way is to find unchanged does not change      *)
(* unnoted.                                                                 *)
LEMMA Noted ==
  ASSUME TypeOK, [Next]_vars, NEW r \in Watching, r = "scan" => ~StartScan
  PROVE  /\ \A x : <<r, x>> \notin changed' => <<r, x>> \notin changed
         /\ \A p \in Paths : <<r, p>> \notin changed' => file'[p] = file[p]
         /\ (r = "scan" => ~ScanWrites) /\ <<r, ManifestFile>> \notin changed' => manifest' = manifest
<1>a. file \in [Paths -> Contents \union {Absent}] /\ r \in {"scan", "reader"}
  BY DEF TypeOK, Watching
<1>1. ASSUME NEW X, Touch(X)
      PROVE  /\ changed \subseteq changed'
             /\ \A x \in X : <<r, x>> \in changed'
  BY <1>1 DEF Touch
<1>2. CASE UNCHANGED <<file, manifest, changed>>
  BY <1>2
<1>3. CASE OpenErr \/ Scp \/ Diag
  <2> DEFINE e == <<Units[capture.unit], "err">>
             l == <<Units[capture.unit], "log">>
  <2>1. CASE Touch({e}) /\ UNCHANGED manifest /\ file' = [file EXCEPT ![e] = Note]
    <3> HIDE DEF e
    <3>1. QED
      BY <1>a, <1>1, <2>1
  <2>2. CASE /\ Touch({l, e}) /\ UNCHANGED manifest
             /\ \E c \in Contents, x \in {Absent, Note} :
                  file' \in {[file EXCEPT ![l] = c, ![e] = x], [file EXCEPT ![e] = Note]}
    <3> HIDE DEF e, l
    <3>1. \A p \in Paths : p \notin {l, e} => file'[p] = file[p]
      BY <1>a, <2>2
    <3>2. QED
      BY <1>1, <2>2, <3>1
  <2>3. QED
    BY <1>3, <2>1, <2>2 DEF OpenErr, Scp, Diag
<1>4. CASE Seal \/ KillCapture
  <2>1. UNCHANGED file /\ (Touch({ManifestFile}) \/ UNCHANGED <<manifest, changed>>)
    BY <1>4 DEF Seal, KillCapture
  <2>2. QED
    BY <1>1, <2>1
<1>5. CASE Edit
  <2>1. CASE \E p \in Paths, c \in Contents \union {Absent} :
               file' = [file EXCEPT ![p] = c] /\ Touch({p}) /\ UNCHANGED manifest
    BY <1>a, <1>1, <2>1
  <2>2. CASE Touch({ManifestFile}) /\ UNCHANGED file
    BY <1>1, <2>2
  <2>3. QED
    BY <1>5, <2>1, <2>2 DEF Edit
<1>6. CASE StartScan
  BY <1>6, <1>a DEF StartScan, Begin
<1>7. CASE ReadText
  BY <1>7, <1>a DEF ReadText, Begin, Watching
<1>8. CASE ScanWrites
  <2>1. UNCHANGED file /\ changed \subseteq changed' /\ (r # "scan" => <<r, ManifestFile>> \in changed')
    BY <1>8, <1>a DEF ScanWrites
  <2>2. QED
    BY <1>8, <2>1
<1>9. QED
  BY <1>2, <1>3, <1>4, <1>5, <1>6, <1>7, <1>8
     DEF Next, vars, StartCapture, ListFiles, SealNext, ScanHash, Load, Verify, ListTargets, ReadTarget,
         ScanEnds, ReadStatus, CloseLog

-----------------------------------------------------------------------------
(* A read keeps the text that it took, and its status is that of the file   *)
(* and the manifest of the same moment.                                     *)
LEMMA LabelledStep ==
  ASSUME TypeOK, Labelled, [Next]_vars
  PROVE  Labelled'
<1>a. reader \in ReaderType
  BY DEF TypeOK
<1>1. CASE UNCHANGED reader
  <2>1. CASE reader.pc = "idle"
    BY <1>1, <2>1 DEF Labelled
  <2>2. CASE reader.pc # "idle"
    <3>1. "reader" \in Watching /\ reader.path \in Paths
      BY <2>2 DEF Watching, Labelled
    <3>2. /\ \A x : <<"reader", x>> \notin changed' => <<"reader", x>> \notin changed
          /\ <<"reader", reader.path>> \notin changed' => file'[reader.path] = file[reader.path]
          /\ <<"reader", ManifestFile>> \notin changed' => manifest' = manifest
      BY <3>1, Noted
    <3>3. ASSUME <<"reader", reader.path>> \notin changed'
          PROVE  reader.text = file'[reader.path] /\ reader.text # Absent
      BY <2>2, <3>2, <3>3 DEF Labelled, Calm
    <3>4. ASSUME reader.pc = "ended", <<"reader", reader.path>> \notin changed',
                 <<"reader", ManifestFile>> \notin changed'
          PROVE  reader.status = Status(manifest, reader.path)'
      <4>1. reader.status = Status(manifest, reader.path)
        BY <3>2, <3>4 DEF Labelled, Calm
      <4>2. manifest' = manifest /\ reader' = reader /\ file'[reader.path] = file[reader.path]
        BY <1>1, <3>2, <3>4
      <4>3. Status(manifest, reader.path)' = Status(manifest, reader.path)
        BY <4>2 DEF Status, Pairs, Recorded
      <4>4. QED
        BY <4>1, <4>3
    <3>5. QED
      BY <1>1, <3>1, <3>3, <3>4 DEF Labelled, Calm
  <2>3. QED
    BY <2>1, <2>2
<1>2. CASE ReadText
  <2>1. PICK p \in There : reader' = [pc |-> "text", path |-> p, text |-> file[p], status |-> "none"]
    BY <1>2 DEF ReadText
  <2>2. p \in Paths /\ file[p] # Absent /\ file' = file
    BY <1>2 DEF There, ReadText
  <2>3. QED
    BY <2>1, <2>2 DEF Labelled
<1>3. CASE ReadStatus
  <2>1. UNCHANGED <<file, manifest, changed>> /\ reader.pc = "text"
    BY <1>3 DEF ReadStatus
  <2>2. reader'.path = reader.path /\ reader'.text = reader.text
    BY <1>3, <1>a DEF ReadStatus, ReaderType
  <2>3. reader'.pc = "ended" => reader'.status = Status(manifest, reader.path)
    BY <1>3, <1>a DEF ReadStatus, ReaderType
  <2>4. Status(manifest, reader.path)' = Status(manifest, reader.path)
    BY <2>1, <2>2 DEF Status, Pairs, Recorded
  <2>5. QED
    BY <2>1, <2>2, <2>3, <2>4 DEF Labelled, Calm
<1>4. CASE CloseLog
  BY <1>4, <1>a DEF CloseLog, Labelled, ReaderType
<1>5. QED
  BY <1>1, <1>2, <1>3, <1>4
     DEF Next, vars, StartCapture, OpenErr, Scp, Diag, ListFiles, SealNext, Seal, KillCapture, Edit, StartScan,
         ScanHash, ScanWrites, Load, Verify, ListTargets, ReadTarget, ScanEnds

-----------------------------------------------------------------------------
(* A verification has the manifest and the files as they are, as far as     *)
(* nothing changes, while it hashes one after the other.                    *)
LEMMA LoadedStep ==
  ASSUME TypeOK, Loaded, [Next]_vars
  PROVE  Loaded'
<1>a. scan \in ScanType /\ scan.build \in BuildType
  BY DEF TypeOK, ScanType
<1>1. CASE UNCHANGED scan
  <2>1. CASE scan.pc # "verify"
    BY <1>1, <2>1 DEF Loaded
  <2>2. CASE scan.pc = "verify"
    <3>1. "scan" \in Watching /\ ~StartScan /\ ~ScanWrites
      BY <2>2 DEF Watching, StartScan, ScanWrites
    <3>2. /\ \A x : <<"scan", x>> \notin changed' => <<"scan", x>> \notin changed
          /\ \A p \in Paths : <<"scan", p>> \notin changed' => file'[p] = file[p]
          /\ <<"scan", ManifestFile>> \notin changed' => manifest' = manifest
      BY <3>1, Noted
    <3>3. ASSUME NEW p \in Paths, <<"scan", p>> \notin changed'
          PROVE  Hashed(p)'
      <4>1. Hashed(p) /\ file'[p] = file[p]
        BY <2>2, <3>2, <3>3 DEF Loaded, Calm
      <4>2. QED
        BY <1>1, <4>1 DEF Hashed, Pairs
    <3>4. QED
      BY <1>1, <2>2, <3>2, <3>3 DEF Loaded, Calm
  <2>3. QED
    BY <2>1, <2>2
<1>2. CASE Load
  <2>1. CASE scan'.pc = "verify"
    <3>1. /\ scan' = [scan EXCEPT !.pc = "verify", !.sealed = manifest, !.build = Build(There)]
          /\ UNCHANGED <<file, manifest, changed>>
      BY <1>2, <1>a, <2>1 DEF Load, ScanRaises, ScanType
    <3>2. scan'.sealed = manifest /\ scan'.build = Build(There)
      BY <1>a, <3>1 DEF ScanType
    <3>3. Build(There).todo = There /\ Pairs(Build(There).entries) = {}
      BY NothingBuilt DEF There
    <3>4. ASSUME NEW p \in Paths PROVE Hashed(p)'
      <4>1. scan'.build.todo = There /\ Pairs(scan'.build.entries) = {}
        BY <3>2, <3>3
      <4>2. QED
        BY <3>1, <4>1 DEF Hashed, There
    <3>5. QED
      BY <3>1, <3>2, <3>4 DEF Loaded
  <2>2. QED
    BY <2>1 DEF Loaded
<1>3. CASE ScanHash("verify")
  <2>1. CASE Hashable(scan.build)
    <3>1. /\ scan' = [scan EXCEPT !.build = Hash(@)] /\ scan.pc = "verify"
          /\ UNCHANGED <<file, manifest, changed>>
      BY <1>3, <2>1 DEF ScanHash
    <3>2. scan'.build = Hash(scan.build) /\ scan'.sealed = scan.sealed
      BY <1>a, <3>1 DEF ScanType
    <3>3. /\ Hash(scan.build).todo = scan.build.todo \ {First(scan.build)}
          /\ Pairs(Hash(scan.build).entries)
               = Pairs(scan.build.entries) \union {<<First(scan.build), file[First(scan.build)]>>}
          /\ file[First(scan.build)] # Absent
      BY <1>a, <2>1, Hashes DEF Hashable
    <3>4. ASSUME NEW p \in Paths, Hashed(p) PROVE Hashed(p)'
      <4>1. /\ scan'.build.todo = scan.build.todo \ {First(scan.build)}
            /\ Pairs(scan'.build.entries)
                 = Pairs(scan.build.entries) \union {<<First(scan.build), file[First(scan.build)]>>}
        BY <3>2, <3>3
      <4>2. QED
        BY <3>1, <3>3, <3>4, <4>1 DEF Hashed
    <3>5. QED
      BY <3>1, <3>2, <3>4 DEF Loaded, Calm
  <2>2. CASE ~Hashable(scan.build)
    BY <1>3, <1>a, <2>2 DEF ScanHash, ScanRaises, ScanType, Loaded
  <2>3. QED
    BY <2>1, <2>2
<1>4. CASE ~UNCHANGED scan /\ ~Load /\ ~ScanHash("verify")
  <2>1. \/ StartScan \/ ScanHash("build") \/ ScanWrites \/ Verify \/ ListTargets \/ ReadTarget \/ ScanEnds
    BY <1>4 DEF Next, vars, StartCapture, OpenErr, Scp, Diag, ListFiles, SealNext, Seal, KillCapture, Edit,
                ReadText, ReadStatus, CloseLog
  <2>2. scan'.pc # "verify"
    BY <1>a, <2>1 DEF StartScan, ScanHash, ScanRaises, ScanWrites, Verify, ListTargets, ReadTarget, ScanEnds,
                      ScanType
  <2>3. QED
    BY <2>2 DEF Loaded
<1>5. QED
  BY <1>1, <1>2, <1>3, <1>4

(* An entry is of a captured file.                                          *)
LEMMA EntryPairs ==
  ASSUME NEW entries \in Entries, NEW x \in Pairs(entries)
  PROVE  x[1] \in Paths /\ x = <<x[1], x[2]>>
<1> DEFINE R == [path : Paths, digest : Contents]
<1>1. PICK i \in DOMAIN entries : x = <<entries[i].path, entries[i].digest>>
  BY DEF Pairs
<1>2. entries \in Seq(R) /\ i \in 1 .. Len(entries)
  BY DEF Entries
<1> HIDE DEF R
<1>3. entries[i] \in R
  BY <1>2
<1>4. entries[i].path \in Paths
  BY <1>3 DEF R
<1>5. QED
  BY <1>1, <1>4

(* verify_manifest tells the directory that was sealed from any other.      *)
LEMMA VerifyTells ==
  ASSUME TypeOK, Unique, Loaded, scan.pc = "verify", scan.build.todo = {}, Calm("scan", ManifestFile)
  PROVE  /\ Ok(scan.sealed, scan.build.entries) => \A p \in Paths : Calm("scan", p) => AsSealed(p)
         /\ (\A p \in Paths : Calm("scan", p) /\ AsSealed(p)) /\ manifest.root = manifest.entries =>
              Ok(scan.sealed, scan.build.entries)
<1> DEFINE present == Pairs(scan.build.entries)
<1>1. scan.sealed = manifest
  BY DEF Loaded
<1>2. \A p \in Paths : Calm("scan", p) =>
        /\ \A x \in present : x[1] = p => x[2] = file[p] /\ file[p] # Absent
        /\ file[p] # Absent => <<p, file[p]>> \in present
  BY DEF Loaded, Hashed
<1>3. ASSUME NEW entries \in Entries, NEW x \in Pairs(entries)
      PROVE  x[1] \in Paths /\ x = <<x[1], x[2]>>
  BY EntryPairs
<1>4. scan.build.entries \in Entries /\ manifest.root \in Entries
  BY DEF TypeOK, ScanType, BuildType, ManifestType
<1>5. ASSUME Ok(scan.sealed, scan.build.entries), NEW p \in Paths, Calm("scan", p)
      PROVE  AsSealed(p)
  <2>1. present = Pairs(manifest.root)
    BY <1>1, <1>5 DEF Ok
  <2>2. QED
    BY <1>2, <1>5, <2>1 DEF AsSealed
<1>6. ASSUME \A p \in Paths : Calm("scan", p) /\ AsSealed(p), manifest.root = manifest.entries
      PROVE  Ok(scan.sealed, scan.build.entries)
  <2>1. ASSUME NEW x \in present PROVE x \in Pairs(manifest.root)
    <3>1. x[1] \in Paths /\ x = <<x[1], x[2]>>
      BY <1>3, <1>4
    <3>2. x[2] = file[x[1]] /\ file[x[1]] # Absent
      BY <1>2, <1>6, <3>1
    <3>3. <<x[1], file[x[1]]>> \in Pairs(manifest.root)
      BY <1>6, <3>1, <3>2 DEF AsSealed
    <3>4. QED
      BY <3>1, <3>2, <3>3
  <2>2. ASSUME NEW x \in Pairs(manifest.root) PROVE x \in present
    <3>1. x[1] \in Paths /\ x = <<x[1], x[2]>>
      BY <1>3, <1>4
    <3>2. file[x[1]] # Absent /\ <<x[1], file[x[1]]>> \in Pairs(manifest.root)
      BY <1>6, <3>1 DEF AsSealed
    <3>3. x = <<x[1], file[x[1]]>>
      BY <3>2 DEF Unique, OneDigest
    <3>4. QED
      BY <1>2, <1>6, <3>1, <3>2, <3>3
  <2>3. present = Pairs(manifest.root)
    BY <2>1, <2>2
  <2>4. QED
    BY <1>1, <1>6, <2>3 DEF Ok
<1>7. QED
  BY <1>5, <1>6

(* The verdict stands until something that it was about changes.            *)
LEMMA VerdictStep ==
  ASSUME TypeOK, Unique, Loaded, Rated, Verdict, [Next]_vars
  PROVE  Verdict'
<1> DEFINE After == {"list", "read", "ended"}
<1>a. scan \in ScanType
  BY DEF TypeOK
<1>1. ASSUME UNCHANGED <<file, manifest, changed>>, scan.pc \in After,
             scan'.input = scan.input, scan'.rc = 4 <=> scan.rc = 4
      PROVE  Verdict'
  <2>1. \A p \in Paths : AsSealed(p)' <=> AsSealed(p)
    BY <1>1 DEF AsSealed, Pairs
  <2>2. QED
    BY <1>1, <2>1 DEF Verdict, Calm
<1>2. CASE UNCHANGED scan
  <2>1. CASE scan.pc \notin After
    BY <1>2, <2>1 DEF Verdict
  <2>2. CASE scan.pc \in After
    <3> SUFFICES ASSUME <<"scan", ManifestFile>> \notin changed', scan.input.verify, manifest'.state = "whole"
                 PROVE  /\ scan.rc # 4 => \A p \in Paths : <<"scan", p>> \notin changed' => AsSealed(p)'
                        /\ (\A p \in Paths : <<"scan", p>> \notin changed' /\ AsSealed(p)')
                             /\ manifest'.root = manifest'.entries => scan.rc # 4
      BY <1>2 DEF Verdict, Calm
    <3>1. /\ \A x : <<"scan", x>> \notin changed' => <<"scan", x>> \notin changed
          /\ \A p \in Paths : <<"scan", p>> \notin changed' => file'[p] = file[p]
          /\ manifest' = manifest
      <4>1. "scan" \in Watching /\ ~ScanWrites /\ ~StartScan
        BY <1>2, <1>a, <2>2 DEF Watching, ScanWrites, StartScan, ScanType
      <4>2. QED
        BY <4>1, Noted
    <3>2. ASSUME NEW p \in Paths, <<"scan", p>> \notin changed'
          PROVE  AsSealed(p)' <=> AsSealed(p)
      BY <3>1, <3>2 DEF AsSealed, Pairs
    <3>3. QED
      BY <2>2, <3>1, <3>2 DEF Verdict, Calm
  <2>3. QED
    BY <2>1, <2>2
<1>3. CASE Verify
  <2>1. /\ scan.pc = "verify" /\ scan.build.todo = {} /\ UNCHANGED <<file, manifest, changed>>
        /\ scan'.input = scan.input
        /\ scan'.rc = IF Ok(scan.sealed, scan.build.entries) THEN scan.rc ELSE 4
    BY <1>3, <1>a DEF Verify, ScanType
  <2>2. scan'.rc # 4 <=> Ok(scan.sealed, scan.build.entries)
    BY <2>1 DEF Rated
  <2>3. \A p \in Paths : AsSealed(p)' <=> AsSealed(p)
    BY <2>1 DEF AsSealed, Pairs
  <2>4. QED
    BY <2>1, <2>2, <2>3, VerifyTells DEF Verdict, Calm
<1>4. CASE ListTargets \/ ScanEnds
  BY <1>4, <1>a, <1>1 DEF ListTargets, ScanEnds, ScanType
<1>5. CASE ReadTarget
  <2>1. CASE Hashable(scan.build)
    <3>1. \A c : NextCode(scan.rc, c) = 4 <=> scan.rc = 4
      BY <1>a DEF NextCode, ScanType
    <3>2. scan'.rc = NextCode(scan.rc, file[First(scan.build)]) /\ scan'.input = scan.input
      BY <1>5, <1>a, <2>1 DEF ReadTarget, ScanType
    <3>3. QED
      BY <1>5, <1>1, <3>1, <3>2 DEF ReadTarget
  <2>2. CASE ~Hashable(scan.build)
    BY <1>5, <1>a, <2>2 DEF ReadTarget, ScanRaises, ScanType, Verdict
  <2>3. QED
    BY <2>1, <2>2
<1>6. CASE Load
  <2>1. scan'.pc \in After => manifest'.state = "none"
    BY <1>6, <1>a DEF Load, ScanRaises, ScanType
  <2>2. QED
    BY <2>1 DEF Verdict
<1>7. CASE ScanWrites
  <2>1. scan'.pc \in After => ~scan'.input.verify
    BY <1>7, <1>a DEF ScanWrites, ScanType
  <2>2. QED
    BY <2>1 DEF Verdict
<1>8. CASE StartScan
  <2>1. PICK s \in Scans : /\ scan'.input = s
                           /\ scan'.pc = IF (s.write \/ s.verify) /\ ~s.dir THEN "idle"
                                         ELSE IF s.write THEN "build" ELSE IF s.verify THEN "load" ELSE "list"
    BY <1>8, <1>a DEF StartScan, ScanType
  <2>2. QED
    BY <2>1 DEF Verdict
<1>9. ASSUME NEW pc \in {"build", "verify"}, ScanHash(pc) PROVE Verdict'
  <2>1. scan'.pc \notin After
    BY <1>9, <1>a DEF ScanHash, ScanRaises, ScanType
  <2>2. QED
    BY <2>1 DEF Verdict
<1>10. QED
  BY <1>2, <1>3, <1>4, <1>5, <1>6, <1>7, <1>8, <1>9
     DEF Next, vars, StartCapture, OpenErr, Scp, Diag, ListFiles, SealNext, Seal, KillCapture, Edit,
         ReadText, ReadStatus, CloseLog

-----------------------------------------------------------------------------
(* The code of a scan rises with what it reads and never falls.             *)
LEMMA RatedStep ==
  ASSUME TypeOK, Rated, [Next]_vars
  PROVE  Rated'
<1>a. scan \in ScanType
  BY DEF TypeOK
<1>b. scan.input.failOn \in 1 .. 3
  BY <1>a DEF ScanType, InputType
<1>1. CASE StartScan
  <2>1. PICK s \in Scans : /\ scan'.input = s /\ scan'.seen = 0
                           /\ scan'.pc = IF (s.write \/ s.verify) /\ ~s.dir THEN "idle"
                                         ELSE IF s.write THEN "build" ELSE IF s.verify THEN "load" ELSE "list"
                           /\ scan'.rc = IF (s.write \/ s.verify) /\ ~s.dir THEN 2 ELSE 0
    BY <1>1, <1>a DEF StartScan, ScanType
  <2>2. QED
    BY <2>1 DEF Rated
<1>2. ASSUME NEW pc \in {"build", "verify"}, ScanHash(pc) PROVE Rated'
  <2>1. CASE Hashable(scan.build)
    <3>1. \A f \in {"pc", "input", "sealed", "rc", "seen"} : scan'[f] = scan[f]
      BY <1>2, <1>a, <2>1 DEF ScanHash, ScanType
    <3>2. scan'.pc = scan.pc /\ scan'.input = scan.input /\ scan'.sealed = scan.sealed
          /\ scan'.rc = scan.rc /\ scan'.seen = scan.seen
      BY <3>1
    <3>3. QED
      BY <3>2 DEF Rated
  <2>2. CASE ~Hashable(scan.build)
    BY <1>2, <1>a, <2>2 DEF ScanHash, ScanRaises, ScanType, Rated
  <2>3. QED
    BY <2>1, <2>2
<1>3. CASE ScanWrites
  <2>1. /\ scan.pc = "build" /\ scan'.pc = IF scan.input.verify THEN "load" ELSE "list"
        /\ scan'.rc = scan.rc /\ scan'.seen = scan.seen /\ scan'.input = scan.input
    BY <1>3, <1>a DEF ScanWrites, ScanType
  <2>2. QED
    BY <2>1 DEF Rated
<1>4. CASE Load
  <2>1. /\ scan.pc = "load" /\ scan'.input = scan.input /\ scan'.seen = scan.seen
        /\ \/ scan'.pc = "idle"
           \/ scan'.pc = "list" /\ scan'.rc = 4
           \/ scan'.pc = "verify" /\ scan'.rc = scan.rc /\ scan'.sealed.state = "whole"
    <3>1. manifest.state \in {"none", "whole", "torn"}
      BY DEF TypeOK, ManifestType
    <3>2. QED
      BY <1>4, <1>a, <3>1 DEF Load, ScanRaises, ScanType
  <2>2. QED
    BY <2>1 DEF Rated
<1>5. CASE Verify
  <2>1. /\ scan.pc = "verify" /\ scan'.pc = "list" /\ scan'.seen = scan.seen /\ scan'.input = scan.input
        /\ scan'.rc \in {scan.rc, 4} /\ scan'.sealed = scan.sealed
    BY <1>5, <1>a DEF Verify, ScanType
  <2>2. QED
    BY <2>1 DEF Rated
<1>6. CASE ListTargets
  <2>1. /\ scan.pc = "list" /\ scan'.pc = "read" /\ scan'.seen = scan.seen /\ scan'.input = scan.input
        /\ scan'.rc = scan.rc /\ scan'.sealed = scan.sealed
    BY <1>6, <1>a DEF ListTargets, ScanType
  <2>2. QED
    BY <1>b, <2>1 DEF Rated
<1>7. CASE ReadTarget
  <2>1. CASE Hashable(scan.build)
    <3> DEFINE c == file[First(scan.build)]
    <3>1. /\ scan.pc = "read" /\ scan'.pc = "read" /\ scan'.sealed = scan.sealed /\ scan'.input = scan.input
          /\ scan'.rc = NextCode(scan.rc, c) /\ scan'.seen = IF Rank(c) > scan.seen THEN Rank(c) ELSE scan.seen
      BY <1>7, <1>a, <2>1 DEF ReadTarget, ScanType
    <3>2. c \in Contents
      BY <2>1, Hashes DEF TypeOK, ScanType
    <3>3. Rank(c) \in 0 .. 2
      BY <3>2, ContentsAssumption DEF Rank
    <3>4. scan.seen \in 0 .. 2 /\ scan.rc \in 0 .. 4
      BY <1>a DEF ScanType
    <3>5. NextCode(scan.rc, c) = IF Rank(c) >= scan.input.failOn /\ scan.rc < 3 THEN 3 ELSE scan.rc
      BY DEF NextCode
    <3> HIDE DEF c
    <3>6. /\ scan.rc = 0 => scan.seen < scan.input.failOn
          /\ scan.rc = 3 => scan.seen >= scan.input.failOn
          /\ scan.input.verify /\ scan.rc # 4 => scan.sealed.state = "whole"
      BY <3>1 DEF Rated
    <3>7. /\ scan'.rc = 0 => scan'.seen < scan.input.failOn
          /\ scan'.rc = 3 => scan'.seen >= scan.input.failOn
          /\ scan'.rc # 4 => scan.rc # 4
      BY <1>b, <3>1, <3>3, <3>4, <3>5, <3>6
    <3>8. QED
      BY <3>1, <3>6, <3>7 DEF Rated
  <2>2. CASE ~Hashable(scan.build)
    BY <1>7, <1>a, <2>2 DEF ReadTarget, ScanRaises, ScanType, Rated
  <2>3. QED
    BY <2>1, <2>2
<1>8. CASE ScanEnds
  <2>1. /\ scan.pc = "read" /\ scan'.pc = "ended" /\ scan'.seen = scan.seen /\ scan'.input = scan.input
        /\ scan'.rc = scan.rc /\ scan'.sealed = scan.sealed
    BY <1>8, <1>a DEF ScanEnds, ScanType
  <2>2. QED
    BY <2>1 DEF Rated
<1>9. CASE UNCHANGED scan
  BY <1>9 DEF Rated
<1>10. QED
  BY <1>1, <1>2, <1>3, <1>4, <1>5, <1>6, <1>7, <1>8, <1>9
     DEF Next, vars, StartCapture, OpenErr, Scp, Diag, ListFiles, SealNext, Seal, KillCapture, Edit,
         ReadText, ReadStatus, CloseLog

-----------------------------------------------------------------------------
(* The invariant holds of a project without captured logs.                  *)
LEMMA InitIInv == Init => IInv
<1> SUFFICES ASSUME Init PROVE IInv
  OBVIOUS
<1>a. /\ NoBuild \in BuildType /\ Building(NoBuild) /\ NoManifest \in ManifestType /\ OneDigest(NoManifest.root)
  <2>1. {} \in SUBSET Paths
    OBVIOUS
  <2>2. QED
    BY <2>1, NothingBuilt
<1>1. TypeOK
  <2>1. file \in [Paths -> Contents \union {Absent}] /\ manifest \in ManifestType
    BY <1>a DEF Init
  <2>2. capture \in CaptureType
    <3>1. 1 \in 1 .. Len(Units) + 1
      BY UnitsAssumption
    <3>2. QED
      BY <1>a, <3>1, CapturesAssumption DEF Init, CaptureType
  <2>3. scan \in ScanType
    <3>1. [dir |-> FALSE, write |-> FALSE, verify |-> FALSE, failOn |-> 1] \in InputType
      BY DEF InputType
    <3>2. QED
      BY <1>a, <3>1, BoundsAssumption DEF Init, ScanType
  <2>4. reader \in ReaderType
    BY DEF Init, ReaderType
  <2>5. QED
    BY <2>1, <2>2, <2>3, <2>4 DEF Init, TypeOK
<1>2. AtUnit /\ Loaded /\ Verdict /\ Rated /\ Labelled
  BY DEF Init, AtUnit, Loaded, Verdict, Rated, Labelled
<1>3. Unique
  BY <1>a DEF Init, Unique
<1>4. QED
  BY <1>1, <1>2, <1>3 DEF IInv

(* What a scan and a read have in hand, and the code, hold at every step.    *)
THEOREM Invariance == Spec => []IInv
<1>1. IInv /\ [Next]_vars => IInv'
  BY TypeStep, UniqueStep, LoadedStep, VerdictStep, RatedStep, LabelledStep DEF IInv
<1>2. QED
  BY <1>1, InitIInv, PTL DEF Spec

(* Captures, scans, reads and what they write keep their types.             *)
THEOREM TypeCorrect == Spec => []TypeOK
<1>1. IInv => TypeOK
  BY DEF IInv
<1>2. QED
  BY <1>1, Invariance, PTL

(* A scan --verify that does not fail has found the directory that was      *)
(* sealed, and one that fails has found another, as far as nothing changed  *)
(* while it ran: manifests, files or both may have been edited before.      *)
THEOREM VerifyFinds == Spec => []VerifyFindsEdits
<1>1. IInv => VerifyFindsEdits
  BY DEF IInv, Verdict, VerifyFindsEdits
<1>2. QED
  BY <1>1, Invariance, PTL

(* The label that read_log gives a text is true of that text, whatever was  *)
(* captured, killed and edited before, unless something changes between its *)
(* two looks at the file.                                                   *)
THEOREM LabelsAreTrue == Spec => []ReadsAreLabelled
<1>1. IInv => ReadsAreLabelled
  <2> SUFFICES ASSUME IInv, reader.pc = "ended", Calm("reader", reader.path), Calm("reader", ManifestFile)
               PROVE  /\ reader.status = "verified" => <<reader.path, reader.text>> \in Pairs(manifest.entries)
                      /\ reader.status = "unverified" => manifest.state = "none"
                      /\ manifest.state = "whole" /\ manifest.root = manifest.entries /\ AsSealed(reader.path) =>
                           reader.status = "verified"
    BY DEF ReadsAreLabelled
  <2> DEFINE p == reader.path
  <2>1. reader.text = file[p] /\ file[p] # Absent /\ reader.status = Status(manifest, p)
    BY DEF IInv, Labelled
  <2>2. Status(manifest, p) = "verified" => <<p, file[p]>> \in Pairs(manifest.entries)
    BY DEF Status
  <2>3. Status(manifest, p) = "unverified" => manifest.state = "none"
    BY DEF Status
  <2>4. ASSUME manifest.state = "whole", manifest.root = manifest.entries, AsSealed(p)
        PROVE  Status(manifest, p) = "verified"
    <3>1. <<p, file[p]>> \in Pairs(manifest.entries)
      BY <2>1, <2>4 DEF AsSealed
    <3>2. p \in Recorded(manifest)
      BY <3>1 DEF Pairs, Recorded, ToSet
    <3>3. QED
      BY <2>4, <3>1, <3>2 DEF Status
  <2>5. QED
    BY <2>1, <2>2, <2>3, <2>4
<1>2. QED
  BY <1>1, Invariance, PTL

(* run_scan exits with the code of the worst thing it met, in any order.    *)
THEOREM WorstCodeWins == Spec => []WorstCode
<1>1. IInv => WorstCode
  BY DEF IInv, Rated, WorstCode
<1>2. QED
  BY <1>1, Invariance, PTL
=============================================================================
