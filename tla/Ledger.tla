------------------------------- MODULE Ledger -------------------------------
(***************************************************************************)
(* ledger.py: the hash-chained audit ledger, a file of one JSON line per   *)
(* deploy.  Every finished deploy (`_record_run_in_ledger`) reads the      *)
(* whole file, links its entry to the last hash it saw, and appends a      *)
(* line.  Nothing locks the file between the two, and a failure to append  *)
(* is swallowed.  `audit verify` and `audit emit` read it meanwhile, a     *)
(* write can be cut short, and somebody may alter a past line.             *)
(*                                                                         *)
(* A hash is the value it is computed from, so that two hashes are equal   *)
(* only when their inputs are: a leaf hash is <<seq, event>> and a chain   *)
(* hash the sequence of the leaf hashes it covers.                         *)
(***************************************************************************)
EXTENDS Integers, Sequences, FiniteSets

CONSTANTS Runs   \* the deploys that end on this control node

VARIABLES
  file,       \* the lines of ledger.jsonl
  unended,    \* the last line has no newline
  pc,         \* pc[r]: "idle", "loaded", "recorded" or "failed"
  seen,       \* seen[r]: number of entries and last hash that r read
  receipt,    \* `audit emit`: [stage, count, head, root]
  edited,     \* somebody altered or removed a past line ...
  altered,    \* ... of a ledger that verified until then
  overlapped  \* two runs were between reading and appending at a time

vars == <<file, unended, pc, seen, receipt, edited, altered, overlapped>>
ghosts == <<edited, altered, overlapped>>

Event == [run : Runs, rc : {0, 1}]
Leaf == Nat \X Event
Hash == Seq(Leaf)

\* whole: the line parses.  Deploys pass no signer: no line has a signature.
Line == [seq : Nat, event : Event, prev : Hash, leaf : Leaf, hash : Hash,
         signed : BOOLEAN, whole : BOOLEAN]

TypeOK ==
  /\ file \in Seq(Line)
  /\ unended \in BOOLEAN
  /\ unended => file # <<>>
  /\ pc \in [Runs -> {"idle", "loaded", "recorded", "failed"}]
  /\ seen \in [Runs -> [seq : Nat, prev : Hash]]
  /\ receipt \in [stage : {"count", "head", "root", "sent", "failed"},
                  count : Nat, head : Hash, root : Seq(Leaf)]
  /\ edited \in BOOLEAN
  /\ altered \in BOOLEAN
  /\ overlapped \in BOOLEAN

-----------------------------------------------------------------------------
Genesis == <<>>
LeafHash(seq, event) == <<seq, event>>

\* Fault: the chain link leaves out the hash before it.
ChainLeafOnly(prev, leaf) == <<leaf>>
ChainHash(prev, leaf) == Append(prev, leaf)

\* load_entries raises on a line that does not parse.
Readable == \A i \in DOMAIN file : file[i].whole

NextSeq == Len(file)

\* Fault: entries[0] for entries[-1].
FirstHash == IF file = <<>> THEN Genesis ELSE file[1].hash
LastHash == IF file = <<>> THEN Genesis ELSE file[Len(file)].hash

Entry(seq, prev, event) ==
  LET leaf == LeafHash(seq, event)
  IN  [seq |-> seq, event |-> event, prev |-> prev, leaf |-> leaf,
       hash |-> ChainHash(prev, leaf), signed |-> FALSE, whole |-> TRUE]

\* The file after a write: appended to a line without a newline, it spoils that
\* line and is lost in it.
Written(line) ==
  IF unended THEN [file EXCEPT ![Len(file)].whole = FALSE] ELSE Append(file, line)

Init ==
  /\ file = <<>>
  /\ unended = FALSE
  /\ pc = [r \in Runs |-> "idle"]
  /\ seen = [r \in Runs |-> [seq |-> 0, prev |-> Genesis]]
  /\ receipt = [stage |-> "count", count |-> 0, head |-> Genesis, root |-> <<>>]
  /\ edited = FALSE
  /\ altered = FALSE
  /\ overlapped = FALSE

-----------------------------------------------------------------------------
(* verify_chain: the walk stops at the first line that does not fit, so the *)
(* lines before it are chained.                                             *)

\* Fault: the stored leaf is taken, not recomputed from the event.
RecomputedStored(line) == line.leaf
Recomputed(line) == LeafHash(line.seq, line.event)

Diverges(i, keyed) ==
  LET prev == IF i = 1 THEN Genesis ELSE file[i - 1].hash
      line == file[i]
  IN  \/ line.seq # i - 1
      \/ line.prev # prev
      \/ line.leaf # Recomputed(line)
      \/ line.hash # ChainHash(prev, Recomputed(line))
      \/ keyed /\ ~line.signed

\* What `audit verify` does, without and with --hmac-key-ref.
Verify(keyed) ==
  IF ~Readable THEN "raises"
  ELSE IF \E i \in DOMAIN file : Diverges(i, keyed) THEN "tampered"
  ELSE "intact"

-----------------------------------------------------------------------------
(* A deploy's append_event. *)

\* Fault: a run waits for a ledger that can be read.
LoadReadable(r) ==
  /\ pc[r] = "idle" /\ Readable
  /\ pc' = [pc EXCEPT ![r] = "loaded"]
  /\ seen' = [seen EXCEPT ![r] = [seq |-> NextSeq, prev |-> LastHash]]
  /\ UNCHANGED <<file, unended, receipt, ghosts>>

Load(r) ==
  /\ pc[r] = "idle"
  /\ IF Readable
       THEN /\ pc' = [pc EXCEPT ![r] = "loaded"]
            /\ seen' = [seen EXCEPT ![r] = [seq |-> NextSeq, prev |-> LastHash]]
            /\ overlapped' = (overlapped \/ \E q \in Runs : pc[q] = "loaded")
       ELSE /\ pc' = [pc EXCEPT ![r] = "failed"]
            /\ UNCHANGED <<seen, overlapped>>
  /\ UNCHANGED <<file, unended, receipt, edited, altered>>

Write(r) ==
  /\ pc[r] = "loaded"
  /\ \E rc \in {0, 1} :
       file' = Written(Entry(seen[r].seq, seen[r].prev, [run |-> r, rc |-> rc]))
  /\ unended' = FALSE
  /\ pc' = [pc EXCEPT ![r] = "recorded"]
  /\ UNCHANGED <<seen, receipt, ghosts>>

\* The disk is full in the middle of the line, or just before its newline.
Tear(r) ==
  /\ pc[r] = "loaded"
  /\ \E rc \in {0, 1}, whole \in BOOLEAN :
       file' = Written([Entry(seen[r].seq, seen[r].prev, [run |-> r, rc |-> rc])
                          EXCEPT !.whole = whole])
  /\ unended' = TRUE
  /\ pc' = [pc EXCEPT ![r] = "failed"]
  /\ UNCHANGED <<seen, receipt, ghosts>>

\* The process is killed before it writes.
Kill(r) ==
  /\ pc[r] \in {"idle", "loaded"}
  /\ pc' = [pc EXCEPT ![r] = "failed"]
  /\ UNCHANGED <<file, unended, seen, receipt, ghosts>>

-----------------------------------------------------------------------------
(* `audit emit` opens the file three times: for the count, for head() and for *)
(* compute_root(); the Merkle root of the leaves stands for their sequence.   *)

Emit(stage, next, value) ==
  /\ receipt.stage = stage
  /\ receipt' = IF Readable THEN [value EXCEPT !.stage = next]
                ELSE [receipt EXCEPT !.stage = "failed"]
  /\ UNCHANGED <<file, unended, pc, seen, ghosts>>

EmitCount == Emit("count", "head", [receipt EXCEPT !.count = Len(file)])
EmitHead == Emit("head", "root", [receipt EXCEPT !.head = LastHash])
EmitRoot ==
  Emit("root", "sent", [receipt EXCEPT !.root = [i \in DOMAIN file |-> file[i].leaf]])

-----------------------------------------------------------------------------
(* A past line is altered or removed, once, as the tests of the ledger do. *)

Alter(lines) ==
  /\ ~edited
  /\ file' = lines
  /\ edited' = TRUE
  /\ altered' = (Verify(FALSE) = "intact")
  /\ UNCHANGED <<unended, pc, seen, receipt, overlapped>>

EditLine ==
  \E i \in DOMAIN file : Alter([file EXCEPT ![i].event.rc = 1 - @])

RemoveLine ==
  \E i \in 1 .. Len(file) - 1 :
    Alter([j \in 1 .. Len(file) - 1 |-> IF j < i THEN file[j] ELSE file[j + 1]])

Terminated ==
  /\ \A r \in Runs : pc[r] \in {"recorded", "failed"}
  /\ UNCHANGED vars

Next ==
  \/ \E r \in Runs : Load(r) \/ Write(r) \/ Tear(r) \/ Kill(r)
  \/ EmitCount \/ EmitHead \/ EmitRoot
  \/ EditLine \/ RemoveLine
  \/ Terminated

\* A deploy that is not killed runs on to its end.
Fairness == \A r \in Runs : WF_vars(Load(r)) /\ WF_vars(Write(r) \/ Tear(r))

Spec == Init /\ [][Next]_vars /\ Fairness

-----------------------------------------------------------------------------
\* The events that the chain up to line i stands for.
Covered(i) == [j \in 1 .. i |-> LeafHash(j - 1, file[j].event)]

Leaves(n) == [j \in 1 .. n |-> file[j].leaf]

\* Every line fits the one before it, and its hash covers all lines so far.
LinesFit == \A i \in DOMAIN file : ~Diverges(i, FALSE) /\ file[i].hash = Leaves(i)

\* Only one run is about to append, and it has seen the last line.
LastLineSeen ==
  \A r \in Runs : pc[r] = "loaded" =>
    /\ seen[r] = [seq |-> NextSeq, prev |-> LastHash]
    /\ \A q \in Runs : pc[q] = "loaded" => q = r

\* What a receipt has read so far are prefixes of the ledger.
ReceiptFits ==
  /\ receipt.stage = "head" => receipt.count <= Len(file)
  /\ receipt.stage \in {"root", "sent"} =>
       /\ receipt.count <= Len(receipt.head)
       /\ Len(receipt.head) <= Len(file)
       /\ receipt.head = Leaves(Len(receipt.head))
  /\ receipt.stage = "sent" =>
       /\ Len(receipt.head) <= Len(receipt.root)
       /\ Len(receipt.root) <= Len(file)
       /\ receipt.root = Leaves(Len(receipt.root))

\* A ledger that nobody alters and that runs append to one after the other is a
\* chain: the inductive strengthening of NoFalseAlarm and ReceiptOrdered.
Chained == ~edited /\ ~overlapped => LinesFit /\ LastLineSeen /\ ReceiptFits

\* No false alarm: a ledger that nobody altered, and that no two deploys
\* appended to at a time, never fails `audit verify`, whatever was killed, cut
\* short or merged into one line on the way; a line that does not parse makes
\* the command raise, it is not reported as tampering.
NoFalseAlarm == Verify(FALSE) = "tampered" => edited \/ overlapped

\* Editing or deleting a past line of an intact ledger is reported from then
\* on, whatever is appended afterwards.
EditDetected == altered => Verify(FALSE) # "intact"

\* The head of a ledger that verifies commits to all of it: the number, the
\* order and the content of its entries.
HeadCommits == Verify(FALSE) = "intact" => LastHash = Covered(Len(file))

\* A run whose append returned is in a readable, unaltered ledger exactly once,
\* also when runs overlap: appending never overwrites another run's entry.
RecordedOnce ==
  Readable /\ ~edited =>
    \A r \in Runs :
      pc[r] = "recorded" => Cardinality({i \in DOMAIN file : file[i].event.run = r}) = 1

\* The three readings of a receipt may lie on both sides of an append, but
\* never the wrong way round: each covers what the one before it covers.
ReceiptOrdered ==
  ~edited /\ ~overlapped =>
    /\ receipt.stage \in {"root", "sent"} => receipt.count <= Len(receipt.head)
    /\ receipt.stage = "sent" =>
         receipt.head = SubSeq(receipt.root, 1, Len(receipt.head))

\* The ledger never holds up a deploy: every run ends.
DeploysEnd == \A r \in Runs : <>(pc[r] \in {"recorded", "failed"})
=============================================================================
