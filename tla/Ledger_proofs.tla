---------------------------- MODULE Ledger_proofs ---------------------------
(***************************************************************************)
(* The ledger, and the Merkle tree over it.                                *)
(*                                                                         *)
(* Ledger for any number of deploys.  Two invariants carry the proofs:     *)
(* Chained, for ledgers that grow one run after the other, and two more    *)
(* below, for what alteration leaves behind and for what a run recorded,   *)
(* which hold under any interleaving.                                      *)
(*                                                                         *)
(* Merkle, in the second part, for a ledger of any length.  A path of      *)
(* nodes leads from the entry's leaf to the level of the climb; what is    *)
(* folded is on it exactly if it started there.                            *)
(***************************************************************************)
EXTENDS Ledger, Merkle, SequenceTheorems, FiniteSetTheorems, WellFoundedInduction, TLAPS

(* An entry is a line, whatever the run read before.                        *)
LEMMA EntryIsLine ==
  ASSUME NEW seq \in Nat, NEW prev \in Hash, NEW event \in Event
  PROVE  /\ Entry(seq, prev, event) \in Line
         /\ \A whole \in BOOLEAN : [Entry(seq, prev, event) EXCEPT !.whole = whole] \in Line
<1>1. LeafHash(seq, event) \in Leaf
  BY DEF LeafHash, Leaf
<1>2. ChainHash(prev, LeafHash(seq, event)) \in Hash
  BY <1>1, AppendProperties DEF ChainHash, Hash
<1>3. QED
  BY <1>1, <1>2 DEF Entry, Line

(* A write either appends the line, or spoils the unfinished last line.     *)
LEMMA WrittenFile ==
  ASSUME file \in Seq(Line), unended \in BOOLEAN, unended => file # <<>>, NEW line \in Line
  PROVE  /\ Written(line) \in Seq(Line) /\ Written(line) # <<>>
         /\ ~unended => /\ Len(Written(line)) = Len(file) + 1
                        /\ Written(line)[Len(file) + 1] = line
                        /\ \A i \in 1 .. Len(file) : Written(line)[i] = file[i]
         /\ unended => /\ Len(Written(line)) = Len(file)
                       /\ ~Written(line)[Len(file)].whole
                       /\ \A i \in 1 .. Len(file) :
                            \/ Written(line)[i] = file[i]
                            \/ Written(line)[i] = [file[i] EXCEPT !.whole = FALSE]
<1>1. CASE ~unended
  BY <1>1, AppendProperties DEF Written
<1>2. CASE unended
  <2>1. Len(file) \in DOMAIN file
    BY <1>2, EmptySeq, LenProperties
  <2>2. [file[Len(file)] EXCEPT !.whole = FALSE] \in Line
    <3>1. file[Len(file)] \in Line
      BY <2>1
    <3>2. QED
      BY <3>1 DEF Line
  <2> DEFINE spoilt == [file EXCEPT ![Len(file)] = [file[Len(file)] EXCEPT !.whole = FALSE]]
  <2>3. spoilt \in Seq(Line) /\ Len(spoilt) = Len(file)
    BY <2>1, <2>2, ExceptSeq
  <2>4. Written(line) = spoilt
    BY <1>2 DEF Written
  <2>5. ~spoilt[Len(file)].whole
    BY <2>1, <2>2 DEF Line
  <2>6. \A i \in 1 .. Len(file) :
          spoilt[i] = file[i] \/ spoilt[i] = [file[i] EXCEPT !.whole = FALSE]
    <3> SUFFICES ASSUME NEW i \in 1 .. Len(file)
                 PROVE  spoilt[i] = file[i] \/ spoilt[i] = [file[i] EXCEPT !.whole = FALSE]
      OBVIOUS
    <3>1. CASE i = Len(file)
      BY <2>1, <3>1
    <3>2. CASE i # Len(file)
      BY <2>1, <3>2, ExceptSeq, <2>2
    <3>3. QED
      BY <3>1, <3>2
  <2>7. spoilt # <<>>
    BY <2>1, <2>3
  <2> HIDE DEF spoilt
  <2>8. QED
    BY <1>2, <2>3, <2>4, <2>5, <2>6, <2>7
<1>3. QED
  BY <1>1, <1>2

(* Every variable stays in its type.                                        *)
THEOREM TypeCorrect == Spec => []TypeOK
<1>1. Init => TypeOK
  <2> SUFFICES ASSUME Init PROVE TypeOK
    OBVIOUS
  <2>1. Genesis \in Hash /\ <<>> \in Seq(Leaf) /\ file \in Seq(Line)
    BY DEF Genesis, Hash, Init
  <2>2. seen \in [Runs -> [seq : Nat, prev : Hash]]
    BY <2>1 DEF Init
  <2>3. unended \in BOOLEAN /\ edited \in BOOLEAN /\ altered \in BOOLEAN /\ overlapped \in BOOLEAN
    BY DEF Init
  <2>4. QED
    BY <2>1, <2>2, <2>3 DEF Init, TypeOK
<1>2. TypeOK /\ [Next]_vars => TypeOK'
  <2> SUFFICES ASSUME TypeOK, [Next]_vars PROVE TypeOK'
    OBVIOUS
  <2>0. LastHash \in Hash /\ NextSeq \in Nat
    <3>1. CASE file = <<>>
      BY <3>1 DEF TypeOK, LastHash, NextSeq, Genesis, Hash
    <3>2. CASE file # <<>>
      <4>1. Len(file) \in Nat /\ file[Len(file)] \in Line
        BY <3>2, EmptySeq, LenProperties DEF TypeOK
      <4>2. QED
        BY <3>2, <4>1 DEF LastHash, NextSeq, Line
    <3>3. QED
      BY <3>1, <3>2
  <2>1. ASSUME NEW r \in Runs, Load(r) PROVE TypeOK'
    <3>1. overlapped' \in BOOLEAN
      BY <2>1, Zenon DEF Load, TypeOK
    <3>2. seen' \in [Runs -> [seq : Nat, prev : Hash]]
      <4>1. CASE Readable
        <5>1. seen' = [seen EXCEPT ![r] = [seq |-> NextSeq, prev |-> LastHash]]
          BY <2>1, <4>1 DEF Load
        <5>2. QED
          BY <5>1, <2>0 DEF TypeOK
      <4>2. CASE ~Readable
        BY <2>1, <4>2 DEF Load, TypeOK
      <4>3. QED
        BY <4>1, <4>2
    <3>3. QED
      BY <2>1, <3>1, <3>2 DEF Load, TypeOK
  <2>2. ASSUME NEW r \in Runs, Write(r) PROVE TypeOK'
    <3>1. PICK rc \in {0, 1} :
            file' = Written(Entry(seen[r].seq, seen[r].prev, [run |-> r, rc |-> rc]))
      BY <2>2 DEF Write
    <3>2. Entry(seen[r].seq, seen[r].prev, [run |-> r, rc |-> rc]) \in Line
      BY EntryIsLine DEF TypeOK, Event
    <3>3. file' \in Seq(Line)
      BY <3>1, <3>2, WrittenFile DEF TypeOK
    <3>4. QED
      BY <2>2, <3>3 DEF Write, ghosts, TypeOK
  <2>3. ASSUME NEW r \in Runs, Tear(r) PROVE TypeOK'
    <3>1. PICK rc \in {0, 1}, whole \in BOOLEAN :
            file' = Written([Entry(seen[r].seq, seen[r].prev, [run |-> r, rc |-> rc])
                               EXCEPT !.whole = whole])
      BY <2>3 DEF Tear
    <3>2. [Entry(seen[r].seq, seen[r].prev, [run |-> r, rc |-> rc])
             EXCEPT !.whole = whole] \in Line
      BY EntryIsLine DEF TypeOK, Event
    <3>3. file' \in Seq(Line) /\ file' # <<>>
      BY <3>1, <3>2, WrittenFile DEF TypeOK
    <3>4. QED
      BY <2>3, <3>3 DEF Tear, ghosts, TypeOK
  <2>4. ASSUME NEW r \in Runs, Kill(r) PROVE TypeOK'
    BY <2>4 DEF Kill, ghosts, TypeOK
  <2>5. CASE EmitCount
    BY <2>5, <2>0 DEF EmitCount, Emit, ghosts, TypeOK, NextSeq
  <2>6. CASE EmitHead
    BY <2>6, <2>0 DEF EmitHead, Emit, ghosts, TypeOK
  <2>7. CASE EmitRoot
    <3>1. [i \in DOMAIN file |-> file[i].leaf] \in Seq(Leaf)
      <4>1. \A i \in 1 .. Len(file) : file[i].leaf \in Leaf
        <5>1. \A i \in 1 .. Len(file) : file[i] \in Line
          BY ElementOfSeq DEF TypeOK
        <5>2. QED
          BY <5>1 DEF Line
      <4>2. DOMAIN file = 1 .. Len(file) /\ Len(file) \in Nat
        BY LenProperties DEF TypeOK
      <4>3. QED
        BY <4>1, <4>2, IsASeq
    <3>2. QED
      BY <2>7, <3>1 DEF EmitRoot, Emit, ghosts, TypeOK
  <2>8. CASE EditLine
    <3>1. PICK i \in DOMAIN file : Alter([file EXCEPT ![i].event.rc = 1 - @])
      BY <2>8 DEF EditLine
    <3>2. file[i] \in Line
      BY DEF TypeOK
    <3>3. [file[i] EXCEPT !.event = [file[i].event EXCEPT !.rc = 1 - file[i].event.rc]] \in Line
      BY <3>2 DEF Line, Event
    <3>4. [file EXCEPT ![i] = [file[i] EXCEPT !.event =
             [file[i].event EXCEPT !.rc = 1 - file[i].event.rc]]] \in Seq(Line)
      BY <3>3, ExceptSeq DEF TypeOK
    <3>5. file' \in Seq(Line) /\ (file # <<>> => file' # <<>>)
      <4>1. file' = [file EXCEPT ![i] = [file[i] EXCEPT !.event =
                       [file[i].event EXCEPT !.rc = 1 - file[i].event.rc]]]
        BY <3>1 DEF Alter
      <4>2. i \in DOMAIN file'
        BY <4>1
      <4>3. QED
        BY <3>4, <4>1, <4>2
    <3>6. QED
      BY <3>1, <3>5 DEF Alter, TypeOK
  <2>9. CASE RemoveLine
    <3>1. PICK i \in 1 .. Len(file) - 1 :
            Alter([j \in 1 .. Len(file) - 1 |-> IF j < i THEN file[j] ELSE file[j + 1]])
      BY <2>9 DEF RemoveLine
    <3>2. Len(file) \in Nat /\ Len(file) - 1 \in Nat \ {0}
      BY <3>1 DEF TypeOK
    <3>3. \A j \in 1 .. Len(file) - 1 : (IF j < i THEN file[j] ELSE file[j + 1]) \in Line
      BY <3>2 DEF TypeOK
    <3>4. file' \in Seq(Line) /\ file' # <<>>
      <4>1. file' = [j \in 1 .. Len(file) - 1 |-> IF j < i THEN file[j] ELSE file[j + 1]]
        BY <3>1 DEF Alter
      <4>2. file' \in Seq(Line)
        BY <3>2, <3>3, <4>1, IsASeq
      <4>3. 1 \in DOMAIN file'
        BY <3>2, <4>1
      <4>4. QED
        BY <4>2, <4>3
    <3>5. QED
      BY <3>1, <3>4 DEF Alter, TypeOK
  <2>10. CASE UNCHANGED vars
    BY <2>10 DEF vars, TypeOK
  <2>11. QED
    BY <2>1, <2>2, <2>3, <2>4, <2>5, <2>6, <2>7, <2>8, <2>9, <2>10 DEF Next, Terminated
<1>3. QED
  BY <1>1, <1>2, PTL DEF Spec
-----------------------------------------------------------------------------
(* A run that saw the last line extends the chain: the lines there are stay  *)
(* as they are, up to one that is spoilt, and the new one fits.              *)
LEMMA AppendKeepsChain ==
  ASSUME TypeOK, TypeOK', LinesFit,
         NEW line \in Line,
         line.seq = NextSeq, line.prev = LastHash,
         line.leaf = LeafHash(line.seq, line.event),
         line.hash = ChainHash(line.prev, line.leaf),
         file' = Written(line)
  PROVE  /\ Len(file) <= Len(file')
         /\ \A n \in 0 .. Len(file) : Leaves(n)' = Leaves(n)
         /\ LinesFit'
<1>0. /\ file \in Seq(Line) /\ file' \in Seq(Line) /\ Len(file) \in Nat /\ Len(file') \in Nat
      /\ DOMAIN file = 1 .. Len(file) /\ DOMAIN file' = 1 .. Len(file')
  BY LenProperties DEF TypeOK
<1>1. /\ Len(file') = Len(file) \/ Len(file') = Len(file) + 1
      /\ Len(file') = Len(file) + 1 => file'[Len(file) + 1] = line
      /\ \A i \in 1 .. Len(file) : \/ file'[i] = file[i]
                                   \/ file'[i] = [file[i] EXCEPT !.whole = FALSE]
  <2>1. unended \in BOOLEAN /\ (unended => file # <<>>)
    BY DEF TypeOK
  <2>2. /\ ~unended => /\ Len(Written(line)) = Len(file) + 1
                       /\ Written(line)[Len(file) + 1] = line
                       /\ \A i \in 1 .. Len(file) : Written(line)[i] = file[i]
        /\ unended => /\ Len(Written(line)) = Len(file)
                      /\ \A i \in 1 .. Len(file) :
                           \/ Written(line)[i] = file[i]
                           \/ Written(line)[i] = [file[i] EXCEPT !.whole = FALSE]
    BY <1>0, <2>1, WrittenFile
  <2>3. \A n \in Nat : n # n + 1
    OBVIOUS
  <2>4. CASE unended
    BY <1>0, <2>2, <2>3, <2>4
  <2>5. CASE ~unended
    BY <1>0, <2>2, <2>5
  <2>6. QED
    BY <2>4, <2>5
<1>2. \A i \in 1 .. Len(file) :
        /\ file'[i].seq = file[i].seq /\ file'[i].prev = file[i].prev
        /\ file'[i].event = file[i].event /\ file'[i].leaf = file[i].leaf
        /\ file'[i].hash = file[i].hash
  <2>1. \A i \in 1 .. Len(file) : file[i] \in Line
    BY <1>0
  <2>2. QED
    BY <1>1, <2>1 DEF Line
<1>3. \A n \in 0 .. Len(file) : Leaves(n)' = Leaves(n)
  BY <1>0, <1>2 DEF Leaves
<1>4. ASSUME NEW i \in 1 .. Len(file)
      PROVE  ~Diverges(i, FALSE)' /\ file'[i].hash = Leaves(i)'
  <2>1. ~Diverges(i, FALSE) /\ file[i].hash = Leaves(i)
    BY <1>0 DEF LinesFit
  <2>2. i # 1 => i - 1 \in 1 .. Len(file)
    BY <1>0
  <2>3. ~Diverges(i, FALSE)'
    BY <1>2, <2>1, <2>2 DEF Diverges, Recomputed
  <2>4. Leaves(i)' = Leaves(i)
    <3>1. i \in 0 .. Len(file)
      BY <1>0
    <3>2. QED
      BY <1>3, <3>1
  <2>5. QED
    BY <1>2, <2>1, <2>3, <2>4
<1>5. ASSUME Len(file') = Len(file) + 1, NEW i, i = Len(file')
      PROVE  ~Diverges(i, FALSE)' /\ file'[i].hash = Leaves(i)'
  <2>1. file'[i] = line /\ i \in Nat /\ line.seq = i - 1
    BY <1>0, <1>1, <1>5 DEF NextSeq
  <2>2. line.prev = IF i = 1 THEN Genesis ELSE file'[i - 1].hash
    <3>1. CASE file = <<>>
      BY <1>0, <1>5, <3>1 DEF LastHash
    <3>2. CASE file # <<>>
      <4>1. Len(file) # 0
        BY <1>0, <3>2, EmptySeq
      <4>2. i # 1 /\ i - 1 = Len(file) /\ i - 1 \in 1 .. Len(file)
        BY <1>0, <1>5, <4>1
      <4>3. QED
        BY <1>2, <3>2, <4>2 DEF LastHash
    <3>3. QED
      BY <3>1, <3>2
  <2>3. ~Diverges(i, FALSE)'
    BY <2>1, <2>2 DEF Diverges, Recomputed
  <2>4. line.prev = Leaves(Len(file))
    <3>1. CASE file = <<>>
      <4>1. Leaves(0) = <<>>
        BY DEF Leaves
      <4>2. Len(file) = 0
        BY <3>1
      <4>3. QED
        BY <3>1, <4>1, <4>2 DEF LastHash, Genesis
    <3>2. CASE file # <<>>
      <4>1. Len(file) \in DOMAIN file
        BY <1>0, <3>2, EmptySeq
      <4>2. QED
        BY <3>2, <4>1 DEF LastHash, LinesFit
    <3>3. QED
      BY <3>1, <3>2
  <2>5. line.hash = Append(Leaves(Len(file)), line.leaf)
    BY <2>4 DEF ChainHash
  <2>6. Append(Leaves(Len(file)), line.leaf) = Leaves(i)'
    <3>1. \A j \in 1 .. Len(file) : file[j].leaf \in Leaf
      <4>1. \A j \in 1 .. Len(file) : file[j] \in Line
        BY <1>0
      <4>2. QED
        BY <4>1 DEF Line
    <3>2. Leaves(Len(file)) \in Seq(Leaf) /\ Len(Leaves(Len(file))) = Len(file)
      BY <1>0, <3>1, IsASeq DEF Leaves
    <3>3. line.leaf \in Leaf
      BY DEF Line
    <3> DEFINE A == Append(Leaves(Len(file)), line.leaf)
    <3>4. /\ A \in Seq(Leaf) /\ Len(A) = i /\ A[i] = line.leaf
          /\ \A j \in 1 .. Len(file) : A[j] = Leaves(Len(file))[j]
      BY <1>0, <1>5, <3>2, <3>3, AppendProperties
    <3>5. \A j \in 1 .. i : A[j] = file'[j].leaf
      <4> SUFFICES ASSUME NEW j \in 1 .. i PROVE A[j] = file'[j].leaf
        OBVIOUS
      <4>1. CASE j = i
        BY <2>1, <3>4, <4>1
      <4>2. CASE j # i
        <5>1. j \in 1 .. Len(file)
          BY <1>0, <1>5, <4>2
        <5>2. A[j] = file[j].leaf
          BY <3>4, <5>1 DEF Leaves
        <5>3. QED
          BY <1>2, <5>1, <5>2
      <4>3. QED
        BY <4>1, <4>2
    <3>6. A = [j \in 1 .. i |-> A[j]]
      BY <3>4
    <3> HIDE DEF A
    <3>7. A = [j \in 1 .. i |-> file'[j].leaf]
      BY <3>5, <3>6
    <3>8. QED
      BY <3>7 DEF Leaves, A
  <2>7. QED
    BY <2>1, <2>3, <2>5, <2>6
<1>6. ASSUME NEW i \in DOMAIN file'
      PROVE  ~Diverges(i, FALSE)' /\ file'[i].hash = Leaves(i)'
  <2>1. i \in 1 .. Len(file) \/ (Len(file') = Len(file) + 1 /\ i = Len(file'))
    <3>1. \A n \in Nat : \A k \in 1 .. n + 1 : k \in 1 .. n \/ k = n + 1
      OBVIOUS
    <3>2. QED
      BY <1>0, <1>1, <3>1
  <2>2. QED
    BY <1>4, <1>5, <2>1
<1>7. Len(file) <= Len(file')
  <2>1. \A n, m \in Nat : m = n \/ m = n + 1 => n <= m
    OBVIOUS
  <2>2. QED
    BY <1>0, <1>1, <2>1
<1>8. QED
  BY <1>3, <1>6, <1>7 DEF LinesFit

(* A receipt's readings stay prefixes of a ledger that only grows.           *)
LEMMA ReceiptKept ==
  ASSUME TypeOK, TypeOK', ReceiptFits, receipt' = receipt,
         Len(file) <= Len(file'),
         \A n \in 0 .. Len(file) : Leaves(n)' = Leaves(n)
  PROVE  ReceiptFits'
<1>1. /\ Len(file) \in Nat /\ Len(file') \in Nat /\ receipt.count \in Nat
      /\ Len(receipt.head) \in Nat /\ Len(receipt.root) \in Nat
  BY LenProperties DEF TypeOK, Hash
<1>2. \A a, b, c \in Nat : a <= b /\ b <= c => a <= c
  OBVIOUS
<1>3. receipt.stage = "head" => receipt.count <= Len(file')
  BY <1>1, <1>2 DEF ReceiptFits
<1>4. ASSUME receipt.stage \in {"root", "sent"}
      PROVE  /\ receipt.count <= Len(receipt.head)
             /\ Len(receipt.head) <= Len(file')
             /\ receipt.head = Leaves(Len(receipt.head))'
  <2>1. /\ receipt.count <= Len(receipt.head)
        /\ Len(receipt.head) <= Len(file)
        /\ receipt.head = Leaves(Len(receipt.head))
    BY <1>4 DEF ReceiptFits
  <2>2. PICK n \in 0 .. Len(file) : n = Len(receipt.head)
    BY <1>1, <2>1
  <2>3. Len(receipt.head) <= Len(file')
    BY <1>1, <1>2, <2>1
  <2>4. receipt.head = Leaves(n)'
    BY <2>1, <2>2
  <2>5. QED
    BY <2>1, <2>2, <2>3, <2>4
<1>5. ASSUME receipt.stage = "sent"
      PROVE  /\ Len(receipt.head) <= Len(receipt.root)
             /\ Len(receipt.root) <= Len(file')
             /\ receipt.root = Leaves(Len(receipt.root))'
  <2>1. /\ Len(receipt.head) <= Len(receipt.root)
        /\ Len(receipt.root) <= Len(file)
        /\ receipt.root = Leaves(Len(receipt.root))
    BY <1>5 DEF ReceiptFits
  <2>2. PICK n \in 0 .. Len(file) : n = Len(receipt.root)
    BY <1>1, <2>1
  <2>3. Len(receipt.root) <= Len(file')
    BY <1>1, <1>2, <2>1
  <2>4. receipt.root = Leaves(n)'
    BY <2>1, <2>2
  <2>5. QED
    BY <2>1, <2>2, <2>3, <2>4
<1>6. QED
  BY <1>3, <1>4, <1>5 DEF ReceiptFits

(* A run that ends without a line, and one that is killed, leaves the others *)
(* as they are.                                                              *)
LEMMA SeenKept ==
  ASSUME TypeOK, LastLineSeen, file' = file, seen' = seen,
         \A q \in Runs : pc'[q] = "loaded" => pc[q] = "loaded"
  PROVE  LastLineSeen'
<1>1. NextSeq' = NextSeq /\ LastHash' = LastHash
  BY DEF NextSeq, LastHash
<1>2. QED
  BY <1>1 DEF LastLineSeen

(* A step that does not touch the file keeps the chain and its leaves.       *)
LEMMA FileKept ==
  ASSUME TypeOK, file' = file
  PROVE  /\ LinesFit => LinesFit'
         /\ Len(file) <= Len(file')
         /\ \A n \in 0 .. Len(file) : Leaves(n)' = Leaves(n)
<1>1. \A n : Leaves(n)' = Leaves(n)
  BY DEF Leaves
<1>2. \A i \in DOMAIN file : Diverges(i, FALSE)' <=> Diverges(i, FALSE)
  BY DEF Diverges, Recomputed
<1>3. \A n \in Nat : n <= n
  OBVIOUS
<1>4. Len(file) <= Len(file')
  BY <1>3, LenProperties DEF TypeOK
<1>5. QED
  BY <1>1, <1>2, <1>4 DEF LinesFit

(* What `audit emit` reads of a chain is a prefix of it.                     *)
LEMMA ReceiptExtends ==
  ASSUME TypeOK, LinesFit, ReceiptFits, EmitCount \/ EmitHead \/ EmitRoot
  PROVE  ReceiptFits'
<1>1. Len(file) \in Nat /\ DOMAIN file = 1 .. Len(file)
  BY LenProperties DEF TypeOK
<1>2. LastHash = Leaves(Len(file))
  <2>1. CASE file = <<>>
    <3>1. Leaves(0) = <<>> /\ Len(file) = 0
      BY <2>1 DEF Leaves
    <3>2. QED
      BY <2>1, <3>1 DEF LastHash, Genesis
  <2>2. CASE file # <<>>
    <3>1. Len(file) \in DOMAIN file
      BY <1>1, <2>2, EmptySeq DEF TypeOK
    <3>2. QED
      BY <2>2, <3>1 DEF LastHash, LinesFit
  <2>3. QED
    BY <2>1, <2>2
<1>3. Len(LastHash) = Len(file)
  BY <1>1, <1>2 DEF Leaves
<1>4. file' = file /\ \A n : Leaves(n)' = Leaves(n)
  BY DEF EmitCount, EmitHead, EmitRoot, Emit, Leaves
<1>5. \A n \in Nat : n <= n
  OBVIOUS
<1>6. CASE ~Readable
  BY <1>6 DEF EmitCount, EmitHead, EmitRoot, Emit, TypeOK, ReceiptFits
<1>7. CASE Readable /\ EmitCount
  <2>1. receipt'.stage = "head" /\ receipt'.count = Len(file)
    BY <1>7 DEF EmitCount, Emit, TypeOK
  <2>2. QED
    BY <1>1, <1>4, <1>5, <2>1 DEF ReceiptFits
<1>8. CASE Readable /\ EmitHead
  <2>1. /\ receipt.stage = "head" /\ receipt'.stage = "root"
        /\ receipt'.count = receipt.count /\ receipt'.head = LastHash
    BY <1>8 DEF EmitHead, Emit, TypeOK
  <2>2. receipt.count <= Len(file)
    BY <2>1 DEF ReceiptFits
  <2>3. QED
    BY <1>1, <1>2, <1>3, <1>4, <1>5, <2>1, <2>2 DEF ReceiptFits
<1>9. CASE Readable /\ EmitRoot
  <2>1. /\ receipt.stage = "root" /\ receipt'.stage = "sent"
        /\ receipt'.count = receipt.count /\ receipt'.head = receipt.head
        /\ receipt'.root = [i \in DOMAIN file |-> file[i].leaf]
    BY <1>9 DEF EmitRoot, Emit, TypeOK
  <2>2. receipt'.root = Leaves(Len(file)) /\ Len(receipt'.root) = Len(file)
    BY <1>1, <2>1 DEF Leaves
  <2>3. /\ receipt.count <= Len(receipt.head)
        /\ Len(receipt.head) <= Len(file)
        /\ receipt.head = Leaves(Len(receipt.head))
    BY <2>1 DEF ReceiptFits
  <2>4. QED
    BY <1>1, <1>4, <1>5, <2>1, <2>2, <2>3 DEF ReceiptFits
<1>10. QED
  BY <1>6, <1>7, <1>8, <1>9

(* Chained is preserved: a step that neither alters a line nor overlaps      *)
(* another run extends the chain, or leaves it alone.                        *)
LEMMA ChainedStep == TypeOK /\ TypeOK' /\ Chained /\ [Next]_vars => Chained'
<1> SUFFICES ASSUME TypeOK, TypeOK', Chained, [Next]_vars, ~edited', ~overlapped'
             PROVE  LinesFit' /\ LastLineSeen' /\ ReceiptFits'
  BY DEF Chained
<1>1. LinesFit /\ LastLineSeen /\ ReceiptFits
  <2>1. (edited => edited') /\ (overlapped => overlapped')
    <3>1. ASSUME NEW r \in Runs, Load(r)
          PROVE  (edited => edited') /\ (overlapped => overlapped')
      <4>1. CASE Readable
        <5>1. edited' = edited /\ overlapped' = (overlapped \/ \E q \in Runs : pc[q] = "loaded")
          BY <3>1, <4>1 DEF Load
        <5>2. QED
          BY <5>1, Zenon
      <4>2. CASE ~Readable
        <5>1. edited' = edited /\ overlapped' = overlapped
          BY <3>1, <4>2 DEF Load
        <5>2. QED
          BY <5>1, Zenon
      <4>3. QED
        BY <4>1, <4>2
    <3>2. ASSUME NEW r \in Runs, Write(r) \/ Tear(r) \/ Kill(r)
          PROVE  (edited => edited') /\ (overlapped => overlapped')
      <4>1. UNCHANGED ghosts
        BY <3>2 DEF Write, Tear, Kill
      <4>2. QED
        BY <4>1 DEF ghosts
    <3>3. CASE EmitCount \/ EmitHead \/ EmitRoot
      <4>1. UNCHANGED ghosts
        BY <3>3 DEF EmitCount, EmitHead, EmitRoot, Emit
      <4>2. QED
        BY <4>1 DEF ghosts
    <3>4. CASE EditLine \/ RemoveLine
      <4>1. edited' = TRUE /\ overlapped' = overlapped
        BY <3>4 DEF EditLine, RemoveLine, Alter
      <4>2. QED
        BY <4>1, Zenon
    <3>5. CASE Terminated \/ UNCHANGED vars
      <4>1. UNCHANGED vars
        BY <3>5 DEF Terminated
      <4>2. QED
        BY <4>1 DEF vars
    <3>6. QED
      BY <3>1, <3>2, <3>3, <3>4, <3>5 DEF Next
  <2>2. QED
    BY <2>1 DEF Chained
<1>2. ASSUME NEW r \in Runs, Load(r) PROVE LinesFit' /\ LastLineSeen' /\ ReceiptFits'
  <2>1. file' = file /\ receipt' = receipt
    BY <1>2 DEF Load
  <2>2. LastLineSeen'
    <3>1. CASE Readable
      <4>1. \A p \in Runs : pc[p] # "loaded"
        BY <1>2, <3>1 DEF Load
      <4>2. NextSeq' = NextSeq /\ LastHash' = LastHash
        BY <2>1 DEF NextSeq, LastHash
      <4>3. QED
        BY <1>2, <3>1, <4>1, <4>2 DEF Load, TypeOK, LastLineSeen
    <3>2. CASE ~Readable
      BY <1>1, <1>2, <2>1, <3>2, SeenKept DEF Load, TypeOK
    <3>3. QED
      BY <3>1, <3>2
  <2>3. QED
    BY <1>1, <2>1, <2>2, FileKept, ReceiptKept
<1>3. ASSUME NEW r \in Runs, Write(r) \/ Tear(r)
      PROVE  LinesFit' /\ LastLineSeen' /\ ReceiptFits'
  <2>1. pc[r] = "loaded" /\ receipt' = receipt
    BY <1>3 DEF Write, Tear
  <2>2. /\ seen[r].seq = NextSeq /\ seen[r].prev = LastHash
        /\ \A q \in Runs : pc[q] = "loaded" => q = r
    BY <1>1, <2>1 DEF LastLineSeen
  <2>3. PICK line \in Line :
          /\ file' = Written(line)
          /\ line.seq = NextSeq /\ line.prev = LastHash
          /\ line.leaf = LeafHash(line.seq, line.event)
          /\ line.hash = ChainHash(line.prev, line.leaf)
    <3> DEFINE E(rc) == Entry(seen[r].seq, seen[r].prev, [run |-> r, rc |-> rc])
    <3>1. ASSUME NEW rc \in {0, 1}
          PROVE  /\ E(rc) \in Line
                 /\ \A whole \in BOOLEAN : [E(rc) EXCEPT !.whole = whole] \in Line
      BY EntryIsLine DEF TypeOK, Event
    <3>2. CASE Write(r)
      <4>1. PICK rc \in {0, 1} : file' = Written(E(rc))
        BY <3>2 DEF Write
      <4>2. /\ E(rc).seq = NextSeq /\ E(rc).prev = LastHash
            /\ E(rc).leaf = LeafHash(E(rc).seq, E(rc).event)
            /\ E(rc).hash = ChainHash(E(rc).prev, E(rc).leaf)
        BY <2>2 DEF Entry
      <4> HIDE DEF E
      <4>3. QED
        BY <3>1, <4>1, <4>2
    <3>3. CASE Tear(r)
      <4>1. PICK rc \in {0, 1}, whole \in BOOLEAN : file' = Written([E(rc) EXCEPT !.whole = whole])
        BY <3>3 DEF Tear
      <4> DEFINE e == [E(rc) EXCEPT !.whole = whole]
      <4>2. /\ e.seq = NextSeq /\ e.prev = LastHash
            /\ e.leaf = LeafHash(e.seq, e.event)
            /\ e.hash = ChainHash(e.prev, e.leaf)
        BY <2>2 DEF Entry
      <4>3. e \in Line /\ file' = Written(e)
        BY <3>1, <4>1
      <4> HIDE DEF e
      <4>4. QED
        BY <4>2, <4>3
    <3>4. QED
      BY <1>3, <3>2, <3>3
  <2>4. /\ LinesFit'
        /\ Len(file) <= Len(file')
        /\ \A n \in 0 .. Len(file) : Leaves(n)' = Leaves(n)
    BY <1>1, <2>3, AppendKeepsChain
  <2>5. \A q \in Runs : pc'[q] # "loaded"
    BY <1>3, <2>2 DEF Write, Tear, TypeOK
  <2>6. LastLineSeen'
    BY <2>5 DEF LastLineSeen
  <2>7. QED
    BY <1>1, <2>1, <2>4, <2>6, ReceiptKept
<1>4. ASSUME NEW r \in Runs, Kill(r) PROVE LinesFit' /\ LastLineSeen' /\ ReceiptFits'
  <2>1. file' = file /\ receipt' = receipt /\ seen' = seen
    BY <1>4 DEF Kill
  <2>2. \A q \in Runs : pc'[q] = "loaded" => pc[q] = "loaded"
    BY <1>4 DEF Kill, TypeOK
  <2>3. QED
    BY <1>1, <2>1, <2>2, FileKept, SeenKept, ReceiptKept
<1>5. CASE EmitCount \/ EmitHead \/ EmitRoot
  <2>1. file' = file /\ pc' = pc /\ seen' = seen
    BY <1>5 DEF EmitCount, EmitHead, EmitRoot, Emit
  <2>2. QED
    BY <1>1, <1>5, <2>1, FileKept, SeenKept, ReceiptExtends
<1>6. CASE EditLine \/ RemoveLine
  BY <1>6 DEF EditLine, RemoveLine, Alter
<1>7. CASE UNCHANGED vars
  <2>1. file' = file /\ pc' = pc /\ seen' = seen /\ receipt' = receipt
    BY <1>7 DEF vars
  <2>2. QED
    BY <1>1, <2>1, FileKept, SeenKept, ReceiptKept
<1>8. QED
  BY <1>2, <1>3, <1>4, <1>5, <1>6, <1>7 DEF Next, Terminated

(* Runs that append one after the other keep the chain, and receipts that    *)
(* are read meanwhile are prefixes of it.                                    *)
THEOREM ChainedHolds == Spec => []Chained
<1>1. Init => Chained
  BY DEF Init, Chained, LinesFit, LastLineSeen, ReceiptFits
<1>2. QED
  BY <1>1, TypeCorrect, ChainedStep, PTL DEF Spec

(* No false alarm.                                                           *)
THEOREM NoFalseAlarmHolds == Spec => []NoFalseAlarm
<1>1. Chained => NoFalseAlarm
  BY DEF Chained, LinesFit, NoFalseAlarm, Verify
<1>2. QED
  BY <1>1, ChainedHolds, PTL

(* The three readings of a receipt are in order.                             *)
THEOREM ReceiptOrderedHolds == Spec => []ReceiptOrdered
<1>1. TypeOK /\ Chained => ReceiptOrdered
  <2> SUFFICES ASSUME TypeOK, ReceiptFits, receipt.stage = "sent"
               PROVE  receipt.head = SubSeq(receipt.root, 1, Len(receipt.head))
    BY DEF ReceiptOrdered, Chained, ReceiptFits
  <2>1. PICK n \in Nat : n = Len(receipt.head)
    BY LenProperties DEF TypeOK, Hash
  <2>2. PICK m \in Nat : m = Len(receipt.root)
    BY LenProperties DEF TypeOK
  <2>3. n <= m /\ receipt.head = Leaves(n) /\ receipt.root = Leaves(m)
    BY <2>1, <2>2 DEF ReceiptFits
  <2>4. SubSeq(receipt.root, 1, n) = [j \in 1 .. n |-> receipt.root[j]]
    BY <2>2, <2>3 DEF TypeOK
  <2>5. \A j \in 1 .. n : receipt.root[j] = file[j].leaf
    BY <2>3 DEF Leaves
  <2>6. QED
    BY <2>1, <2>3, <2>4, <2>5 DEF Leaves
<1>2. QED
  BY <1>1, ChainedHolds, TypeCorrect, PTL

-----------------------------------------------------------------------------
(* What holds under any interleaving. *)

(* A write keeps every line, and a file with a line that does not parse or   *)
(* an unfinished line does not become readable again.                        *)
LEMMA WriteKeeps ==
  ASSUME TypeOK, NEW line \in Line, file' = Written(line), Readable'
  PROVE  /\ Readable /\ ~unended
         /\ file' \in Seq(Line) /\ Len(file) \in Nat
         /\ Len(file') = Len(file) + 1
         /\ file'[Len(file) + 1] = line
         /\ \A i \in DOMAIN file : i \in DOMAIN file' /\ file'[i] = file[i]
<1>0. /\ file \in Seq(Line) /\ Len(file) \in Nat
      /\ unended \in BOOLEAN /\ (unended => file # <<>>)
      /\ DOMAIN file = 1 .. Len(file)
  BY LenProperties DEF TypeOK
<1>1. file' \in Seq(Line)
  BY <1>0, WrittenFile
<1>2. DOMAIN file' = 1 .. Len(file')
  BY <1>1, LenProperties
<1>3. ~unended
  <2> SUFFICES ASSUME unended PROVE FALSE
    BY <1>0
  <2>1. Len(file) \in DOMAIN file
    BY <1>0, EmptySeq
  <2>2. Len(file') = Len(file) /\ ~file'[Len(file)].whole
    BY <1>0, WrittenFile
  <2>3. QED
    BY <1>0, <1>2, <2>1, <2>2 DEF Readable
<1>4. /\ Len(file') = Len(file) + 1
      /\ file'[Len(file) + 1] = line
      /\ \A i \in 1 .. Len(file) : file'[i] = file[i]
  BY <1>0, <1>3, WrittenFile
<1>5. \A i \in DOMAIN file : i \in DOMAIN file' /\ file'[i] = file[i]
  BY <1>0, <1>2, <1>4
<1>6. Readable
  BY <1>5 DEF Readable
<1>7. QED
  BY <1>0, <1>1, <1>3, <1>4, <1>5, <1>6

(* Write and Tear both write one line of the run that takes the step.        *)
LEMMA WritesLine ==
  ASSUME TypeOK, NEW r \in Runs, Write(r) \/ Tear(r)
  PROVE  \E line \in Line : file' = Written(line) /\ line.event.run = r
<1> DEFINE E(rc) == Entry(seen[r].seq, seen[r].prev, [run |-> r, rc |-> rc])
<1>1. ASSUME NEW rc \in {0, 1}
      PROVE  /\ E(rc) \in Line /\ E(rc).event.run = r
             /\ \A whole \in BOOLEAN : /\ [E(rc) EXCEPT !.whole = whole] \in Line
                                       /\ [E(rc) EXCEPT !.whole = whole].event.run = r
  <2>1. /\ E(rc) \in Line
        /\ \A whole \in BOOLEAN : [E(rc) EXCEPT !.whole = whole] \in Line
    BY EntryIsLine DEF TypeOK, Event
  <2>2. E(rc).event.run = r
    BY DEF Entry
  <2>3. \A whole \in BOOLEAN : [E(rc) EXCEPT !.whole = whole].event = E(rc).event
    BY DEF Entry
  <2> HIDE DEF E
  <2>4. QED
    BY <2>1, <2>2, <2>3
<1>2. CASE Write(r)
  <2>1. PICK rc \in {0, 1} : file' = Written(E(rc))
    BY <1>2 DEF Write
  <2> HIDE DEF E
  <2>2. QED
    BY <1>1, <2>1
<1>3. CASE Tear(r)
  <2>1. PICK rc \in {0, 1}, whole \in BOOLEAN : file' = Written([E(rc) EXCEPT !.whole = whole])
    BY <1>3 DEF Tear
  <2> HIDE DEF E
  <2>2. QED
    BY <1>1, <2>1
<1>4. QED
  BY <1>2, <1>3

(* An alteration of an intact ledger leaves a scar that no append heals: a   *)
(* line out of its place, or one that does not fit its own leaf hash.        *)
Scar(i) == file[i].seq # i - 1 \/ file[i].leaf # Recomputed(file[i])
Scarred == altered => edited /\ (Readable => \E i \in DOMAIN file : Scar(i))

(* Scarred is preserved by every step.                                       *)
LEMMA ScarredStep == TypeOK /\ Scarred /\ [Next]_vars => Scarred'
<1> SUFFICES ASSUME TypeOK, Scarred, [Next]_vars PROVE Scarred'
  OBVIOUS
<1>1. ASSUME file' = file, edited' = edited, altered' = altered PROVE Scarred'
  BY <1>1 DEF Scarred, Scar, Readable, Recomputed
<1>2. ASSUME NEW r \in Runs, Write(r) \/ Tear(r) PROVE Scarred'
  <2>1. edited' = edited /\ altered' = altered
    BY <1>2 DEF Write, Tear, ghosts
  <2>2. PICK line \in Line : file' = Written(line)
    BY <1>2, WritesLine
  <2>3. SUFFICES ASSUME altered, Readable' PROVE edited /\ \E i \in DOMAIN file' : Scar(i)'
    BY <2>1 DEF Scarred
  <2>4. /\ Readable
        /\ \A i \in DOMAIN file : i \in DOMAIN file' /\ file'[i] = file[i]
    BY <2>2, <2>3, WriteKeeps
  <2>5. PICK i \in DOMAIN file : Scar(i)
    BY <2>3, <2>4 DEF Scarred
  <2>6. i \in DOMAIN file' /\ Scar(i)'
    BY <2>4, <2>5 DEF Scar, Recomputed
  <2>7. QED
    BY <2>3, <2>4, <2>6 DEF Scarred
<1>3. CASE EditLine
  <2>1. PICK i \in DOMAIN file : Alter([file EXCEPT ![i].event.rc = 1 - @])
    BY <1>3 DEF EditLine
  <2>2. file[i] \in Line /\ i \in DOMAIN file'
    BY <2>1 DEF TypeOK, Alter
  <2>3. SUFFICES ASSUME altered' PROVE Scar(i)'
    BY <2>1, <2>2 DEF Scarred, Alter
  <2>4. ~Diverges(i, FALSE)
    BY <2>1, <2>3 DEF Alter, Verify
  <2>5. file[i].leaf = LeafHash(file[i].seq, file[i].event)
    BY <2>4 DEF Diverges, Recomputed
  <2>6. file'[i] = [file[i] EXCEPT !.event = [file[i].event EXCEPT !.rc = 1 - file[i].event.rc]]
    BY <2>1 DEF Alter
  <2>7. file'[i].leaf = file[i].leaf /\ file'[i].event # file[i].event
    BY <2>2, <2>6 DEF Line, Event
  <2>8. QED
    BY <2>5, <2>7 DEF Scar, Recomputed, LeafHash
<1>4. CASE RemoveLine
  <2>1. PICK i \in 1 .. Len(file) - 1 :
          Alter([j \in 1 .. Len(file) - 1 |-> IF j < i THEN file[j] ELSE file[j + 1]])
    BY <1>4 DEF RemoveLine
  <2>2. Len(file) \in Nat /\ i \in DOMAIN file' /\ file'[i] = file[i + 1] /\ i + 1 \in DOMAIN file
    BY <2>1, LenProperties DEF TypeOK, Alter
  <2>3. SUFFICES ASSUME altered' PROVE Scar(i)'
    BY <2>1, <2>2 DEF Scarred, Alter
  <2>4. ~Diverges(i + 1, FALSE)
    BY <2>1, <2>2, <2>3 DEF Alter, Verify
  <2>5. file'[i].seq = (i + 1) - 1
    BY <2>2, <2>4 DEF Diverges
  <2>6. QED
    BY <2>1, <2>2, <2>5 DEF Scar
<1>5. CASE \E r \in Runs : Load(r) \/ Kill(r)
  BY <1>1, <1>5 DEF Load, Kill, ghosts
<1>6. CASE EmitCount \/ EmitHead \/ EmitRoot
  BY <1>1, <1>6 DEF EmitCount, EmitHead, EmitRoot, Emit, ghosts
<1>7. CASE UNCHANGED vars
  BY <1>1, <1>7 DEF vars
<1>8. QED
  BY <1>2, <1>3, <1>4, <1>5, <1>6, <1>7 DEF Next, Terminated

(* Tampering with an intact ledger is reported for good.                     *)
THEOREM EditDetectedHolds == Spec => []EditDetected
<1>1. Init => Scarred
  BY DEF Init, Scarred
<1>2. Scarred => EditDetected
  BY DEF Scarred, Scar, EditDetected, Verify, Diverges
<1>3. QED
  BY <1>1, <1>2, TypeCorrect, ScarredStep, PTL DEF Spec

(* In a readable, unaltered ledger a run has no line before it writes one,   *)
(* and just the one line once it is recorded.                                *)
OneLine(r) ==
  /\ pc[r] \in {"idle", "loaded"} => \A i \in DOMAIN file : file[i].event.run # r
  /\ pc[r] = "recorded" =>
       \E i \in DOMAIN file :
         /\ file[i].event.run = r
         /\ \A j \in DOMAIN file : file[j].event.run = r => j = i
Once == Readable /\ ~edited => \A r \in Runs : OneLine(r)

(* Once is preserved by every step.                                          *)
LEMMA OnceStep == TypeOK /\ TypeOK' /\ Once /\ [Next]_vars => Once'
<1> SUFFICES ASSUME TypeOK, TypeOK', Once, [Next]_vars, Readable', ~edited', NEW q \in Runs
             PROVE  OneLine(q)'
  BY DEF Once
<1>1. ASSUME file' = file, edited' = edited,
             pc'[q] = pc[q] \/ (pc[q] = "idle" /\ pc'[q] = "loaded") \/ pc'[q] = "failed"
      PROVE  OneLine(q)'
  <2>1. OneLine(q)
    BY <1>1 DEF Once, Readable
  <2>2. CASE pc'[q] = pc[q]
    BY <1>1, <2>1, <2>2 DEF OneLine
  <2>3. CASE pc[q] = "idle" /\ pc'[q] = "loaded"
    BY <1>1, <2>1, <2>3 DEF OneLine
  <2>4. CASE pc'[q] = "failed"
    BY <2>4 DEF OneLine
  <2>5. QED
    BY <1>1, <2>2, <2>3, <2>4
<1>2. ASSUME NEW r \in Runs, Write(r) \/ Tear(r) PROVE OneLine(q)'
  <2>1. /\ pc[r] = "loaded" /\ edited' = edited
        /\ pc' = [pc EXCEPT ![r] = "recorded"] \/ pc' = [pc EXCEPT ![r] = "failed"]
    BY <1>2 DEF Write, Tear, ghosts
  <2>2. PICK line \in Line : file' = Written(line) /\ line.event.run = r
    BY <1>2, WritesLine
  <2>3. /\ Readable
        /\ file' \in Seq(Line) /\ Len(file) \in Nat
        /\ Len(file') = Len(file) + 1
        /\ file'[Len(file) + 1] = line
        /\ \A i \in DOMAIN file : i \in DOMAIN file' /\ file'[i] = file[i]
    BY <2>2, WriteKeeps
  <2>4. \A p \in Runs : OneLine(p)
    BY <2>1, <2>3 DEF Once
  <2>5. PICK n \in Nat : n = Len(file)
    BY <2>3
  <2>6. /\ DOMAIN file = 1 .. n /\ DOMAIN file' = 1 .. (n + 1) /\ file'[n + 1] = line
    BY <2>3, <2>5, LenProperties DEF TypeOK
  <2>7. CASE q = r
    <3>1. \A i \in DOMAIN file : file[i].event.run # r
      BY <2>1, <2>4 DEF OneLine
    <3>2. pc'[q] \in {"recorded", "failed"}
      BY <2>1, <2>7 DEF TypeOK
    <3>3. \A j \in DOMAIN file' : file'[j].event.run = q => j = n + 1
      BY <2>3, <2>6, <2>7, <3>1
    <3>4. n + 1 \in DOMAIN file' /\ file'[n + 1].event.run = q
      BY <2>2, <2>6, <2>7
    <3>5. QED
      BY <3>2, <3>3, <3>4 DEF OneLine
  <2>8. CASE q # r
    <3>1. pc'[q] = pc[q]
      BY <2>1, <2>8 DEF TypeOK
    <3>2. \A j \in DOMAIN file' : file'[j].event.run = q => j \in DOMAIN file
      BY <2>2, <2>6, <2>8
    <3>3. CASE pc[q] \in {"idle", "loaded"}
      <4>1. \A i \in DOMAIN file : file[i].event.run # q
        BY <2>4, <3>3 DEF OneLine
      <4>2. \A j \in DOMAIN file' : file'[j].event.run # q
        BY <2>3, <3>2, <4>1
      <4>3. QED
        BY <3>1, <3>3, <4>2 DEF OneLine
    <3>4. CASE pc[q] = "recorded"
      <4>1. PICK i \in DOMAIN file :
              /\ file[i].event.run = q
              /\ \A j \in DOMAIN file : file[j].event.run = q => j = i
        BY <2>4, <3>4 DEF OneLine
      <4>2. i \in DOMAIN file' /\ file'[i].event.run = q
        BY <2>3, <4>1
      <4>3. \A j \in DOMAIN file' : file'[j].event.run = q => j = i
        BY <2>3, <3>2, <4>1
      <4>4. QED
        BY <3>1, <3>4, <4>2, <4>3 DEF OneLine
    <3>5. CASE pc[q] = "failed"
      BY <3>1, <3>5 DEF OneLine
    <3>6. QED
      BY <3>3, <3>4, <3>5 DEF TypeOK
  <2>9. QED
    BY <2>7, <2>8
<1>3. ASSUME NEW r \in Runs, Load(r) PROVE OneLine(q)'
  BY <1>1, <1>3 DEF Load, TypeOK
<1>4. ASSUME NEW r \in Runs, Kill(r) PROVE OneLine(q)'
  BY <1>1, <1>4 DEF Kill, ghosts, TypeOK
<1>5. CASE EmitCount \/ EmitHead \/ EmitRoot
  BY <1>1, <1>5 DEF EmitCount, EmitHead, EmitRoot, Emit, ghosts
<1>6. CASE EditLine \/ RemoveLine
  BY <1>6 DEF EditLine, RemoveLine, Alter
<1>7. CASE UNCHANGED vars
  BY <1>1, <1>7 DEF vars
<1>8. QED
  BY <1>2, <1>3, <1>4, <1>5, <1>6, <1>7 DEF Next, Terminated

(* Every recorded run is in the ledger once, however the runs interleave.    *)
THEOREM RecordedOnceHolds == Spec => []RecordedOnce
<1>1. Init => Once
  BY DEF Init, Once, OneLine
<1>2. Once => RecordedOnce
  <2> SUFFICES ASSUME Once, Readable, ~edited, NEW r \in Runs, pc[r] = "recorded"
               PROVE  Cardinality({i \in DOMAIN file : file[i].event.run = r}) = 1
    BY DEF RecordedOnce
  <2>1. PICK i \in DOMAIN file :
          /\ file[i].event.run = r
          /\ \A j \in DOMAIN file : file[j].event.run = r => j = i
    BY DEF Once, OneLine
  <2>2. {j \in DOMAIN file : file[j].event.run = r} = {i}
    BY <2>1
  <2>3. QED
    BY <2>2, FS_Singleton
<1>3. QED
  BY <1>1, <1>2, TypeCorrect, OnceStep, PTL DEF Spec

-----------------------------------------------------------------------------
(* Every nonempty set of naturals has a least element.                       *)
LEMMA LeastNat ==
  ASSUME NEW T \in SUBSET Nat, T # {}
  PROVE  \E x \in T : \A y \in T : x <= y
<1> DEFINE R == OpToRel(<, Nat)
<1>1. IsWellFoundedOn(R, Nat)
  BY NatLessThanWellFounded
<1>2. \A x, y \in Nat : <<y, x>> \in R <=> y < x
  BY DEF OpToRel
<1> HIDE DEF R
<1>3. PICK x \in T : \A y \in T : <<y, x>> \notin R
  BY <1>1, WFMin
<1>4. \A y \in T : ~(y < x)
  BY <1>2, <1>3
<1>5. QED
  BY <1>4

(* Appending its next value to a prefix of a function.                       *)
LEMMA OneLonger ==
  ASSUME NEW n \in Nat, NEW f
  PROVE  Append([j \in 1 .. n |-> f[j]], f[n + 1]) = [j \in 1 .. n + 1 |-> f[j]]
<1> DEFINE S == {f[j] : j \in 1 .. n + 1}
           short == [j \in 1 .. n |-> f[j]]
           long == [j \in 1 .. n + 1 |-> f[j]]
<1>1. \A j \in 1 .. n + 1 : f[j] \in S
  OBVIOUS
<1> HIDE DEF S
<1>2. short \in Seq(S) /\ Len(short) = n
  <2>1. \A j \in 1 .. n : f[j] \in S
    BY <1>1
  <2>2. short \in Seq(S)
    BY <2>1, IsASeq
  <2>3. QED
    BY <2>2, LenProperties
<1>3. long \in Seq(S) /\ Len(long) = n + 1
  <2>1. long \in Seq(S)
    BY <1>1, IsASeq
  <2>2. DOMAIN long = 1 .. n + 1
    OBVIOUS
  <2>3. QED
    BY <2>1, <2>2, LenProperties
<1>4. /\ Append(short, f[n + 1]) \in Seq(S)
      /\ Len(Append(short, f[n + 1])) = n + 1
      /\ \A j \in 1 .. n : Append(short, f[n + 1])[j] = f[j]
      /\ Append(short, f[n + 1])[n + 1] = f[n + 1]
  <2>1. f[n + 1] \in S
    BY <1>1
  <2>2. \A j \in 1 .. n : short[j] = f[j]
    OBVIOUS
  <2> HIDE DEF short
  <2>3. QED
    BY <1>2, <2>1, <2>2, AppendProperties
<1>5. \A j \in 1 .. n + 1 : Append(short, f[n + 1])[j] = long[j]
  <2> SUFFICES ASSUME NEW j \in 1 .. n + 1 PROVE Append(short, f[n + 1])[j] = long[j]
    OBVIOUS
  <2>1. long[j] = f[j]
    OBVIOUS
  <2>2. j \in 1 .. n \/ j = n + 1
    OBVIOUS
  <2> HIDE DEF short, long
  <2>3. QED
    BY <1>4, <2>1, <2>2
<1> HIDE DEF short, long
<1>6. Append(short, f[n + 1]) = long
  BY <1>3, <1>4, <1>5, SeqEqual
<1>7. QED
  BY <1>6 DEF short, long

(* A ledger that verifies has, at every line, the hash of all lines so far:  *)
(* the first line that had not would not fit the one before it.              *)
THEOREM HeadCommitsHolds == Spec => []HeadCommits
<1>1. TypeOK => HeadCommits
  <2> SUFFICES ASSUME TypeOK, Verify(FALSE) = "intact" PROVE LastHash = Covered(Len(file))
    BY DEF HeadCommits
  <2>1. PICK n \in Nat : n = Len(file)
    BY LenProperties DEF TypeOK
  <2>2. DOMAIN file = 1 .. n
    BY <2>1 DEF TypeOK
  <2>3. \A i \in 1 .. n : ~Diverges(i, FALSE)
    BY <2>2 DEF Verify
  <2>4. \A i \in 1 .. n : file[i].hash = Covered(i)
    <3> DEFINE T == {i \in 1 .. n : file[i].hash # Covered(i)}
    <3>1. SUFFICES ASSUME T # {} PROVE FALSE
      OBVIOUS
    <3>2. PICK i \in T : \A j \in T : i <= j
      <4>1. T \in SUBSET Nat
        OBVIOUS
      <4> HIDE DEF T
      <4>2. QED
        BY <3>1, <4>1, LeastNat
    <3>3. /\ i \in 1 .. n
          /\ file[i].hash # Covered(i)
          /\ file[i].seq = i - 1
          /\ file[i].hash = Append(IF i = 1 THEN Genesis ELSE file[i - 1].hash,
                                   <<i - 1, file[i].event>>)
      BY <2>3 DEF Diverges, ChainHash, Recomputed, LeafHash
    <3>4. CASE i = 1
      <4>1. Covered(1) = <<  <<0, file[1].event>>  >>
        BY DEF Covered, LeafHash
      <4>2. QED
        BY <3>3, <3>4, <4>1 DEF Genesis
    <3>5. CASE i # 1
      <4>1. i - 1 \in 1 .. n /\ i - 1 \notin T
        BY <3>2, <3>3, <3>5
      <4>2. file[i - 1].hash = Covered(i - 1)
        BY <4>1
      <4>3. Append(Covered(i - 1), <<i - 1, file[i].event>>) = Covered(i)
        <5>1. PICK k \in Nat : k = i - 1
          BY <4>1
        <5>2. Covered(k) = [j \in 1 .. k |-> <<j - 1, file[j].event>>]
          BY DEF Covered, LeafHash
        <5>3. Covered(k + 1) = [j \in 1 .. k + 1 |-> <<j - 1, file[j].event>>]
          BY DEF Covered, LeafHash
        <5> DEFINE leaves == [j \in 1 .. k + 1 |-> <<j - 1, file[j].event>>]
        <5>4. Covered(k) = [j \in 1 .. k |-> leaves[j]] /\ leaves[k + 1] = <<k, file[k + 1].event>>
          BY <5>2
        <5>5. Append(Covered(k), <<k, file[k + 1].event>>) = Covered(k + 1)
          <6> HIDE DEF leaves
          <6>1. Append([j \in 1 .. k |-> leaves[j]], leaves[k + 1]) = [j \in 1 .. k + 1 |-> leaves[j]]
            BY OneLonger
          <6>2. [j \in 1 .. k + 1 |-> leaves[j]] = leaves
            BY DEF leaves
          <6>3. leaves = Covered(k + 1)
            BY <5>3 DEF leaves
          <6>4. QED
            BY <5>4, <6>1, <6>2, <6>3
        <5>6. k + 1 = i
          BY <3>3, <5>1
        <5>7. QED
          BY <5>1, <5>5, <5>6
      <4>4. QED
        BY <3>3, <3>5, <4>2, <4>3
    <3>6. QED
      BY <3>4, <3>5
  <2>5. CASE file = <<>>
    BY <2>5 DEF LastHash, Covered, Genesis
  <2>6. CASE file # <<>>
    <3>1. n \in 1 .. n
      BY <2>1, <2>6, EmptySeq DEF TypeOK
    <3>2. QED
      BY <2>1, <2>4, <2>6, <3>1 DEF LastHash
  <2>7. QED
    BY <2>5, <2>6
<1>2. QED
  BY <1>1, TypeCorrect, PTL

-----------------------------------------------------------------------------
(***************************************************************************)
(* Merkle.                                                                 *)
(***************************************************************************)
(* A climb halves the level; the node over the entry is promoted, or joined *)
(* with its sibling.                                                        *)
LEMMA ParentsJoin ==
  ASSUME NEW n \in Nat, n > 1, NEW level, Len(level) = n, NEW i \in 0 .. n - 1
  PROVE  /\ Parents(level) = [k \in 1 .. (n + 1) \div 2 |-> Parents(level)[k]]
         /\ (n + 1) \div 2 \in 1 .. n - 1 /\ ParentIndex(i) \in 0 .. (n + 1) \div 2 - 1
         /\ \/ Sibling(level, i) = <<>> /\ Parents(level)[ParentIndex(i) + 1] = level[i + 1]
            \/ \E s : /\ Sibling(level, i) = <<s>> /\ s.side \in {"L", "R"}
                      /\ Parents(level)[ParentIndex(i) + 1] = Join(level[i + 1], s)
<1> DEFINE m == i \div 2
           k == m + 1
<1>1. (n + 1) \div 2 \in 1 .. n - 1 /\ m \in 0 .. (n + 1) \div 2 - 1 /\ k \in 1 .. (n + 1) \div 2
  OBVIOUS
<1>2. Parents(level) = [j \in 1 .. (n + 1) \div 2 |-> Parents(level)[j]]
  BY DEF Parents
<1>3. Parents(level)[k] = IF 2 * k <= n THEN HashPair(level[2 * k - 1], level[2 * k]) ELSE level[2 * k - 1]
  BY <1>1 DEF Parents
<1>4. CASE i % 2 = 1
  <2>1. 2 * k = i + 1 /\ 2 * k - 1 = i /\ 2 * k <= n
    BY <1>4
  <2> DEFINE s == [hash |-> level[i], side |-> "L"]
  <2>2. Sibling(level, i) = <<s>>
    BY <1>4 DEF Sibling
  <2>3. Parents(level)[k] = HashPair(level[i], level[i + 1])
    BY <1>3, <2>1
  <2>4. Join(level[i + 1], s) = HashPair(level[i], level[i + 1])
    BY DEF Join
  <2>5. QED
    BY <1>1, <1>2, <2>2, <2>3, <2>4 DEF ParentIndex
<1>5. CASE i % 2 # 1 /\ i + 1 < n
  <2>1. 2 * k = i + 2 /\ 2 * k - 1 = i + 1 /\ 2 * k <= n
    BY <1>5
  <2> DEFINE s == [hash |-> level[i + 2], side |-> "R"]
  <2>2. Sibling(level, i) = <<s>>
    BY <1>5 DEF Sibling
  <2>3. Parents(level)[k] = HashPair(level[i + 1], level[i + 2])
    BY <1>3, <2>1
  <2>4. Join(level[i + 1], s) = HashPair(level[i + 1], level[i + 2])
    BY DEF Join
  <2>5. QED
    BY <1>1, <1>2, <2>2, <2>3, <2>4 DEF ParentIndex
<1>6. CASE i % 2 # 1 /\ ~(i + 1 < n)
  <2>1. 2 * k - 1 = i + 1 /\ ~(2 * k <= n)
    BY <1>6
  <2>2. Sibling(level, i) = <<>>
    BY <1>6 DEF Sibling
  <2>3. Parents(level)[k] = level[i + 1]
    BY <1>3, <2>1
  <2>4. QED
    BY <1>1, <1>2, <2>2, <2>3 DEF ParentIndex
<1>7. QED
  BY <1>4, <1>5, <1>6

(* Different hashes stay different when they are joined with one sibling.   *)
LEMMA JoinInjective ==
  ASSUME NEW s, NEW g, NEW h, Join(g, s) = Join(h, s)
  PROVE  g = h
<1>1. CASE s.side = "L"
  <2>1. <<s.hash, g>> = <<s.hash, h>>
    BY <1>1 DEF Join, HashPair
  <2>2. <<s.hash, g>>[2] = <<s.hash, h>>[2]
    BY <2>1
  <2>3. QED
    BY <2>2
<1>2. CASE s.side # "L"
  <2>1. <<g, s.hash>> = <<h, s.hash>>
    BY <1>2 DEF Join, HashPair
  <2>2. <<g, s.hash>>[1] = <<h, s.hash>>[1]
    BY <2>1
  <2>3. QED
    BY <2>2
<1>3. QED
  BY <1>1, <1>2

(* path leads from the leaf of the entry to its place on the level that the *)
(* climb has reached: one node more than there are siblings.                *)
Leads(path) ==
  /\ DOMAIN path = 0 .. Len(proof) /\ path[0] = LeafNode(index)
  /\ \A p \in 1 .. Len(proof) : path[p] = Join(path[p - 1], proof[p])
  /\ path[Len(proof)] = nodes[idx + 1]

(* What is folded is on the path if it started there, and off it if not.    *)
Follows(path) == claimed # NoEntry => (folded = path[used] <=> claimed = index)

(* The inductive invariant.                                                 *)
MerkleInv ==
  /\ MerkleTypeOK /\ nodes \in Seq({nodes[k] : k \in 1 .. Len(nodes)})
  /\ proof \in Seq({proof[p] : p \in 1 .. Len(proof)})
  /\ claimed # NoEntry => AtRoot
  /\ \E path : Leads(path) /\ Follows(path)

(* A function on 1 .. n is a sequence of its values.                        *)
LEMMA FunctionIsSequence ==
  ASSUME NEW n \in Nat, NEW f, f = [k \in 1 .. n |-> f[k]]
  PROVE  f \in Seq({f[k] : k \in 1 .. n}) /\ Len(f) = n /\ DOMAIN f = 1 .. n
<1> DEFINE S == {f[k] : k \in 1 .. n}
<1>1. DOMAIN f = 1 .. n
  OBVIOUS
<1>2. f \in [1 .. n -> S]
  <2>1. \A k \in 1 .. n : f[k] \in S
    OBVIOUS
  <2> HIDE DEF S
  <2>2. QED
    BY <2>1
<1> HIDE DEF S
<1>3. f \in Seq(S) /\ Len(f) = n
  BY <1>2
<1>4. QED
  BY <1>1, <1>3 DEF S

(* A sequence is one of its own members.                                    *)
LEMMA OwnMembers ==
  ASSUME NEW S, NEW f \in Seq(S)
  PROVE  f \in Seq({f[k] : k \in 1 .. Len(f)})
<1>1. Len(f) \in Nat /\ f = [k \in 1 .. Len(f) |-> f[k]]
  OBVIOUS
<1>2. QED
  BY <1>1, FunctionIsSequence

(* The proof of an entry with one more sibling.                             *)
LEMMA OneMore ==
  ASSUME NEW S, NEW f \in Seq(S), NEW s
  PROVE  LET g == f \o <<s>>
         IN /\ Len(g) = Len(f) + 1 /\ DOMAIN g = 1 .. Len(f) + 1
            /\ \A k \in 1 .. Len(f) : g[k] = f[k]
            /\ g[Len(f) + 1] = s
            /\ g \in Seq({g[k] : k \in 1 .. Len(g)})
<1> DEFINE T == S \union {s}
           g == f \o <<s>>
<1>1. f \in Seq(T) /\ <<s>> \in Seq(T) /\ Len(<<s>>) = 1 /\ <<s>>[1] = s /\ Len(f) \in Nat
  <2>1. f \in Seq(T)
    <3>1. DOMAIN f = 1 .. Len(f) /\ Len(f) \in Nat /\ \A k \in 1 .. Len(f) : f[k] \in S
      BY ElementOfSeq
    <3>2. f = [k \in 1 .. Len(f) |-> f[k]]
      OBVIOUS
    <3>3. \A k \in 1 .. Len(f) : f[k] \in T
      BY <3>1
    <3> HIDE DEF T
    <3>4. f \in [1 .. Len(f) -> T]
      BY <3>1, <3>3
    <3>5. QED
      BY <3>1, <3>4
  <2>2. s \in T
    OBVIOUS
  <2> HIDE DEF T
  <2>3. QED
    BY <2>1, <2>2
<1> HIDE DEF T
<1>2. /\ g \in Seq(T) /\ Len(g) = Len(f) + 1
      /\ \A k \in 1 .. Len(f) : g[k] = f[k]
      /\ g[Len(f) + 1] = s
  BY <1>1, ConcatProperties
<1>3. DOMAIN g = 1 .. Len(g)
  BY <1>2
<1>4. g \in Seq({g[k] : k \in 1 .. Len(g)})
  BY <1>2, OwnMembers
<1> HIDE DEF g
<1>5. /\ Len(g) = Len(f) + 1 /\ DOMAIN g = 1 .. Len(f) + 1
      /\ \A k \in 1 .. Len(f) : g[k] = f[k]
      /\ g[Len(f) + 1] = s
      /\ g \in Seq({g[k] : k \in 1 .. Len(g)})
  BY <1>2, <1>3, <1>4
<1>6. QED
  BY <1>5 DEF g

(* The invariant holds to begin with.                                       *)
LEMMA MerkleStarts ==
  ASSUME MerkleInit
  PROVE  MerkleInv
<1>1. size \in 1 .. MaxLeaves /\ size \in Nat /\ index \in 0 .. size - 1 /\ idx = index /\ proof = <<>>
      /\ claimed = NoEntry /\ used = 0
  BY MaxLeavesAssumption DEF MerkleInit
<1>2. nodes = [k \in 1 .. size |-> nodes[k]] /\ nodes[idx + 1] = LeafNode(index)
  <2>1. nodes = [k \in 1 .. size |-> LeafNode(k - 1)]
    BY DEF MerkleInit
  <2>2. idx + 1 \in 1 .. size /\ (idx + 1) - 1 = index
    BY <1>1
  <2>3. QED
    BY <2>1, <2>2
<1>3. nodes \in Seq({nodes[k] : k \in 1 .. size}) /\ Len(nodes) = size /\ DOMAIN nodes = 1 .. size
  BY <1>1, <1>2, FunctionIsSequence
<1>4. Len(proof) = 0 /\ DOMAIN proof = 1 .. 0 /\ proof \in Seq({proof[p] : p \in 1 .. Len(proof)})
  BY <1>1
<1>5. MerkleTypeOK
  BY <1>1, <1>3, <1>4 DEF MerkleTypeOK
<1>6. Leads([p \in 0 .. 0 |-> LeafNode(index)])
  BY <1>1, <1>2, <1>4 DEF Leads
<1>7. QED
  BY <1>1, <1>3, <1>4, <1>5, <1>6 DEF MerkleInv, Follows

(* A climb keeps it: the path goes on to the node above.                    *)
LEMMA ClimbStep ==
  ASSUME MerkleInv, Climb
  PROVE  MerkleInv'
<1> DEFINE n == Len(nodes)
<1>1. PICK path : Leads(path) /\ Follows(path)
  BY DEF MerkleInv
<1>2. /\ size \in 1 .. MaxLeaves /\ n \in 1 .. size /\ idx \in 0 .. n - 1 /\ n > 1 /\ n \in Nat
      /\ proof \in Seq({proof[p] : p \in 1 .. Len(proof)}) /\ DOMAIN proof = 1 .. Len(proof)
      /\ \A p \in DOMAIN proof : proof[p].side \in {"L", "R"}
      /\ claimed = NoEntry /\ used \in 0 .. Len(proof)
  BY DEF MerkleInv, MerkleTypeOK, Climb, AtRoot
<1>3. /\ nodes' = Parents(nodes) /\ idx' = ParentIndex(idx) /\ proof' = proof \o Sibling(nodes, idx)
      /\ UNCHANGED <<size, index, claimed, folded, used>>
  BY DEF Climb
<1>4. /\ nodes' = [k \in 1 .. (n + 1) \div 2 |-> nodes'[k]]
      /\ (n + 1) \div 2 \in 1 .. n - 1 /\ idx' \in 0 .. (n + 1) \div 2 - 1
  BY <1>2, <1>3, ParentsJoin
<1>5. /\ nodes' \in Seq({nodes'[k] : k \in 1 .. (n + 1) \div 2}) /\ Len(nodes') = (n + 1) \div 2
      /\ DOMAIN nodes' = 1 .. (n + 1) \div 2
  BY <1>4, FunctionIsSequence
<1>6. /\ Len(nodes') \in 1 .. size /\ DOMAIN nodes' = 1 .. Len(nodes') /\ idx' \in 0 .. Len(nodes') - 1
      /\ nodes' \in Seq({nodes'[k] : k \in 1 .. Len(nodes')})
  BY <1>2, <1>4, <1>5
<1>7. SUFFICES ASSUME TRUE
               PROVE  /\ proof' \in Seq({proof'[p] : p \in 1 .. Len(proof')}) /\ DOMAIN proof' = 1 .. Len(proof')
                      /\ \A p \in DOMAIN proof' : proof'[p].side \in {"L", "R"}
                      /\ used' \in 0 .. Len(proof')
                      /\ \E longer : Leads(longer)'
  BY <1>2, <1>3, <1>6 DEF MerkleInv, MerkleTypeOK, Follows
<1>8. CASE Sibling(nodes, idx) = <<>> /\ nodes'[idx' + 1] = nodes[idx + 1]
  <2>1. proof' = proof
    BY <1>2, <1>3, <1>8, ConcatEmptySeq
  <2>2. Leads(path)'
    BY <1>1, <1>3, <1>8, <2>1 DEF Leads
  <2>3. QED
    BY <1>2, <1>3, <2>1, <2>2
<1>9. ASSUME NEW s, Sibling(nodes, idx) = <<s>>, s.side \in {"L", "R"}, nodes'[idx' + 1] = Join(nodes[idx + 1], s)
      PROVE  /\ proof' \in Seq({proof'[p] : p \in 1 .. Len(proof')}) /\ DOMAIN proof' = 1 .. Len(proof')
             /\ \A p \in DOMAIN proof' : proof'[p].side \in {"L", "R"}
             /\ used' \in 0 .. Len(proof')
             /\ \E longer : Leads(longer)'
  <2>0. PICK l, longer : /\ l = Len(proof)
                         /\ longer = [p \in 0 .. l + 1 |-> IF p = l + 1 THEN Join(path[l], s) ELSE path[p]]
    OBVIOUS
  <2>1. /\ l \in Nat /\ Len(proof') = l + 1 /\ DOMAIN proof' = 1 .. l + 1
        /\ \A p \in 1 .. l : proof'[p] = proof[p]
        /\ proof'[l + 1] = s
        /\ proof' \in Seq({proof'[p] : p \in 1 .. Len(proof')})
    <3>1. proof' = proof \o <<s>>
      BY <1>3, <1>9
    <3>2. /\ Len(proof') = Len(proof) + 1 /\ DOMAIN proof' = 1 .. Len(proof) + 1
          /\ \A p \in 1 .. Len(proof) : proof'[p] = proof[p]
          /\ proof'[Len(proof) + 1] = s
          /\ proof' \in Seq({proof'[p] : p \in 1 .. Len(proof')})
      <4>1. proof \in Seq({proof[p] : p \in 1 .. Len(proof)})
        BY <1>2
      <4> HIDE <1>2, <1>3, <1>9
      <4>2. QED
        BY <3>1, <4>1, OneMore
    <3>3. Len(proof) \in Nat
      BY <1>2
    <3> HIDE <1>2, <1>3, <1>9, <3>1
    <3>4. QED
      BY <2>0, <3>2, <3>3
  <2>2. \A p \in 1 .. l + 1 : p = l + 1 \/ p \in 1 .. l
    BY <2>1
  <2>3. \A p \in DOMAIN proof' : proof'[p].side \in {"L", "R"}
    BY <1>2, <1>9, <2>0, <2>1, <2>2
  <2>4. /\ path[0] = LeafNode(index) /\ path[l] = nodes[idx + 1]
        /\ \A p \in 1 .. l : path[p] = Join(path[p - 1], proof[p])
    BY <1>1, <2>0 DEF Leads
  <2>5. longer[0] = path[0] /\ longer[l + 1] = Join(path[l], s) /\ DOMAIN longer = 0 .. l + 1
    BY <2>0, <2>1
  <2>6. \A p \in 1 .. l : longer[p] = path[p] /\ longer[p - 1] = path[p - 1]
    BY <2>0, <2>1
  <2>7. longer[l] = path[l]
    BY <2>0, <2>1
  <2>8. \A p \in 1 .. l + 1 : longer[p] = Join(longer[p - 1], proof'[p])
    <3>1. \A p \in 1 .. l : longer[p] = Join(longer[p - 1], proof'[p])
      BY <2>1, <2>4, <2>6
    <3>2. longer[l + 1] = Join(longer[(l + 1) - 1], proof'[l + 1])
      BY <2>1, <2>5, <2>7
    <3>3. QED
      BY <2>2, <3>1, <3>2
  <2>9. longer[0] = LeafNode(index') /\ longer[l + 1] = nodes'[idx' + 1]
    BY <1>3, <1>9, <2>4, <2>5
  <2>10. Leads(longer)'
    BY <2>1, <2>5, <2>8, <2>9 DEF Leads
  <2>11. used' \in 0 .. Len(proof') /\ DOMAIN proof' = 1 .. Len(proof')
    BY <1>2, <1>3, <2>0, <2>1
  <2>12. QED
    BY <2>1, <2>3, <2>10, <2>11
<1>10. QED
  BY <1>2, <1>3, <1>8, <1>9, ParentsJoin

(* Verifying keeps it: leaves differ, and joins keep hashes apart.          *)
LEMMA VerifyingStep ==
  ASSUME MerkleInv, VerifyInclusion \/ Fold
  PROVE  MerkleInv'
<1>1. PICK path : Leads(path) /\ Follows(path)
  BY DEF MerkleInv
<1>2. UNCHANGED <<size, index, nodes, idx, proof>>
  BY DEF VerifyInclusion, Fold
<1>3. Leads(path)'
  BY <1>1, <1>2 DEF Leads
<1>4. MerkleTypeOK /\ Len(proof) \in Nat /\ size \in Nat /\ index \in 0 .. size - 1
  <2>1. MerkleTypeOK
    BY DEF MerkleInv
  <2>2. Len(proof) \in Nat
    BY DEF MerkleInv
  <2>3. QED
    BY <2>1, <2>2, MaxLeavesAssumption DEF MerkleTypeOK
<1>5. CASE VerifyInclusion
  <2>1. claimed' \in 0 .. size - 1 /\ folded' = LeafNode(claimed') /\ used' = 0 /\ AtRoot
    BY <1>5 DEF VerifyInclusion
  <2>2. LeafNode(claimed') = LeafNode(index) <=> claimed' = index
    <3>1. ASSUME LeafNode(claimed') = LeafNode(index) PROVE claimed' = index
      <4>1. <<claimed'>>[1] = <<index>>[1]
        BY <3>1 DEF LeafNode
      <4>2. QED
        BY <4>1
    <3>2. QED
      BY <3>1
  <2>3. Follows(path)'
    BY <1>1, <1>2, <2>1, <2>2 DEF Follows, Leads
  <2>4. MerkleTypeOK'
    BY <1>2, <1>4, <2>1 DEF MerkleTypeOK
  <2>5. QED
    BY <1>2, <1>3, <2>1, <2>3, <2>4 DEF MerkleInv, AtRoot
<1>6. CASE Fold
  <2>1. claimed # NoEntry /\ used < Len(proof) /\ folded' = Join(folded, proof[used + 1]) /\ used' = used + 1 /\ claimed' = claimed
    BY <1>6 DEF Fold
  <2>2. used \in Nat /\ used + 1 \in 1 .. Len(proof) /\ (used + 1) - 1 = used
    BY <1>4, <2>1 DEF MerkleTypeOK
  <2>3. path[used + 1] = Join(path[used], proof[used + 1])
    BY <1>1, <2>2 DEF Leads
  <2>4. folded' = path[used'] <=> folded = path[used]
    BY <2>1, <2>3, JoinInjective
  <2>5. Follows(path)'
    BY <1>1, <1>2, <2>1, <2>4 DEF Follows
  <2>6. MerkleTypeOK'
    BY <1>2, <1>4, <2>1, <2>2 DEF MerkleTypeOK
  <2>7. QED
    BY <1>2, <1>3, <2>1, <2>5, <2>6 DEF MerkleInv, AtRoot
<1>7. QED
  BY <1>5, <1>6

(* The inductive invariant of climbing and verifying.                       *)
THEOREM MerkleInvariance == MerkleSpec => []MerkleInv
<1>1. MerkleInit => MerkleInv
  BY MerkleStarts
<1>2. MerkleInv /\ [MerkleNext]_merkleVars => MerkleInv'
  <2>1. SUFFICES ASSUME MerkleInv, [MerkleNext]_merkleVars PROVE MerkleInv'
    OBVIOUS
  <2>2. CASE UNCHANGED merkleVars
    BY <2>1, <2>2 DEF MerkleInv, MerkleTypeOK, Leads, Follows, AtRoot, merkleVars
  <2>3. QED
    BY <2>1, <2>2, ClimbStep, VerifyingStep DEF MerkleNext, Finished
<1>3. QED
  BY <1>1, <1>2, PTL DEF MerkleSpec

(* Every variable of the tree stays in its type.                            *)
THEOREM MerkleTypes == MerkleSpec => []MerkleTypeOK
<1>1. MerkleInv => MerkleTypeOK
  BY DEF MerkleInv
<1>2. QED
  BY <1>1, MerkleInvariance, PTL

(* The proof of an entry verifies for this entry, and for no other one, in  *)
(* a ledger of any length.                                                  *)
THEOREM ProofBindsHolds == MerkleSpec => []ProofBinds
<1>1. MerkleInv => ProofBinds
  <2>1. SUFFICES ASSUME MerkleInv, Verified PROVE folded = nodes[1] <=> claimed = index
    BY DEF ProofBinds
  <2>2. PICK path : Leads(path) /\ Follows(path)
    BY <2>1 DEF MerkleInv
  <2>3. AtRoot /\ idx = 0 /\ used = Len(proof) /\ claimed # NoEntry
    BY <2>1 DEF MerkleInv, MerkleTypeOK, Verified, AtRoot
  <2>4. QED
    BY <2>2, <2>3 DEF Leads, Follows
<1>2. QED
  BY <1>1, MerkleInvariance, PTL
=============================================================================
