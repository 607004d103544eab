------------------------------ MODULE LogProofs ------------------------------
(***************************************************************************)
(* The log, where it is written and where it is read.  First the console,  *)
(* for any number of processes, messages and short writes: the records on  *)
(* it are those that were logged, only short writes mix them, and only     *)
(* short writes and the kernel part a text from its prefix.  Then the      *)
(* graphics boot test, for any guest that prints on it and any way the     *)
(* output is cut into reads: what is judged is what was printed.           *)
(***************************************************************************)
EXTENDS LogConsole, GraphicsTest, SequenceLemmas

Pieces == [from : Procs, rec : Nat, line : Nat, part : {"prefix", "text"}]

Records == [level : RecordLevels \union {"warn"}, max : DOMAIN Severity, message : Messages]

Of(p, r) == {piece \in Pieces : piece.from = p /\ piece.rec = r}

Whole(piece) == Formatted(piece.from, piece.rec)

(* Piece i of s is not the last of its record, and the next piece of the   *)
(* record is not behind it.                                                *)
BrokenOff(s, i, whole) ==
  /\ s[i] # Last(whole)
  /\ i < Len(s) => ~ \E k \in DOMAIN whole : whole[k] = s[i] /\ s[i + 1] = whole[k + 1]

(* The pieces where a record is broken off, the last one on the console    *)
(* included.                                                               *)
Torn == {i \in DOMAIN console : BrokenOff(console, i, Whole(console[i]))}

(* If piece k of s is a text, the prefix of its line is before it.         *)
Greppable(s, k) ==
  s[k].part = "text" => k > 1 /\ s[k - 1] = [s[k] EXCEPT !.part = "prefix"]

(* If piece k of s is a prefix, a text is behind it.                       *)
Continued(s, k) ==
  s[k].part = "prefix" => k + 1 \in DOMAIN s /\ s[k + 1].part = "text"

(* Texts that other processes part from their prefix, and the processes    *)
(* that have still to write a text whose prefix is on the console.         *)
Loose == {i \in DOMAIN console : ~ Greppable(console, i)}
Owing == {p \in Procs : left[p] # <<>> /\ left[p][1].part = "text"}

LetThrough(p, r) == Enabled(records[p][r].level, records[p][r].max)

Latest(p) == Len(records[p])

-----------------------------------------------------------------------------
Types ==
  /\ pc \in [Procs -> {"new", "idle", "write"}]
  /\ records \in [Procs -> Seq(Records)]
  /\ maxLevel \in [Procs -> DOMAIN Severity]
  /\ left \in [Procs -> Seq(Pieces)]
  /\ console \in Seq(Pieces)
  /\ kernel \in SUBSET Nat /\ IsFiniteSet(kernel)
  /\ shorts \in Nat

(* What is on the console was logged.                                      *)
Recorded == \A i \in DOMAIN console : console[i].rec \in DOMAIN records[console[i].from]

(* A record in the middle of write_all: what is shown and what is left.    *)
Writes ==
  \A p \in Procs : pc[p] = "write" =>
    /\ Latest(p) # 0 /\ left[p] # <<>>
    /\ \A r \in DOMAIN records[p] : r = Latest(p) =>
         /\ LetThrough(p, r)
         /\ Formatted(p, r) = Shown(p, r) \o left[p]

(* Any record: nothing of it, all of it, or a first part.                  *)
Accounted ==
  \A p \in Procs : \A r \in DOMAIN records[p] :
    IF LetThrough(p, r)
      THEN \E rest \in Seq(Pieces) :
             /\ Formatted(p, r) = Shown(p, r) \o rest
             /\ rest = <<>> \/ <<p, r>> \in cut \/ (r = Latest(p) /\ pc[p] = "write")
      ELSE Shown(p, r) = <<>>

InOrder ==
  \A i, j \in DOMAIN console :
    i < j /\ console[i].from = console[j].from => console[i].rec <= console[j].rec

FewTorn == Cardinality(Torn) <= shorts

(* EveryLineGreppable is not inductive: a process may owe the text of a    *)
(* prefix that stands on the console, and has paid for it by a short write.*)
FewLoose == IsFiniteSet(Owing) /\ Cardinality(Loose) + Cardinality(Owing) <= shorts

IInv ==
  /\ Types /\ Recorded /\ Writes /\ Accounted
  /\ InOrder /\ FewTorn /\ FewLoose

-----------------------------------------------------------------------------
LEMMA LinesType ==
  ASSUME NEW message \in Messages
  PROVE  Lines(message) \in Nat \ {0}
<1> DEFINE S == {1} \union {i \in DOMAIN message : message[i] = "text"}
<1>1. Len(message) \in Nat \ {0} /\ S \subseteq 1 .. Len(message)
  BY MessagesAssumption
<1>2. S \in SUBSET (0 .. Len(message))
  BY <1>1
<1> HIDE DEF S
<1>3. S # {} => Max(S) \in S
  BY <1>1, <1>2, MaxIsGreatest
<1>4. Lines(message) = Max(S) /\ S # {}
  BY DEF Lines, S
<1>5. Max(S) \in 1 .. Len(message)
  BY <1>1, <1>3, <1>4, Zenon
<1>6. QED
  BY <1>1, <1>4, <1>5

(* A formatted record is not empty, has no pieces but its own, every text  *)
(* in it stands behind its prefix and every prefix before its text.        *)
LEMMA FormatType ==
  ASSUME NEW p \in Procs, NEW r \in Nat, NEW message \in Messages
  PROVE  /\ Format(p, r, message) \in Seq(Of(p, r))
         /\ Len(Format(p, r, message)) \in Nat \ {0}
         /\ \A k \in DOMAIN Format(p, r, message) : Greppable(Format(p, r, message), k)
         /\ \A k \in DOMAIN Format(p, r, message) : Continued(Format(p, r, message), k)
<1> DEFINE n == Lines(message)
           f == Format(p, r, message)
<1>1. n \in Nat \ {0}
  BY LinesType
<1>2. f = [k \in 1 .. 2 * n |-> IF k % 2 = 1 THEN Piece(p, r, (k + 1) \div 2, "prefix")
                                ELSE Piece(p, r, k \div 2, "text")]
  BY DEF Format
<1> HIDE DEF n, f
<1>3. ASSUME NEW k \in 1 .. 2 * n PROVE f[k] \in Of(p, r)
  <2>1. (k + 1) \div 2 \in Nat /\ k \div 2 \in Nat
    OBVIOUS
  <2>2. QED
    BY <1>2, <2>1 DEF Of, Pieces, Piece
<1>4. f \in Seq(Of(p, r)) /\ Len(f) = 2 * n
  BY <1>1, <1>2, <1>3
<1>5. ASSUME NEW k \in 1 .. 2 * n, f[k].part = "text"
      PROVE  k > 1 /\ f[k - 1] = [f[k] EXCEPT !.part = "prefix"]
  <2>1. k % 2 = 0 /\ f[k] = Piece(p, r, k \div 2, "text")
    BY <1>2, <1>5 DEF Piece
  <2>2. k - 1 \in 1 .. 2 * n /\ (k - 1) % 2 = 1 /\ ((k - 1) + 1) \div 2 = k \div 2
    BY <1>1, <2>1
  <2>3. f[k - 1] = Piece(p, r, k \div 2, "prefix")
    BY <1>2, <2>2
  <2>4. QED
    BY <2>1, <2>2, <2>3 DEF Piece
<1>6. \A k \in DOMAIN f : Greppable(f, k)
  BY <1>2, <1>5 DEF Greppable
<1>7. ASSUME NEW k \in 1 .. 2 * n, f[k].part = "prefix"
      PROVE  k + 1 \in DOMAIN f /\ f[k + 1].part = "text"
  <2>1. k % 2 = 1
    BY <1>2, <1>7 DEF Piece
  <2>2. k + 1 \in 1 .. 2 * n /\ (k + 1) % 2 = 0
    BY <1>1, <2>1
  <2>3. QED
    BY <1>2, <2>2 DEF Piece
<1>8. \A k \in DOMAIN f : Continued(f, k)
  BY <1>2, <1>7 DEF Continued
<1>9. QED
  BY <1>1, <1>4, <1>6, <1>8 DEF f

(* The record number r of p is one of the messages.                        *)
LEMMA FormattedType ==
  ASSUME Types, NEW p \in Procs, NEW r \in DOMAIN records[p]
  PROVE  /\ Formatted(p, r) \in Seq(Of(p, r))
         /\ Formatted(p, r) \in Seq(Pieces)
         /\ Len(Formatted(p, r)) \in Nat \ {0}
         /\ \A k \in DOMAIN Formatted(p, r) : Greppable(Formatted(p, r), k)
         /\ \A k \in DOMAIN Formatted(p, r) : Continued(Formatted(p, r), k)
<1>1. r \in Nat /\ records[p][r].message \in Messages
  <2>1. records[p] \in Seq(Records)
    BY DEF Types
  <2>2. r \in Nat /\ records[p][r] \in Records
    BY <2>1
  <2>3. QED
    BY <2>2 DEF Records
<1>2. /\ Formatted(p, r) \in Seq(Of(p, r))
      /\ Len(Formatted(p, r)) \in Nat \ {0}
  BY <1>1, FormatType DEF Formatted
<1>3. \A k \in DOMAIN Formatted(p, r) :
        Greppable(Formatted(p, r), k) /\ Continued(Formatted(p, r), k)
  BY <1>1, FormatType, Zenon DEF Formatted
<1>4. Of(p, r) \subseteq Pieces
  BY DEF Of
<1>5. QED
  BY <1>2, <1>3, <1>4

LEMMA PieceType ==
  ASSUME Types, NEW i \in DOMAIN console
  PROVE  console[i] \in Pieces /\ console[i].from \in Procs /\ console[i].rec \in Nat
<1>1. console[i] \in Pieces
  BY DEF Types
<1>2. QED
  BY <1>1 DEF Pieces

LEMMA AmongOf ==
  ASSUME NEW s \in Seq(Pieces), NEW p, NEW r
  PROVE  Among(s, {piece \in ToSet(s) : piece.from = p /\ piece.rec = r}) = Among(s, Of(p, r))
<1> DEFINE S == {piece \in ToSet(s) : piece.from = p /\ piece.rec = r}
<1>1. Range(s) = ToSet(s) /\ Range(s) \subseteq Pieces
  BY RangeOfSeq DEF ToSet, Range
<1>2. Range(s) \intersect S = Range(s) \intersect Of(p, r)
  BY <1>1 DEF Of
<1>3. QED
  BY <1>2, AmongSame

LEMMA ShownIs ==
  ASSUME console \in Seq(Pieces), NEW p, NEW r
  PROVE  Shown(p, r) = Among(console, Of(p, r)) /\ Shown(p, r) \in Seq(Pieces)
<1>1. Shown(p, r) = Among(console, Of(p, r))
  BY AmongOf DEF Shown
<1>2. QED
  BY <1>1, AmongType

-----------------------------------------------------------------------------
LEMMA InitInv == Init => IInv
<1> SUFFICES ASSUME Init PROVE IInv
  OBVIOUS
<1>1. Types
  BY FS_EmptySet DEF Init, Types, Severity
<1>2. console = <<>> /\ shorts = 0 /\ \A p \in Procs : records[p] = <<>> /\ pc[p] = "new"
  BY DEF Init
<1>3. Recorded /\ Writes /\ Accounted /\ InOrder
  BY <1>2 DEF Recorded, Writes, Accounted, InOrder
<1>4. Torn = {} /\ Loose = {} /\ Owing = {}
  BY <1>2 DEF Init, Torn, Loose, Owing
<1>5. FewTorn /\ FewLoose
  BY <1>2, <1>4, FS_EmptySet DEF FewTorn, FewLoose
<1>6. QED
  BY <1>1, <1>3, <1>5 DEF IInv

(* Nothing but the state of the processes changes.                         *)
LEMMA QuietStep ==
  ASSUME IInv, UNCHANGED <<records, left, console, shorts>>,
         maxLevel' \in [Procs -> DOMAIN Severity],
         pc' \in [Procs -> {"new", "idle", "write"}],
         \A p \in Procs : pc'[p] = "write" <=> pc[p] = "write",
         cut \subseteq cut',
         kernel' \in SUBSET Nat, IsFiniteSet(kernel')
  PROVE  IInv'
<1>1. Types' /\ Recorded' /\ InOrder' /\ FewLoose'
  BY DEF IInv, Types, Recorded, InOrder, FewLoose, Loose, Owing, Greppable
<1>2. /\ \A p, r : Shown(p, r)' = Shown(p, r)
      /\ \A p, r : Formatted(p, r)' = Formatted(p, r)
      /\ \A p, r : LetThrough(p, r)' = LetThrough(p, r)
      /\ \A p : Latest(p)' = Latest(p)
  BY DEF Shown, Formatted, LetThrough, Latest
<1>3. Writes'
  BY <1>2, Zenon DEF IInv, Writes
<1>4. Accounted'
  BY <1>2, Zenon DEF IInv, Accounted
<1>5. Torn' = Torn
  BY DEF Torn, Whole, Formatted
<1>6. FewTorn'
  BY <1>5 DEF IInv, FewTorn
<1>7. QED
  BY <1>1, <1>3, <1>4, <1>6 DEF IInv

LEMMA AddAtMost ==
  ASSUME NEW S, IsFiniteSet(S), NEW x, NEW T, T \subseteq S \union {x}
  PROVE  IsFiniteSet(T) /\ Cardinality(T) \in Nat /\ Cardinality(T) <= Cardinality(S) + 1
<1>1. /\ IsFiniteSet(S \union {x}) /\ Cardinality(S) \in Nat
      /\ Cardinality(S \union {x}) \in {Cardinality(S), Cardinality(S) + 1}
  BY FS_AddElement, FS_CardinalityType
<1>2. IsFiniteSet(T) /\ Cardinality(T) <= Cardinality(S \union {x})
  BY <1>1, FS_Subset
<1>3. Cardinality(T) \in Nat
  BY <1>2, FS_CardinalityType
<1>4. QED
  BY <1>1, <1>2, <1>3

(* A step after which no more texts are owed and none is parted.           *)
LEMMA FewerLoose ==
  ASSUME IInv, Owing' \subseteq Owing, Loose' = Loose, shorts' = shorts
  PROVE  FewLoose'
<1>1. IsFiniteSet(Owing) /\ Cardinality(Owing) \in Nat
  BY FS_CardinalityType DEF IInv, FewLoose
<1>2. IsFiniteSet(Owing') /\ Cardinality(Owing') <= Cardinality(Owing)
  BY <1>1, FS_Subset
<1>3. Cardinality(Owing') \in Nat
  BY <1>2, FS_CardinalityType
<1>4. Cardinality(Loose) \in Nat
  <2>1. IsFiniteSet(1 .. Len(console)) /\ Loose \subseteq 1 .. Len(console)
    BY FS_Interval DEF IInv, Types, Loose
  <2>2. QED
    BY <2>1, FS_Subset, FS_CardinalityType
<1>5. QED
  BY <1>1, <1>2, <1>3, <1>4 DEF IInv, FewLoose, Types

(* A record is logged: nothing of it is on the console yet.                *)
LEMMA LogStep ==
  ASSUME IInv, NEW p \in Procs, NEW level \in RecordLevels \union {"warn"},
         NEW message \in Messages, pc[p] # "write",
         Log(p, level, message, maxLevel[p]), UNCHANGED maxLevel
  PROVE  IInv'
<1>1. /\ records' = [records EXCEPT ![p] =
                       Append(@, [level |-> level, max |-> maxLevel[p], message |-> message])]
      /\ left' = [left EXCEPT ![p] = IF Enabled(level, maxLevel[p])
                                    THEN Format(p, Latest(p) + 1, message) ELSE <<>>]
      /\ pc' = [pc EXCEPT ![p] = IF Enabled(level, maxLevel[p]) THEN "write" ELSE "idle"]
      /\ UNCHANGED <<maxLevel, cut, console, kernel, shorts>>
  BY DEF Log, Latest
<1>2. PICK r \in Nat \ {0}, record \in Records :
        /\ r = Latest(p) + 1
        /\ record = [level |-> level, max |-> maxLevel[p], message |-> message]
  <2>1. Latest(p) + 1 \in Nat \ {0}
    BY DEF IInv, Types, Latest
  <2>2. [level |-> level, max |-> maxLevel[p], message |-> message] \in Records
    BY DEF IInv, Types, Records
  <2>3. QED
    BY <2>1, <2>2
<1>3. Format(p, r, message) \in Seq(Of(p, r)) /\ Len(Format(p, r, message)) \in Nat \ {0}
  BY <1>2, FormatType
<1>4. /\ DOMAIN records'[p] = DOMAIN records[p] \union {r} /\ r \notin DOMAIN records[p]
      /\ records'[p][r] = record /\ Latest(p)' = r
      /\ \A i \in DOMAIN records[p] : records'[p][i] = records[p][i]
      /\ \A q \in Procs : q # p => records'[q] = records[q] /\ Latest(q)' = Latest(q)
  <2>1. records[p] \in Seq(Records) /\ records'[p] = Append(records[p], record)
    BY <1>1, <1>2 DEF IInv, Types
  <2>2. \A q \in Procs : q # p => records'[q] = records[q]
    BY <1>1 DEF IInv, Types
  <2>3. QED
    BY <1>2, <2>1, <2>2 DEF Latest
<1>5. ASSUME NEW q \in Procs, NEW i \in DOMAIN records[q]
      PROVE  /\ i \in DOMAIN records'[q] /\ records'[q][i] = records[q][i]
             /\ Formatted(q, i)' = Formatted(q, i)
             /\ LetThrough(q, i)' = LetThrough(q, i)
  BY <1>4 DEF Formatted, LetThrough
<1>6. \A q, i : Shown(q, i)' = Shown(q, i)
  BY <1>1 DEF Shown
<1>7. Shown(p, r) = <<>>
  <2>1. Range(console) \intersect Of(p, r) = {}
    BY <1>4 DEF IInv, Recorded, Of, Range
  <2>2. QED
    BY <2>1, ShownIs, AmongOutside DEF IInv, Types
<1>8. /\ Formatted(p, r)' = Format(p, r, message)
      /\ LetThrough(p, r)' <=> Enabled(level, maxLevel[p])
  BY <1>2, <1>4 DEF Formatted, LetThrough
<1>9. Types'
  <2>1. records' \in [Procs -> Seq(Records)]
    BY <1>1, <1>2 DEF IInv, Types
  <2>2. left' \in [Procs -> Seq(Pieces)]
    <3>1. Format(p, r, message) \in Seq(Pieces) /\ <<>> \in Seq(Pieces)
      BY <1>3 DEF Of
    <3>2. QED
      BY <1>1, <1>2, <3>1 DEF IInv, Types
  <2>3. QED
    BY <1>1, <2>1, <2>2 DEF IInv, Types
<1>10. Recorded'
  <2>1. \A i \in DOMAIN console : console[i].from \in Procs
    BY PieceType DEF IInv
  <2>2. \A i \in DOMAIN console : console[i].rec \in DOMAIN records'[console[i].from]
    BY <1>5, <2>1 DEF IInv, Recorded
  <2>3. QED
    BY <1>1, <2>2 DEF Recorded
<1>11. Writes'
  <2>1. SUFFICES ASSUME NEW q \in Procs, pc'[q] = "write"
                 PROVE  /\ Latest(q)' # 0 /\ left'[q] # <<>>
                        /\ \A i \in DOMAIN records'[q] : i = Latest(q)' =>
                             /\ LetThrough(q, i)'
                             /\ Formatted(q, i)' = Shown(q, i)' \o left'[q]
    BY Zenon DEF Writes
  <2>2. CASE q = p
    <3>1. Enabled(level, maxLevel[p]) /\ left'[p] = Format(p, r, message)
      BY <1>1, <1>2, <2>1, <2>2 DEF IInv, Types
    <3>2. left'[p] # <<>> /\ <<>> \o left'[p] = left'[p]
      BY <1>3, <3>1, ConcatEmptySeq
    <3>3. Formatted(p, r)' = left'[p] /\ Shown(p, r)' = <<>> /\ LetThrough(p, r)'
      BY <1>6, <1>7, <1>8, <3>1
    <3>4. Latest(p)' = r /\ r # 0
      BY <1>2, <1>4
    <3>5. QED
      BY <2>2, <3>2, <3>3, <3>4
  <2>3. CASE q # p
    <3>1. /\ pc[q] = "write" /\ left'[q] = left[q]
          /\ Latest(q)' = Latest(q) /\ records'[q] = records[q]
      BY <1>1, <1>4, <2>1, <2>3 DEF IInv, Types
    <3>2. /\ Latest(q) # 0 /\ left[q] # <<>>
          /\ \A i \in DOMAIN records[q] : i = Latest(q) =>
               /\ LetThrough(q, i)
               /\ Formatted(q, i) = Shown(q, i) \o left[q]
      BY <3>1, Zenon DEF IInv, Writes
    <3>3. ASSUME NEW i \in DOMAIN records'[q]
          PROVE  /\ Formatted(q, i)' = Formatted(q, i)
                 /\ LetThrough(q, i)' = LetThrough(q, i)
                 /\ Shown(q, i)' = Shown(q, i)
      BY <1>5, <1>6, <3>1
    <3>4. QED
      BY <3>1, <3>2, <3>3, Zenon
  <2>4. QED
    BY <2>2, <2>3
<1>12. Accounted'
  <2>1. IF LetThrough(p, r)'
          THEN \E rest \in Seq(Pieces) :
                 /\ Formatted(p, r)' = Shown(p, r)' \o rest
                 /\ rest = <<>> \/ <<p, r>> \in cut' \/ (r = Latest(p)' /\ pc'[p] = "write")
          ELSE Shown(p, r)' = <<>>
    <3>1. CASE ~ Enabled(level, maxLevel[p])
      <4>1. ~ LetThrough(p, r)' /\ Shown(p, r)' = <<>>
        BY <1>6, <1>7, <1>8, <3>1
      <4>2. QED
        BY <4>1, Zenon
    <3>2. CASE Enabled(level, maxLevel[p])
      <4>1. pc'[p] = "write" /\ Latest(p)' = r
        BY <1>1, <1>4, <3>2 DEF IInv, Types
      <4>2. /\ Format(p, r, message) \in Seq(Pieces)
            /\ Format(p, r, message) = <<>> \o Format(p, r, message)
        BY <1>3, ConcatEmptySeq DEF Of
      <4>3. Shown(p, r)' = <<>> /\ Formatted(p, r)' = Format(p, r, message)
        BY <1>6, <1>7, <1>8
      <4>4. LetThrough(p, r)'
        BY <1>8, <3>2
      <4>5. QED
        BY <4>1, <4>2, <4>3, <4>4, Zenon
    <3>3. QED
      BY <3>1, <3>2
  <2>2. ASSUME NEW q \in Procs, NEW i \in DOMAIN records[q]
        PROVE  IF LetThrough(q, i)'
                 THEN \E rest \in Seq(Pieces) :
                        /\ Formatted(q, i)' = Shown(q, i)' \o rest
                        /\ rest = <<>> \/ <<q, i>> \in cut' \/ (i = Latest(q)' /\ pc'[q] = "write")
                 ELSE Shown(q, i)' = <<>>
    <3>1. /\ Formatted(q, i)' = Formatted(q, i) /\ LetThrough(q, i)' = LetThrough(q, i)
          /\ Shown(q, i)' = Shown(q, i)
      BY <1>5, <1>6
    <3>2. i = Latest(q) /\ pc[q] = "write" => i = Latest(q)' /\ pc'[q] = "write"
      BY <1>1, <1>4 DEF IInv, Types
    <3>3. cut' = cut
      BY <1>1
    <3>4. QED
      BY <3>1, <3>2, <3>3, Zenon DEF IInv, Accounted
  <2>3. \A q \in Procs : \A i \in DOMAIN records'[q] :
          i \in DOMAIN records[q] \/ (q = p /\ i = r)
    BY <1>4
  <2>4. QED
    BY <2>1, <2>2, <2>3, Zenon DEF Accounted
<1>13. Torn' = Torn
  <2>1. \A i \in DOMAIN console : console[i].from \in Procs
    BY PieceType DEF IInv
  <2>2. ASSUME NEW q \in Procs, NEW i \in DOMAIN records[q]
        PROVE  Format(q, i, records'[q][i].message) = Format(q, i, records[q][i].message)
    BY <1>5
  <2>3. ASSUME NEW i \in DOMAIN console
        PROVE  LET q == console[i].from
                   k == console[i].rec
               IN  Format(q, k, records'[q][k].message) = Format(q, k, records[q][k].message)
    BY <2>1, <2>2 DEF IInv, Recorded
  <2>4. QED
    BY <1>1, <2>3 DEF Torn, Whole, Formatted
<1>14. InOrder' /\ FewTorn'
  BY <1>1, <1>13 DEF IInv, InOrder, FewTorn
<1>15. FewLoose'
  <2>1. left'[p] = <<>> \/ left'[p][1].part # "text"
    <3>1. Format(p, r, message) = <<>> \/ 1 \in DOMAIN Format(p, r, message)
      BY <1>3
    <3>2. \A k \in DOMAIN Format(p, r, message) : Greppable(Format(p, r, message), k)
      BY <1>2, FormatType
    <3>3. left'[p] = Format(p, r, message) \/ left'[p] = <<>>
      BY <1>1, <1>2 DEF IInv, Types
    <3>4. Format(p, r, message) = <<>> \/ Format(p, r, message)[1].part # "text"
      <4> DEFINE f == Format(p, r, message)
      <4>1. f = <<>> \/ (1 \in DOMAIN f /\ Greppable(f, 1))
        BY <3>1, <3>2
      <4> HIDE DEF f
      <4>2. f = <<>> \/ f[1].part # "text"
        BY <4>1 DEF Greppable
      <4>3. QED
        BY <4>2 DEF f
    <3>5. QED
      BY <3>3, <3>4
  <2>2. Owing' \subseteq Owing
    BY <1>1, <2>1 DEF IInv, Types, Owing
  <2>3. Loose' = Loose /\ shorts' = shorts
    BY <1>1 DEF Loose, Greppable
  <2>4. QED
    BY <2>2, <2>3, FewerLoose
<1>16. QED
  BY <1>9, <1>10, <1>11, <1>12, <1>14, <1>15 DEF IInv

(* A write puts the next pieces c of a record on the console.              *)
Puts(p, c, rest) ==
  /\ c \in Seq(Pieces) /\ rest \in Seq(Pieces) /\ c # <<>>
  /\ pc[p] = "write" /\ left[p] = c \o rest
  /\ console' = console \o c
  /\ left' = [left EXCEPT ![p] = rest]
  /\ UNCHANGED <<records, cut, maxLevel>>
  /\ kernel' \in SUBSET Nat /\ IsFiniteSet(kernel')
  /\ \/ rest # <<>> /\ pc' = pc /\ shorts' = shorts + 1
     \/ rest = <<>> /\ pc' = [pc EXCEPT ![p] = "idle"] /\ shorts' = shorts

LEMMA Narrower ==
  ASSUME NEW S, NEW s \in Seq(S), NEW T, \A i \in 1 .. Len(s) : s[i] \in T
  PROVE  s \in Seq(T)
OBVIOUS

LEMMA PutStep ==
  ASSUME IInv, NEW p \in Procs, NEW c, NEW rest, Puts(p, c, rest)
  PROVE  IInv'
<1>0. /\ pc[p] = "write" /\ UNCHANGED <<records, cut, maxLevel>>
      /\ kernel' \in SUBSET Nat /\ IsFiniteSet(kernel')
      /\ \/ rest # <<>> /\ pc' = pc /\ shorts' = shorts + 1
         \/ rest = <<>> /\ pc' = [pc EXCEPT ![p] = "idle"] /\ shorts' = shorts
  BY DEF Puts
<1>1. PICK r \in DOMAIN records[p] :
        /\ r = Latest(p) /\ LetThrough(p, r)
        /\ Formatted(p, r) = Shown(p, r) \o (c \o rest)
  <2>1. Latest(p) \in DOMAIN records[p]
    BY <1>0 DEF IInv, Types, Writes, Latest
  <2>2. QED
    BY <2>1 DEF IInv, Writes, Puts
<1>2. PICK f, a :
        /\ f \in Seq(Of(p, r)) /\ a \in Seq(Pieces)
        /\ f = Formatted(p, r) /\ a = Shown(p, r) /\ f = a \o (c \o rest)
  BY <1>1, FormattedType, ShownIs DEF IInv, Types
<1>3. /\ Len(f) = Len(a) + Len(c) + Len(rest)
      /\ \A x \in 1 .. Len(c) : Len(a) + x \in DOMAIN f /\ f[Len(a) + x] = c[x]
      /\ Len(a) \in Nat /\ Len(rest) \in Nat /\ Len(c) \in Nat \ {0}
      /\ DOMAIN f = 1 .. Len(f)
  BY <1>2 DEF Puts
<1>4. c \in Seq(Of(p, r))
  <2>1. \A y \in DOMAIN f : f[y] \in Of(p, r)
    <3>1. f \in Seq(Of(p, r))
      BY <1>2
    <3>2. QED
      BY <3>1
  <2>2. \A x \in 1 .. Len(c) : c[x] \in Of(p, r)
    BY <1>3, <2>1
  <2>3. c \in Seq(Pieces) /\ \A x \in 1 .. Len(c) : c[x] \in Of(p, r)
    BY <2>2, Zenon DEF Puts
  <2>4. QED
    BY <2>3, Narrower
<1>5. Types'
  <2>1. console' \in Seq(Pieces)
    <3>1. console \in Seq(Pieces) /\ c \in Seq(Pieces) /\ console' = console \o c
      BY DEF IInv, Types, Puts
    <3>2. console \o c \in Seq(Pieces)
      BY <3>1
    <3>3. QED
      BY <3>1, <3>2
  <2>2. left' \in [Procs -> Seq(Pieces)]
    <3>1. left \in [Procs -> Seq(Pieces)] /\ rest \in Seq(Pieces)
          /\ left' = [left EXCEPT ![p] = rest]
      BY Zenon DEF IInv, Types, Puts
    <3>2. QED
      BY <3>1
  <2>3. pc' \in [Procs -> {"new", "idle", "write"}] /\ shorts' \in Nat
    <3>1. pc \in [Procs -> {"new", "idle", "write"}] /\ shorts \in Nat
      BY DEF IInv, Types
    <3>2. \/ pc' = pc /\ shorts' = shorts + 1
          \/ pc' = [pc EXCEPT ![p] = "idle"] /\ shorts' = shorts
      BY <1>0
    <3>3. QED
      BY <3>1, <3>2
  <2>4. QED
    BY <1>0, <2>1, <2>2, <2>3 DEF IInv, Types
<1>6. ASSUME NEW q \in Procs, NEW i
      PROVE  Shown(q, i)' = IF q = p /\ i = r THEN a \o c ELSE Shown(q, i)
  <2>1. console \in Seq(Pieces) /\ console' \in Seq(Pieces) /\ console' = console \o c
    BY <1>5 DEF IInv, Types, Puts
  <2> DEFINE M(s) == {piece \in ToSet(s) : piece.from = q /\ piece.rec = i}
  <2>a. \A s \in Seq(Pieces) : Among(s, M(s)) = Among(s, Of(q, i))
    BY AmongOf
  <2>b. Shown(q, i)' = Among(console', M(console')) /\ Shown(q, i) = Among(console, M(console))
    BY DEF Shown
  <2>2. Shown(q, i)' = Among(console', Of(q, i)) /\ Shown(q, i) = Among(console, Of(q, i))
    <3> HIDE DEF M
    <3>1. QED
      BY <2>1, <2>a, <2>b
  <2>3. Among(console \o c, Of(q, i)) = Among(console, Of(q, i)) \o Among(c, Of(q, i))
    BY <2>1, AmongConcat DEF Puts
  <2>4. CASE q = p /\ i = r
    <3>1. Among(c, Of(q, i)) = c
      BY <1>4, <2>4, AmongAll
    <3>2. QED
      BY <1>2, <2>1, <2>2, <2>3, <2>4, <3>1
  <2>5. CASE ~ (q = p /\ i = r)
    <3>1. Of(p, r) \intersect Of(q, i) = {}
      BY <2>5 DEF Of
    <3>2. Among(c, Of(q, i)) = <<>>
      BY <1>4, <3>1, AmongNone
    <3>3. Shown(q, i) \o <<>> = Shown(q, i)
      BY <2>1, ShownIs, ConcatEmptySeq
    <3>4. QED
      BY <2>1, <2>2, <2>3, <2>5, <3>2, <3>3
  <2>6. QED
    BY <2>4, <2>5
<1>7. /\ \A q, i : Formatted(q, i)' = Formatted(q, i)
      /\ \A q, i : LetThrough(q, i)' = LetThrough(q, i)
      /\ \A q : Latest(q)' = Latest(q)
  BY <1>0 DEF Formatted, LetThrough, Latest
<1>8. /\ DOMAIN console' = 1 .. Len(console) + Len(c)
      /\ Len(console') = Len(console) + Len(c)
      /\ \A i \in 1 .. Len(console) : console'[i] = console[i]
      /\ \A x \in 1 .. Len(c) : console'[Len(console) + x] = c[x]
      /\ \A i \in DOMAIN console' :
           i \in 1 .. Len(console) \/ \E x \in 1 .. Len(c) : i = Len(console) + x
      /\ DOMAIN console = 1 .. Len(console) /\ Len(console) \in Nat
  <2>1. console \in Seq(Pieces) /\ c \in Seq(Pieces) /\ console' = console \o c
    BY DEF IInv, Types, Puts
  <2>2. /\ Len(console') = Len(console) + Len(c) /\ DOMAIN console' = 1 .. Len(console')
        /\ Len(console) \in Nat /\ Len(c) \in Nat /\ DOMAIN console = 1 .. Len(console)
        /\ \A i \in 1 .. Len(console) : console'[i] = console[i]
        /\ \A x \in 1 .. Len(c) : console'[Len(console) + x] = c[x]
    BY <2>1
  <2>3. ASSUME NEW i \in DOMAIN console'
        PROVE  i \in 1 .. Len(console) \/ \E x \in 1 .. Len(c) : i = Len(console) + x
    <3>1. i \in 1 .. Len(console) \/ i - Len(console) \in 1 .. Len(c)
      BY <2>2
    <3>2. i = Len(console) + (i - Len(console))
      BY <2>2
    <3>3. QED
      BY <3>1, <3>2
  <2>4. QED
    BY <2>2, <2>3
<1>9. \A x \in 1 .. Len(c) : c[x].from = p /\ c[x].rec = r
  <2>1. \A x \in 1 .. Len(c) : c[x] \in Of(p, r)
    BY <1>4
  <2>2. QED
    BY <2>1 DEF Of
<1>10. Recorded'
  <2>1. SUFFICES ASSUME NEW i \in DOMAIN console'
                 PROVE  console'[i].rec \in DOMAIN records[console'[i].from]
    BY <1>0 DEF Recorded
  <2>2. CASE i \in 1 .. Len(console)
    BY <1>8, <2>2 DEF IInv, Recorded
  <2>3. CASE \E x \in 1 .. Len(c) : i = Len(console) + x
    BY <1>8, <1>9, <2>3
  <2>4. QED
    BY <1>8, <2>2, <2>3
<1>11. Writes'
  <2>1. SUFFICES ASSUME NEW q \in Procs, pc'[q] = "write"
                 PROVE  /\ Latest(q) # 0 /\ left'[q] # <<>>
                        /\ \A i \in DOMAIN records[q] : i = Latest(q) =>
                             /\ LetThrough(q, i)
                             /\ Formatted(q, i) = Shown(q, i)' \o left'[q]
    BY <1>0, <1>7, Zenon DEF Writes
  <2>2. CASE q = p
    <3>1. rest # <<>> /\ left'[p] = rest
      BY <1>0, <2>1, <2>2 DEF IInv, Types, Puts
    <3>2. f = (a \o c) \o rest
      BY <1>2, ConcatAssociative, SMTT(20) DEF Puts
    <3>3. Shown(p, r)' = a \o c
      BY <1>6
    <3>4. Formatted(p, r) = Shown(p, r)' \o left'[p]
      BY <1>2, <3>1, <3>2, <3>3
    <3>5. Latest(p) # 0
      BY <1>0 DEF IInv, Writes
    <3>6. QED
      BY <1>1, <2>2, <3>1, <3>4, <3>5, Zenon
  <2>3. CASE q # p
    <3>1. pc[q] = "write" /\ left'[q] = left[q]
      BY <1>0, <2>1, <2>3 DEF IInv, Types, Puts
    <3>2. \A i : Shown(q, i)' = Shown(q, i)
      BY <1>6, <2>3
    <3>3. QED
      BY <3>1, <3>2 DEF IInv, Writes
  <2>4. QED
    BY <2>2, <2>3
<1>12. Accounted'
  <2>1. SUFFICES ASSUME NEW q \in Procs, NEW i \in DOMAIN records[q]
                 PROVE  IF LetThrough(q, i)
                          THEN \E u \in Seq(Pieces) :
                                 /\ Formatted(q, i) = Shown(q, i)' \o u
                                 /\ u = <<>> \/ <<q, i>> \in cut \/ (i = Latest(q) /\ pc'[q] = "write")
                          ELSE Shown(q, i)' = <<>>
    BY <1>0, <1>7, Zenon DEF Accounted
  <2>2. CASE q = p /\ i = r
    <3>1. f = (a \o c) \o rest
      BY <1>2, ConcatAssociative, SMTT(20) DEF Puts
    <3>2. rest = <<>> \/ pc'[p] = "write"
      BY <1>0
    <3>3. Shown(p, r)' = a \o c
      BY <1>6
    <3>4. rest \in Seq(Pieces) /\ Formatted(p, r) = Shown(p, r)' \o rest
      BY <1>2, <3>1, <3>3 DEF Puts
    <3>5. QED
      BY <1>1, <2>2, <3>2, <3>4, Zenon
  <2>3. CASE ~ (q = p /\ i = r)
    <3>1. Shown(q, i)' = Shown(q, i)
      BY <1>6, <2>3
    <3>2. i = Latest(q) /\ pc[q] = "write" => pc'[q] = "write"
      BY <1>0, <1>1, <2>3 DEF IInv, Types
    <3>3. QED
      BY <3>1, <3>2, Zenon DEF IInv, Accounted
  <2>4. QED
    BY <2>2, <2>3
<1>13. InOrder'
  <2>1. SUFFICES ASSUME NEW i \in DOMAIN console', NEW j \in DOMAIN console', i < j,
                        console'[i].from = console'[j].from
                 PROVE  console'[i].rec <= console'[j].rec
    BY DEF InOrder
  <2>2. CASE j \in 1 .. Len(console)
    <3>1. i \in 1 .. Len(console)
      BY <1>8, <2>1, <2>2
    <3>2. QED
      BY <1>8, <2>1, <2>2, <3>1 DEF IInv, InOrder
  <2>3. CASE \E x \in 1 .. Len(c) : j = Len(console) + x
    <3>1. console'[j].from = p /\ console'[j].rec = r
      BY <1>8, <1>9, <2>3
    <3>2. r \in Nat /\ \A k \in DOMAIN records[p] : k <= r
      BY <1>1 DEF IInv, Types, Latest
    <3>3. CASE i \in 1 .. Len(console)
      <4>1. console[i].from = p /\ console[i].rec \in DOMAIN records[p]
        BY <1>8, <2>1, <3>1, <3>3 DEF IInv, Recorded
      <4>2. QED
        BY <1>8, <3>1, <3>2, <3>3, <4>1
    <3>4. CASE \E x \in 1 .. Len(c) : i = Len(console) + x
      BY <1>8, <1>9, <3>1, <3>2, <3>4
    <3>5. QED
      BY <1>8, <3>3, <3>4
  <2>4. QED
    BY <1>8, <2>2, <2>3
<1>14. FewTorn'
  <2>1. Torn' = {i \in DOMAIN console' :
                   BrokenOff(console', i, Formatted(console'[i].from, console'[i].rec))}
    BY <1>0 DEF Torn, Whole, Formatted
  <2>2. ASSUME NEW i \in Torn', i \in 1 .. Len(console) PROVE i \in Torn
    <3>1. BrokenOff(console', i, Whole(console[i]))
      BY <1>8, <2>1, <2>2 DEF Whole
    <3>2. i < Len(console) => i + 1 \in 1 .. Len(console)
      BY <1>8, <2>2
    <3>3. BrokenOff(console, i, Whole(console[i]))
      BY <1>3, <1>8, <2>2, <3>1, <3>2 DEF BrokenOff
    <3>4. QED
      BY <1>8, <2>2, <3>3 DEF Torn
  <2>3. ASSUME NEW x \in 1 .. Len(c), Len(console) + x \in Torn'
        PROVE  x = Len(c) /\ rest # <<>>
    <3> DEFINE i == Len(console) + x
    <3>1. BrokenOff(console', i, f) /\ console'[i] = c[x]
      BY <1>2, <1>8, <1>9, <2>1, <2>3
    <3>2. CASE x # Len(c)
      <4>1. /\ x + 1 \in 1 .. Len(c) /\ i < Len(console')
            /\ console'[i + 1] = c[x + 1]
        <5>1. x + 1 \in 1 .. Len(c) /\ i + 1 = Len(console) + (x + 1)
          BY <1>3, <1>8, <3>2
        <5>2. QED
          BY <1>8, <5>1
      <4>2. /\ Len(a) + x \in DOMAIN f /\ f[Len(a) + x] = c[x]
            /\ f[(Len(a) + x) + 1] = c[x + 1]
        <5>1. (Len(a) + x) + 1 = Len(a) + (x + 1)
          BY <1>3
        <5>2. QED
          BY <1>3, <4>1, <5>1
      <4>3. QED
        BY <3>1, <4>1, <4>2 DEF BrokenOff
    <3>3. CASE x = Len(c) /\ rest = <<>>
      <4>1. Len(f) = Len(a) + x
        BY <1>3, <3>3
      <4>2. Last(f) = c[x]
        BY <1>3, <4>1 DEF Last
      <4>3. QED
        BY <3>1, <4>2 DEF BrokenOff
    <3>4. QED
      BY <3>2, <3>3
  <2>4. Torn' \subseteq Torn \union {i \in {Len(console) + Len(c)} : rest # <<>>}
    <3>1. Torn' \subseteq DOMAIN console'
      BY <2>1
    <3>2. QED
      BY <1>8, <2>2, <2>3, <3>1
  <2>5. IsFiniteSet(Torn) /\ Cardinality(Torn) \in Nat
    <3>1. IsFiniteSet(1 .. Len(console)) /\ Torn \subseteq 1 .. Len(console)
      BY <1>8, FS_Interval DEF Torn
    <3>2. QED
      BY <3>1, FS_Subset, FS_CardinalityType
  <2>6. CASE rest = <<>>
    <3>1. Torn' \subseteq Torn /\ shorts' = shorts
      BY <1>0, <2>4, <2>6
    <3>2. Cardinality(Torn') <= Cardinality(Torn)
      BY <2>5, <3>1, FS_Subset
    <3>3. Cardinality(Torn') \in Nat
      BY <2>5, <3>1, FS_Subset, FS_CardinalityType
    <3>4. Cardinality(Torn) <= shorts /\ shorts \in Nat
      BY DEF IInv, FewTorn, Types
    <3>5. QED
      BY <2>5, <3>1, <3>2, <3>3, <3>4 DEF FewTorn
  <2>7. CASE rest # <<>>
    <3> DEFINE more == Torn \union {Len(console) + Len(c)}
    <3>1. Torn' \subseteq more /\ shorts' = shorts + 1
      BY <1>0, <2>4, <2>7
    <3>2. IsFiniteSet(more) /\ Cardinality(more) <= Cardinality(Torn) + 1 /\ Cardinality(more) \in Nat
      <4>1. /\ IsFiniteSet(more)
            /\ \/ Cardinality(more) = Cardinality(Torn)
               \/ Cardinality(more) = Cardinality(Torn) + 1
        BY <2>5, FS_AddElement
      <4>2. QED
        BY <2>5, <4>1
    <3> HIDE DEF more
    <3>3. Cardinality(Torn') <= Cardinality(more) /\ Cardinality(Torn') \in Nat
      BY <3>1, <3>2, FS_Subset, FS_CardinalityType
    <3>4. Cardinality(Torn) <= shorts /\ shorts \in Nat
      BY DEF IInv, FewTorn, Types
    <3>5. QED
      BY <2>5, <3>1, <3>2, <3>3, <3>4 DEF FewTorn
  <2>8. QED
    BY <2>6, <2>7
<1>15. FewLoose'
  <2>1. left \in [Procs -> Seq(Pieces)] /\ left[p] = c \o rest /\ left' = [left EXCEPT ![p] = rest]
    BY DEF IInv, Types, Puts
  <2>2. /\ c[1] = left[p][1] /\ left[p] # <<>> /\ 1 \in 1 .. Len(c)
        /\ left'[p] = rest /\ \A q \in Procs : q # p => left'[q] = left[q]
    BY <1>3, <2>1 DEF Puts
  <2>3. ASSUME NEW i \in DOMAIN console', ~ Greppable(console', i)
        PROVE  i \in Loose \/ (c[1].part = "text" /\ i = Len(console) + 1)
    <3>1. CASE i \in 1 .. Len(console)
      <4>1. i > 1 => i - 1 \in 1 .. Len(console)
        BY <1>8, <3>1
      <4>2. ~ Greppable(console, i)
        BY <1>8, <2>3, <3>1, <4>1 DEF Greppable
      <4>3. QED
        BY <1>8, <3>1, <4>2 DEF Loose
    <3>2. ASSUME NEW x \in 1 .. Len(c), i = Len(console) + x 
          PROVE  i \in Loose \/ (c[1].part = "text" /\ i = Len(console) + 1)
      <4>1. CASE x = 1
        BY <1>8, <2>3, <3>2, <4>1 DEF Greppable
      <4>2. CASE x # 1
        <5>1. /\ x - 1 \in 1 .. Len(c) /\ i - 1 = Len(console) + (x - 1) /\ i > 1
              /\ (Len(a) + x) - 1 = Len(a) + (x - 1) /\ Len(a) + x > 1
          BY <1>3, <1>8, <3>2, <4>2
        <5>2. console'[i] = c[x] /\ console'[i - 1] = c[x - 1]
          BY <1>8, <3>2, <5>1
        <5>3. f[Len(a) + x] = c[x] /\ f[(Len(a) + x) - 1] = c[x - 1] /\ Len(a) + x \in DOMAIN f
          BY <1>3, <5>1
        <5>4. Greppable(f, Len(a) + x)
          BY <1>2, <5>3, FormattedType DEF IInv
        <5>5. QED
          BY <2>3, <5>1, <5>2, <5>3, <5>4 DEF Greppable
      <4>3. QED
        BY <4>1, <4>2
    <3>3. QED
      BY <1>8, <3>1, <3>2
  <2>4. /\ IsFiniteSet(Loose) /\ Cardinality(Loose) \in Nat
        /\ IsFiniteSet(Owing) /\ Cardinality(Owing) \in Nat
        /\ Cardinality(Loose) + Cardinality(Owing) <= shorts /\ shorts \in Nat
    <3>1. IsFiniteSet(1 .. Len(console)) /\ Loose \subseteq 1 .. Len(console)
      BY <1>8, FS_Interval DEF Loose
    <3>2. QED
      BY <3>1, FS_Subset, FS_CardinalityType DEF IInv, FewLoose, Types
  <2> DEFINE x == IF c[1].part = "text" THEN 1 ELSE 0
             y == IF rest # <<>> /\ rest[1].part = "text" THEN 1 ELSE 0
  <2>5. /\ IsFiniteSet(Loose') /\ Cardinality(Loose') \in Nat
        /\ Cardinality(Loose') <= Cardinality(Loose) + x
    <3>1. CASE c[1].part = "text"
      <4>1. Loose' \subseteq Loose \union {Len(console) + 1}
        BY <2>3 DEF Loose
      <4>2. QED
        BY <2>4, <3>1, <4>1, AddAtMost
    <3>2. CASE c[1].part # "text"
      <4>1. Loose' \subseteq Loose
        BY <2>3, <3>2 DEF Loose
      <4>2. QED
        BY <2>4, <3>2, <4>1, FS_Subset, FS_CardinalityType
    <3>3. QED
      BY <3>1, <3>2
  <2>6. /\ IsFiniteSet(Owing') /\ Cardinality(Owing') \in Nat
        /\ Cardinality(Owing') <= Cardinality(Owing) - x + y
    <3>1. p \in Owing <=> c[1].part = "text"
      BY <2>2 DEF Owing
    <3>2. Owing' = IF rest # <<>> /\ rest[1].part = "text" THEN (Owing \ {p}) \union {p}
                   ELSE Owing \ {p}
      BY <2>2 DEF Owing
    <3>3. /\ IsFiniteSet(Owing \ {p}) /\ Cardinality(Owing \ {p}) \in Nat
          /\ Cardinality(Owing \ {p}) = Cardinality(Owing) - x
      BY <2>4, <3>1, FS_RemoveElement, FS_CardinalityType
    <3>4. /\ IsFiniteSet((Owing \ {p}) \union {p})
          /\ Cardinality((Owing \ {p}) \union {p}) = Cardinality(Owing) - x + 1
      BY <3>3, FS_AddElement
    <3>5. Cardinality(Owing') \in Nat /\ IsFiniteSet(Owing')
      BY <3>2, <3>3, <3>4, FS_CardinalityType
    <3>6. QED
      BY <3>2, <3>3, <3>4, <3>5
  <2>7. shorts' >= shorts + y /\ shorts' \in Nat
    BY <1>0, <2>4
  <2> HIDE DEF x, y
  <2>8. x \in {0, 1} /\ y \in {0, 1}
    BY DEF x, y
  <2>9. QED
    BY <2>4, <2>5, <2>6, <2>7, <2>8 DEF FewLoose
<1>16. QED
  BY <1>5, <1>10, <1>11, <1>12, <1>13, <1>14, <1>15 DEF IInv

(* Where the kernel has printed stays a finite set of places.              *)
LEMMA PutKernel ==
  ASSUME Types, NEW c \in Seq(Pieces), Put(c)
  PROVE  kernel' \in SUBSET Nat /\ IsFiniteSet(kernel')
<1> DEFINE places == Len(console) + 1 .. Len(console) + Len(c) - 1
<1>1. PICK ps \in SUBSET places : kernel' = kernel \union ps
  BY DEF Put, KernelPrints
<1>2. Len(console) \in Nat /\ Len(c) \in Nat
  BY DEF Types
<1>3. places \subseteq Nat /\ IsFiniteSet(places)
  <2>1. PICK a \in Nat, b \in Int : places = a .. b
    BY <1>2
  <2>2. IsFiniteSet(a .. b)
    BY FS_Interval
  <2>3. QED
    BY <2>1, <2>2
<1> HIDE DEF places
<1>4. ps \subseteq Nat /\ IsFiniteSet(ps)
  BY <1>3, FS_Subset
<1>5. IsFiniteSet(kernel \union ps)
  BY <1>4, FS_Union DEF Types
<1>6. QED
  BY <1>1, <1>4, <1>5 DEF Types

LEMMA WriteRestStep == \A p \in Procs : IInv /\ WriteRest(p) => IInv'
<1> SUFFICES ASSUME NEW p \in Procs, IInv, WriteRest(p) PROVE IInv'
  OBVIOUS
<1>1. left[p] \in Seq(Pieces) /\ left[p] # <<>>
  BY DEF WriteRest, Writing, IInv, Types
<1>2. left[p] = left[p] \o <<>> /\ <<>> \in Seq(Pieces)
  BY <1>1
<1>3. Put(left[p])
  BY DEF WriteRest
<1>4. kernel' \in SUBSET Nat /\ IsFiniteSet(kernel')
  BY <1>1, <1>3, PutKernel DEF IInv
<1>5. Puts(p, left[p], <<>>)
  BY <1>1, <1>2, <1>3, <1>4 DEF WriteRest, Writing, Put, Puts
<1>6. QED
  BY <1>5, PutStep

LEMMA WriteShortStep == \A p \in Procs : IInv /\ WriteShort(p) => IInv'
<1> SUFFICES ASSUME NEW p \in Procs, IInv, WriteShort(p) PROVE IInv'
  OBVIOUS
<1>1. PICK n \in 1 .. Len(left[p]) - 1 :
        /\ Put(SubSeq(left[p], 1, n))
        /\ left' = [left EXCEPT ![p] = SubSeq(@, n + 1, Len(@))]
  BY DEF WriteShort
<1>2. PICK s \in Seq(Pieces) : s = left[p]
  BY DEF IInv, Types
<1> DEFINE c == SubSeq(s, 1, n)
           rest == SubSeq(s, n + 1, Len(s))
<1>3. n \in Nat \ {0} /\ Len(s) \in Nat /\ n < Len(s) /\ n \in 0 .. Len(s)
  BY <1>1, <1>2
<1>4. /\ c \in Seq(Pieces) /\ rest \in Seq(Pieces)
      /\ Len(c) = n /\ Len(rest) = Len(s) - n
      /\ s = c \o rest
  BY <1>3, SplitAt
<1> HIDE DEF c, rest
<1>5. c # <<>> /\ rest # <<>>
  BY <1>3, <1>4
<1>6. /\ pc[p] = "write" /\ pc' = pc /\ shorts' = shorts + 1
      /\ UNCHANGED <<records, cut, maxLevel>>
  BY DEF WriteShort, Writing
<1>7. /\ console' = console \o c /\ left' = [left EXCEPT ![p] = rest]
      /\ kernel' \in SUBSET Nat /\ IsFiniteSet(kernel')
  <2>1. Put(c) /\ left' = [left EXCEPT ![p] = rest]
    BY <1>1, <1>2 DEF c, rest
  <2>2. kernel' \in SUBSET Nat /\ IsFiniteSet(kernel')
    BY <1>4, <2>1, PutKernel DEF IInv
  <2>3. QED
    BY <2>1, <2>2 DEF Put
<1>8. Puts(p, c, rest)
  BY <1>2, <1>4, <1>5, <1>6, <1>7 DEF Puts
<1>9. QED
  BY <1>8, PutStep

(* What a failed write loses is accounted for as cut.                      *)
LEMMA WriteFailsStep == \A p \in Procs : IInv /\ WriteFails(p) => IInv'
<1> SUFFICES ASSUME NEW p \in Procs, IInv, WriteFails(p) PROVE IInv'
  OBVIOUS
<1>1. /\ pc' = [pc EXCEPT ![p] = "idle"] /\ left' = [left EXCEPT ![p] = <<>>]
      /\ cut' = cut \union {<<p, Latest(p)>>}
      /\ UNCHANGED <<maxLevel, records, console, kernel, shorts>>
  BY DEF WriteFails, Latest
<1>2. Types'
  <2>1. left' \in [Procs -> Seq(Pieces)]
    <3>1. <<>> \in Seq(Pieces)
      OBVIOUS
    <3>2. QED
      BY <1>1, <3>1 DEF IInv, Types
  <2>2. QED
    BY <1>1, <2>1 DEF IInv, Types
<1>3. Recorded' /\ InOrder' /\ FewLoose'
  <2>1. Recorded' /\ InOrder'
    BY <1>1 DEF IInv, Recorded, InOrder
  <2>2. Owing' \subseteq Owing /\ Loose' = Loose /\ shorts' = shorts
    BY <1>1 DEF IInv, Types, Owing, Loose, Greppable
  <2>3. QED
    BY <2>1, <2>2, FewerLoose
<1>4. /\ \A q, i : Shown(q, i)' = Shown(q, i)
      /\ \A q, i : Formatted(q, i)' = Formatted(q, i)
      /\ \A q, i : LetThrough(q, i)' = LetThrough(q, i)
      /\ \A q : Latest(q)' = Latest(q)
  BY <1>1 DEF Shown, Formatted, LetThrough, Latest
<1>5. Writes'
  <2>1. \A q \in Procs : pc'[q] = "write" => pc[q] = "write" /\ left'[q] = left[q]
    BY <1>1 DEF IInv, Types
  <2>2. QED
    BY <1>1, <1>4, <2>1, Zenon DEF IInv, Writes
<1>6. Accounted'
  <2>1. \A q \in Procs : \A i :
          /\ <<q, i>> \in cut => <<q, i>> \in cut'
          /\ i = Latest(q) /\ pc[q] = "write" => <<q, i>> \in cut' \/ pc'[q] = "write"
    BY <1>1 DEF IInv, Types
  <2>2. QED
    BY <1>1, <1>4, <2>1, Zenon DEF IInv, Accounted
<1>7. Torn' = Torn
  BY <1>1 DEF Torn, Whole, Formatted
<1>8. FewTorn'
  BY <1>1, <1>7 DEF IInv, FewTorn
<1>9. QED
  BY <1>2, <1>3, <1>5, <1>6, <1>8 DEF IInv

LEMMA InvariantHolds == Spec => []IInv
<1>1. ASSUME IInv, [Next]_vars PROVE IInv'
  <2>1. CASE \E p \in Procs : Start(p) \/ StartUnset(p) \/ SetMaxLevel(p)
    BY <1>1, <2>1, QuietStep DEF Start, StartUnset, SetMaxLevel, IInv, Types
  <2>2. CASE \E p \in Procs : StartBad(p) \/ Emit(p)
    <3>1. PICK p \in Procs, level \in RecordLevels \union {"warn"}, m \in Messages :
            pc[p] # "write" /\ Log(p, level, m, maxLevel[p]) /\ UNCHANGED maxLevel
      BY <2>2 DEF StartBad, Emit
    <3>2. QED
      BY <1>1, <3>1, LogStep
  <2>3. CASE \E p \in Procs : WriteRest(p) \/ WriteShort(p) \/ WriteFails(p)
    BY <1>1, <2>3, WriteRestStep, WriteShortStep, WriteFailsStep
  <2>k. CASE KernelLine
    <3>1. kernel' = kernel \union {Len(console)} /\ Len(console) \in Nat
      BY <1>1, <2>k DEF KernelLine, KernelPrints, IInv, Types
    <3>2. kernel' \in SUBSET Nat /\ IsFiniteSet(kernel')
      BY <1>1, <3>1, FS_AddElement DEF IInv, Types
    <3>3. QED
      BY <1>1, <2>k, <3>2, QuietStep DEF KernelLine, IInv, Types
  <2>4. CASE Quiet \/ UNCHANGED vars
    BY <1>1, <2>4, QuietStep DEF Quiet, vars, IInv, Types
  <2>5. QED
    BY <1>1, <2>1, <2>2, <2>3, <2>k, <2>4 DEF Next
<1>2. QED
  BY InitInv, <1>1, PTL DEF Spec

-----------------------------------------------------------------------------
(* A record that its level lets through is on the console once and whole,  *)
(* or as far as its write got; one that it does not let through is not;    *)
(* the records of a process are in order.                                  *)
THEOREM Faithful == Spec => []RecordsFaithful
<1>1. ASSUME IInv PROVE RecordsFaithful
  <2>1. ASSUME NEW p \in Procs, NEW r \in DOMAIN records[p], LetThrough(p, r)
        PROVE  /\ IsPrefix(Shown(p, r), Formatted(p, r))
               /\ \/ Shown(p, r) = Formatted(p, r)
                  \/ <<p, r>> \in cut
                  \/ r = Len(records[p]) /\ pc[p] = "write"
    <3>1. PICK rest \in Seq(Pieces) :
            /\ Formatted(p, r) = Shown(p, r) \o rest
            /\ rest = <<>> \/ <<p, r>> \in cut \/ (r = Latest(p) /\ pc[p] = "write")
      BY <1>1, <2>1 DEF IInv, Accounted
    <3>2. Shown(p, r) \in Seq(Pieces)
      BY <1>1, ShownIs DEF IInv, Types
    <3>3. IsPrefix(Shown(p, r), Formatted(p, r))
      BY <3>1, <3>2, ConcatPrefix
    <3>4. rest = <<>> => Shown(p, r) = Formatted(p, r)
      BY <3>1, <3>2, ConcatEmptySeq
    <3>5. QED
      BY <3>1, <3>3, <3>4 DEF Latest
  <2>2. ASSUME NEW p \in Procs, NEW r \in DOMAIN records[p], ~ LetThrough(p, r)
        PROVE  Shown(p, r) = <<>>
    BY <1>1, <2>2 DEF IInv, Accounted
  <2>3. \A p \in Procs : \A i, j \in DOMAIN console :
          (i < j /\ console[i].from = p /\ console[j].from = p)
            => console[i].rec <= console[j].rec
    BY <1>1 DEF IInv, InOrder
  <2>4. QED
    BY <2>1, <2>2, <2>3, Zenon DEF RecordsFaithful, LetThrough, Enabled
<1>2. QED
  BY InvariantHolds, <1>1, PTL

(* n short writes let other records into a record in at most n places, and *)
(* nothing else lets one in: no number of processes, no failed write and   *)
(* no line of the kernel.                                                  *)
THEOREM Tears == Spec => []OnlyShortWritesMix
<1>1. ASSUME IInv PROVE OnlyShortWritesMix
  <2>1. Breaks \subseteq Torn
    BY DEF Breaks, Torn, BrokenOff, Whole
  <2>2. IsFiniteSet(Torn)
    <3>1. Len(console) \in Nat /\ Torn \subseteq 1 .. Len(console)
      BY <1>1 DEF IInv, Types, Torn
    <3>2. IsFiniteSet(1 .. Len(console))
      BY <3>1, FS_Interval
    <3>3. QED
      BY <3>1, <3>2, FS_Subset
  <2>3. Cardinality(Breaks) <= Cardinality(Torn) /\ IsFiniteSet(Breaks)
    BY <2>1, <2>2, FS_Subset
  <2>4. Cardinality(Breaks) \in Nat /\ Cardinality(Torn) \in Nat
    BY <2>2, <2>3, FS_CardinalityType
  <2>5. Cardinality(Torn) <= shorts /\ shorts \in Nat
    BY <1>1 DEF IInv, FewTorn, Types
  <2>6. QED
    BY <2>3, <2>4, <2>5 DEF OnlyShortWritesMix
<1>2. QED
  BY InvariantHolds, <1>1, PTL

(* A line of the kernel and a short write take the prefix off one line     *)
(* each; only a short write has a record start inside the line of another. *)
THEOREM GreppableLines == Spec => []EveryLineGreppable
<1>1. ASSUME IInv PROVE EveryLineGreppable
  <2>1. console \in Seq(Pieces) /\ Len(console) \in Nat /\ DOMAIN console = 1 .. Len(console)
    BY <1>1 DEF IInv, Types
  <2>2. ASSUME NEW S \in SUBSET DOMAIN console
        PROVE  IsFiniteSet(S) /\ Cardinality(S) \in Nat
    <3>1. IsFiniteSet(DOMAIN console)
      BY <2>1, FS_Interval
    <3>2. IsFiniteSet(S)
      BY <3>1, FS_Subset
    <3>3. QED
      BY <3>2, FS_CardinalityType
  <2>3. /\ Cardinality(Loose) <= shorts /\ Cardinality(Torn) <= shorts /\ shorts \in Nat
        /\ IsFiniteSet(Loose) /\ Cardinality(Loose) \in Nat
        /\ IsFiniteSet(Torn) /\ Cardinality(Torn) \in Nat
        /\ IsFiniteSet(kernel) /\ Cardinality(kernel) \in Nat
    <3>1. IsFiniteSet(Owing) /\ Cardinality(Owing) \in Nat
      BY <1>1, FS_CardinalityType DEF IInv, FewLoose
    <3>2. Loose \subseteq DOMAIN console /\ Torn \subseteq DOMAIN console
      BY DEF Loose, Torn
    <3>3. IsFiniteSet(kernel) /\ Cardinality(kernel) \in Nat
      BY <1>1, FS_CardinalityType DEF IInv, Types
    <3>4. QED
      BY <1>1, <2>2, <3>1, <3>2, <3>3 DEF IInv, FewLoose, FewTorn, Types
  <2>4. Cardinality(Headless) <= shorts + Cardinality(kernel)
    <3> DEFINE S == {i \in DOMAIN console : i - 1 \in kernel}
               g == [i \in S |-> i - 1]
    <3>1. Headless \subseteq Loose \union S
      BY DEF Headless, Loose, Greppable
    <3>2. g \in Injection(S, kernel)
      BY <2>1 DEF Injection, IsInjective
    <3>3. IsFiniteSet(S) /\ Cardinality(S) <= Cardinality(kernel)
      BY <2>3, <3>2, FS_Injection
    <3>4. /\ IsFiniteSet(Loose \union S)
          /\ Cardinality(Loose \union S) = Cardinality(Loose) + Cardinality(S) - Cardinality(Loose \intersect S)
          /\ Cardinality(S) \in Nat /\ Cardinality(Loose \intersect S) \in Nat
      BY <2>3, <3>3, FS_Union, FS_Intersection, FS_CardinalityType
    <3>5. Cardinality(Headless) <= Cardinality(Loose \union S) /\ Cardinality(Headless) \in Nat
      BY <3>1, <3>4, FS_Subset, FS_CardinalityType
    <3>6. QED
      BY <2>3, <3>3, <3>4, <3>5
  <2>5. Cardinality(Glued) <= shorts
    <3> DEFINE g == [i \in Glued |-> i - 1]
    <3>1. ASSUME NEW i \in Glued PROVE i - 1 \in Torn
      <4>1. /\ i \in 1 .. Len(console) /\ i - 1 \in DOMAIN console /\ i - 1 < Len(console)
            /\ (i - 1) + 1 = i
            /\ console[i].part = "prefix" /\ console[i - 1].part = "prefix"
        BY <2>1, <3>1 DEF Glued
      <4> PICK piece : piece = console[i - 1]
        OBVIOUS
      <4> DEFINE whole == Whole(piece)
      <4>2. piece.from \in Procs /\ piece.rec \in DOMAIN records[piece.from]
        BY <1>1, <4>1, PieceType DEF IInv, Recorded
      <4>3. /\ whole \in Seq(Pieces) /\ Len(whole) \in Nat \ {0}
            /\ \A k \in DOMAIN whole : Continued(whole, k)
        BY <1>1, <4>2, FormattedType, Zenon DEF IInv, Whole
      <4> HIDE DEF whole
      <4>4. piece # Last(whole)
        <5>1. Len(whole) \in DOMAIN whole /\ Len(whole) + 1 \notin DOMAIN whole
          BY <4>3
        <5>2. QED
          BY <4>1, <4>3, <5>1 DEF Continued, Last
      <4>5. ~ \E k \in DOMAIN whole : whole[k] = piece /\ console[i] = whole[k + 1]
        BY <4>1, <4>3 DEF Continued
      <4>6. BrokenOff(console, i - 1, whole)
        BY <4>1, <4>4, <4>5 DEF BrokenOff
      <4>7. QED
        BY <4>1, <4>6 DEF Torn, whole
    <3>2. g \in Injection(Glued, Torn)
      BY <2>1, <3>1 DEF Injection, IsInjective, Glued
    <3>3. IsFiniteSet(Glued) /\ Cardinality(Glued) <= Cardinality(Torn)
      BY <2>3, <3>2, FS_Injection
    <3>4. Cardinality(Glued) \in Nat
      BY <3>3, FS_CardinalityType
    <3>5. QED
      BY <2>3, <3>3, <3>4
  <2>6. QED
    BY <2>4, <2>5 DEF EveryLineGreppable
<1>2. QED
  BY InvariantHolds, <1>1, PTL

-----------------------------------------------------------------------------
(* The graphics boot test, which reads the console from the serial port.   *)
Texts == Seq(STRING)
Visible == STRING \ {"nl"}

LEMMA TextConcat ==
  ASSUME NEW s \in Texts, NEW t \in Texts
  PROVE  /\ s \o t \in Texts /\ Range(s \o t) = Range(s) \union Range(t)
         /\ s \o <<>> = s
BY RangeConcatenation DEF Texts

LEMMA TextAssociative ==
  ASSUME NEW r \in Texts, NEW s \in Texts, NEW t \in Texts
  PROVE  (r \o s) \o t = r \o (s \o t)
BY ConcatAssociative DEF Texts

LEMMA TextAmong ==
  ASSUME NEW s \in Texts, NEW t \in Texts, NEW S
  PROVE  Among(s \o t, S) = Among(s, S) \o Among(t, S)
<1>1. s \in Seq(STRING) /\ t \in Seq(STRING)
  BY DEF Texts
<1>2. QED
  BY <1>1, AmongConcat

Cut(s, n, a, b) == a \in Texts /\ Len(a) = n /\ b \in Texts /\ s = a \o b

LEMMA TextCut ==
  ASSUME NEW s \in Texts, NEW n \in 0 .. Len(s)
  PROVE  Cut(s, n, SubSeq(s, 1, n), SubSeq(s, n + 1, Len(s)))
<1> DEFINE a == SubSeq(s, 1, n)
           b == SubSeq(s, n + 1, Len(s))
<1>1. s \in Seq(STRING)
  BY DEF Texts
<1>2. a \in Seq(STRING) /\ Len(a) = n
  BY <1>1, SplitAt
<1>3. b \in Seq(STRING)
  BY <1>1, SplitAt
<1>4. s = a \o b
  BY <1>1, SplitAt
<1> HIDE DEF a, b
<1>5. Cut(s, n, a, b)
  BY <1>2, <1>3, <1>4, Zenon DEF Cut, Texts
<1>6. QED
  BY <1>5 DEF a, b

(* The last newline of a text is at k.                                     *)
EndsAt(s, k) ==
  /\ k \in 0 .. Len(s)
  /\ k = 0 \/ s[k] = "nl"
  /\ \A j \in k + 1 .. Len(s) : s[j] # "nl"

LEMMA LastNewlineIs ==
  ASSUME NEW s \in Texts
  PROVE  EndsAt(s, LastNewline(s))
<1> DEFINE I == {0} \union {i \in 1 .. Len(s) : s[i] = "nl"}
<1>1. Len(s) \in Nat
  BY DEF Texts
<1>2. I \in SUBSET (0 .. Len(s)) /\ I # {}
  BY <1>1
<1>3. Max(I) \in I /\ \A m \in I : m <= Max(I)
  BY <1>1, <1>2, MaxIsGreatest
<1> DEFINE k == Max(I)
<1> HIDE DEF k
<1>4. k \in 0 .. Len(s) /\ (k = 0 \/ s[k] = "nl")
  BY <1>1, <1>2, <1>3 DEF k
<1>5. \A j \in k + 1 .. Len(s) : s[j] # "nl"
  <2>1. SUFFICES ASSUME NEW j \in k + 1 .. Len(s), s[j] = "nl" PROVE FALSE
    OBVIOUS
  <2>2. j \in I /\ j > k
    BY <1>1, <1>4, <2>1
  <2>3. QED
    BY <1>1, <1>3, <1>4, <2>2 DEF k
<1>6. EndsAt(s, k)
  BY <1>4, <1>5 DEF EndsAt
<1>7. QED
  BY <1>6 DEF EndsAt, LastNewline

LEMMA OneLastNewline ==
  ASSUME NEW s \in Texts, NEW k, EndsAt(s, k), NEW l, EndsAt(s, l)
  PROVE  k = l
<1>1. k \in Nat /\ l \in Nat /\ k <= Len(s) /\ l <= Len(s) /\ Len(s) \in Nat
  BY DEF EndsAt, Texts
<1>2. ~ (k < l)
  <2>1. SUFFICES ASSUME k < l PROVE FALSE
    OBVIOUS
  <2>2. l \in k + 1 .. Len(s) /\ l # 0
    BY <1>1, <2>1
  <2>3. QED
    BY <2>2 DEF EndsAt
<1>3. ~ (l < k)
  <2>1. SUFFICES ASSUME l < k PROVE FALSE
    OBVIOUS
  <2>2. k \in l + 1 .. Len(s) /\ k # 0
    BY <1>1, <2>1
  <2>3. QED
    BY <2>2 DEF EndsAt
<1>4. QED
  BY <1>1, <1>2, <1>3

(* Behind whole lines, a text has its own lines and its own unfinished     *)
(* one.                                                                    *)
LEMMA BehindLines ==
  ASSUME NEW a \in Texts, a = <<>> \/ a[Len(a)] = "nl", NEW u \in Texts
  PROVE  /\ CompleteLines(a \o u) = Among(a, Visible) \o CompleteLines(u)
         /\ Unfinished(a \o u) = Unfinished(u)
<1> DEFINE s == a \o u
           n == Len(a)
           k == LastNewline(u)
<1>1. /\ s \in Texts /\ n \in Nat /\ Len(u) \in Nat /\ Len(s) = n + Len(u)
      /\ (n = 0 \/ a[n] = "nl")
      /\ \A i \in 1 .. n : s[i] = a[i]
      /\ \A i \in 1 .. Len(u) : s[n + i] = u[i]
  BY DEF Texts
<1>2. EndsAt(u, k)
  BY LastNewlineIs
<1> HIDE DEF s, k
<1>3. k \in 0 .. Len(u) /\ (k = 0 \/ u[k] = "nl") /\ \A j \in k + 1 .. Len(u) : u[j] # "nl"
  BY <1>2 DEF EndsAt
<1> HIDE DEF n
<1>4. EndsAt(s, n + k)
  <2>1. n + k \in 0 .. Len(s)
    BY <1>1, <1>3
  <2>2. n + k = 0 \/ s[n + k] = "nl"
    <3>1. CASE k = 0
      BY <1>1, <3>1
    <3>2. CASE k # 0
      <4>1. k \in 1 .. Len(u)
        BY <1>1, <1>3, <3>2
      <4>2. QED
        BY <1>1, <1>3, <3>2, <4>1
    <3>3. QED
      BY <3>1, <3>2
  <2>3. ASSUME NEW j \in (n + k) + 1 .. Len(s) PROVE s[j] # "nl"
    <3>1. j - n \in k + 1 .. Len(u) /\ j - n \in 1 .. Len(u) /\ n + (j - n) = j
      BY <1>1, <1>3
    <3>2. s[n + (j - n)] = u[j - n]
      BY <1>1, <3>1
    <3>3. QED
      BY <1>3, <3>1, <3>2
  <2>4. QED
    BY <2>1, <2>2, <2>3 DEF EndsAt
<1>5. LastNewline(s) = n + k
  BY <1>1, <1>4, LastNewlineIs, OneLastNewline
<1> DEFINE b == SubSeq(u, 1, k)
           c == SubSeq(u, k + 1, Len(u))
<1>6. b \in Texts /\ Len(b) = k /\ c \in Texts /\ u = b \o c
  BY <1>3, TextCut, Zenon DEF Cut
<1> DEFINE d == a \o b
<1>7. s = d \o c /\ d \in Texts /\ Len(d) = n + k
  <2> HIDE DEF b, c
  <2>1. a \o (b \o c) = (a \o b) \o c
    BY <1>6, TextAssociative, Zenon
  <2>2. s = a \o (b \o c)
    BY <1>6, Zenon DEF s
  <2>3. d \in Texts /\ Len(d) = n + k
    <3>1. a \in Seq(STRING) /\ b \in Seq(STRING) /\ Len(b) = k /\ Len(a) = n
      BY <1>6 DEF Texts, n
    <3>2. a \o b \in Seq(STRING) /\ Len(a \o b) = Len(a) + Len(b)
      BY <3>1
    <3>3. QED
      BY <3>1, <3>2, Zenon DEF Texts
  <2>4. QED
    BY <2>1, <2>2, <2>3, Zenon
<1>8. SubSeq(s, 1, n + k) = d /\ SubSeq(s, (n + k) + 1, Len(s)) = c
  <2> HIDE DEF b, c, d
  <2>1. SubSeq(d \o c, 1, Len(d)) = d /\ SubSeq(d \o c, Len(d) + 1, Len(d \o c)) = c
    BY <1>6, <1>7, ConcatSplits DEF Texts
  <2>2. QED
    BY <1>7, <2>1, Zenon
<1>9. CompleteLines(s) = Among(a \o b, Visible) /\ CompleteLines(u) = Among(b, Visible)
  BY <1>5, <1>8, Zenon DEF CompleteLines, Visible, k
<1>10. Among(a \o b, Visible) = Among(a, Visible) \o Among(b, Visible)
  <2>1. \A t \in Texts : Among(a \o t, Visible) = Among(a, Visible) \o Among(t, Visible)
    BY TextAmong
  <2> HIDE DEF b
  <2>2. QED
    BY <1>6, <2>1, Zenon
<1>11. Unfinished(s) = c /\ Unfinished(u) = c
  BY <1>5, <1>8, Zenon DEF Unfinished, k
<1>12. QED
  BY <1>9, <1>10, <1>11, Zenon DEF s

-----------------------------------------------------------------------------
(* The test's invariant.  What it reads are lines the guest printed, and   *)
(* what it has not searched of them lies in todo or behind the last        *)
(* newline; the screenshot is of this run if the file says so.             *)
Reading ==
  /\ test \in {"loop", "lines", "rest", "done"}
  /\ program \in Texts /\ at \in 0 .. Len(program)
  /\ pipe \in Texts /\ text \in Texts /\ todo \in Texts
  /\ text \o pipe = Printed

Searching ==
  /\ test = "loop" => todo = <<>>
  /\ test = "lines" => todo # <<>>
  /\ Range(todo) \subseteq Range(text)
  /\ shot \in BOOLEAN
  /\ shot => Trigger \in Range(text)
  /\ test \in {"loop", "lines"} =>
       /\ pending = Unfinished(text)
       /\ Trigger \in Range(CompleteLines(text)) => shot \/ Trigger \in Range(todo)

Pictures ==
  /\ screen = "right" => ShowsRight(at)
  /\ file.run = "this" =>
       /\ file.at \in 0 .. at
       /\ file.pixels = "right" => ShowsRight(file.at)
       /\ Trigger \in Range(PrintedBy(file.at))

Judging ==
  /\ test = "rest" => qemu # "running"
  /\ test # "done" => verdict = "none"
  /\ verdict \in {"PASS", "FAIL", "no screenshot"} => qemu # "running" /\ pipe = <<>>
  /\ verdict = "PASS" => Expect \subseteq Range(text) /\ shot /\ file.pixels = "right"

TestInv == Reading /\ Searching /\ Pictures /\ Judging

LEMMA PrintedIs ==
  Printed = Among(SubSeq(program, 1, at), STRING \ DOMAIN Screen)
BY DEF Printed, PrintedBy

LEMMA PrintedAlways ==
  Printed' = Among(SubSeq(program', 1, at'), STRING \ DOMAIN Screen)
BY DEF Printed, PrintedBy, Screen

(* The picture stands as long as the guest does nothing and nobody writes  *)
(* the file, and when the screen goes dark.                                *)
LEMMA PicturesStand ==
  ASSUME Pictures, program' = program, at' = at, file' = file,
         screen' = screen \/ screen' = "dark"
  PROVE  Pictures'
BY DEF Pictures, ShowsRight, PrintedBy, Screen

LEMMA TestStarts ==
  ASSUME TestInit
  PROVE  TestInv
<1>1. /\ program \in Texts /\ at = 0 /\ screen = "dark" /\ qemu = "running" /\ test = "loop"
      /\ pipe = <<>> /\ pending = <<>> /\ todo = <<>> /\ text = <<>>
      /\ shot = FALSE /\ verdict = "none" /\ file.run = "earlier"
  BY ProgramsAssumption, Zenon DEF TestInit, Texts
<1>2. SubSeq(program, 1, 0) = <<>>
  BY SubSeqEmpty
<1>3. Printed = <<>> /\ <<>> \o <<>> = <<>> /\ <<>> \in Texts
  <2>1. SubSeq(program, 1, at) = <<>>
    BY <1>1, <1>2, Zenon
  <2>2. Printed = <<>>
    BY <2>1, PrintedIs, AmongEmpty, Zenon
  <2>3. <<>> \o <<>> = <<>> /\ <<>> \in Seq(STRING)
    OBVIOUS
  <2>4. QED
    BY <2>2, <2>3, Zenon DEF Texts
<1>4. Reading
  BY <1>1, <1>3 DEF Reading, Texts
<1>5. Range(<<>>) = {}
  BY DEF Range
<1>6. Unfinished(<<>>) = <<>> /\ CompleteLines(<<>>) = <<>>
  <2>1. EndsAt(<<>>, LastNewline(<<>>))
    BY <1>3, LastNewlineIs
  <2>2. LastNewline(<<>>) = 0
    BY <2>1 DEF EndsAt
  <2>3. SubSeq(<<>>, 1, 0) = <<>> /\ SubSeq(<<>>, 0 + 1, Len(<<>>)) = <<>>
    BY SubSeqEmpty
  <2>4. QED
    BY <2>2, <2>3, AmongEmpty, Zenon DEF Unfinished, CompleteLines
<1>7. Searching
  BY <1>1, <1>5, <1>6, Zenon DEF Searching
<1>8. Pictures /\ Judging
  BY <1>1 DEF Pictures, Judging
<1>9. QED
  BY <1>4, <1>7, <1>8 DEF TestInv

LEMMA OneMore ==
  ASSUME NEW U, NEW s \in Seq(U), NEW e \in U
  PROVE  /\ Append(s, e) \in Seq(U) /\ Len(Append(s, e)) = Len(s) + 1
         /\ Append(s, e)[Len(s) + 1] = e
         /\ \A i \in 1 .. Len(s) : Append(s, e)[i] = s[i]
OBVIOUS

LEMMA ConcatMore ==
  ASSUME NEW U, NEW s \in Seq(U), NEW t \in Seq(U), NEW e \in U
  PROVE  t \o Append(s, e) = Append(t \o s, e)
OBVIOUS

LEMMA PrefixGrows ==
  ASSUME NEW U, NEW s \in Seq(U), NEW n \in Nat, n < Len(s)
  PROVE  SubSeq(s, 1, n + 1) = Append(SubSeq(s, 1, n), s[n + 1])
<1> DEFINE e == s[n + 1]
           a == SubSeq(s, 1, n)
           b == SubSeq(s, 1, n + 1)
           c == Append(a, e)
<1>1. n \in 0 .. Len(s) /\ n + 1 \in 0 .. Len(s) /\ e \in U
  OBVIOUS
<1>2. /\ a \in Seq(U) /\ Len(a) = n
      /\ \A i \in 1 .. n : a[i] = s[i]
  BY <1>1, SplitAt, SubSeqProperties
<1>3. /\ b \in Seq(U) /\ Len(b) = n + 1
      /\ \A i \in 1 .. n + 1 : b[i] = s[i]
  <2>1. b \in Seq(U) /\ Len(b) = n + 1
    BY <1>1, SplitAt
  <2>2. \A i \in 1 .. n + 1 : s[i] \in U
    BY <1>1
  <2>3. \A i \in 1 .. (n + 1) - 1 + 1 : b[i] = s[1 + i - 1]
    BY <2>2, SubSeqProperties
  <2>4. QED
    BY <2>1, <2>3
<1> HIDE DEF a, b
<1>4. /\ c \in Seq(U) /\ Len(c) = n + 1 /\ c[n + 1] = e
      /\ \A i \in 1 .. n : c[i] = a[i]
  BY <1>1, <1>2, OneMore
<1> HIDE DEF c
<1>5. ASSUME NEW i \in 1 .. n + 1 PROVE c[i] = b[i]
  <2>1. CASE i \in 1 .. n
    BY <1>2, <1>3, <1>4, <2>1
  <2>2. CASE i = n + 1
    BY <1>3, <1>4, <2>2
  <2>3. QED
    BY <2>1, <2>2
<1>6. b = c
  BY <1>3, <1>4, <1>5, SeqEqual
<1>7. QED
  BY <1>6 DEF a, b, c

LEMMA PrintedGrows ==
  ASSUME Reading, at < Len(program)
  PROVE  /\ program[at + 1] \in STRING /\ program[at + 1] \in Range(program)
         /\ SubSeq(program, 1, at + 1) = Append(SubSeq(program, 1, at), program[at + 1])
<1>1. program \in Seq(STRING) /\ at \in Nat /\ at + 1 \in 1 .. Len(program)
  BY DEF Reading, Texts
<1>2. program[at + 1] \in STRING /\ program[at + 1] \in Range(program)
  BY <1>1 DEF Range
<1>3. QED
  BY <1>1, <1>2, PrefixGrows, Zenon

LEMMA GuestStepKeeps ==
  ASSUME TestInv, GuestStep
  PROVE  TestInv'
<1> DEFINE e == program[at + 1]
           S == STRING \ DOMAIN Screen
<1>1. /\ qemu = "running" /\ at < Len(program) /\ at' = at + 1
      /\ UNCHANGED <<program, qemu, test, pending, todo, text, shot, file, late, verdict>>
      /\ \/ e \in DOMAIN Screen /\ screen' = Screen[e] /\ pipe' = pipe
         \/ e \notin DOMAIN Screen /\ pipe' = Append(pipe, e) /\ screen' = screen
  BY Zenon DEF GuestStep
<1>2. Reading
  BY DEF TestInv
<1>3. /\ e \in STRING /\ e \in Range(program)
      /\ SubSeq(program, 1, at + 1) = Append(SubSeq(program, 1, at), e)
  BY <1>1, <1>2, PrintedGrows
<1>4. Printed' = IF e \in S THEN Append(Printed, e) ELSE Printed
  <2> DEFINE s == SubSeq(program, 1, at)
  <2>1. s \in Seq(STRING)
    BY <1>2, SplitAt DEF Reading, Texts
  <2>2. Printed' = Among(SubSeq(program, 1, at + 1), S)
    BY <1>1, PrintedAlways, Zenon
  <2> HIDE DEF s, S
  <2>3. Among(Append(s, e), S) = IF e \in S THEN Append(Among(s, S), e) ELSE Among(s, S)
    <3> HIDE DEF e
    <3>1. e \in STRING
      BY <1>3
    <3>2. QED
      BY <2>1, <3>1, AmongAppend, Zenon
  <2>4. QED
    BY <1>3, <2>2, <2>3, PrintedIs, Zenon DEF s, S
<1>5. pipe' \in Texts /\ text \o pipe' = Printed'
  <2>1. pipe \in Seq(STRING) /\ text \in Seq(STRING) /\ text \o pipe = Printed
    BY <1>2 DEF Reading, Texts
  <2>2. text \o Append(pipe, e) = Append(text \o pipe, e) /\ Append(pipe, e) \in Seq(STRING)
    <3> HIDE DEF e
    <3>1. e \in STRING
      BY <1>3
    <3>2. Append(pipe, e) \in Seq(STRING)
      BY <2>1, <3>1, OneMore, Zenon
    <3>3. text \o Append(pipe, e) = Append(text \o pipe, e)
      BY <2>1, <3>1, ConcatMore, Zenon
    <3>4. QED
      BY <3>2, <3>3
  <2>3. CASE e \in DOMAIN Screen
    BY <1>1, <1>4, <2>1, <2>3, Zenon DEF Texts
  <2>4. CASE e \notin DOMAIN Screen
    BY <1>1, <1>3, <1>4, <2>1, <2>2, <2>4, Zenon DEF Texts
  <2>5. QED
    BY <2>3, <2>4
<1>6. Reading'
  <2>1. at + 1 \in 0 .. Len(program)
    BY <1>1, <1>2 DEF Reading, Texts
  <2>2. QED
    BY <1>1, <1>2, <1>5, <2>1, Zenon DEF Reading
<1>7. Searching'
  BY <1>1, Zenon DEF TestInv, Searching
<1>8. Pictures'
  <2>1. screen' = "right" => e = "right" \/ (screen = "right" /\ e \notin DOMAIN Screen)
    BY <1>1 DEF Screen
  <2>2. screen' = "right" => ShowsRight(at)' 
    <3>1. at \in Nat
      BY <1>2 DEF Reading, Texts
    <3>2. CASE screen' = "right" /\ e = "right"
      <4>1. at + 1 \in 1 .. at + 1 /\ (at + 1) + 1 .. at + 1 = {}
        BY <3>1
      <4>2. QED
        BY <1>1, <3>2, <4>1 DEF ShowsRight
    <3>3. CASE screen = "right" /\ e \notin DOMAIN Screen
      <4>1. PICK j \in 1 .. at :
              program[j] = "right" /\ \A i \in j + 1 .. at : program[i] \notin DOMAIN Screen
        BY <3>3 DEF TestInv, Pictures, ShowsRight
      <4>2. /\ j \in 1 .. at + 1
            /\ \A i \in j + 1 .. at + 1 : i \in j + 1 .. at \/ i = at + 1
        BY <3>1
      <4>3. \A i \in j + 1 .. at + 1 : program[i] \notin DOMAIN Screen
        BY <3>3, <4>1, <4>2, Zenon
      <4>4. QED
        BY <1>1, <4>1, <4>2, <4>3 DEF ShowsRight, Screen
    <3>4. QED
      BY <2>1, <3>2, <3>3
  <2>3. at \in Nat /\ \A k \in 0 .. at : k \in 0 .. at + 1
    BY <1>2 DEF Reading, Texts
  <2>4. QED
    BY <1>1, <2>2, <2>3 DEF TestInv, Pictures, ShowsRight, PrintedBy, Screen
<1>9. Judging'
  BY <1>1 DEF TestInv, Judging
<1>10. QED
  BY <1>6, <1>7, <1>8, <1>9, Zenon DEF TestInv

LEMMA GuestOffKeeps ==
  ASSUME TestInv, GuestOff
  PROVE  TestInv'
<1>1. /\ qemu = "running" /\ qemu' = "exited" /\ screen' = "dark"
      /\ UNCHANGED <<program, at, pipe, test, pending, todo, text, shot, file, late, verdict>>
  BY Zenon DEF GuestOff
<1>2. Reading'
  BY <1>1, PrintedIs, PrintedAlways, Zenon DEF TestInv, Reading
<1>3. Searching'
  BY <1>1, Zenon DEF TestInv, Searching
<1>4. Pictures' /\ Judging'
  <2>1. Pictures'
    BY <1>1, PicturesStand, Zenon DEF TestInv
  <2>2. QED
    BY <1>1, <2>1 DEF TestInv, Judging
<1>5. QED
  BY <1>2, <1>3, <1>4, Zenon DEF TestInv

LEMMA DeadlineKeeps ==
  ASSUME TestInv,
         \/ DeadlinePasses
         \/ UNCHANGED testVars
  PROVE  TestInv'
<1>1. UNCHANGED <<program, at, screen, qemu, pipe, test, pending, todo, text, shot, file, verdict>>
  BY Zenon DEF DeadlinePasses, testVars, guest
<1>2. Reading'
  BY <1>1, PrintedIs, PrintedAlways, Zenon DEF TestInv, Reading
<1>3. Searching' /\ Pictures' /\ Judging'
  <2>1. Pictures'
    BY <1>1, PicturesStand, Zenon DEF TestInv
  <2>2. QED
    BY <1>1, <2>1, Zenon DEF TestInv, Searching, Judging
<1>4. QED
  BY <1>2, <1>3, Zenon DEF TestInv

(* What is searched of a text is some of it.                               *)
LEMMA LinesWithin ==
  ASSUME NEW s \in Texts
  PROVE  /\ CompleteLines(s) \in Texts /\ Range(CompleteLines(s)) \subseteq Range(s)
         /\ Unfinished(s) \in Texts
         /\ \E a \in Texts : /\ a = <<>> \/ a[Len(a)] = "nl"
                            /\ CompleteLines(s) = Among(a, Visible)
                            /\ s = a \o Unfinished(s)
<1> DEFINE k == LastNewline(s)
           a == SubSeq(s, 1, k)
           b == SubSeq(s, k + 1, Len(s))
<1>1. k \in 0 .. Len(s) /\ (k = 0 \/ s[k] = "nl")
  BY LastNewlineIs DEF EndsAt
<1> HIDE DEF k
<1>2. a \in Texts /\ Len(a) = k /\ b \in Texts /\ s = a \o b
  BY <1>1, TextCut, Zenon DEF Cut
<1>3. \A i \in 1 .. k : a[i] = s[i]
  BY <1>1, SubSeqProperties DEF Texts
<1>4. CompleteLines(s) = Among(a, Visible) /\ Unfinished(s) = b
  BY Zenon DEF CompleteLines, Unfinished, Visible, k
<1> HIDE DEF a, b
<1>5. a = <<>> \/ a[Len(a)] = "nl"
  <2>1. CASE k = 0
    BY <1>2, <2>1
  <2>2. CASE k # 0
    <3>1. k \in 1 .. k
      BY <1>1, <2>2
    <3>2. QED
      BY <1>1, <1>2, <1>3, <2>2, <3>1
  <2>3. QED
    BY <2>1, <2>2
<1>6. Among(a, Visible) \in Seq(STRING) /\ Range(Among(a, Visible)) \subseteq Range(a)
  <2>1. a \in Seq(STRING)
    BY <1>2 DEF Texts
  <2>2. Among(a, Visible) \in Seq(STRING)
    BY <2>1, AmongType
  <2>3. Range(Among(a, Visible)) = Range(a) \intersect Visible
    BY <2>1, AmongRange
  <2>4. QED
    BY <2>2, <2>3
<1>7. Range(a) \subseteq Range(s)
  <2>1. Range(a \o b) = Range(a) \union Range(b)
    BY <1>2, TextConcat, Zenon
  <2>2. QED
    BY <1>2, <2>1
<1>8. QED
  BY <1>2, <1>4, <1>5, <1>6, <1>7, Zenon DEF Texts

LEMMA ReadChunkKeeps ==
  ASSUME TestInv, ReadChunk
  PROVE  TestInv'
<1> DEFINE u == pending \o pipe
<1>1. /\ test = "loop" /\ qemu = "running" /\ text' = text \o pipe
      /\ todo' = CompleteLines(u) /\ pending' = Unfinished(u) /\ pipe' = <<>>
      /\ test' = (IF todo' = <<>> THEN "loop" ELSE "lines")
      /\ UNCHANGED <<program, at, screen, qemu, shot, file, late, verdict>>
  BY Zenon DEF ReadChunk, guest
<1>2. /\ pipe \in Texts /\ text \in Texts /\ text \o pipe = Printed
      /\ todo = <<>> /\ pending = Unfinished(text)
  BY <1>1 DEF TestInv, Reading, Searching
<1>3. PICK a \in Texts : /\ a = <<>> \/ a[Len(a)] = "nl"
                         /\ CompleteLines(text) = Among(a, Visible)
                         /\ text = a \o pending
  BY <1>2, LinesWithin
<1>4. pending \in Texts /\ u \in Texts
  <2>1. pending \in Texts
    BY <1>2, LinesWithin
  <2>2. QED
    BY <1>2, <2>1 DEF Texts
<1>5. text' = a \o u /\ text' \in Texts
  <2>1. (a \o pending) \o pipe = a \o (pending \o pipe)
    BY <1>2, <1>4, TextAssociative, Zenon
  <2>2. text \o pipe \in Texts
    BY <1>2, TextConcat
  <2>3. QED
    BY <1>1, <1>3, <2>1, <2>2, Zenon DEF Texts
<1> HIDE DEF u
<1>6. /\ CompleteLines(text') = CompleteLines(text) \o todo' /\ Unfinished(text') = pending'
  BY <1>1, <1>3, <1>4, <1>5, BehindLines, Zenon
<1>7. todo' \in Texts /\ Range(todo') \subseteq Range(text')
  <2>1. todo' \in Texts /\ Range(todo') \subseteq Range(u)
    BY <1>1, <1>4, LinesWithin, Zenon
  <2>2. Range(text') = Range(a) \union Range(u)
    BY <1>4, <1>5, RangeConcatenation DEF Texts
  <2>3. QED
    BY <2>1, <2>2
<1>8. Reading'
  <2>1. text' \o <<>> = text'
    BY <1>5, ConcatEmptySeq DEF Texts
  <2>2. test' \in {"loop", "lines", "rest", "done"} /\ <<>> \in Texts
    BY <1>1 DEF Texts
  <2>3. Printed' = Printed
    BY <1>1, PrintedIs, PrintedAlways, Zenon
  <2>4. program' \in Texts /\ at' \in 0 .. Len(program')
    BY <1>1, Zenon DEF TestInv, Reading
  <2>5. QED
    BY <1>1, <1>2, <1>5, <1>7, <2>1, <2>2, <2>3, <2>4, Zenon DEF Reading
<1>9. Searching'
  <2>1. Range(text) \subseteq Range(text')
    <3>1. Range(text \o pipe) = Range(text) \union Range(pipe)
      BY <1>2, TextConcat
    <3>2. QED
      BY <1>1, <3>1
  <2>2. Range(CompleteLines(text')) = Range(CompleteLines(text)) \union Range(todo')
    <3>1. CompleteLines(text) \in Texts
      BY <1>2, LinesWithin
    <3>2. Range(CompleteLines(text) \o todo') = Range(CompleteLines(text)) \union Range(todo')
      BY <1>7, <3>1, RangeConcatenation DEF Texts
    <3>3. QED
      BY <1>6, <3>2, Zenon
  <2>3. Trigger \in Range(CompleteLines(text)) => shot
    BY <1>1, <1>2 DEF TestInv, Searching, Range
  <2>4. (test' = "loop" => todo' = <<>>) /\ (test' = "lines" => todo' # <<>>)
    BY <1>1
  <2>5. shot' = shot /\ shot \in BOOLEAN /\ (shot => Trigger \in Range(text))
    BY <1>1, Zenon DEF TestInv, Searching
  <2>6. shot' => Trigger \in Range(text')
    BY <2>1, <2>5, Zenon
  <2>7. Trigger \in Range(CompleteLines(text')) => shot' \/ Trigger \in Range(todo')
    BY <2>2, <2>3, <2>5, Zenon
  <2>8. QED
    BY <1>6, <1>7, <2>4, <2>5, <2>6, <2>7, Zenon DEF Searching
<1>10. Pictures'
  BY <1>1, PicturesStand, Zenon DEF TestInv
<1>11. Judging'
  BY <1>1 DEF TestInv, Judging
<1>12. QED
  BY <1>8, <1>9, <1>10, <1>11, Zenon DEF TestInv

LEMMA FirstAndRest ==
  ASSUME NEW U, NEW s \in Seq(U), s # <<>>
  PROVE  Tail(s) \in Seq(U) /\ Range(s) = {Head(s)} \union Range(Tail(s))
<1> DEFINE h == <<Head(s)>>
           t == Tail(s)
<1>1. t \in Seq(U) /\ h \in Seq(U) /\ s = h \o t
  OBVIOUS
<1>2. Range(h) = {Head(s)}
  BY DEF Range
<1> HIDE DEF h, t
<1>3. Range(h \o t) = Range(h) \union Range(t)
  BY <1>1, RangeConcatenation
<1>4. QED
  BY <1>1, <1>2, <1>3 DEF t

LEMMA NextLineKeeps ==
  ASSUME TestInv, test = "lines", NextLine,
         shot' \in BOOLEAN, shot => shot',
         Head(todo) = Trigger => shot', shot' => shot \/ Head(todo) = Trigger,
         UNCHANGED <<program, at, qemu, pipe, pending, text, late, verdict>>
  PROVE  Reading' /\ Searching'
<1>1. /\ todo \in Texts /\ todo # <<>> /\ Range(todo) \subseteq Range(text)
      /\ todo' = Tail(todo) /\ test' = (IF todo' = <<>> THEN "loop" ELSE "lines")
  BY DEF TestInv, Reading, Searching, NextLine
<1>2. /\ todo' \in Texts /\ Range(todo) = Range(todo') \union {Head(todo)}
  <2>1. /\ Tail(todo) \in Seq(STRING)
        /\ Range(todo) = {Head(todo)} \union Range(Tail(todo))
    <3>1. todo \in Seq(STRING)
      BY <1>1 DEF Texts
    <3>2. QED
      BY <1>1, <3>1, FirstAndRest, Zenon
  <2>2. QED
    BY <1>1, <2>1, Zenon DEF Texts
<1>3. Reading'
  <2>1. test' \in {"loop", "lines", "rest", "done"}
    BY <1>1
  <2>2. Printed' = Printed
    BY PrintedIs, PrintedAlways, Zenon
  <2>3. QED
    BY <1>2, <2>1, <2>2, Zenon DEF TestInv, Reading
<1>4. Searching'
  <2>1. Range(todo') \subseteq Range(text')
    BY <1>1, <1>2
  <2>2. (test' = "loop" => todo' = <<>>) /\ (test' = "lines" => todo' # <<>>)
    BY <1>1
  <2>3. shot' => Trigger \in Range(text')
    BY <1>1, <1>2 DEF TestInv, Searching
  <2>4. pending' = Unfinished(text')
    BY Zenon DEF TestInv, Searching
  <2>5. Trigger \in Range(CompleteLines(text')) => shot' \/ Trigger \in Range(todo')
    <3>1. Trigger \in Range(CompleteLines(text)) => shot \/ Trigger \in Range(todo)
      BY Zenon DEF TestInv, Searching
    <3>2. Trigger \in Range(todo) => Trigger \in Range(todo') \/ shot'
      BY <1>2
    <3>3. QED
      BY <3>1, <3>2, Zenon
  <2>6. QED
    BY <2>1, <2>2, <2>3, <2>4, <2>5, Zenon DEF Searching
<1>5. QED
  BY <1>3, <1>4

LEMMA SearchLineKeeps ==
  ASSUME TestInv, SearchLine
  PROVE  TestInv'
<1>1. /\ test = "lines" /\ (Head(todo) # Trigger \/ shot) /\ NextLine
      /\ UNCHANGED <<program, at, screen, qemu, pipe, pending, text, shot, file, late, verdict>>
  BY Zenon DEF SearchLine, guest
<1>2. shot \in BOOLEAN /\ test' \in {"loop", "lines"}
  BY <1>1 DEF TestInv, Searching, NextLine
<1>3. Reading' /\ Searching'
  <2>1. /\ shot' \in BOOLEAN /\ (shot => shot') /\ (Head(todo) = Trigger => shot')
        /\ (shot' => shot \/ Head(todo) = Trigger)
    BY <1>1, <1>2, Zenon
  <2>2. QED
    BY <1>1, <2>1, NextLineKeeps, Zenon
<1>4. Pictures'
  BY <1>1, PicturesStand, Zenon DEF TestInv
<1>5. Judging'
  BY <1>1, <1>2 DEF TestInv, Judging
<1>6. QED
  BY <1>3, <1>4, <1>5, Zenon DEF TestInv

LEMMA ScreendumpKeeps ==
  ASSUME TestInv, Screendump
  PROVE  TestInv'
<1>1. /\ test = "lines" /\ Head(todo) = Trigger /\ ~ shot /\ qemu = "running"
      /\ file' \in {[pixels |-> screen, run |-> "this", at |-> at], file}
      /\ shot' = TRUE /\ NextLine
      /\ UNCHANGED <<program, at, screen, qemu, pipe, pending, text, late, verdict>>
  BY Zenon DEF Screendump, guest
<1>2. test' \in {"loop", "lines"}
  BY <1>1 DEF NextLine
<1>3. Reading' /\ Searching'
  <2>1. shot' \in BOOLEAN /\ shot'
    BY <1>1, Zenon
  <2>2. QED
    BY <1>1, <2>1, NextLineKeeps, Zenon
<1>4. Pictures'
  <2>1. CASE file' = file
    BY <1>1, <2>1, PicturesStand, Zenon DEF TestInv
  <2>2. CASE file' = [pixels |-> screen, run |-> "this", at |-> at]
    <3>1. Trigger \in Range(Printed)
      <4>1. /\ text \in Texts /\ pipe \in Texts /\ text \o pipe = Printed
            /\ todo \in Texts /\ todo # <<>> /\ Range(todo) \subseteq Range(text)
        BY <1>1, Zenon DEF TestInv, Reading, Searching
      <4>2. Head(todo) \in Range(todo)
        BY <4>1 DEF Range, Texts
      <4>3. Range(text) \subseteq Range(text \o pipe)
        BY <4>1, TextConcat, Zenon
      <4>4. QED
        BY <1>1, <4>1, <4>2, <4>3
    <3>2. file'.at = at /\ file'.pixels = screen /\ at \in 0 .. at
      BY <2>2 DEF TestInv, Reading, Texts
    <3>3. QED
      BY <1>1, <3>1, <3>2 DEF TestInv, Pictures, ShowsRight, Printed, PrintedBy, Screen
  <2>3. QED
    BY <1>1, <2>1, <2>2
<1>5. Judging'
  BY <1>1, <1>2 DEF TestInv, Judging
<1>6. QED
  BY <1>3, <1>4, <1>5, Zenon DEF TestInv

LEMMA MonitorFailsKeeps ==
  ASSUME TestInv, MonitorFails
  PROVE  TestInv'
<1>1. /\ verdict' = "exception" /\ test' = "done" /\ todo' = <<>>
      /\ UNCHANGED <<program, at, screen, qemu, pipe, pending, text, shot, file, late>>
  BY Zenon DEF MonitorFails, guest
<1>2. Reading'
  <2>1. <<>> \in Texts /\ "done" \in {"loop", "lines", "rest", "done"}
    BY DEF Texts
  <2>2. QED
    BY <1>1, <2>1, PrintedIs, PrintedAlways, Zenon DEF TestInv, Reading
<1>3. Searching'
  <2>1. Range(<<>>) = {}
    BY DEF Range
  <2>2. QED
    BY <1>1, <2>1 DEF TestInv, Searching
<1>4. Pictures'
  BY <1>1, PicturesStand, Zenon DEF TestInv
<1>5. Judging'
  BY <1>1 DEF TestInv, Judging
<1>6. QED
  BY <1>2, <1>3, <1>4, <1>5, Zenon DEF TestInv

LEMMA LoopEndsKeeps ==
  ASSUME TestInv, LoopEnds
  PROVE  TestInv'
<1>1. /\ test = "loop" /\ test' = "rest" /\ screen' = "dark"
      /\ qemu' = (IF qemu = "running" THEN "killed" ELSE qemu)
      /\ UNCHANGED <<program, at, pipe, pending, todo, text, shot, file, late, verdict>>
  BY Zenon DEF LoopEnds
<1>2. Reading'
  <2>1. "rest" \in {"loop", "lines", "rest", "done"}
    OBVIOUS
  <2>2. QED
    BY <1>1, <2>1, PrintedIs, PrintedAlways, Zenon DEF TestInv, Reading
<1>3. Searching'
  BY <1>1 DEF TestInv, Searching
<1>4. Pictures' /\ Judging'
  <2>1. Pictures'
    BY <1>1, PicturesStand, Zenon DEF TestInv
  <2>2. QED
    BY <1>1, <2>1 DEF TestInv, Judging
<1>5. QED
  BY <1>2, <1>3, <1>4, Zenon DEF TestInv

LEMMA JudgeKeeps ==
  ASSUME TestInv, Judge
  PROVE  TestInv'
<1>1. /\ test = "rest" /\ test' = "done" /\ text' = text \o pipe /\ pipe' = <<>>
      /\ verdict' = (IF ~ shot \/ file.pixels = "absent" THEN "no screenshot"
                     ELSE IF Missing(text') = {} /\ file.pixels = "right" THEN "PASS"
                     ELSE "FAIL")
      /\ UNCHANGED <<program, at, screen, qemu, pending, todo, shot, file, late>>
  BY Zenon DEF Judge, guest
<1>2. pipe \in Texts /\ text \in Texts /\ text \o pipe = Printed
  BY DEF TestInv, Reading
<1>3. text' \in Texts /\ text' \o <<>> = text' /\ Range(text) \subseteq Range(text')
  BY <1>1, <1>2, TextConcat
<1>4. Reading'
  <2>1. <<>> \in Texts /\ "done" \in {"loop", "lines", "rest", "done"}
    BY DEF Texts
  <2>2. Printed' = Printed
    BY <1>1, PrintedIs, PrintedAlways, Zenon
  <2>3. QED
    BY <1>1, <1>2, <1>3, <2>1, <2>2, Zenon DEF TestInv, Reading
<1>5. Searching'
  BY <1>1, <1>3 DEF TestInv, Searching
<1>6. Pictures'
  BY <1>1, PicturesStand, Zenon DEF TestInv
<1>7. Judging'
  <2>1. Missing(text') = {} => Expect \subseteq Range(text')
    BY DEF Missing
  <2>2. verdict' = "PASS" => Missing(text') = {} /\ shot' /\ file'.pixels = "right"
    BY <1>1
  <2>3. qemu' # "running" /\ pipe' = <<>> /\ test' = "done"
    BY <1>1 DEF TestInv, Judging
  <2>4. QED
    BY <2>1, <2>2, <2>3 DEF Judging
<1>8. QED
  BY <1>4, <1>5, <1>6, <1>7, Zenon DEF TestInv

LEMMA TestInvariant == TestSpec => []TestInv
<1>1. TestInit => TestInv
  BY TestStarts
<1>2. TestInv /\ [TestNext]_testVars => TestInv'
  BY GuestStepKeeps, GuestOffKeeps, DeadlineKeeps, ReadChunkKeeps, SearchLineKeeps,
     ScreendumpKeeps, MonitorFailsKeeps, LoopEndsKeeps, JudgeKeeps, Zenon
  DEF TestNext, HostStep, Done
<1>3. QED
  BY <1>1, <1>2, PTL DEF TestSpec

(* Whatever the guest prints, in whatever pieces it is read and whoever    *)
(* ends first, nothing of it is lost or read twice, and when QEMU exited   *)
(* by itself all of it is judged.                                          *)
THEOREM EverythingJudged == TestSpec => []AllOutputJudged
<1>1. TestInv => AllOutputJudged
  <2> SUFFICES ASSUME TestInv PROVE AllOutputJudged
    OBVIOUS
  <2>1. text \in Texts /\ text \o pipe = Printed
    BY DEF TestInv, Reading
  <2>2. ASSUME verdict \in Verdicts \ {"none", "exception"} PROVE text = Printed
    <3>1. verdict \in {"PASS", "FAIL", "no screenshot"}
      BY <2>2 DEF Verdicts
    <3>2. pipe = <<>>
      BY <3>1, Zenon DEF TestInv, Judging
    <3>3. QED
      BY <2>1, <3>2, TextConcat, Zenon
  <2>3. QED
    BY <2>1, <2>2, Zenon DEF AllOutputJudged
<1>2. QED
  BY <1>1, TestInvariant, PTL

(* PASS is only said of a run whose guest printed every expected line and  *)
(* the trigger, and a screenshot of this run was taken after the trigger   *)
(* and while the guest's right frame was on the screen.                    *)
THEOREM EarnedPass == TestSpec => []PassIsEarned
<1>1. TestInv => PassIsEarned
  <2> SUFFICES ASSUME TestInv, verdict = "PASS"
               PROVE  /\ Expect \subseteq Range(Printed)
                      /\ Trigger \in Range(Printed)
                      /\ shot /\ file.pixels = "right"
                      /\ file.run = "this" =>
                           /\ file.at <= at /\ ShowsRight(file.at)
                           /\ Trigger \in Range(PrintedBy(file.at))
    BY Zenon DEF PassIsEarned
  <2>1. /\ text \in Texts /\ text \o pipe = Printed /\ pipe = <<>>
        /\ Expect \subseteq Range(text) /\ shot /\ file.pixels = "right"
    BY DEF TestInv, Reading, Judging
  <2>2. text = Printed
    BY <2>1, TextConcat, Zenon
  <2>3. file.run = "this" => file.at <= at
    BY DEF TestInv, Reading, Pictures, Texts
  <2>4. QED
    BY <2>1, <2>2, <2>3, Zenon DEF TestInv, Searching, Pictures
<1>2. QED
  BY <1>1, TestInvariant, PTL

(* When the loop waits for more, a complete line with the trigger has led  *)
(* to the screenshot, wherever the chunks were cut.                        *)
THEOREM TriggerFound == TestSpec => []TriggerNotMissed
<1>1. TestInv => TriggerNotMissed
  <2> SUFFICES ASSUME TestInv, test = "loop", Trigger \in Range(CompleteLines(text)) PROVE shot
    BY Zenon DEF TriggerNotMissed
  <2>1. todo = <<>> /\ (shot \/ Trigger \in Range(todo))
    BY DEF TestInv, Searching
  <2>2. QED
    BY <2>1 DEF Range
<1>2. QED
  BY <1>1, TestInvariant, PTL

==============================================================================
