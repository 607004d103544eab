----------------------------- MODULE LogConsole -----------------------------
(***************************************************************************)
(* wana-log (src/crates/wana-log/src/lib.rs): processes that filter and    *)
(* format their records and write them to the one console they share.      *)
(* The console is a sequence of pieces: each line of a record is its       *)
(* prefix, then its text with the newline.  One write puts pieces of one   *)
(* process on the console, and no other process gets in between; but it    *)
(* may be short: write_all then writes the rest, and another process may   *)
(* write first.  The kernel prints on the same console whenever it likes,  *)
(* inside a write too (src/platform/board/x86_64/linux.fragment shows such *)
(* a line).  A line that is cut anywhere is cut behind its prefix here:    *)
(* what follows the cut has lost its prefix.                               *)
(***************************************************************************)
EXTENDS Naturals, SequencesExt, FiniteSetsExt, Subsequences

CONSTANTS
  Procs,       \* processes that log to the console
  Envs,        \* what WANA_LOG may hold when a process starts
  RecordLevels,\* the levels of the records they emit
  Messages,    \* their messages, each the sequence split('\n') makes of it
  MaxRecords,  \* bound: records of all processes together
  MaxShort,    \* bound: short writes
  MaxKernel    \* bound: places where the kernel prints

ASSUME MessagesAssumption == Messages \subseteq Seq({"text", "empty"}) \ {<<>>}
ASSUME BoundsAssumption == {MaxRecords, MaxShort, MaxKernel} \subseteq Nat

VARIABLES
  pc,        \* each process: "new", "idle" or "write" (inside write_all)
  maxLevel,  \* each process's MAX_LEVEL
  records,   \* history: the records each has asked log for
  left,      \* what write_all has still to write
  cut,       \* history: records whose write failed, as <<process, index>>
  console,   \* what the console shows, the kernel's lines left out
  kernel,    \* where those stand: the numbers of pieces before them
  shorts     \* short writes so far

vars == <<pc, maxLevel, records, left, cut, console, kernel, shorts>>

Severity == [error |-> 0, warn |-> 1, info |-> 2, debug |-> 3]

Enabled(level, max) == Severity[level] <= Severity[max]

(* trim_end_matches('\n'): the empty lines at the end of a message go, but *)
(* a message always keeps its first line.                                  *)
Lines(message) == Max({1} \union {i \in DOMAIN message : message[i] = "text"})

Piece(p, r, line, part) == [from |-> p, rec |-> r, line |-> line, part |-> part]

(* Fault: only the first line of a record carries the prefix. *)
FormatOnePrefix(p, r, message) ==
  <<Piece(p, r, 1, "prefix")>> \o [i \in 1 .. Lines(message) |-> Piece(p, r, i, "text")]

(* format_record of process p's record number r: the same prefix on every  *)
(* line, a newline after every line.                                       *)
Format(p, r, message) ==
  [k \in 1 .. 2 * Lines(message) |->
     IF k % 2 = 1 THEN Piece(p, r, (k + 1) \div 2, "prefix")
     ELSE Piece(p, r, k \div 2, "text")]

Formatted(p, r) == Format(p, r, records[p][r].message)

(* Records asked for so far. *)
Asked == MapThenSumSet(LAMBDA p : Len(records[p]), Procs)

-----------------------------------------------------------------------------
Init ==
  /\ pc = [p \in Procs |-> "new"]
  /\ maxLevel = [p \in Procs |-> "info"]
  /\ records = [p \in Procs |-> <<>>]
  /\ left = [p \in Procs |-> <<>>]
  /\ cut = {}
  /\ console = <<>>
  /\ kernel = {}
  /\ shorts = 0

(* log: a record above MAX_LEVEL is dropped at once; any other is          *)
(* formatted as a whole before anything of it is written.                  *)
Log(p, level, message, max) ==
  LET r == Len(records[p]) + 1
      go == Enabled(level, max)
  IN  /\ Asked < MaxRecords
      /\ records' = [records EXCEPT ![p] =
                       Append(@, [level |-> level, max |-> max, message |-> message])]
      /\ left' = [left EXCEPT ![p] = IF go THEN Format(p, r, message) ELSE <<>>]
      /\ pc' = [pc EXCEPT ![p] = IF go THEN "write" ELSE "idle"]
      /\ UNCHANGED <<cut, console, kernel, shorts>>

(* init_from_env with a value that is no level: the default is kept and a  *)
(* warning goes through log like any other record.                         *)
StartBad(p) ==
  /\ pc[p] = "new"
  /\ \E m \in Messages : Log(p, "warn", m, maxLevel[p])
  /\ UNCHANGED maxLevel

(* init_from_env with a level, and without the variable, which is how      *)
(* wana-init starts every program and shell (env_clear).                   *)
Start(p) ==
  /\ pc[p] = "new"
  /\ \E e \in Envs \intersect DOMAIN Severity : maxLevel' = [maxLevel EXCEPT ![p] = e]
  /\ pc' = [pc EXCEPT ![p] = "idle"]
  /\ UNCHANGED <<records, left, cut, console, kernel, shorts>>

StartUnset(p) ==
  /\ pc[p] = "new"
  /\ pc' = [pc EXCEPT ![p] = "idle"]
  /\ UNCHANGED <<maxLevel, records, left, cut, console, kernel, shorts>>

Emit(p) ==
  /\ pc[p] = "idle"
  /\ \E level \in RecordLevels, m \in Messages : Log(p, level, m, maxLevel[p])
  /\ UNCHANGED maxLevel

(* set_max_level in a running process: wana-init, once it knows wana.log. *)
SetMaxLevel(p) ==
  /\ pc[p] = "idle"
  /\ \E e \in Envs \intersect DOMAIN Severity : maxLevel' = [maxLevel EXCEPT ![p] = e]
  /\ UNCHANGED <<pc, records, left, cut, console, kernel, shorts>>

(* write_all loops while there is something to write. *)
Writing(p) == pc[p] = "write" /\ left[p] # <<>>

(* Lines of the kernel at the places ps. *)
KernelPrints(ps) ==
  /\ kernel' = kernel \union ps
  /\ Cardinality(kernel') <= MaxKernel

(* One write puts c on the console, and the kernel may print inside it. *)
Put(c) ==
  /\ console' = console \o c
  /\ \E ps \in SUBSET (Len(console) + 1 .. Len(console) + Len(c) - 1) : KernelPrints(ps)

(* Fault: the lines of a record are written one by one. *)
WriteByLine(p) ==
  /\ Writing(p)
  /\ Put(SubSeq(left[p], 1, Min({2, Len(left[p])})))
  /\ left' = [left EXCEPT ![p] = SubSeq(@, 3, Len(@))]
  /\ pc' = [pc EXCEPT ![p] = IF left'[p] = <<>> THEN "idle" ELSE "write"]
  /\ UNCHANGED <<maxLevel, records, cut, shorts>>

(* write_all, one write(2) that takes everything ... *)
WriteRest(p) ==
  /\ Writing(p)
  /\ Put(left[p])
  /\ left' = [left EXCEPT ![p] = <<>>]
  /\ pc' = [pc EXCEPT ![p] = "idle"]
  /\ UNCHANGED <<maxLevel, records, cut, shorts>>

(* Fault: after a short write write_all starts again from the beginning. *)
WriteShortAgain(p) ==
  /\ Writing(p) /\ shorts < MaxShort
  /\ \E n \in 1 .. Len(left[p]) - 1 : Put(SubSeq(left[p], 1, n))
  /\ shorts' = shorts + 1
  /\ UNCHANGED <<pc, maxLevel, records, left, cut>>

(* ... and one that takes only the first pieces.  A write that is          *)
(* interrupted before it wrote anything is retried and changes nothing.    *)
WriteShort(p) ==
  /\ Writing(p) /\ shorts < MaxShort
  /\ \E n \in 1 .. Len(left[p]) - 1 :
       /\ Put(SubSeq(left[p], 1, n))
       /\ left' = [left EXCEPT ![p] = SubSeq(@, n + 1, Len(@))]
  /\ shorts' = shorts + 1
  /\ UNCHANGED <<pc, maxLevel, records, cut>>

(* Any other error ends write_all; log ignores it and the rest is lost. *)
WriteFails(p) ==
  /\ Writing(p)
  /\ cut' = cut \union {<<p, Len(records[p])>>}
  /\ left' = [left EXCEPT ![p] = <<>>]
  /\ pc' = [pc EXCEPT ![p] = "idle"]
  /\ UNCHANGED <<maxLevel, records, console, kernel, shorts>>

(* The kernel prints between two writes. *)
KernelLine == KernelPrints({Len(console)}) /\ UNCHANGED <<pc, maxLevel, records, left, cut, console, shorts>>

(* Nobody has to log: all may be quiet, for good once the bound is reached. *)
Quiet ==
  /\ \A p \in Procs : ~ Writing(p)
  /\ UNCHANGED vars

Next ==
  \/ \E p \in Procs :
       \/ Start(p) \/ StartUnset(p) \/ ("bad" \in Envs /\ StartBad(p))
       \/ Emit(p) \/ SetMaxLevel(p) \/ WriteRest(p) \/ WriteShort(p) \/ WriteFails(p)
  \/ KernelLine
  \/ Quiet

Spec == Init /\ [][Next]_vars

-----------------------------------------------------------------------------
(* The pieces of one record on the console, in the order they got there. *)
Shown(p, r) ==
  Among(console, {piece \in ToSet(console) : piece.from = p /\ piece.rec = r})

(* What the level in force at the call lets through appears exactly once   *)
(* and whole, unless its write failed, and then as a prefix; what it does  *)
(* not let through never appears; the records of one process keep their    *)
(* order.  Short writes, failed writes of other records and the writes of  *)
(* other processes change none of it.                                      *)
RecordsFaithful ==
  \A p \in Procs :
    /\ \A r \in DOMAIN records[p] :
         IF ~ (Severity[records[p][r].level] <= Severity[records[p][r].max])
         THEN Shown(p, r) = <<>>
         ELSE /\ IsPrefix(Shown(p, r), Formatted(p, r))
              /\ \/ Shown(p, r) = Formatted(p, r)
                 \/ <<p, r>> \in cut
                 \/ r = Len(records[p]) /\ pc[p] = "write"
    /\ \A i, j \in DOMAIN console :
         (i < j /\ console[i].from = p /\ console[j].from = p)
           => console[i].rec <= console[j].rec

(* Where a record is broken off by another: its next piece is not the next *)
(* that a process puts on the console.                                     *)
Breaks ==
  {i \in DOMAIN console :
     LET piece == console[i]
         whole == Formatted(piece.from, piece.rec)
     IN  /\ piece # Last(whole)
         /\ i < Len(console)
         /\ ~ \E k \in DOMAIN whole : whole[k] = piece /\ console[i + 1] = whole[k + 1]}

(* Only a short write can let one record into another: n short writes      *)
(* break records off in at most n places, however many processes write,    *)
(* whatever fails and wherever the kernel prints.                          *)
OnlyShortWritesMix == Cardinality(Breaks) <= shorts

(* Texts that do not stand directly behind the prefix of their line.       *)
Headless ==
  {i \in DOMAIN console :
     /\ console[i].part = "text"
     /\ ~ (i > 1 /\ i - 1 \notin kernel /\ console[i - 1] = [console[i] EXCEPT !.part = "prefix"])}

(* Prefixes that do not stand at the start of a line: a prefix is all of   *)
(* the line before them, its text was never written or comes later.        *)
Glued ==
  {i \in DOMAIN console :
     /\ console[i].part = "prefix"
     /\ i > 1 /\ i - 1 \notin kernel /\ console[i - 1].part = "prefix"}

(* "Every output line stays greppable by tag", and what it costs: a line   *)
(* of the kernel and a short write take the prefix off one line each, and  *)
(* a short write, its rest written or lost, has one record start inside    *)
(* the line of another.  Nothing else does either.                         *)
EveryLineGreppable ==
  /\ Cardinality(Headless) <= shorts + Cardinality(kernel)
  /\ Cardinality(Glued) <= shorts

(* The module's doc: "each record written in a single write call so lines  *)
(* from concurrent processes sharing a console do not interleave".         *)
NoInterleaving ==
  \A i, j, k \in DOMAIN console :
    (i < j /\ j < k /\ console[k] = [console[i] EXCEPT !.part = "text"])
      => console[j].from = console[i].from

=============================================================================
