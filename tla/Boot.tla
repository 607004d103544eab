-------------------------------- MODULE Boot --------------------------------
(***************************************************************************)
(* The first half of wana-init's main: the early mounts (mounts.rs), the   *)
(* options from /proc/cmdline (cmdline.rs) and the report on the console.  *)
(* It is sequential; what varies is what the kernel answers.  No answer    *)
(* may stop the boot, and the report must say what really happened.        *)
(***************************************************************************)
EXTENDS Naturals, SequencesExt

CONSTANTS
  Words,      \* the words a command line is made of, as [key, value] records
  MaxWords,   \* bound: words in a command line
  MaxFailed   \* bound: mounts the kernel refuses

ASSUME WordsAssumption == \A w \in Words : DOMAIN w = {"key", "value"}
ASSUME BoundsAssumption == MaxWords \in Nat /\ MaxFailed \in Nat

VARIABLES
  pc,         \* "mounts", "options", "parse", "identity", "report" or "done"
  next,       \* index into EARLY of the loop in early_mounts
  failed,     \* its count of failures
  stack,      \* the kernel's mounts, oldest first, as a sequence of targets
  line,       \* the command line the kernel was given, as it was read
  word,       \* index into line of the loop in parse
  opts,       \* the parsed Options
  maxLevel,   \* wana_log's MAX_LEVEL
  console     \* the records the console shows, each <<record, about>>

vars == <<pc, next, failed, stack, line, word, opts, maxLevel, console>>

(* Fault: the nested mounts come before /dev, which then covers them. *)
EarlyChildrenFirst ==
  <<"/proc", "/sys", "/dev/pts", "/dev/shm", "/dev", "/run", "/tmp">>

(* The targets of EARLY, in order. *)
EARLY == <<"/proc", "/sys", "/dev", "/dev/pts", "/dev/shm", "/run", "/tmp">>

Targets == ToSet(EARLY)

Nested(child, base) == base = "/dev" /\ child \in {"/dev/pts", "/dev/shm"}

(* A mount can be used unless a later mount covers a directory above it. *)
Usable(target) ==
  \E i \in DOMAIN stack :
    /\ stack[i] = target
    /\ \A j \in i + 1 .. Len(stack) : ~ Nested(target, stack[j])

(* Severities: a record is written when its level is at most MAX_LEVEL. *)
LevelOf == [error |-> 0, warn |-> 1, warning |-> 1, info |-> 2, debug |-> 3]

(* What log(level, record) adds to the console. *)
Logged(level, record) == IF LevelOf[level] <= maxLevel THEN {record} ELSE {}

Defaults ==
  [log |-> "info", test |-> "none", shell |-> TRUE, run |-> "none", warnings |-> 0]

(* The values each option understands. *)
Understood ==
  [log   |-> DOMAIN LevelOf,
   test  |-> {"poweroff", "reboot"},
   shell |-> {"0", "off", "no", "1", "on", "yes"},
   run   |-> {"/usr/bin/wana-kms", "/usr/bin/wana-gl"}]

IsUnderstood(w) == w.key \in DOMAIN Understood /\ w.value \in Understood[w.key]

ValueOf(w) == IF w.key = "shell" THEN w.value \in {"1", "on", "yes"} ELSE w.value

(* Fault: an unusable value resets the option before it is reported. *)
ParseWordResets(o, w) ==
  IF w.key = "foreign" THEN o
  ELSE IF IsUnderstood(w) THEN [o EXCEPT ![w.key] = ValueOf(w)]
  ELSE IF w.key \in DOMAIN Understood
       THEN [o EXCEPT ![w.key] = Defaults[w.key], !.warnings = @ + 1]
       ELSE [o EXCEPT !.warnings = @ + 1]

(* parse, one word: words without the wana. prefix ("foreign") are passed  *)
(* over, an understood one replaces the option, any other is a warning.    *)
ParseWord(o, w) ==
  IF w.key = "foreign" THEN o
  ELSE IF IsUnderstood(w) THEN [o EXCEPT ![w.key] = ValueOf(w)]
  ELSE [o EXCEPT !.warnings = @ + 1]

(* The records of this part of the boot that the properties tell apart. *)
Records ==
  ({"mounted", "failed"} \X Targets) \union ({"early mounts"} \X (0 .. Len(EARLY)))
    \union {<<"warning", n>> : n \in 1 .. MaxWords}
    \union {<<w, "">> : w \in {"no options", "hostname", "no hostname", "ready", "degraded"}}

CommandLines == UNION {[1 .. n -> Words] : n \in 0 .. MaxWords}

TypeOK ==
  /\ pc \in {"mounts", "options", "parse", "identity", "report", "done"}
  /\ next \in 1 .. Len(EARLY) + 1
  /\ failed \in 0 .. Len(EARLY)
  /\ stack \in Seq(Targets)
  /\ line \in CommandLines
  /\ word \in 1 .. Len(line) + 1
  /\ opts.warnings \in 0 .. word - 1
  /\ maxLevel \in 0 .. 3
  /\ console \subseteq Records

-----------------------------------------------------------------------------
(* With a disk root the kernel has mounted devtmpfs, with an initramfs not. *)
Init ==
  /\ pc = "mounts"
  /\ next = 1
  /\ failed = 0
  /\ stack \in {<<>>, <<"/dev">>}
  /\ line = <<>> /\ word = 1
  /\ opts = Defaults
  /\ maxLevel = LevelOf["info"]
  /\ console = {}

(* apply(&EARLY[next]): the kernel mounts it, or it is busy because it is  *)
(* mounted already, or the directory or the mount cannot be made.          *)
Mounted ==
  /\ ~ Usable(EARLY[next])
  /\ stack' = Append(stack, EARLY[next])
  /\ console' = console \union Logged("debug", <<"mounted", EARLY[next]>>)
  /\ UNCHANGED failed

AlreadyMounted ==
  /\ Usable(EARLY[next])
  /\ console' = console \union Logged("debug", <<"mounted", EARLY[next]>>)
  /\ UNCHANGED <<stack, failed>>

MountFailed ==
  /\ failed < MaxFailed
  /\ failed' = failed + 1
  /\ console' = console \union Logged("error", <<"failed", EARLY[next]>>)
  /\ UNCHANGED stack

(* early_mounts, one turn of its loop. *)
EarlyMount ==
  /\ pc = "mounts" /\ next <= Len(EARLY)
  /\ Mounted \/ AlreadyMounted \/ MountFailed
  /\ next' = next + 1
  /\ UNCHANGED <<pc, line, word, opts, maxLevel>>

(* Fault: the summary is a debug record, as those of the mounts are. *)
EarlyMountsDoneDebug ==
  /\ pc = "mounts" /\ next > Len(EARLY)
  /\ console' = console \union Logged("debug", <<"early mounts", failed>>)
  /\ pc' = "options"
  /\ UNCHANGED <<next, failed, stack, line, word, opts, maxLevel>>

EarlyMountsDone ==
  /\ pc = "mounts" /\ next > Len(EARLY)
  /\ console' = console \union Logged("info", <<"early mounts", failed>>)
  /\ pc' = "options"
  /\ UNCHANGED <<next, failed, stack, line, word, opts, maxLevel>>

(* Fault: a boot whose /proc cannot be read goes no further. *)
DefaultOptionsStops ==
  /\ pc = "options"
  /\ UNCHANGED vars

(* /proc/cmdline can be read, whatever the kernel was given ... *)
ReadOptions ==
  /\ pc = "options" /\ Usable("/proc")
  /\ line' \in CommandLines
  /\ word' = 1 /\ opts' = Defaults
  /\ pc' = "parse"
  /\ UNCHANGED <<next, failed, stack, maxLevel, console>>

(* ... parse goes through it word by word, and the log level is set. *)
ParseNext ==
  /\ pc = "parse" /\ word <= Len(line)
  /\ opts' = ParseWord(opts, line[word])
  /\ word' = word + 1
  /\ UNCHANGED <<pc, next, failed, stack, line, maxLevel, console>>

ParseDone ==
  /\ pc = "parse" /\ word > Len(line)
  /\ maxLevel' = LevelOf[opts.log]
  /\ pc' = "identity"
  /\ UNCHANGED <<next, failed, stack, line, word, opts, console>>

(* It cannot: a warning, still at the first level, and the defaults. *)
DefaultOptions ==
  /\ pc = "options"
  /\ console' = console \union Logged("warn", <<"no options", "">>)
  /\ opts' = Defaults
  /\ maxLevel' = LevelOf[Defaults.log]
  /\ pc' = "identity"
  /\ UNCHANGED <<next, failed, stack, line, word>>

(* The warnings of parse, logged at the new level; then set_identity: the  *)
(* hostname is set, or it is missing or refused.                           *)
SetIdentity ==
  /\ pc = "identity"
  /\ \E identity \in {Logged("info", <<"hostname", "">>), Logged("warn", <<"no hostname", "">>)} :
       console' = console \union identity \union
         IF opts.warnings = 0 THEN {} ELSE Logged("warn", <<"warning", opts.warnings>>)
  /\ pc' = "report"
  /\ UNCHANGED <<next, failed, stack, line, word, opts, maxLevel>>

(* Fault: a degraded boot is reported with the same severity as a good one. *)
ReportAtInfo ==
  /\ pc = "report"
  /\ console' = console \union Logged("info", <<IF failed = 0 THEN "ready" ELSE "degraded", "">>)
  /\ pc' = "done"
  /\ UNCHANGED <<next, failed, stack, line, word, opts, maxLevel>>

(* ready is an info record, degraded an error record. *)
Report ==
  /\ pc = "report"
  /\ console' = console \union IF failed = 0 THEN Logged("info", <<"ready", "">>)
                               ELSE Logged("error", <<"degraded", "">>)
  /\ pc' = "done"
  /\ UNCHANGED <<next, failed, stack, line, word, opts, maxLevel>>

(* main goes on to run_once with these options: see System. *)
HandOver == pc = "done" /\ UNCHANGED vars

Next ==
  \/ EarlyMount \/ EarlyMountsDone
  \/ ReadOptions \/ ParseNext \/ ParseDone \/ DefaultOptions \/ SetIdentity \/ Report \/ HandOver

Spec == Init /\ [][Next]_vars

-----------------------------------------------------------------------------
(* "ready" on the console can be trusted: every early mount is there and   *)
(* none is covered by another, in the order EARLY mounts them, whether or  *)
(* not the kernel had mounted /dev.                                        *)
ReadyMeansMounted ==
  <<"ready", "">> \in console => \A t \in Targets : Usable(t)

(* A missing mount never goes unreported: not even wana.log=error hides    *)
(* the degraded report and the name of the mount.                          *)
MissingMountReported ==
  \A t \in Targets :
    (pc = "done" /\ ~ Usable(t)) =>
      /\ <<"degraded", "">> \in console
      /\ <<"failed", t>> \in console

(* A good boot always leaves a trace: the summary of the mounts comes      *)
(* before wana.log is read, so no value of it can hide that, while ready,  *)
(* which the boot tests look for, is hidden by error and warn, and only    *)
(* then.                                                                   *)
GoodBootTraced ==
  (pc = "done" /\ failed = 0) =>
    /\ <<"early mounts", 0>> \in console
    /\ <<"ready", "">> \in console <=> opts.log \in {"info", "debug"}

(* The options main acts on are, for each key, the last usable value on    *)
(* the command line, else the default, and each unusable word is counted   *)
(* as a warning, shown unless wana.log=error: a typo never undoes an       *)
(* earlier option or stops the boot.                                       *)
LastUsable(key, words) ==
  LET I == {i \in DOMAIN words : words[i].key = key /\ IsUnderstood(words[i])}
  IN  IF I = {} THEN Defaults[key]
      ELSE ValueOf(words[CHOOSE i \in I : \A j \in I : j <= i])

OptionsObeyed ==
  pc = "done" =>
    /\ \A key \in DOMAIN Understood : opts[key] = LastUsable(key, line)
    /\ opts.warnings = Cardinality({i \in DOMAIN line :
                          line[i].key # "foreign" /\ ~ IsUnderstood(line[i])})
    /\ opts.log # "error" => (<<"warning", opts.warnings>> \in console <=> opts.warnings > 0)

=============================================================================
