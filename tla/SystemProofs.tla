---------------------------- MODULE SystemProofs ----------------------------
(***************************************************************************)
(* PID 1 as a whole, for any process ids, command lines and failures: the  *)
(* system is a boot and it is a wana-init, so that what holds of either    *)
(* holds of it; and the command line is obeyed to its end.                 *)
(***************************************************************************)
EXTENDS System, FiniteSetTheorems, TLAPS

-----------------------------------------------------------------------------
(* The boot, for command lines of any length over any words, and any       *)
(* number of refused mounts.  Its inductive invariant follows the three    *)
(* loops: the mounts made so far, the words parsed so far, the console so  *)
(* far.                                                                    *)

Basics ==
  /\ pc \in {"mounts", "options", "parse", "identity", "report", "done"}
  /\ next \in 1 .. 8
  /\ failed \in 0 .. next - 1
  /\ stack \in Seq(Targets)
  /\ pc # "mounts" => next = 8
  /\ pc \in {"mounts", "options"} => maxLevel = 2

(* early_mounts, up to the next mount. *)
MountsSoFar ==
  /\ failed = 0 => \A i \in 1 .. next - 1 : Usable(EARLY[i])
  /\ \A i \in 1 .. next - 1 : Usable(EARLY[i]) \/ <<"failed", EARLY[i]>> \in console

(* The options as parse left them, and the level they ask for. *)
Levels ==
  /\ DOMAIN opts = {"log", "test", "shell", "run", "warnings"}
  /\ opts.log \in {"error", "warn", "warning", "info", "debug"}
  /\ opts.warnings \in Nat
  /\ pc \in {"identity", "report", "done"} => maxLevel = LevelOf[opts.log]

(* The records so far. *)
Reports ==
  /\ pc # "mounts" => <<"early mounts", failed>> \in console
  /\ <<"ready", "">> \in console <=> (pc = "done" /\ failed = 0 /\ maxLevel >= 2)
  /\ (pc = "done" /\ failed # 0) => <<"degraded", "">> \in console
  /\ \A n \in Nat : <<"warning", n>> \in console <=>
       /\ pc \in {"report", "done"}
       /\ n = opts.warnings /\ n > 0 /\ maxLevel >= 1

(* parse, up to the next word. *)
Uses(i, key) == line[i].key = key /\ IsUnderstood(line[i])
Bad(i) == line[i].key # "foreign" /\ ~ IsUnderstood(line[i])

Follows(key, n) ==
  \/ (\A i \in 1 .. n - 1 : ~ Uses(i, key)) /\ opts[key] = Defaults[key]
  \/ \E i \in 1 .. n - 1 :
       /\ Uses(i, key) /\ opts[key] = ValueOf(line[i])
       /\ \A j \in 1 .. n - 1 : Uses(j, key) => j <= i

Counts(n) ==
  LET S == {i \in 1 .. n - 1 : Bad(i)}
  IN  IsFiniteSet(S) /\ opts.warnings = Cardinality(S)

WordsSoFar ==
  /\ line \in Seq(Words) /\ word \in 1 .. Len(line) + 1
  /\ pc \in {"mounts", "options"} => line = <<>> /\ word = 1
  /\ pc \in {"identity", "report", "done"} => word = Len(line) + 1
  /\ \A key \in {"log", "test", "shell", "run"} : Follows(key, word)
  /\ Counts(word)

-----------------------------------------------------------------------------
LEMMA Early ==
  /\ EARLY \in Seq(Targets) /\ Len(EARLY) = 7
  /\ Targets = {EARLY[i] : i \in 1 .. 7}
BY DEF EARLY, Targets, ToSet

(* Mounting another directory leaves a mount usable, unless it is above.   *)
LEMMA UsableKept ==
  ASSUME NEW t \in Targets, NEW m \in Targets, stack \in Seq(Targets),
         stack' = Append(stack, m), Usable(t), ~ Nested(t, m)
  PROVE  Usable(t)'
<1>1. PICK i \in DOMAIN stack :
        stack[i] = t /\ \A j \in i + 1 .. Len(stack) : ~ Nested(t, stack[j])
  BY DEF Usable
<1>2. /\ i \in DOMAIN stack' /\ stack'[i] = t /\ Len(stack') = Len(stack) + 1
      /\ \A j \in 1 .. Len(stack) : stack'[j] = stack[j]
      /\ stack'[Len(stack) + 1] = m
  BY <1>1
<1>3. \A j \in i + 1 .. Len(stack') : ~ Nested(t, stack'[j])
  BY <1>1, <1>2
<1>4. QED
  BY <1>2, <1>3 DEF Usable, Nested

LEMMA UsableNew ==
  ASSUME NEW m \in Targets, stack \in Seq(Targets), stack' = Append(stack, m)
  PROVE  Usable(m)'
<1>1. /\ Len(stack) + 1 \in DOMAIN stack' /\ stack'[Len(stack) + 1] = m
      /\ Len(stack') = Len(stack) + 1
  OBVIOUS
<1>2. QED
  BY <1>1 DEF Usable, Nested

-----------------------------------------------------------------------------
LEMMA InitBasics == Init => Basics /\ MountsSoFar
<1>1. SUFFICES ASSUME Init PROVE Basics /\ MountsSoFar
  OBVIOUS
<1>2. stack \in Seq(Targets)
  <2>1. "/dev" \in Targets
    BY DEF Targets, EARLY, ToSet
  <2>2. stack = <<>> \/ stack = <<"/dev">>
    BY <1>1 DEF Init
  <2>3. QED
    <3>1. <<>> \in Seq(Targets)
      OBVIOUS
    <3>2. <<"/dev">> \in Seq(Targets)
      BY <2>1
    <3>3. QED
      BY <2>2, <3>1, <3>2
<1>3. next = 1 /\ failed = 0 /\ maxLevel = 2 /\ pc = "mounts"
  BY <1>1 DEF Init, LevelOf
<1>4. QED
  BY <1>2, <1>3 DEF Basics, MountsSoFar

LEMMA BasicsNext == Basics /\ [Next]_vars => Basics'
<1>1. SUFFICES ASSUME Basics, [Next]_vars PROVE Basics'
  OBVIOUS
<1>2. CASE EarlyMount
  <2>1. next <= 7 /\ next \in 1 .. 7 /\ EARLY[next] \in Targets
    BY <1>1, <1>2, Early DEF Basics, EarlyMount
  <2>2. stack' \in Seq(Targets)
    <3>1. stack \in Seq(Targets)
      BY <1>1 DEF Basics
    <3>2. stack' = stack \/ stack' = Append(stack, EARLY[next])
      BY <1>2 DEF EarlyMount, Mounted, AlreadyMounted, MountFailed
    <3>3. QED
      BY <2>1, <3>1, <3>2
  <2>3. failed' = failed \/ failed' = failed + 1
    BY <1>2 DEF EarlyMount, Mounted, AlreadyMounted, MountFailed
  <2>4. QED
    BY <1>1, <1>2, <2>1, <2>2, <2>3 DEF Basics, EarlyMount
<1>3. CASE EarlyMountsDone
  <2>1. next = 8
    <3>1. next \in 1 .. 8
      BY <1>1 DEF Basics
    <3>2. next > Len(EARLY)
      BY <1>3 DEF EarlyMountsDone
    <3>3. QED
      BY <3>1, <3>2, Early
  <2>2. QED
    BY <1>1, <1>3, <2>1 DEF Basics, EarlyMountsDone
<1>4. CASE ReadOptions \/ ParseNext \/ ParseDone \/ DefaultOptions
  BY <1>1, <1>4 DEF Basics, ReadOptions, ParseNext, ParseDone, DefaultOptions
<1>5. CASE SetIdentity \/ Report \/ HandOver \/ UNCHANGED vars
  BY <1>1, <1>5 DEF Basics, SetIdentity, Report, HandOver, vars
<1>6. QED
  BY <1>1, <1>2, <1>3, <1>4, <1>5 DEF Next

(* Everything but a mount leaves the mounts alone. *)
LEMMA MountsNext == Basics /\ MountsSoFar /\ [Next]_vars => MountsSoFar'
<1>1. SUFFICES ASSUME Basics, MountsSoFar, [Next]_vars PROVE MountsSoFar'
  OBVIOUS
<1>2. CASE EarlyMount
  <2>1. /\ next \in 1 .. 7 /\ next' = next + 1 /\ EARLY[next] \in Targets
        /\ stack \in Seq(Targets) /\ failed \in Nat
        /\ \A i \in 1 .. next : EARLY[i] \in Targets
    BY <1>1, <1>2, Early DEF Basics, EarlyMount
  <2> PICK m \in Targets : m = EARLY[next]
    BY <2>1
  <2>2. \A i \in 1 .. next - 1 : ~ Nested(EARLY[i], m)
    BY <2>1 DEF Nested, EARLY
  <2>3. CASE Mounted
    <3>1. stack' = Append(stack, m) /\ failed' = failed /\ console \subseteq console'
      BY <2>3 DEF Mounted
    <3>2. \A i \in 1 .. next - 1 : Usable(EARLY[i]) => Usable(EARLY[i])'
      BY <2>1, <2>2, <3>1, UsableKept
    <3>3. Usable(m)'
      BY <2>1, <3>1, UsableNew
    <3>4. QED
      BY <1>1, <2>1, <3>1, <3>2, <3>3 DEF MountsSoFar
  <2>4. CASE AlreadyMounted
    <3>1. stack' = stack /\ failed' = failed /\ console \subseteq console' /\ Usable(m)
      BY <2>4 DEF AlreadyMounted
    <3>2. \A t : Usable(t)' = Usable(t)
      BY <3>1 DEF Usable
    <3>3. QED
      BY <1>1, <2>1, <3>1, <3>2 DEF MountsSoFar
  <2>5. CASE MountFailed
    <3>1. stack' = stack /\ failed' = failed + 1 /\ console \subseteq console'
      BY <2>5 DEF MountFailed
    <3>2. <<"failed", m>> \in console'
      <4>1. pc = "mounts" /\ maxLevel = 2
        BY <1>1, <1>2 DEF Basics, EarlyMount
      <4>2. QED
        BY <2>5, <4>1 DEF MountFailed, Logged, LevelOf
    <3>3. \A t : Usable(t)' = Usable(t)
      BY <3>1 DEF Usable
    <3>4. QED
      BY <1>1, <2>1, <3>1, <3>2, <3>3 DEF MountsSoFar
  <2>6. QED
    BY <1>2, <2>3, <2>4, <2>5 DEF EarlyMount
<1>3. CASE ~ EarlyMount
  <2>1. stack' = stack /\ failed' = failed /\ next' = next /\ console \subseteq console'
    BY <1>1, <1>3 DEF Next, EarlyMountsDone, ReadOptions, ParseNext, ParseDone,
       DefaultOptions, SetIdentity, Report, HandOver, vars
  <2>2. \A t : Usable(t)' = Usable(t)
    BY <2>1 DEF Usable
  <2>3. QED
    BY <1>1, <2>1, <2>2 DEF MountsSoFar
<1>4. QED
  BY <1>2, <1>3

-----------------------------------------------------------------------------
(* The options: parse touches only the option the word names. *)
LEMMA Keys ==
  /\ DOMAIN Understood = {"log", "test", "shell", "run"}
  /\ DOMAIN LevelOf = {"error", "warn", "warning", "info", "debug"}
  /\ DOMAIN Defaults = {"log", "test", "shell", "run", "warnings"}
  /\ Understood["log"] = {"error", "warn", "warning", "info", "debug"}
BY DEF Understood, LevelOf, Defaults

LEMMA ParseWordResult ==
  ASSUME NEW o, NEW w, DOMAIN o = {"log", "test", "shell", "run", "warnings"}
  PROVE  LET r == ParseWord(o, w)
             keys == {"log", "test", "shell", "run"}
             bad == w.key # "foreign" /\ ~ IsUnderstood(w)
         IN  /\ DOMAIN r = DOMAIN o
             /\ \A key \in keys :
                  r[key] = IF w.key = key /\ IsUnderstood(w) THEN ValueOf(w) ELSE o[key]
             /\ r.warnings = IF bad THEN o.warnings + 1 ELSE o.warnings
<1>1. CASE w.key = "foreign"
  BY <1>1, Keys DEF ParseWord, IsUnderstood
<1>2. CASE w.key # "foreign" /\ IsUnderstood(w)
  <2>1. ParseWord(o, w) = [o EXCEPT ![w.key] = ValueOf(w)]
    BY <1>2 DEF ParseWord
  <2>2. w.key \in {"log", "test", "shell", "run"}
    BY <1>2, Keys DEF IsUnderstood
  <2>3. QED
    BY <1>2, <2>1, <2>2
<1>3. CASE w.key # "foreign" /\ ~ IsUnderstood(w)
  <2>1. ParseWord(o, w) = [o EXCEPT !.warnings = @ + 1]
    BY <1>3 DEF ParseWord
  <2>2. QED
    BY <1>3, <2>1
<1>4. QED
  BY <1>1, <1>2, <1>3

LEMMA InitRest == Init => Levels /\ Reports /\ WordsSoFar
<1>1. SUFFICES ASSUME Init PROVE Levels /\ Reports /\ WordsSoFar
  OBVIOUS
<1>2. Levels /\ Reports
  BY <1>1 DEF Init, Levels, Reports, Defaults
<1>3. WordsSoFar
  <2>1. line = <<>> /\ word = 1 /\ opts = Defaults /\ pc = "mounts"
    BY <1>1 DEF Init
  <2>2. line \in Seq(Words) /\ word \in 1 .. Len(line) + 1
    BY <2>1
  <2>3. \A key \in {"log", "test", "shell", "run"} : Follows(key, word)
    BY <2>1 DEF Follows
  <2>4. Counts(word)
    <3>1. {i \in 1 .. word - 1 : Bad(i)} = {}
      BY <2>1
    <3>2. opts.warnings = 0
      BY <2>1 DEF Defaults
    <3>3. QED
      BY <3>1, <3>2, FS_EmptySet DEF Counts
  <2>5. QED
    BY <2>1, <2>2, <2>3, <2>4 DEF WordsSoFar
<1>4. QED
  BY <1>2, <1>3

LEMMA LevelsNext == Basics /\ Levels /\ [Next]_vars => Levels'
<1>1. SUFFICES ASSUME Basics, Levels, [Next]_vars PROVE Levels'
  OBVIOUS
<1>2. CASE ReadOptions \/ DefaultOptions
  <2>1. opts' = Defaults
    BY <1>2 DEF ReadOptions, DefaultOptions
  <2>2. pc' = "parse" \/ (pc' = "identity" /\ maxLevel' = LevelOf[Defaults.log])
    BY <1>2 DEF ReadOptions, DefaultOptions
  <2>3. /\ DOMAIN Defaults = {"log", "test", "shell", "run", "warnings"}
        /\ Defaults.log = "info" /\ Defaults.warnings = 0
    BY DEF Defaults
  <2>4. QED
    BY <2>1, <2>2, <2>3 DEF Levels
<1>3. CASE ParseNext
  <2> DEFINE w == line[word]
  <2>1. opts' = ParseWord(opts, w) /\ pc' = "parse"
    BY <1>3 DEF ParseNext
  <2>2. /\ DOMAIN opts' = DOMAIN opts
        /\ opts'["log"] = IF w.key = "log" /\ IsUnderstood(w) THEN ValueOf(w) ELSE opts["log"]
        /\ opts'.warnings \in {opts.warnings, opts.warnings + 1}
    BY <1>1, <2>1, ParseWordResult DEF Levels
  <2>3. (w.key = "log" /\ IsUnderstood(w)) => ValueOf(w) \in Understood["log"]
    BY DEF IsUnderstood, ValueOf
  <2>4. QED
    BY <1>1, <2>1, <2>2, <2>3, Keys DEF Levels
<1>4. CASE EarlyMount \/ EarlyMountsDone \/ ParseDone \/ SetIdentity \/ Report \/ HandOver
           \/ UNCHANGED vars
  BY <1>1, <1>4 DEF Basics, Levels, EarlyMount, EarlyMountsDone, ParseDone, SetIdentity,
     Report, HandOver, vars
<1>5. QED
  BY <1>1, <1>2, <1>3, <1>4 DEF Next

LEMMA LoggedAt ==
  ASSUME NEW r, maxLevel \in Nat
  PROVE  /\ Logged("error", r) = {r}
         /\ Logged("warn", r) = IF maxLevel >= 1 THEN {r} ELSE {}
         /\ Logged("info", r) = IF maxLevel >= 2 THEN {r} ELSE {}
<1>1. LevelOf["error"] = 0 /\ LevelOf["warn"] = 1 /\ LevelOf["info"] = 2
  BY DEF LevelOf
<1>2. QED
  BY <1>1 DEF Logged

(* What each record of the console stands for. *)
LEMMA ReportsNext == Basics /\ Levels /\ Reports /\ [Next]_vars => Reports'
<1>1. SUFFICES ASSUME Basics, Levels, Reports, [Next]_vars PROVE Reports'
  OBVIOUS
<1>2. CASE EarlyMount
  <2>1. /\ console \subseteq console'
        /\ \A r \in console' \ console : r = <<"mounted", EARLY[next]>> \/ r = <<"failed", EARLY[next]>>
    BY <1>2 DEF EarlyMount, Mounted, AlreadyMounted, MountFailed, Logged
  <2>2. /\ <<"ready", "">> \in console' <=> <<"ready", "">> \in console
        /\ \A n \in Nat : <<"warning", n>> \in console' <=> <<"warning", n>> \in console
    BY <2>1
  <2>3. QED
    BY <1>1, <1>2, <2>2 DEF EarlyMount, Reports
<1>3. CASE EarlyMountsDone
  <2>1. console' = console \union {<<"early mounts", failed>>}
    <3>1. pc = "mounts" /\ console' = console \union Logged("info", <<"early mounts", failed>>)
      BY <1>3 DEF EarlyMountsDone
    <3>2. maxLevel = 2
      BY <1>1, <3>1 DEF Basics
    <3>3. \A r : Logged("info", r) = {r}
      BY <3>2, LoggedAt
    <3>4. QED
      BY <3>1, <3>3, Zenon
  <2>2. /\ <<"ready", "">> \in console' <=> <<"ready", "">> \in console
        /\ \A n \in Nat : <<"warning", n>> \in console' <=> <<"warning", n>> \in console
    BY <2>1
  <2>3. QED
    BY <1>1, <1>3, <2>1, <2>2 DEF EarlyMountsDone, Reports
<1>4. CASE ReadOptions \/ ParseNext \/ ParseDone
  <2>1. /\ console' = console /\ failed' = failed
        /\ pc \in {"options", "parse"} /\ pc' \in {"parse", "identity"}
    BY <1>4 DEF ReadOptions, ParseNext, ParseDone
  <2>2. QED
    BY <1>1, <2>1 DEF Reports
<1>5. CASE DefaultOptions
  <2>1. /\ console \subseteq console' /\ \A r \in console' \ console : r = <<"no options", "">>
        /\ failed' = failed /\ pc = "options" /\ pc' = "identity"
    BY <1>5 DEF DefaultOptions, Logged
  <2>2. /\ <<"ready", "">> \in console' <=> <<"ready", "">> \in console
        /\ \A n \in Nat : <<"warning", n>> \in console' <=> <<"warning", n>> \in console
    BY <2>1
  <2>3. QED
    BY <1>1, <2>1, <2>2 DEF Reports
<1>6. CASE SetIdentity
  <2> DEFINE warned == IF opts.warnings = 0 THEN {} ELSE Logged("warn", <<"warning", opts.warnings>>)
  <2>1. PICK i : /\ i \subseteq {<<"hostname", "">>, <<"no hostname", "">>}
                 /\ console' = (console \union i) \union warned
    <3>1. \A l, r : Logged(l, r) \subseteq {r}
      BY DEF Logged
    <3>2. PICK i \in {Logged("info", <<"hostname", "">>), Logged("warn", <<"no hostname", "">>)} :
            console' = (console \union i) \union warned
      BY <1>6 DEF SetIdentity
    <3>3. QED
      BY <3>1, <3>2
  <2>2. /\ pc = "identity" /\ pc' = "report"
        /\ failed' = failed /\ opts' = opts /\ maxLevel' = maxLevel
    BY <1>6 DEF SetIdentity
  <2>3. warned = IF opts.warnings > 0 /\ maxLevel >= 1 THEN {<<"warning", opts.warnings>>} ELSE {}
    <3>1. opts.warnings \in Nat /\ maxLevel \in 0 .. 3
      BY <1>1, <2>2 DEF Levels, LevelOf
    <3>2. QED
      BY <3>1 DEF Logged, LevelOf
  <2>4. /\ <<"ready", "">> \in console' <=> <<"ready", "">> \in console
        /\ \A n \in Nat : <<"warning", n>> \in console' <=>
             (<<"warning", n>> \in console \/ (n = opts.warnings /\ n > 0 /\ maxLevel >= 1))
    <3> HIDE DEF warned
    <3>1. \A r \in i : r = <<"hostname", "">> \/ r = <<"no hostname", "">>
      BY <2>1
    <3>2. opts.warnings \in Nat
      BY <1>1 DEF Levels
    <3>3. <<"ready", "">> \in console' <=> <<"ready", "">> \in console
      BY <2>1, <2>3, <3>1
    <3>4. ASSUME NEW n \in Nat
          PROVE  <<"warning", n>> \in console' <=>
                   (<<"warning", n>> \in console \/ (n = opts.warnings /\ n > 0 /\ maxLevel >= 1))
      BY <2>1, <2>3, <3>1, <3>2
    <3>5. QED
      BY <3>3, <3>4
  <2>5. console \subseteq console'
    BY <2>1
  <2>6. QED
    BY <1>1, <2>2, <2>4, <2>5 DEF Reports
<1>7. CASE Report
  <2>1. /\ pc = "report" /\ pc' = "done"
        /\ failed' = failed /\ opts' = opts /\ maxLevel' = maxLevel
    BY <1>7 DEF Report
  <2>2. maxLevel \in 0 .. 3
    BY <1>1, <2>1 DEF Levels, LevelOf
  <2>3. console' = console \union IF failed = 0 THEN IF maxLevel >= 2 THEN {<<"ready", "">>} ELSE {}
                                  ELSE {<<"degraded", "">>}
    <3>1. console' = console \union IF failed = 0 THEN Logged("info", <<"ready", "">>)
                                    ELSE Logged("error", <<"degraded", "">>)
      BY <1>7 DEF Report
    <3>2. \A r : /\ Logged("error", r) = {r}
                 /\ Logged("info", r) = IF maxLevel >= 2 THEN {r} ELSE {}
      BY <2>2, LoggedAt
    <3>3. QED
      BY <3>1, <3>2, Zenon
  <2>4. \A n \in Nat : <<"warning", n>> \in console' <=> <<"warning", n>> \in console
    BY <2>3
  <2>5. <<"ready", "">> \in console' <=>
          (<<"ready", "">> \in console \/ (failed = 0 /\ maxLevel >= 2))
    BY <2>3
  <2>6. failed # 0 => <<"degraded", "">> \in console'
    BY <2>3
  <2>7. console \subseteq console'
    BY <2>3
  <2>8. QED
    BY <1>1, <2>1, <2>4, <2>5, <2>6, <2>7 DEF Reports
<1>8. CASE HandOver \/ UNCHANGED vars
  BY <1>1, <1>8 DEF HandOver, vars, Reports
<1>9. QED
  BY <1>1, <1>2, <1>3, <1>4, <1>5, <1>6, <1>7, <1>8 DEF Next

(* One turn of the loop of parse. *)
LEMMA WordsNext == Basics /\ Levels /\ WordsSoFar /\ [Next]_vars => WordsSoFar'
<1>1. SUFFICES ASSUME Basics, Levels, WordsSoFar, [Next]_vars PROVE WordsSoFar'
  OBVIOUS
<1>2. CASE ReadOptions
  <2>1. /\ line' \in CommandLines /\ word' = 1 /\ opts' = Defaults /\ pc' = "parse"
    BY <1>2 DEF ReadOptions
  <2>2. line' \in Seq(Words) /\ word' \in 1 .. Len(line') + 1
    BY <2>1 DEF CommandLines
  <2>3. \A key \in {"log", "test", "shell", "run"} : Follows(key, word)'
    BY <2>1 DEF Follows
  <2>4. Counts(word)'
    <3>1. {i \in 1 .. word' - 1 : Bad(i)'} = {}
      BY <2>1
    <3>2. opts'.warnings = 0
      BY <2>1 DEF Defaults
    <3>3. QED
      BY <3>1, <3>2, FS_EmptySet DEF Counts
  <2>5. QED
    BY <2>1, <2>2, <2>3, <2>4 DEF WordsSoFar
<1>3. CASE ParseNext
  <2> DEFINE w == line[word]
             keys == {"log", "test", "shell", "run"}
  <2>1. /\ line' = line /\ word' = word + 1 /\ pc' = "parse"
        /\ line \in Seq(Words) /\ word \in 1 .. Len(line)
    BY <1>1, <1>3 DEF ParseNext, WordsSoFar
  <2>2. /\ \A key \in keys :
             opts'[key] = IF Uses(word, key) THEN ValueOf(w) ELSE opts[key]
        /\ opts'.warnings = IF Bad(word) THEN opts.warnings + 1 ELSE opts.warnings
    BY <1>1, <1>3, ParseWordResult DEF ParseNext, Levels, Uses, Bad
  <2>3. \A i, key : (Uses(i, key)' <=> Uses(i, key)) /\ (Bad(i)' <=> Bad(i))
    BY <2>1 DEF Uses, Bad
  <2>w. word \in Nat /\ word >= 1 /\ word' = word + 1
    <3>1. Len(line) \in Nat
      BY <2>1
    <3>2. QED
      BY <2>1, <3>1
  <2>4. ASSUME NEW key \in keys PROVE Follows(key, word)'
    <3>1. Follows(key, word)
      BY <1>1 DEF WordsSoFar
    <3>2. CASE Uses(word, key)
      <4>1. opts'[key] = ValueOf(w)
        BY <2>2, <3>2
      <4> PICK n \in 1 .. word' - 1 : n = word
        BY <2>w
      <4>2. \A j \in 1 .. word' - 1 : j <= n
        BY <2>w
      <4>3. line'[n] = w
        BY <2>1
      <4>4. Uses(n, key)'
        BY <2>3, <3>2
      <4>5. QED
        BY <2>1, <4>1, <4>2, <4>3, <4>4 DEF Follows
    <3>3. CASE ~ Uses(word, key)
      <4>1. opts'[key] = opts[key] /\ line' = line
        BY <2>1, <2>2, <3>3
      <4>2. \A j \in 1 .. word' - 1 : j \in 1 .. word - 1 \/ j = word
        BY <2>w
      <4>3. 1 .. word - 1 \subseteq 1 .. word' - 1
        BY <2>w
      <4>4. CASE (\A i \in 1 .. word - 1 : ~ Uses(i, key)) /\ opts[key] = Defaults[key]
        BY <2>3, <3>3, <4>1, <4>2, <4>4 DEF Follows
      <4>5. CASE \E i \in 1 .. word - 1 :
                   /\ Uses(i, key) /\ opts[key] = ValueOf(line[i])
                   /\ \A j \in 1 .. word - 1 : Uses(j, key) => j <= i
        BY <2>3, <3>3, <4>1, <4>2, <4>3, <4>5 DEF Follows
      <4>6. QED
        BY <3>1, <4>4, <4>5 DEF Follows
    <3>4. QED
      BY <3>2, <3>3
  <2>5. Counts(word)'
    <3> DEFINE S == {i \in 1 .. word - 1 : Bad(i)}
               T == {i \in 1 .. word' - 1 : Bad(i)'}
    <3>1. IsFiniteSet(S) /\ opts.warnings = Cardinality(S)
      BY <1>1 DEF WordsSoFar, Counts
    <3>2. T = IF Bad(word) THEN S \union {word} ELSE S
      BY <2>1, <2>3
    <3>3. word \notin S
      BY <2>1
    <3>4. IsFiniteSet(T) /\ opts'.warnings = Cardinality(T)
      <4> HIDE DEF S, T
      <4>1. QED
        BY <2>2, <3>1, <3>2, <3>3, FS_AddElement
    <3>5. QED
      BY <3>4 DEF Counts
  <2>6. QED
    BY <2>1, <2>4, <2>5 DEF WordsSoFar
<1>4. CASE DefaultOptions
  <2>1. /\ line' = line /\ word' = word /\ opts' = Defaults /\ pc' = "identity"
        /\ line = <<>> /\ word = 1
    BY <1>1, <1>4 DEF DefaultOptions, WordsSoFar
  <2>2. \A key \in {"log", "test", "shell", "run"} : Follows(key, word)'
    BY <2>1 DEF Follows
  <2>3. Counts(word)'
    <3>1. {i \in 1 .. word' - 1 : Bad(i)'} = {}
      BY <2>1
    <3>2. opts'.warnings = 0
      BY <2>1 DEF Defaults
    <3>3. QED
      BY <3>1, <3>2, FS_EmptySet DEF Counts
  <2>4. QED
    BY <1>1, <2>1, <2>2, <2>3 DEF WordsSoFar
<1>5. CASE EarlyMount \/ EarlyMountsDone \/ ParseDone \/ SetIdentity \/ Report \/ HandOver
           \/ UNCHANGED vars
  <2>1. line' = line /\ word' = word /\ opts' = opts
    BY <1>5 DEF EarlyMount, EarlyMountsDone, ParseDone, SetIdentity, Report, HandOver, vars
  <2>2. \/ pc' \in {"mounts", "options"} /\ pc \in {"mounts", "options"}
        \/ pc' \in {"report", "done"} /\ pc \in {"identity", "report", "done"}
        \/ pc' = "identity" /\ word > Len(line)
        \/ pc' = pc
    BY <1>5 DEF EarlyMount, EarlyMountsDone, ParseDone, SetIdentity, Report, HandOver, vars
  <2>3. \A key \in {"log", "test", "shell", "run"} : Follows(key, word)'
    BY <1>1, <2>1 DEF Follows, Uses, WordsSoFar
  <2>4. Counts(word)'
    BY <1>1, <2>1 DEF Counts, Bad, WordsSoFar
  <2>5. QED
    BY <1>1, <2>1, <2>2, <2>3, <2>4 DEF WordsSoFar
<1>6. QED
  BY <1>1, <1>2, <1>3, <1>4, <1>5 DEF Next

-----------------------------------------------------------------------------
(* What TypeOK says beyond the parts above. *)
Types ==
  /\ line \in CommandLines
  /\ opts.warnings \in 0 .. word - 1
  /\ maxLevel \in 0 .. 3
  /\ console \subseteq Records

LEMMA InitTypes == Init => Types
<1>1. SUFFICES ASSUME Init PROVE Types
  OBVIOUS
<1>2. line = <<>> /\ word = 1 /\ opts.warnings = 0 /\ maxLevel = 2 /\ console = {}
  BY <1>1 DEF Init, Defaults, LevelOf
<1>3. line \in CommandLines
  <2>1. line \in [1 .. 0 -> Words] /\ 0 \in 0 .. MaxWords
    BY <1>2, BoundsAssumption
  <2>2. QED
    BY <2>1 DEF CommandLines
<1>4. QED
  BY <1>2, <1>3 DEF Types

LEMMA LoggedRecord ==
  ASSUME NEW l, NEW r
  PROVE  Logged(l, r) \subseteq {r}
BY DEF Logged

LEMMA TypesNext ==
  Basics /\ Levels /\ WordsSoFar /\ Types /\ [Next]_vars => Types'
<1>1. SUFFICES ASSUME Basics, Levels, WordsSoFar, Types, [Next]_vars PROVE Types'
  OBVIOUS
<1>2. line' \in CommandLines
  BY <1>1 DEF Types, Next, EarlyMount, EarlyMountsDone, ReadOptions, ParseNext, ParseDone,
     DefaultOptions, SetIdentity, Report, HandOver, vars
<1>3. opts'.warnings \in 0 .. word' - 1
  <2>1. CASE ReadOptions \/ DefaultOptions
    <3>1. opts' = Defaults /\ word' = 1
      BY <1>1, <2>1 DEF ReadOptions, DefaultOptions, WordsSoFar
    <3>2. QED
      BY <3>1 DEF Defaults
  <2>2. CASE ParseNext
    <3>1. /\ word' = word + 1 /\ word \in Nat
          /\ opts'.warnings \in {opts.warnings, opts.warnings + 1}
      BY <1>1, <2>2, ParseWordResult DEF ParseNext, Levels, WordsSoFar
    <3>2. QED
      BY <1>1, <3>1 DEF Types
  <2>3. CASE ~ (ReadOptions \/ DefaultOptions \/ ParseNext)
    <3>1. opts' = opts /\ word' = word
      BY <1>1, <2>3 DEF Next, EarlyMount, EarlyMountsDone, ParseDone, SetIdentity, Report,
         HandOver, vars
    <3>2. QED
      BY <1>1, <3>1 DEF Types
  <2>4. QED
    BY <2>1, <2>2, <2>3
<1>4. maxLevel' \in 0 .. 3
  <2>1. \A l \in DOMAIN LevelOf : LevelOf[l] \in 0 .. 3
    BY DEF LevelOf
  <2>2. maxLevel' \in {maxLevel, LevelOf[opts.log], LevelOf[Defaults.log]}
    BY <1>1 DEF Next, EarlyMount, EarlyMountsDone, ReadOptions, ParseNext, ParseDone,
       DefaultOptions, SetIdentity, Report, HandOver, vars
  <2>3. opts.log \in DOMAIN LevelOf /\ Defaults.log \in DOMAIN LevelOf
    BY <1>1, Keys DEF Levels, Defaults
  <2>4. QED
    BY <1>1, <2>1, <2>2, <2>3 DEF Types
<1>5. console' \subseteq Records
  <2>1. CASE EarlyMount
    <3>1. EARLY[next] \in Targets
      BY <1>1, <2>1, Early DEF Basics, EarlyMount
    <3>2. /\ <<"mounted", EARLY[next]>> \in Records
          /\ <<"failed", EARLY[next]>> \in Records
      BY <3>1 DEF Records
    <3>3. console' \subseteq console \union {<<"mounted", EARLY[next]>>, <<"failed", EARLY[next]>>}
      BY <2>1, LoggedRecord DEF EarlyMount, Mounted, AlreadyMounted, MountFailed
    <3>4. QED
      BY <1>1, <3>2, <3>3 DEF Types
  <2>2. CASE EarlyMountsDone
    <3>1. <<"early mounts", failed>> \in Records
      <4>1. failed \in 0 .. Len(EARLY)
        BY <1>1, Early DEF Basics
      <4>2. QED
        BY <4>1 DEF Records
    <3>2. console' \subseteq console \union {<<"early mounts", failed>>}
      BY <2>2, LoggedRecord DEF EarlyMountsDone
    <3>3. QED
      BY <1>1, <3>1, <3>2 DEF Types
  <2>3. CASE DefaultOptions
    <3>1. console' \subseteq console \union {<<"no options", "">>}
      BY <2>3, LoggedRecord DEF DefaultOptions
    <3>2. QED
      BY <1>1, <3>1 DEF Types, Records
  <2>4. CASE SetIdentity
    <3>1. opts.warnings # 0 => <<"warning", opts.warnings>> \in Records
      <4>1. pc = "identity"
        BY <2>4 DEF SetIdentity
      <4>2. word - 1 = Len(line)
        BY <1>1, <4>1 DEF WordsSoFar
      <4>3. Len(line) \in 0 .. MaxWords
        <5>1. PICK n \in 0 .. MaxWords : line \in [1 .. n -> Words]
          BY <1>1 DEF Types, CommandLines
        <5>2. QED
          BY <5>1, BoundsAssumption
      <4>4. opts.warnings # 0 => opts.warnings \in 1 .. MaxWords
        BY <1>1, <4>2, <4>3, BoundsAssumption DEF Types, Levels
      <4>5. QED
        BY <4>4 DEF Records
    <3>2. console' \subseteq console \union {<<"hostname", "">>, <<"no hostname", "">>}
             \union (IF opts.warnings = 0 THEN {} ELSE {<<"warning", opts.warnings>>})
      <4>1. \A l, r : Logged(l, r) \subseteq {r}
        BY LoggedRecord, Zenon
      <4>2. PICK i \in {Logged("info", <<"hostname", "">>), Logged("warn", <<"no hostname", "">>)} :
              console' = (console \union i) \union
                (IF opts.warnings = 0 THEN {} ELSE Logged("warn", <<"warning", opts.warnings>>))
        BY <2>4 DEF SetIdentity
      <4>3. QED
        BY <4>1, <4>2
    <3>3. QED
      BY <1>1, <3>1, <3>2 DEF Types, Records
  <2>5. CASE Report
    <3>1. console' \subseteq console \union {<<"ready", "">>, <<"degraded", "">>}
      BY <2>5, LoggedRecord DEF Report
    <3>2. QED
      BY <1>1, <3>1 DEF Types, Records
  <2>6. CASE ReadOptions \/ ParseNext \/ ParseDone \/ HandOver \/ UNCHANGED vars
    BY <1>1, <2>6 DEF Types, ReadOptions, ParseNext, ParseDone, HandOver, vars
  <2>7. QED
    BY <1>1, <2>1, <2>2, <2>3, <2>4, <2>5, <2>6 DEF Next
<1>6. QED
  BY <1>2, <1>3, <1>4, <1>5 DEF Types

-----------------------------------------------------------------------------
Inv == Basics /\ MountsSoFar /\ Levels /\ Reports /\ WordsSoFar /\ Types

LEMMA Invariance == Spec => []Inv
<1>1. Init => Inv
  BY InitBasics, InitRest, InitTypes DEF Inv
<1>2. Inv /\ [Next]_vars => Inv'
  BY BasicsNext, MountsNext, LevelsNext, ReportsNext, WordsNext, TypesNext DEF Inv
<1>3. QED
  BY <1>1, <1>2, PTL DEF Spec

(* The types of Boot's variables (main, early_mounts and parse), for       *)
(* command lines of any length over any words.                             *)
THEOREM BootTypes == Spec => []TypeOK
<1>1. Inv => TypeOK
  <2>1. SUFFICES ASSUME Inv PROVE TypeOK
    OBVIOUS
  <2>2. Len(EARLY) = 7
    BY Early
  <2>3. next \in 1 .. Len(EARLY) + 1 /\ failed \in 0 .. Len(EARLY)
    BY <2>1, <2>2 DEF Inv, Basics
  <2>4. QED
    BY <2>1, <2>3 DEF TypeOK, Inv, Basics, WordsSoFar, Types
<1>2. QED
  BY <1>1, Invariance, PTL

(* After ready every early mount can be used, whichever mounts of the      *)
(* kernel came first and whatever the kernel answered to each.             *)
THEOREM ReadyTruthful == Spec => []ReadyMeansMounted
<1>1. Inv => ReadyMeansMounted
  <2>1. SUFFICES ASSUME Inv, <<"ready", "">> \in console, NEW t \in Targets PROVE Usable(t)
    BY DEF ReadyMeansMounted
  <2>2. pc = "done" /\ failed = 0 /\ next = 8
    BY <2>1 DEF Inv, Basics, Reports
  <2>3. \A i \in 1 .. 7 : Usable(EARLY[i])
    <3>1. failed = 0 => \A i \in 1 .. next - 1 : Usable(EARLY[i])
      BY <2>1 DEF Inv, MountsSoFar
    <3>2. 1 .. next - 1 = 1 .. 7
      BY <2>2
    <3>3. QED
      BY <2>2, <3>1, <3>2, Zenon
  <2>4. QED
    BY <2>1, <2>3, Early
<1>2. QED
  BY <1>1, Invariance, PTL

(* No early mount is missing without its name and degraded on the console, *)
(* whatever wana.log says: both are error records.                         *)
THEOREM NothingUnreported == Spec => []MissingMountReported
<1>1. Inv => MissingMountReported
  <2>1. SUFFICES ASSUME Inv, NEW t \in Targets, pc = "done", ~ Usable(t)
                 PROVE  <<"degraded", "">> \in console /\ <<"failed", t>> \in console
    BY DEF MissingMountReported
  <2>2. PICK i \in 1 .. 7 : t = EARLY[i]
    BY Early
  <2>3. next = 8
    BY <2>1 DEF Inv, Basics
  <2>4. failed # 0 /\ <<"failed", t>> \in console
    BY <2>1, <2>2, <2>3 DEF Inv, MountsSoFar
  <2>5. QED
    BY <2>1, <2>4 DEF Inv, Reports
<1>2. QED
  BY <1>1, Invariance, PTL

(* The summary of the mounts is on the console of every good boot; ready   *)
(* exactly when wana.log is info or debug.                                 *)
THEOREM GoodBootLeavesTrace == Spec => []GoodBootTraced
<1>1. Inv => GoodBootTraced
  <2>1. SUFFICES ASSUME Inv, pc = "done", failed = 0
                 PROVE  /\ <<"early mounts", 0>> \in console
                        /\ <<"ready", "">> \in console <=> opts.log \in {"info", "debug"}
    BY DEF GoodBootTraced
  <2>2. /\ <<"early mounts", 0>> \in console
        /\ <<"ready", "">> \in console <=> maxLevel >= 2
    BY <2>1 DEF Inv, Reports
  <2>3. maxLevel >= 2 <=> opts.log \in {"info", "debug"}
    BY <2>1 DEF Inv, Levels, LevelOf
  <2>4. QED
    BY <2>2, <2>3
<1>2. QED
  BY <1>1, Invariance, PTL

(* Each option is its last usable value on the command line, and each      *)
(* unusable word is a warning, for command lines of any length.            *)
THEOREM OptionsCorrect == Spec => []OptionsObeyed
<1>1. Inv => OptionsObeyed
  <2>1. SUFFICES ASSUME Inv, pc = "done" PROVE OptionsObeyed
    BY DEF OptionsObeyed
  <2>2. word - 1 = Len(line) /\ DOMAIN line = 1 .. word - 1 /\ word \in Nat
    BY <2>1 DEF Inv, WordsSoFar
  <2>3. ASSUME NEW key \in DOMAIN Understood PROVE opts[key] = LastUsable(key, line)
    <3> DEFINE I == {i \in DOMAIN line : line[i].key = key /\ IsUnderstood(line[i])}
               last == CHOOSE i \in I : \A j \in I : j <= i
    <3>1. Follows(key, word)
      BY <2>1, Keys DEF Inv, WordsSoFar
    <3>2. I = {i \in 1 .. word - 1 : Uses(i, key)}
      BY <2>2 DEF Uses
    <3>3. CASE I = {}
      <4>1. opts[key] = Defaults[key]
        BY <3>1, <3>2, <3>3 DEF Follows
      <4>2. QED
        BY <3>3, <4>1 DEF LastUsable
    <3>4. CASE I # {}
      <4>1. PICK i \in I : opts[key] = ValueOf(line[i]) /\ \A j \in I : j <= i
        BY <3>1, <3>2, <3>4 DEF Follows
      <4>2. last \in I /\ \A j \in I : j <= last
        BY <4>1
      <4>3. last = i
        <5>1. last \in Int /\ i \in Int /\ last <= i /\ i <= last
          BY <2>2, <3>2, <4>1, <4>2
        <5>2. QED
          BY <5>1
      <4>4. QED
        BY <3>4, <4>1, <4>3 DEF LastUsable
    <3>5. QED
      BY <3>3, <3>4
  <2>4. opts.warnings = Cardinality({i \in DOMAIN line :
                          line[i].key # "foreign" /\ ~ IsUnderstood(line[i])})
    <3>1. {i \in DOMAIN line : line[i].key # "foreign" /\ ~ IsUnderstood(line[i])}
            = {i \in 1 .. word - 1 : Bad(i)}
      BY <2>2 DEF Bad
    <3>2. QED
      BY <2>1, <3>1 DEF Inv, WordsSoFar, Counts
  <2>5. opts.log # "error" => (<<"warning", opts.warnings>> \in console <=> opts.warnings > 0)
    <3>1. opts.log # "error" => maxLevel >= 1
      BY <2>1 DEF Inv, Levels, LevelOf
    <3>2. opts.warnings \in Nat
      BY <2>1 DEF Inv, Levels
    <3>3. <<"warning", opts.warnings>> \in console <=> opts.warnings > 0 /\ maxLevel >= 1
      BY <2>1, <3>2 DEF Inv, Reports
    <3>4. QED
      BY <3>1, <3>3
  <2>6. QED
    BY <2>3, <2>4, <2>5 DEF OptionsObeyed
<1>2. QED
  BY <1>1, Invariance, PTL

-----------------------------------------------------------------------------
(* The system. *)

ServiceSpec == Service!Spec

(* No program and no shell before the report, only helpers of the kernel;  *)
(* from then on the service acts on what was parsed.                       *)
Handed ==
  IF servicePc = "boot" THEN (\A p \in Pids : prog[p] = "other") /\ shell = NoPid
  ELSE pc = "done" /\ given = Parsed

(* Each process and each stop that init is the cause of was asked for, and *)
(* so was the shell whose handle it holds or that it is about to replace.  *)
Wanted ==
  /\ \A p \in Pids :
       /\ prog[p] = "run" => given.run
       /\ prog[p] = "shell" => given.shell
       /\ prog[p] # "other" => st[p] # "free"
  /\ shell # NoPid \/ servicePc = "restart" => given.shell
  /\ servicePc = "runwait" => runner \in Pids
  /\ servicePc = "halted" => given.test

SInv == Service!ProcessesTypeOK /\ Handed /\ Wanted

-----------------------------------------------------------------------------
(* main is Boot to the mounts, the command line and the console. *)
LEMMA IsBoot == SystemSpec => Spec
<1>1. SystemInit => Init
  BY DEF SystemInit
<1>2. [SystemNext]_systemVars => [Next]_vars
  BY DEF SystemNext, systemVars, BootStep, StartService, Serve, Elsewhere, Next
<1>3. QED
  BY <1>1, <1>2, PTL DEF SystemSpec, Spec

(* main is WanaInit to the processes: the safety part of                   *)
(* ImplementsWanaInit, whatever the mounts and the command line are.       *)
THEOREM ServiceRefinement == SystemSpec => ServiceSpec
<1>1. SystemInit => Service!Init
  BY DEF SystemInit
<1>2. [SystemNext]_systemVars => [Service!Next]_(Service!vars)
  <2>1. BootStep => UNCHANGED Service!vars
    BY DEF BootStep, serviceVars, Service!vars, Service!procs, Service!own
  <2>2. StartService => Service!Next
    BY DEF StartService, Service!Next, Service!InitStep
  <2>3. Serve => Service!Next
    BY DEF Serve, Service!Next
  <2>4. Elsewhere => Service!Next
    BY DEF Elsewhere, Service!Next
  <2>5. UNCHANGED systemVars => UNCHANGED Service!vars
    BY DEF systemVars, serviceVars, Service!vars, Service!procs, Service!own
  <2>6. QED
    BY <2>1, <2>2, <2>3, <2>4, <2>5 DEF SystemNext
<1>3. QED
  BY <1>1, <1>2, PTL DEF SystemSpec, ServiceSpec, Service!Spec

-----------------------------------------------------------------------------
LEMMA InitSInv == SystemInit => SInv
<1> SUFFICES ASSUME SystemInit PROVE SInv
  OBVIOUS
<1>1. Service!ProcessesTypeOK
  BY DEF SystemInit, Service!Init, Service!NoProcesses, Service!ProcessesTypeOK, Service!Programs
<1>2. Handed
  BY DEF SystemInit, Service!Init, Service!NoProcesses, Handed
<1>3. Wanted
  BY DEF SystemInit, Service!Init, Service!NoProcesses, Wanted
<1>4. QED
  BY <1>1, <1>2, <1>3 DEF SInv

(* A process init starts was asked for; any other may be what it likes.    *)
LEMMA ForkWanted ==
  ASSUME SInv, NEW p, p \in Pids \union {Pid1, Kthread}, NEW c \in Pids, NEW program,
         program \in Service!Programs, Service!Fork(p, c, program),
         program = "run" => given.run, program = "shell" => given.shell,
         UNCHANGED given
  PROVE  /\ Service!ProcessesTypeOK'
         /\ \A q \in Pids :
              /\ prog'[q] = "run" => given'.run
              /\ prog'[q] = "shell" => given'.shell
              /\ prog'[q] # "other" => st'[q] # "free"
<1>1. Service!ProcessesTypeOK'
  BY DEF SInv, Service!ProcessesTypeOK, Service!Fork
<1>2. QED
  BY <1>1 DEF SInv, Wanted, Service!ProcessesTypeOK, Service!Fork

LEMMA ReleaseWanted ==
  ASSUME SInv, NEW c \in Pids, Service!Release(c), UNCHANGED given
  PROVE  /\ Service!ProcessesTypeOK'
         /\ \A q \in Pids :
              /\ prog'[q] = "run" => given'.run
              /\ prog'[q] = "shell" => given'.shell
              /\ prog'[q] # "other" => st'[q] # "free"
<1>1. Service!ProcessesTypeOK'
  BY DEF SInv, Service!ProcessesTypeOK, Service!Release, Service!Programs
<1>2. QED
  BY <1>1 DEF SInv, Wanted, Service!ProcessesTypeOK, Service!Release

(* A step that moves init's thread and no process. *)
LEMMA QuietWanted ==
  ASSUME SInv, UNCHANGED Service!procs, UNCHANGED given
  PROVE  /\ Service!ProcessesTypeOK'
         /\ \A q \in Pids :
              /\ prog'[q] = "run" => given'.run
              /\ prog'[q] = "shell" => given'.shell
              /\ prog'[q] # "other" => st'[q] # "free"
BY DEF SInv, Wanted, Service!ProcessesTypeOK, Service!procs

LEMMA BootStepSInv == SInv /\ BootStep => SInv'
<1> SUFFICES ASSUME SInv, BootStep PROVE SInv'
  OBVIOUS
<1>1. pc # "done" /\ UNCHANGED serviceVars
  BY DEF BootStep, EarlyMount, EarlyMountsDone, ReadOptions, ParseNext, ParseDone, DefaultOptions,
         SetIdentity, Report
<1>2. Service!ProcessesTypeOK'
  BY <1>1 DEF SInv, serviceVars, Service!ProcessesTypeOK
<1>3. Handed'
  BY <1>1 DEF SInv, serviceVars, Handed
<1>4. Wanted'
  BY <1>1 DEF SInv, serviceVars, Wanted
<1>5. QED
  BY <1>2, <1>3, <1>4 DEF SInv

LEMMA StartServiceSInv == SInv /\ StartService => SInv'
<1> SUFFICES ASSUME SInv, StartService PROVE SInv'
  OBVIOUS
<1>1. /\ pc = "done" /\ servicePc = "boot" /\ servicePc' = "run" /\ given' = Parsed
      /\ UNCHANGED <<vars, st, parent, prog, shell>>
  BY DEF StartService, Service!BootDone, Service!procs
<1>2. Service!ProcessesTypeOK'
  BY <1>1 DEF SInv, Service!ProcessesTypeOK
<1>3. Handed'
  BY <1>1 DEF Handed, Parsed, vars
<1>4. Wanted'
  <2>1. \A p \in Pids : prog[p] = "other"
    BY <1>1 DEF SInv, Handed
  <2>2. shell = NoPid
    BY <1>1 DEF SInv, Handed
  <2>3. QED
    BY <1>1, <2>1, <2>2 DEF SInv, Wanted
<1>5. QED
  BY <1>2, <1>3, <1>4 DEF SInv

(* What a step after the report must show besides the processes. *)
LEMMA ServeKeeps ==
  ASSUME SInv, servicePc # "boot", UNCHANGED vars, UNCHANGED given, servicePc' # "boot",
         Service!ProcessesTypeOK',
         \A q \in Pids :
           /\ prog'[q] = "run" => given'.run
           /\ prog'[q] = "shell" => given'.shell
           /\ prog'[q] # "other" => st'[q] # "free",
         shell' # NoPid \/ servicePc' = "restart" => given.shell,
         servicePc' = "runwait" => runner' \in Pids,
         servicePc' = "halted" => given.test
  PROVE  SInv'
<1>1. Handed'
  BY DEF SInv, Handed, Parsed, vars
<1>2. Wanted'
  BY DEF Wanted
<1>3. QED
  BY <1>1, <1>2 DEF SInv

LEMMA ServeSInv == SInv /\ Serve => SInv'
<1> SUFFICES ASSUME SInv, servicePc # "boot", Service!InitStep, UNCHANGED vars PROVE SInv'
  BY DEF Serve
<1>1. CASE Service!RunOnceStarts
  <2>1. PICK c \in Pids : Service!Fork(Pid1, c, "run") /\ runner' = c
    BY <1>1 DEF Service!RunOnceStarts
  <2>2. given.run /\ UNCHANGED <<given, shell>> /\ servicePc' = "runwait"
    BY <1>1 DEF Service!RunOnceStarts
  <2>3. "run" \in Service!Programs /\ Pid1 \in Pids \union {Pid1, Kthread}
    BY DEF Service!Programs
  <2>4. QED
    BY <2>1, <2>2, <2>3, ForkWanted, ServeKeeps DEF SInv, Wanted
<1>2. CASE Service!RunOnceSkipped \/ Service!RunOnceFails \/ Service!Stop
           \/ Service!ReapNoChildren \/ Service!ReapError \/ Service!Wake
  <2>1. /\ UNCHANGED <<given, shell>> /\ UNCHANGED Service!procs
        /\ servicePc' \in {"test", "halted", "start", "idle", "error", "wait"}
        /\ servicePc' = "halted" => given.test
    BY <1>2 DEF Service!RunOnceSkipped, Service!RunOnceFails, Service!Stop, Service!SpawnFails,
                Service!ReapNoChildren, Service!ReapError, Service!Wake, Service!procs
  <2>2. QED
    BY <2>1, QuietWanted, ServeKeeps DEF SInv, Wanted
<1>3. CASE Service!RunOnceWaited
  <2>1. /\ servicePc = "runwait" /\ servicePc' = "test"
        /\ Service!Release(runner) /\ UNCHANGED <<given, shell>>
    BY <1>3 DEF Service!RunOnceWaited
  <2>2. runner \in Pids /\ (shell # NoPid => given.shell)
    BY <2>1 DEF SInv, Wanted
  <2>3. QED
    BY <2>1, <2>2, ReleaseWanted, ServeKeeps
<1>4. CASE Service!SuperviseStart \/ Service!Restart
  <2>1. UNCHANGED given /\ servicePc' = "wait"
    BY <1>4 DEF Service!SuperviseStart, Service!Restart
  <2>2. CASE Service!SpawnShellOk /\ given.shell
    <3>1. PICK c \in Pids : Service!Fork(Pid1, c, "shell")
      BY <2>2 DEF Service!SpawnShellOk
    <3>2. "shell" \in Service!Programs /\ Pid1 \in Pids \union {Pid1, Kthread}
      BY DEF Service!Programs
    <3>3. QED
      BY <2>1, <2>2, <3>1, <3>2, ForkWanted, ServeKeeps
  <2>3. CASE shell' = NoPid /\ UNCHANGED Service!procs
    BY <2>1, <2>3, QuietWanted, ServeKeeps
  <2>4. QED
    BY <1>4, <2>2, <2>3 DEF Service!SuperviseStart, Service!Restart, Service!SpawnShell,
       Service!SpawnShellNone, Service!SpawnFails, Service!procs, SInv, Wanted
<1>5. ASSUME NEW c \in Pids, Service!Reap(c) PROVE SInv'
  <2>1. /\ Service!Release(c) /\ UNCHANGED <<given, shell>>
        /\ servicePc' = IF shell = c THEN "restart" ELSE "wait"
    BY <1>5 DEF Service!Reap
  <2>2. c # NoPid
    BY ServiceAssumption
  <2>3. QED
    BY <2>1, <2>2, ReleaseWanted, ServeKeeps DEF SInv, Wanted
<1>6. QED
  BY <1>1, <1>2, <1>3, <1>4, <1>5
     DEF Service!InitStep, Service!RunOnce, Service!BootDone

LEMMA ElsewhereSInv == SInv /\ Elsewhere => SInv'
<1> SUFFICES ASSUME SInv, Elsewhere PROVE SInv'
  OBVIOUS
<1>1. CASE Service!MachineOff
  <2>1. UNCHANGED <<vars, serviceVars>>
    BY <1>1 DEF Elsewhere, Service!MachineOff, Service!vars, Service!procs, Service!own,
                serviceVars
  <2>2. QED
    BY <2>1 DEF vars, serviceVars, SInv, Handed, Wanted, Parsed,
                Service!ProcessesTypeOK
<1>2. CASE Service!Others
  <2>1. UNCHANGED <<vars, servicePc, given, runner, shell>>
    BY <1>2 DEF Elsewhere, Service!Others, Service!own
  <2> DEFINE Kept ==
        /\ Service!ProcessesTypeOK'
        /\ \A q \in Pids :
             /\ prog'[q] = "run" => given'.run
             /\ prog'[q] = "shell" => given'.shell
             /\ prog'[q] # "other" => st'[q] # "free"
        /\ \A q \in Pids : prog[q] = "other" => prog'[q] = "other"
  <2>2. Kept
    <3>1. ASSUME NEW p \in Pids \union {Kthread}, NEW c \in Pids, Service!Fork(p, c, "other")
          PROVE  Kept
      <4>1. "other" \in Service!Programs
        BY DEF Service!Programs
      <4>2. prog' = [prog EXCEPT ![c] = "other"]
        BY <3>1 DEF Service!Fork
      <4>3. QED
        BY <2>1, <3>1, <4>1, <4>2, ForkWanted DEF SInv, Service!ProcessesTypeOK
    <3>2. ASSUME NEW c \in Pids, Service!Release(c)
          PROVE  Kept
      <4>1. prog' = [prog EXCEPT ![c] = "other"]
        BY <3>2 DEF Service!Release
      <4>2. QED
        BY <2>1, <3>2, <4>1, ReleaseWanted DEF SInv, Service!ProcessesTypeOK
    <3>3. ASSUME NEW p \in Pids, Service!Exit(p)
          PROVE  Kept
      BY <2>1, <3>3 DEF SInv, Wanted, Service!ProcessesTypeOK, Service!Exit
    <3>4. QED
      BY <1>2, <3>1, <3>2, <3>3 DEF Service!Others, Service!ForkByProcess,
         Service!HelperStarts, Service!ReapByProcess, Service!SomeExit
  <2>3. Handed'
    BY <2>1, <2>2 DEF SInv, Handed, Parsed, vars
  <2>4. Wanted'
    BY <2>1, <2>2 DEF SInv, Wanted
  <2>5. QED
    BY <2>2, <2>3, <2>4 DEF SInv
<1>3. QED
  BY <1>1, <1>2 DEF Elsewhere

LEMMA SystemInvariance == SystemSpec => []SInv
<1>1. SInv /\ [SystemNext]_systemVars => SInv'
  <2>1. SInv /\ UNCHANGED systemVars => SInv'
    BY DEF systemVars, vars, serviceVars, SInv, Handed, Wanted, Parsed,
           Service!ProcessesTypeOK
  <2>2. QED
    BY <2>1, BootStepSInv, StartServiceSInv, ServeSInv, ElsewhereSInv DEF SystemNext
<1>2. QED
  BY <1>1, InitSInv, PTL DEF SystemSpec

-----------------------------------------------------------------------------
(* From the words of the command line to the processes they lead to: the   *)
(* options that parse left (OptionsCorrect) are those main acts on, over   *)
(* any number of failed mounts, typos, failed spawns and restarts.         *)
THEOREM CommandLineFollowed == SystemSpec => []CommandLineObeyed
<1>1. SInv /\ OptionsObeyed => CommandLineObeyed
  <2> SUFFICES ASSUME SInv, OptionsObeyed PROVE CommandLineObeyed
    OBVIOUS
  <2>1. servicePc = "boot" => \A p \in Pids : prog[p] = "other"
    BY DEF SInv, Handed
  <2>2. ASSUME servicePc # "boot"
        PROVE  /\ given.run <=> LastUsable("run", line) # "none"
               /\ given.test <=> LastUsable("test", line) # "none"
               /\ given.shell = LastUsable("shell", line)
    <3>1. pc = "done" /\ given = Parsed
      BY <2>2 DEF SInv, Handed
    <3>2. /\ opts["run"] = LastUsable("run", line)
          /\ opts["test"] = LastUsable("test", line)
          /\ opts["shell"] = LastUsable("shell", line)
      BY <3>1 DEF OptionsObeyed, Understood
    <3>3. QED
      BY <3>1, <3>2 DEF Parsed
  <2>3. QED
    BY <2>1, <2>2 DEF CommandLineObeyed, SInv, Wanted
<1>2. QED
  BY <1>1, SystemInvariance, IsBoot, OptionsCorrect, PTL

(* No program, shell or stop before the console says how the boot went.    *)
THEOREM ReportFirst == SystemSpec => []ReportComesFirst
<1>1. SInv /\ Inv /\ OptionsObeyed => ReportComesFirst
  <2> SUFFICES ASSUME SInv, Inv, OptionsObeyed, servicePc # "boot"
               PROVE  \/ <<"ready", "">> \in console
                      \/ <<"degraded", "">> \in console
                      \/ LastUsable("log", line) \in {"error", "warn", "warning"}
    BY DEF ReportComesFirst, SInv, Handed
  <2>1. pc = "done"
    BY DEF SInv, Handed
  <2>2. opts["log"] = LastUsable("log", line)
    BY <2>1 DEF OptionsObeyed, Understood
  <2>3. CASE failed # 0
    BY <2>1, <2>3 DEF Inv, Reports
  <2>4. CASE failed = 0 /\ opts.log \in {"info", "debug"}
    <3>1. maxLevel = LevelOf[opts.log]
      BY <2>1 DEF Inv, Levels
    <3>2. LevelOf["info"] = 2 /\ LevelOf["debug"] = 3
      BY DEF LevelOf
    <3>3. maxLevel >= 2
      BY <2>4, <3>1, <3>2
    <3>4. QED
      BY <2>1, <2>4, <3>3 DEF Inv, Reports
  <2>5. CASE opts.log \in {"error", "warn", "warning"}
    BY <2>2, <2>5
  <2>6. QED
    BY <2>3, <2>4, <2>5 DEF Inv, Levels
<1>2. QED
  BY <1>1, SystemInvariance, IsBoot, Invariance, OptionsCorrect, PTL

=============================================================================
