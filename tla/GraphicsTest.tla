---------------------------- MODULE GraphicsTest ----------------------------
(***************************************************************************)
(* The graphics boot test (src/tools/qemu-graphics-test.py) against the    *)
(* guest it boots.  The guest prints lines on the serial port and puts its *)
(* frame on the virtual screen and takes it off again; the test reads the  *)
(* port when it gets to it, asks QEMU for one screenshot when the trigger  *)
(* line has come, and judges the log and the file in the end.  Guest and   *)
(* test run side by side, and only the deadline limits either.             *)
(***************************************************************************)
EXTENDS Naturals, SequencesExt, Subsequences

CONSTANTS
  Programs,   \* what the guest may do: sequences of the steps below
  Trigger,    \* the line of --screendump-on
  Expect,     \* the lines of --expect
  OldFiles    \* the screenshot an earlier run may have left: a set of pixels

(* Steps that are not printed: the frame appears, with right or with wrong *)
(* pixels, and goes away; any other step is printed, "nl" ends the line.   *)
Screen == [right |-> "right", wrong |-> "wrong", dark |-> "dark"]

ASSUME ProgramsAssumption == \A p \in Programs : p \in Seq(STRING)
ASSUME OldFilesAssumption == OldFiles \subseteq {"right", "wrong"}

VARIABLES
  program,    \* the guest's steps, chosen at the start
  at,         \* how many of them it has taken
  screen,     \* pixels on the virtual screen: "right", "wrong" or "dark"
  qemu,       \* "running", "exited" or "killed"
  pipe,       \* serial output QEMU wrote that the test has not read
  test,         \* the test: "loop", "lines", "rest" or "done"
  pending,    \* the last line read so far, still without its newline
  todo,       \* complete lines of this chunk not yet searched
  text,       \* all the output read
  shot,       \* shot_taken
  file,       \* the screenshot: its pixels, whose run wrote it and, as
              \* history, how far the guest was then
  late,       \* the deadline has passed
  verdict     \* "none", "PASS", "FAIL", "no screenshot" or "exception"

guest == <<program, at, screen>>
testVars == <<guest, qemu, pipe, test, pending, todo, text, shot, file, late, verdict>>

(* What the guest has printed, and whether its right frame is on screen,   *)
(* after its first k steps.                                                *)
PrintedBy(k) == Among(SubSeq(program, 1, k), STRING \ DOMAIN Screen)

ShowsRight(k) ==
  \E j \in 1 .. k :
    /\ program[j] = "right"
    /\ \A i \in j + 1 .. k : program[i] \notin DOMAIN Screen

Printed == PrintedBy(at)

Verdicts == {"none", "PASS", "FAIL", "no screenshot", "exception"}

-----------------------------------------------------------------------------
TestInit ==
  /\ program \in Programs
  /\ at = 0
  /\ screen = "dark"
  /\ qemu = "running"
  /\ pipe = <<>> /\ pending = <<>> /\ todo = <<>> /\ text = <<>>
  /\ test = "loop"
  /\ shot = FALSE
  /\ file \in [pixels : OldFiles \union {"absent"}, run : {"earlier"}, at : {0}]
  /\ late = FALSE
  /\ verdict = "none"

(* The guest takes its next step.  It may also never take it (a hang).     *)
GuestStep ==
  /\ qemu = "running" /\ at < Len(program)
  /\ LET step == program[at + 1]
     IN  IF step \in DOMAIN Screen
         THEN screen' = Screen[step] /\ UNCHANGED pipe
         ELSE pipe' = Append(pipe, step) /\ UNCHANGED screen
  /\ at' = at + 1
  /\ UNCHANGED <<program, qemu, test, pending, todo, text, shot, file, late, verdict>>

(* It powers off, or panics and resets: with -no-reboot QEMU exits. *)
GuestOff ==
  /\ qemu = "running"
  /\ qemu' = "exited"
  /\ screen' = "dark"
  /\ UNCHANGED <<program, at, pipe, test, pending, todo, text, shot, file, late, verdict>>

(* --timeout: its value against the guest's speed is left open. *)
DeadlinePasses ==
  /\ ~ late /\ verdict = "none"
  /\ late' = TRUE
  /\ UNCHANGED <<guest, qemu, pipe, test, pending, todo, text, shot, file, verdict>>

(* split(b"\n"): the complete lines, and what follows the last newline. *)
LastNewline(s) == CHOOSE k \in 0 .. Len(s) :
  /\ k = 0 \/ s[k] = "nl"
  /\ \A j \in k + 1 .. Len(s) : s[j] # "nl"

CompleteLines(s) == Among(SubSeq(s, 1, LastNewline(s)), STRING \ {"nl"})

Unfinished(s) == SubSeq(s, LastNewline(s) + 1, Len(s))

(* Fault: each chunk is split on its own. *)
ReadChunkAlone ==
  /\ test = "loop" /\ qemu = "running" /\ ~ late
  /\ pipe # <<>>
  /\ text' = text \o pipe
  /\ todo' = CompleteLines(pipe)
  /\ pending' = <<>>
  /\ pipe' = <<>>
  /\ test' = IF todo' = <<>> THEN "loop" ELSE "lines"
  /\ UNCHANGED <<guest, qemu, shot, file, late, verdict>>

(* One turn of the loop: take all there is to read, if there is anything.  *)
ReadChunk ==
  /\ test = "loop" /\ qemu = "running" /\ ~ late
  /\ pipe # <<>>
  /\ text' = text \o pipe
  /\ todo' = CompleteLines(pending \o pipe)
  /\ pending' = Unfinished(pending \o pipe)
  /\ pipe' = <<>>
  /\ test' = IF todo' = <<>> THEN "loop" ELSE "lines"
  /\ UNCHANGED <<guest, qemu, shot, file, late, verdict>>

NextLine ==
  /\ todo' = Tail(todo)
  /\ test' = IF todo' = <<>> THEN "loop" ELSE "lines"

SearchLine ==
  /\ test = "lines" /\ (Head(todo) # Trigger \/ shot)
  /\ NextLine
  /\ UNCHANGED <<guest, qemu, pipe, pending, text, shot, file, late, verdict>>

(* monitor("screendump"): QEMU writes what is on the screen now, or says   *)
(* that it cannot, in an answer that is not looked at.                     *)
Screendump ==
  /\ test = "lines" /\ Head(todo) = Trigger /\ ~ shot
  /\ qemu = "running"
  /\ file' \in {[pixels |-> screen, run |-> "this", at |-> at], file}
  /\ shot' = TRUE
  /\ NextLine
  /\ UNCHANGED <<guest, qemu, pipe, pending, text, late, verdict>>

(* Nobody accepts the connection or sends the banner: the test dies. *)
MonitorFails ==
  /\ test = "lines" /\ Head(todo) = Trigger /\ ~ shot
  /\ verdict' = "exception"
  /\ test' = "done"
  /\ todo' = <<>>
  /\ UNCHANGED <<guest, qemu, pipe, pending, text, shot, file, late>>

(* The loop ends when QEMU has gone or the time is up; then it is killed. *)
LoopEnds ==
  /\ test = "loop" /\ (qemu # "running" \/ late)
  /\ qemu' = IF qemu = "running" THEN "killed" ELSE qemu
  /\ screen' = "dark"
  /\ test' = "rest"
  /\ UNCHANGED <<program, at, pipe, pending, todo, text, shot, file, late, verdict>>

Missing(output) == Expect \ Range(output)

(* Faults: only what the loop has read is judged, and a file that is there *)
(* counts as the screenshot.                                               *)
JudgeLoopOnly ==
  /\ test = "rest"
  /\ verdict' = IF ~ shot \/ file.pixels = "absent" THEN "no screenshot"
                ELSE IF Missing(text) = {} /\ file.pixels = "right" THEN "PASS" ELSE "FAIL"
  /\ test' = "done"
  /\ UNCHANGED <<guest, qemu, pipe, pending, todo, text, shot, file, late>>

JudgeAnyFile ==
  /\ test = "rest"
  /\ text' = text \o pipe
  /\ pipe' = <<>>
  /\ verdict' = IF file.pixels = "absent" THEN "no screenshot"
                ELSE IF Missing(text') = {} /\ file.pixels = "right" THEN "PASS" ELSE "FAIL"
  /\ test' = "done"
  /\ UNCHANGED <<guest, qemu, pending, todo, shot, file, late>>

(* The rest of the output is read, but no longer searched for the trigger; *)
(* then the expected lines and the pixels of the file are checked.         *)
Judge ==
  /\ test = "rest"
  /\ text' = text \o pipe
  /\ pipe' = <<>>
  /\ verdict' = IF ~ shot \/ file.pixels = "absent" THEN "no screenshot"
                ELSE IF Missing(text') = {} /\ file.pixels = "right" THEN "PASS" ELSE "FAIL"
  /\ test' = "done"
  /\ UNCHANGED <<guest, qemu, pending, todo, shot, file, late>>

Done == test = "done" /\ UNCHANGED testVars

HostStep ==
  ReadChunk \/ SearchLine \/ Screendump \/ MonitorFails \/ LoopEnds \/ Judge

TestNext == GuestStep \/ GuestOff \/ DeadlinePasses \/ HostStep \/ Done

TestSpec == TestInit /\ [][TestNext]_testVars

-----------------------------------------------------------------------------
(* Nothing the guest printed is lost or read twice, whatever the chunks    *)
(* cut in two and whoever ends first, and when QEMU exited by itself all   *)
(* of it is judged: a missing line was never printed.                      *)
AllOutputJudged ==
  /\ text \o pipe = Printed
  /\ (verdict \in Verdicts \ {"none", "exception"} /\ qemu = "exited") => text = Printed

(* PASS is earned: every expected line and the trigger came from the       *)
(* guest, and a screenshot of this run was taken after the trigger was     *)
(* printed and while the guest itself had its right frame on the screen,   *)
(* not before the frame, after it or instead of it.  What a screenshot of  *)
(* an earlier run does is PixelsDecide's.                                  *)
PassIsEarned ==
  verdict = "PASS" =>
    /\ Expect \subseteq Range(Printed)
    /\ Trigger \in Range(Printed)
    /\ shot /\ file.pixels = "right"
    /\ file.run = "this" =>
         file.at <= at /\ ShowsRight(file.at) /\ Trigger \in Range(PrintedBy(file.at))

(* "A test passes only if the pixels on the virtual screen are right"      *)
(* (lines 6-8): PASS is said of the screen of this run.                    *)
PixelsDecide ==
  verdict = "PASS" => file.run = "this"

(* A complete trigger line that the loop has searched has led to the       *)
(* screenshot, even when a chunk ended in the middle of it.                *)
TriggerNotMissed ==
  (test = "loop" /\ Trigger \in Range(CompleteLines(text))) => shot

=============================================================================
