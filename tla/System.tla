------------------------------- MODULE System -------------------------------
(***************************************************************************)
(* PID 1 as a whole: main.rs runs Boot's part, hands the options it found  *)
(* on the command line over, and goes on as WanaInit.  The system is shown *)
(* to implement WanaInit with any options, and the options are followed    *)
(* from the words of the command line to the processes they lead to.       *)
(***************************************************************************)
EXTENDS Boot

CONSTANTS
  Pids, Pid1, Kthread, NoPid, SpawnErrors            \* see WanaInit

ASSUME ServiceAssumption ==
  /\ Pid1 \notin Pids /\ Kthread \notin Pids \union {Pid1}
  /\ NoPid \notin Pids \union {Pid1} /\ SpawnErrors \in Nat

VARIABLES
  st, parent, prog, present, runner, shell, errors,  \* see WanaInit
  servicePc,                                         \* its pc
  given                                              \* its opts

Service == INSTANCE WanaInit WITH pc <- servicePc, opts <- given

serviceVars == <<st, parent, prog, present, runner, shell, errors, servicePc, given>>

systemVars == <<vars, serviceVars>>

SystemInit == Init /\ Service!Init

BootStep ==
  /\ \/ EarlyMount \/ EarlyMountsDone
     \/ ReadOptions \/ ParseNext \/ ParseDone \/ DefaultOptions
     \/ SetIdentity \/ Report
  /\ UNCHANGED serviceVars

(* Fault: a boot that knows its options acts on the defaults. *)
ParsedDefaults == [run |-> FALSE, test |-> FALSE, shell |-> TRUE]

(* What WanaInit needs to know of the parsed options. *)
Parsed ==
  [run |-> opts.run # "none", test |-> opts.test # "none", shell |-> opts.shell]

(* Fault: the wana.run step is forgotten in a degraded boot. *)
StartServiceSkipsRun ==
  /\ pc = "done"
  /\ servicePc = "boot"
  /\ servicePc' = IF failed = 0 THEN "run" ELSE "test"
  /\ given' = Parsed
  /\ UNCHANGED <<st, parent, prog, present, runner, shell, errors, vars>>

(* Fault: the program is started before the report. *)
StartServiceEarly ==
  /\ pc \in {"report", "done"}
  /\ Service!BootDone
  /\ given' = Parsed
  /\ UNCHANGED vars

(* main, after the report: run_once, stop and supervise get the options. *)
StartService ==
  /\ pc = "done"
  /\ Service!BootDone
  /\ given' = Parsed
  /\ UNCHANGED vars

(* WanaInit's own steps, once it has them. *)
Serve == servicePc # "boot" /\ Service!InitStep /\ UNCHANGED vars

Elsewhere == (Service!Others \/ Service!MachineOff) /\ UNCHANGED vars

SystemNext == BootStep \/ StartService \/ Serve \/ Elsewhere

SystemSpec == SystemInit /\ [][SystemNext]_systemVars

(* One thread, which the scheduler runs when it can move; waitpid as in    *)
(* WanaInit.                                                               *)
SystemFairSpec ==
  /\ SystemSpec
  /\ WF_systemVars(BootStep \/ StartService \/ Serve)
  /\ \A c \in Pids : SF_systemVars(Service!Reap(c) /\ UNCHANGED vars)

-----------------------------------------------------------------------------
(* main.rs is Boot followed by WanaInit: whatever the mounts and the       *)
(* command line are, the system does what WanaInit does with some options, *)
(* and the boot always gets to it.                                         *)
ImplementsWanaInit == Service!FairSpec

(* The command line is obeyed to its end: a program runs, a shell runs and *)
(* the machine stops only if the last usable word for it says so (a shell: *)
(* does not say otherwise), over every failed mount, typo, failed spawn,   *)
(* exit and restart in between.                                            *)
CommandLineObeyed ==
  /\ \A p \in Pids :
       /\ prog[p] = "run" => LastUsable("run", line) # "none"
       /\ prog[p] = "shell" => LastUsable("shell", line)
  /\ servicePc = "halted" => LastUsable("test", line) # "none"

(* "Report ready, then supervise": init starts no program and no shell and *)
(* does not stop before the console says, unless wana.log hides it, how    *)
(* the boot went; helpers of the kernel may run at any time.               *)
ReportComesFirst ==
  ((\E p \in Pids : prog[p] # "other") \/ servicePc = "halted") =>
    \/ <<"ready", "">> \in console
    \/ <<"degraded", "">> \in console
    \/ LastUsable("log", line) \in {"error", "warn", "warning"}

(* "PID 1 must never exit.  Every failure here is logged and the boot      *)
(* continues in a degraded state": whatever fails, init ends up            *)
(* supervising, unless it stopped the machine as told or still waits for   *)
(* the program.                                                            *)
BootLeadsToService ==
  <>(servicePc \in Service!Loop \union {"halted"} \/ [](servicePc = "runwait"))

=============================================================================
