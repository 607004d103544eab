------------------------------ MODULE WanaInit ------------------------------
(***************************************************************************)
(* wana-init from the end of its boot report on: the one thread of PID 1   *)
(* (src/crates/wana-init/src/main.rs) against the kernel's process table.  *)
(* It may run one program and wait for it, may stop the machine, and then  *)
(* supervises forever: it reaps every child and restarts the console shell.*)
(*                                                                         *)
(* The mounts and the command line that precede this are modelled in Boot; *)
(* here they are the single step BootDone that picks the options.          *)
(***************************************************************************)
EXTENDS Naturals, FiniteSets, Processes

CONSTANTS
  NoPid,        \* "no handle": the None of Option<Child>
  SpawnErrors   \* bound: how many spawns may fail although an id is free

ASSUME NoPidAssumption == NoPid \notin Pids /\ NoPid # Pid1
ASSUME SpawnErrorsAssumption == SpawnErrors \in Nat

VARIABLES
  pc,       \* where PID 1's thread is
  opts,     \* the Options it acts on (log level and warnings left out)
  present,  \* /bin/sh exists on the root filesystem
  runner,   \* the Child that Command::status waits for
  shell,    \* supervise's `shell: Option<Child>`
  errors    \* spawn errors so far

own == <<pc, opts, present, runner, shell, errors>>
vars == <<procs, own>>

(* run and test are Options: TRUE stands for Some. *)
Options == [run : BOOLEAN, test : BOOLEAN, shell : BOOLEAN]

(* supervise's loop: blocked in waitpid, or in one of its three sleeps. *)
Loop == {"wait", "restart", "idle", "error"}

PCs == {"boot", "run", "runwait", "test", "start", "halted"} \union Loop

TypeOK ==
  /\ ProcessesTypeOK
  /\ pc \in PCs
  /\ opts \in Options
  /\ present \in BOOLEAN
  /\ runner \in Pids \union {NoPid}
  /\ shell \in Pids \union {NoPid}
  /\ errors \in 0 .. SpawnErrors

Init ==
  /\ NoProcesses
  /\ pc = "boot"
  /\ opts = [run |-> FALSE, test |-> FALSE, shell |-> TRUE]
  /\ present \in BOOLEAN
  /\ runner = NoPid
  /\ shell = NoPid
  /\ errors = 0

-----------------------------------------------------------------------------
(* Boot: mounts, options and the ready or degraded report are behind. *)
BootDone ==
  /\ pc = "boot"
  /\ pc' = "run"
  /\ opts' \in Options
  /\ UNCHANGED <<procs, present, runner, shell, errors>>

(* Command::spawn returns Err: no id is left, or another error (memory,    *)
(* exec), which the bound limits.                                          *)
SpawnFails ==
  /\ \/ InUse = Pids /\ UNCHANGED errors
     \/ errors < SpawnErrors /\ errors' = errors + 1
  /\ UNCHANGED procs

(* run_once, its spawn: Command::status forks and goes on to wait. *)
RunOnceSkipped ==
  /\ pc = "run" /\ ~ opts.run
  /\ pc' = "test"
  /\ UNCHANGED <<procs, opts, present, runner, shell, errors>>

RunOnceStarts ==
  /\ pc = "run" /\ opts.run
  /\ \E c \in Pids : Fork(Pid1, c, "run") /\ runner' = c
  /\ pc' = "runwait"
  /\ UNCHANGED <<opts, present, shell, errors>>

RunOnceFails ==
  /\ pc = "run" /\ opts.run
  /\ SpawnFails
  /\ pc' = "test"
  /\ UNCHANGED <<opts, present, runner, shell>>

(* Fault: run_once collects whichever child exits first. *)
RunOnceWaitsForAny ==
  /\ pc = "runwait"
  /\ \E c \in Children(Pid1) : Release(c)
  /\ UNCHANGED runner
  /\ pc' \in {"runwait", "test"}
  /\ UNCHANGED <<opts, present, shell, errors>>

(* run_once, its wait: waitpid(pid) for that process alone, so orphans     *)
(* that exit meanwhile stay zombies.                                       *)
RunOnceWaited ==
  /\ pc = "runwait"
  /\ Release(runner)
  /\ runner' = NoPid
  /\ pc' = "test"
  /\ UNCHANGED <<opts, present, shell, errors>>

(* stop: reboot(2) does not return on success and is survived on failure. *)
Stop ==
  /\ pc = "test"
  /\ IF opts.test THEN pc' \in {"halted", "start"} ELSE pc' = "start"
  /\ UNCHANGED <<procs, opts, present, runner, shell, errors>>

-----------------------------------------------------------------------------
(* Fault: the handle records the id of init instead of the child's. *)
SpawnShellOwnId ==
  /\ present
  /\ \E c \in Pids : Fork(Pid1, c, "shell")
  /\ shell' = Pid1
  /\ UNCHANGED errors

(* spawn_shell, the Some outcome. *)
SpawnShellOk ==
  /\ present
  /\ \E c \in Pids : Fork(Pid1, c, "shell") /\ shell' = c
  /\ UNCHANGED errors

(* Fault: a failed restart leaves the old handle in place. *)
SpawnShellKeepsHandle ==
  /\ \/ ~ present /\ UNCHANGED <<procs, errors>>
     \/ present /\ SpawnFails
  /\ UNCHANGED shell

(* spawn_shell, its two None outcomes: /bin/sh missing, or spawn fails. *)
SpawnShellNone ==
  /\ \/ ~ present /\ UNCHANGED <<procs, errors>>
     \/ present /\ SpawnFails
  /\ shell' = NoPid

SpawnShell == SpawnShellOk \/ SpawnShellNone

(* supervise, before its loop. *)
SuperviseStart ==
  /\ pc = "start"
  /\ \/ opts.shell /\ SpawnShell
     \/ ~ opts.shell /\ shell' = NoPid /\ UNCHANGED <<procs, errors>>
  /\ pc' = "wait"
  /\ UNCHANGED <<opts, present, runner>>

(* Faults, not part of the specification: supervise restarts the shell     *)
(* whichever child it reaped, and supervise waits for the shell alone.     *)
ReapRestartsAlways(c) ==
  /\ pc = "wait"
  /\ c \in Children(Pid1)
  /\ Release(c)
  /\ pc' = "restart"
  /\ UNCHANGED <<opts, present, runner, shell, errors>>

ReapShellOnly(c) ==
  /\ pc = "wait"
  /\ c = shell
  /\ Release(c)
  /\ pc' = "restart"
  /\ UNCHANGED <<opts, present, runner, shell, errors>>

(* supervise: reap_any returns child c.  If it is the shell the loop goes  *)
(* to sleep for SHELL_RESTART_DELAY, still holding the stale handle.       *)
Reap(c) ==
  /\ pc = "wait"
  /\ c \in Children(Pid1)
  /\ Release(c)
  /\ pc' = IF shell = c THEN "restart" ELSE "wait"
  /\ UNCHANGED <<opts, present, runner, shell, errors>>

(* supervise, after that sleep: the handle is replaced by the new one. *)
Restart ==
  /\ pc = "restart"
  /\ SpawnShell
  /\ pc' = "wait"
  /\ UNCHANGED <<opts, present, runner>>

(* Fault: the loop sleeps when no child has exited yet. *)
ReapNoneExited ==
  /\ pc = "wait"
  /\ \A c \in Children(Pid1) : st[c] # "zombie"
  /\ pc' = "idle"
  /\ UNCHANGED <<procs, opts, present, runner, shell, errors>>

(* reap_any returns NoChildren (ECHILD): sleep five seconds.  Meanwhile    *)
(* orphans of the kernel's helpers may be adopted.                         *)
ReapNoChildren ==
  /\ pc = "wait"
  /\ Children(Pid1) = {}
  /\ pc' = "idle"
  /\ UNCHANGED <<procs, opts, present, runner, shell, errors>>

(* reap_any returns any other error: sleep one second.  EINTR is retried   *)
(* inside reap_any and changes nothing.                                    *)
ReapError ==
  /\ pc = "wait"
  /\ pc' = "error"
  /\ UNCHANGED <<procs, opts, present, runner, shell, errors>>

Wake ==
  /\ pc \in {"idle", "error"}
  /\ pc' = "wait"
  /\ UNCHANGED <<procs, opts, present, runner, shell, errors>>

RunOnce == RunOnceSkipped \/ RunOnceStarts \/ RunOnceFails \/ RunOnceWaited

(* Everything PID 1 does, one waitpid result at a time. *)
InitStep ==
  \/ BootDone \/ RunOnce \/ Stop
  \/ SuperviseStart \/ Restart
  \/ ReapNoChildren \/ ReapError \/ Wake
  \/ \E c \in Pids : Reap(c)

(* The other processes run until the machine stops. *)
Others ==
  /\ pc # "halted"
  /\ ForkByProcess \/ HelperStarts \/ ReapByProcess \/ SomeExit
  /\ UNCHANGED own

(* After a successful reboot(2) nothing happens any more. *)
MachineOff == pc = "halted" /\ UNCHANGED vars

Next == InitStep \/ Others \/ MachineOff

Spec == Init /\ [][Next]_vars

(* The scheduler runs PID 1 whenever it can move, and waitpid(-1) picks    *)
(* zombies from the front of the kernel's list of children, so no zombie   *)
(* is passed over forever.  Nothing is assumed about other processes: the  *)
(* shell and the program may run forever.                                  *)
Fairness == WF_vars(InitStep) /\ \A c \in Pids : SF_vars(Reap(c))

FairSpec == Spec /\ Fairness

-----------------------------------------------------------------------------
(* Only one process at a time is meant for the console: over every exit,   *)
(* reap and restart, and whatever ids are reused, at most one shell or     *)
(* wana.run program started by init is unreaped.  main.rs replaces the     *)
(* shell only after waitpid returned its id, and run_once has reaped the   *)
(* program before supervise starts.                                        *)
OneConsoleProcess ==
  \A p, q \in InUse :
    (prog[p] \in {"shell", "run"} /\ prog[q] \in {"shell", "run"}) => p = q

(* The status that Command::status waits for cannot be collected by anyone *)
(* else: until init reaps it, the program it started keeps its id, stays   *)
(* init's child and is never replaced by another process with that id.     *)
RunStatusKept ==
  pc = "runwait" => /\ runner \in Children(Pid1)
                    /\ prog[runner] = "run"

(* supervise sleeps for five seconds only when there is no shell left to   *)
(* keep alive: orphans may appear meanwhile and wait, but no handle is     *)
(* held and no shell or program exists, so no restart is ever delayed.     *)
IdleDelaysNoRestart ==
  pc = "idle" => shell = NoPid /\ \A p \in InUse : prog[p] = "other"

(* The id comparison in supervise is exact although process ids are reused *)
(* and the handle is stale between a reap and the restart: reaping a child *)
(* leads to a restart if and only if that child was the console shell.     *)
RestartIffShellReaped ==
  [][\A c \in Pids :
       (pc = "wait" /\ st[c] = "zombie" /\ st'[c] = "free" /\ parent[c] = Pid1)
         => (pc' = "restart" <=> prog[c] = "shell")]_vars

(* "Reaps children forever": every zombie that is init's child, born or    *)
(* adopted, is reaped once supervise runs, even while waitpid fails now    *)
(* and then, other children keep exiting and the shell keeps restarting.   *)
ZombiesReaped ==
  \A c \in Pids :
    (pc \in Loop /\ st[c] = "zombie" /\ parent[c] = Pid1) ~> st[c] = "free"

(* The doc comment of supervise: it "keeps the console shell alive".  A    *)
(* wanted shell whose file exists is running again and again.              *)
ShellKeptAlive ==
  (opts.shell /\ present /\ pc \in Loop)
    ~> \E p \in Pids : prog[p] = "shell" /\ st[p] = "running"

(* Who has the console, read off the process table and the handle.         *)
Running(program) == \E p \in Pids : st[p] = "running" /\ prog[p] = program

Owner ==
  CASE pc = "halted" -> "off"
    [] pc # "halted" /\ Running("run") -> "run"
    [] pc # "halted" /\ Running("shell") -> "shell"
    [] pc \in Loop \ {"restart"} /\ shell = NoPid -> "nobody"
    [] OTHER -> "init"

Stage ==
  CASE pc \in {"boot", "run"} -> "boot"
    [] pc \in Loop -> "serving"
    [] OTHER -> "ran"

Console == INSTANCE ConsoleService WITH owner <- Owner, stage <- Stage

(* wana-init implements ConsoleService: the console is handed from init to *)
(* the program, back, and to one shell after the other, it is stopped or   *)
(* abandoned only where main.rs says so, and init never keeps it.          *)
ImplementsConsole == Console!Spec

=============================================================================
