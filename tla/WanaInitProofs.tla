--------------------------- MODULE WanaInitProofs ---------------------------
(***************************************************************************)
(* Safety of WanaInit for any set of process ids and any number of spawn   *)
(* errors, whatever the other processes and the kernel's helpers do.       *)
(* First what every operation on the process table preserves: its types,   *)
(* and that a free id carries nothing over to its next use.                *)
(***************************************************************************)
EXTENDS WanaInit, TLAPS

CleanTable == ProcessesTypeOK /\ FreeIsClean

LEMMA NoProcessesClean == NoProcesses => CleanTable
BY DEF NoProcesses, CleanTable, ProcessesTypeOK, FreeIsClean, Programs

LEMMA ForkClean ==
  ASSUME CleanTable, NEW p \in Pids \union {Pid1, Kthread}, NEW c \in Pids,
         NEW program \in Programs, Fork(p, c, program)
  PROVE  CleanTable'
<1>1. ProcessesTypeOK'
  BY DEF CleanTable, ProcessesTypeOK, Fork
<1>2. FreeIsClean'
  BY DEF CleanTable, ProcessesTypeOK, FreeIsClean, Fork
<1>3. QED
  BY <1>1, <1>2 DEF CleanTable

LEMMA ExitClean ==
  ASSUME CleanTable, NEW p \in Pids, Exit(p)
  PROVE  CleanTable'
<1>1. ProcessesTypeOK'
  BY DEF CleanTable, ProcessesTypeOK, Exit
<1>2. FreeIsClean'
  BY DEF CleanTable, ProcessesTypeOK, FreeIsClean, Exit
<1>3. QED
  BY <1>1, <1>2 DEF CleanTable

LEMMA ReleaseClean ==
  ASSUME CleanTable, NEW c \in Pids, Release(c)
  PROVE  CleanTable'
<1>1. ProcessesTypeOK'
  BY DEF CleanTable, ProcessesTypeOK, Release, Programs
<1>2. FreeIsClean'
  BY DEF CleanTable, ProcessesTypeOK, FreeIsClean, Release
<1>3. QED
  BY <1>1, <1>2 DEF CleanTable

-----------------------------------------------------------------------------
(* In the loop, except between the shell's reap and its restart, a handle  *)
(* names a child of PID 1 that is the shell: its id cannot have been       *)
(* reused, because only the loop itself can free it.                       *)
HandleIsShell ==
  (pc \in Loop \ {"restart"} /\ shell # NoPid) =>
     shell \in Children(Pid1) /\ prog[shell] = "shell"

(* Every shell is the one the handle names. *)
ShellIsHandled ==
  \A p \in Pids : prog[p] = "shell" => pc \in Loop \ {"restart"} /\ shell = p

(* Every wana.run program is the one run_once waits for. *)
ProgramIsAwaited ==
  \A p \in Pids : prog[p] = "run" => pc = "runwait" /\ runner = p

(* The inductive invariant.  OneConsoleProcess and IdleDelaysNoRestart are *)
(* not inductive: they need to know that unreaped shells and programs are  *)
(* exactly the processes the two handles name.                             *)
IInv ==
  /\ TypeOK
  /\ CleanTable
  /\ HandleIsShell
  /\ ShellIsHandled
  /\ ProgramIsAwaited
  /\ RunStatusKept
  /\ IdleDelaysNoRestart

(* The parts of IInv that speak of handles. *)
Handles ==
  HandleIsShell /\ ShellIsHandled /\ ProgramIsAwaited /\ RunStatusKept /\ IdleDelaysNoRestart

-----------------------------------------------------------------------------
LEMMA InitIInv == Init => IInv
<1>1. Init => CleanTable
  BY NoProcessesClean DEF Init
<1>2. QED
  BY <1>1, NoPidAssumption, SpawnErrorsAssumption
  DEF Init, Options, NoProcesses, IInv, TypeOK, CleanTable, HandleIsShell, ShellIsHandled,
      ProgramIsAwaited, RunStatusKept, IdleDelaysNoRestart, Loop, PCs

(* Steps that leave the process table and the handles alone and stay       *)
(* outside the loop.                                                       *)
LEMMA OutsideLoop ==
  ASSUME IInv, UNCHANGED <<procs, present, runner, shell>>,
         opts' \in Options, errors' \in 0 .. SpawnErrors,
         pc \notin Loop \union {"runwait"},
         pc' \in PCs \ (Loop \union {"runwait"})
  PROVE  IInv'
<1>1. CleanTable'
  BY DEF IInv, CleanTable, ProcessesTypeOK, FreeIsClean, InUse, procs
<1>2. TypeOK'
  BY <1>1 DEF IInv, TypeOK, CleanTable
<1>3. Handles'
  BY DEF IInv, Handles, procs, HandleIsShell, ShellIsHandled, ProgramIsAwaited,
         RunStatusKept, IdleDelaysNoRestart, Loop
<1>4. QED
  BY <1>1, <1>2, <1>3 DEF IInv, Handles

(* Steps of the loop that leave the process table and the handles alone. *)
LEMMA InsideLoop ==
  ASSUME IInv, UNCHANGED <<procs, opts, present, runner, shell, errors>>,
         pc \in Loop \ {"restart"}, pc' \in Loop \ {"restart"},
         pc' = "idle" => IdleDelaysNoRestart'
  PROVE  IInv'
<1>1. CleanTable'
  BY DEF IInv, CleanTable, ProcessesTypeOK, FreeIsClean, InUse, procs
<1>2. TypeOK'
  BY <1>1 DEF IInv, TypeOK, CleanTable, PCs
<1>3. Handles'
  BY DEF IInv, Handles, procs, HandleIsShell, ShellIsHandled, ProgramIsAwaited,
         RunStatusKept, IdleDelaysNoRestart, Loop, Children, InUse
<1>4. QED
  BY <1>1, <1>2, <1>3 DEF IInv, Handles

LEMMA SpawnFailsSame ==
  ASSUME IInv, SpawnFails
  PROVE  UNCHANGED procs /\ errors' \in 0 .. SpawnErrors
BY SpawnErrorsAssumption DEF IInv, TypeOK, SpawnFails

(* Starting the shell, at the start of supervise or at a restart: at that  *)
(* point no shell and no program is left in the process table.             *)
LEMMA SpawnShellIInv ==
  ASSUME IInv, pc \in {"start", "restart"}, SpawnShell, pc' = "wait",
         UNCHANGED <<opts, present, runner>>
  PROVE  IInv'
<1>0. Pid1 \notin Pids /\ NoPid \notin Pids
  BY Pid1Assumption, NoPidAssumption
<1>1. \A p \in Pids : prog[p] = "other"
  BY DEF IInv, TypeOK, ProcessesTypeOK, Programs, ShellIsHandled, ProgramIsAwaited, Loop
<1>2. CASE SpawnShellOk
  <2>1. PICK c \in Pids : Fork(Pid1, c, "shell") /\ shell' = c
    BY <1>2 DEF SpawnShellOk
  <2>2. CleanTable'
    BY <2>1, ForkClean DEF IInv, Programs
  <2>3. TypeOK'
    BY <1>2, <2>1, <2>2 DEF IInv, TypeOK, CleanTable, PCs, Loop, SpawnShellOk
  <2>4. /\ prog' = [prog EXCEPT ![c] = "shell"]
        /\ st'[c] = "running" /\ parent'[c] = Pid1 /\ prog'[c] = "shell"
    BY <2>1 DEF IInv, TypeOK, ProcessesTypeOK, Fork
  <2>5. Handles'
    BY <1>0, <1>1, <2>1, <2>4
    DEF IInv, TypeOK, ProcessesTypeOK, Handles, HandleIsShell, ShellIsHandled,
        ProgramIsAwaited, RunStatusKept, IdleDelaysNoRestart, Loop, Children, InUse
  <2>6. QED
    BY <2>2, <2>3, <2>5 DEF IInv, Handles
<1>3. CASE SpawnShellNone
  <2>1. UNCHANGED procs /\ errors' \in 0 .. SpawnErrors /\ shell' = NoPid
    BY <1>3, SpawnFailsSame DEF SpawnShellNone, IInv, TypeOK
  <2>2. CleanTable'
    BY <2>1 DEF IInv, CleanTable, ProcessesTypeOK, FreeIsClean, InUse, procs
  <2>3. TypeOK'
    BY <2>1, <2>2 DEF IInv, TypeOK, CleanTable, PCs, Loop
  <2>4. Handles'
    BY <1>1, <2>1
    DEF Handles, procs, HandleIsShell, ShellIsHandled, ProgramIsAwaited,
        RunStatusKept, IdleDelaysNoRestart
  <2>5. QED
    BY <2>2, <2>3, <2>4 DEF IInv, Handles
<1>4. QED
  BY <1>2, <1>3 DEF SpawnShell

(* Reaping frees the id of a child.  If it was the shell no shell is left  *)
(* and the loop goes to restart one; if not the handle still names it.     *)
LEMMA ReapIInv ==
  ASSUME IInv, NEW c \in Pids, Reap(c)
  PROVE  IInv'
<1>0. NoPid \notin Pids
  BY NoPidAssumption
<1>1. CleanTable'
  BY ReleaseClean DEF IInv, Reap
<1>2. TypeOK'
  BY <1>1 DEF IInv, TypeOK, CleanTable, Reap, PCs, Loop
<1>3. /\ prog' = [prog EXCEPT ![c] = "other"]
      /\ \A p \in Pids \ {c} : st'[p] = st[p] /\ parent'[p] = parent[p]
  BY DEF IInv, TypeOK, ProcessesTypeOK, Reap, Release
<1>4. HandleIsShell'
  BY <1>0, <1>3 DEF IInv, TypeOK, ProcessesTypeOK, HandleIsShell, Reap, Loop, Children, InUse
<1>5. ShellIsHandled'
  BY <1>3 DEF IInv, TypeOK, ProcessesTypeOK, ShellIsHandled, Reap, Loop
<1>6. ProgramIsAwaited'
  BY <1>3 DEF IInv, TypeOK, ProcessesTypeOK, ProgramIsAwaited, Reap
<1>7. RunStatusKept' /\ IdleDelaysNoRestart'
  BY DEF RunStatusKept, IdleDelaysNoRestart, Reap
<1>8. QED
  BY <1>1, <1>2, <1>4, <1>5, <1>6, <1>7 DEF IInv

(* run_once: the program it starts, and the end of its wait. *)
LEMMA RunOnceIInv ==
  ASSUME IInv, RunOnceStarts \/ RunOnceWaited
  PROVE  IInv'
<1>0. Pid1 \notin Pids /\ NoPid \notin Pids
  BY Pid1Assumption, NoPidAssumption
<1>1. CASE RunOnceStarts
  <2>1. PICK c \in Pids : Fork(Pid1, c, "run") /\ runner' = c
    BY <1>1 DEF RunOnceStarts
  <2>2. CleanTable'
    BY <2>1, ForkClean DEF IInv, Programs
  <2>3. TypeOK'
    BY <1>1, <2>1, <2>2 DEF IInv, TypeOK, CleanTable, PCs, RunOnceStarts
  <2>4. /\ prog' = [prog EXCEPT ![c] = "run"]
        /\ st'[c] = "running" /\ parent'[c] = Pid1 /\ prog'[c] = "run"
    BY <2>1 DEF IInv, TypeOK, ProcessesTypeOK, Fork
  <2>5. \A p \in Pids : prog[p] = "other"
    BY <1>1 DEF IInv, TypeOK, ProcessesTypeOK, Programs, ShellIsHandled,
                ProgramIsAwaited, Loop, RunOnceStarts
  <2>6. Handles'
    BY <1>1, <2>1, <2>4, <2>5
    DEF IInv, TypeOK, ProcessesTypeOK, Handles, HandleIsShell, ShellIsHandled,
        ProgramIsAwaited, RunStatusKept, IdleDelaysNoRestart, Loop, Children, InUse, RunOnceStarts
  <2>7. QED
    BY <2>2, <2>3, <2>6 DEF IInv, Handles
<1>2. CASE RunOnceWaited
  <2>1. runner \in Pids /\ Release(runner)
    BY <1>2 DEF IInv, RunStatusKept, RunOnceWaited, Children, InUse
  <2>2. CleanTable'
    BY <2>1, ReleaseClean DEF IInv
  <2>3. TypeOK'
    BY <1>2, <2>2 DEF IInv, TypeOK, CleanTable, PCs, RunOnceWaited
  <2>4. prog' = [prog EXCEPT ![runner] = "other"]
    BY <2>1 DEF Release
  <2>5. Handles'
    BY <1>2, <2>1, <2>4
    DEF IInv, TypeOK, ProcessesTypeOK, Handles, HandleIsShell, ShellIsHandled,
        ProgramIsAwaited, RunStatusKept, IdleDelaysNoRestart, Loop, RunOnceWaited
  <2>6. QED
    BY <2>2, <2>3, <2>5 DEF IInv, Handles
<1>3. QED
  BY <1>1, <1>2

(* The other processes: what they fork is neither a shell nor a program of *)
(* init's, they never reap init's children, and an exit takes no id away.  *)
(* So are helpers of the kernel and their orphans, adopted or not.         *)
LEMMA OthersIInv ==
  ASSUME IInv, Others
  PROVE  IInv'
<1>0. Pid1 \notin Pids /\ NoPid \notin Pids
  BY Pid1Assumption, NoPidAssumption
<1>1. UNCHANGED <<pc, opts, present, runner, shell, errors>>
  BY DEF Others, own
<1>2. CASE ForkByProcess
  <2>1. PICK p, c \in Pids : st[p] = "running" /\ Fork(p, c, "other")
    BY <1>2 DEF ForkByProcess
  <2>2. CleanTable'
    BY <2>1, ForkClean DEF IInv, Programs
  <2>3. TypeOK'
    BY <1>1, <2>2 DEF IInv, TypeOK, CleanTable
  <2>4. /\ prog' = prog /\ p \in InUse
        /\ \A q \in InUse : st'[q] = st[q] /\ parent'[q] = parent[q]
    BY <2>1 DEF IInv, TypeOK, ProcessesTypeOK, CleanTable, FreeIsClean, Fork, InUse
  <2>5. Handles'
    BY <1>0, <1>1, <2>4
    DEF IInv, TypeOK, ProcessesTypeOK, CleanTable, FreeIsClean, Handles, HandleIsShell,
        ShellIsHandled, ProgramIsAwaited, RunStatusKept, IdleDelaysNoRestart, Children, InUse
  <2>6. QED
    BY <2>2, <2>3, <2>5 DEF IInv, Handles
<1>h. CASE HelperStarts
  <2>1. PICK c \in Pids : Fork(Kthread, c, "other")
    BY <1>h DEF HelperStarts
  <2>2. CleanTable'
    BY <2>1, ForkClean DEF IInv, Programs
  <2>3. TypeOK'
    BY <1>1, <2>2 DEF IInv, TypeOK, CleanTable
  <2>4. /\ prog' = prog
        /\ \A q \in InUse : st'[q] = st[q] /\ parent'[q] = parent[q]
    BY <2>1 DEF IInv, TypeOK, ProcessesTypeOK, CleanTable, FreeIsClean, Fork, InUse
  <2>5. Handles'
    BY <1>0, <1>1, <2>4
    DEF IInv, TypeOK, ProcessesTypeOK, CleanTable, FreeIsClean, Handles, HandleIsShell,
        ShellIsHandled, ProgramIsAwaited, RunStatusKept, IdleDelaysNoRestart, Children, InUse
  <2>6. QED
    BY <2>2, <2>3, <2>5 DEF IInv, Handles
<1>3. CASE ReapByProcess
  <2>1. PICK c \in Pids : parent[c] # Pid1 /\ Release(c)
    BY <1>3 DEF ReapByProcess
  <2>2. CleanTable'
    BY <2>1, ReleaseClean DEF IInv
  <2>3. TypeOK'
    BY <1>1, <2>2 DEF IInv, TypeOK, CleanTable
  <2>4. /\ prog' = [prog EXCEPT ![c] = "other"]
        /\ \A q \in Pids \ {c} : st'[q] = st[q] /\ parent'[q] = parent[q]
        /\ c \in InUse
    BY <2>1 DEF IInv, TypeOK, ProcessesTypeOK, Release, InUse
  <2>5. Handles'
    BY <1>0, <1>1, <2>1, <2>4
    DEF IInv, TypeOK, ProcessesTypeOK, Handles, HandleIsShell, ShellIsHandled,
        ProgramIsAwaited, RunStatusKept, IdleDelaysNoRestart, Children, InUse
  <2>6. QED
    BY <2>2, <2>3, <2>5 DEF IInv, Handles
<1>4. CASE SomeExit
  <2>1. PICK p \in Pids : Exit(p)
    BY <1>4 DEF SomeExit
  <2>2. CleanTable'
    BY <2>1, ExitClean DEF IInv
  <2>3. TypeOK'
    BY <1>1, <2>2 DEF IInv, TypeOK, CleanTable
  <2>4. /\ prog' = prog /\ InUse' = InUse /\ p \in InUse
        /\ \A q \in Pids : parent[q] = Pid1 => parent'[q] = Pid1
    BY <1>0, <2>1 DEF IInv, TypeOK, ProcessesTypeOK, Exit, InUse
  <2>5. Handles'
    BY <1>0, <1>1, <2>4
    DEF IInv, TypeOK, Handles, HandleIsShell, ShellIsHandled, ProgramIsAwaited,
        RunStatusKept, IdleDelaysNoRestart, Children, InUse
  <2>6. QED
    BY <2>2, <2>3, <2>5 DEF IInv, Handles
<1>5. QED
  BY <1>2, <1>h, <1>3, <1>4 DEF Others

(* A stuttering step changes nothing IInv speaks of. *)
LEMMA StutterIInv == IInv /\ UNCHANGED vars => IInv'
BY DEF vars, procs, own, IInv, TypeOK, CleanTable, ProcessesTypeOK, FreeIsClean,
       HandleIsShell, ShellIsHandled, ProgramIsAwaited,
       RunStatusKept, IdleDelaysNoRestart, Children, InUse

LEMMA NextIInv == IInv /\ [Next]_vars => IInv'
<1>0. SUFFICES ASSUME IInv, [Next]_vars PROVE IInv'
  OBVIOUS
<1>t. opts \in Options /\ errors \in 0 .. SpawnErrors
  BY <1>0 DEF IInv, TypeOK
<1>1. CASE BootDone
  BY <1>0, <1>1, <1>t, OutsideLoop DEF BootDone, PCs, Loop
<1>2. CASE RunOnceSkipped
  BY <1>0, <1>2, <1>t, OutsideLoop DEF RunOnceSkipped, PCs, Loop
<1>3. CASE RunOnceFails
  BY <1>0, <1>3, <1>t, SpawnFailsSame, OutsideLoop DEF RunOnceFails, PCs, Loop
<1>4. CASE RunOnceStarts \/ RunOnceWaited
  BY <1>0, <1>4, RunOnceIInv
<1>5. CASE Stop
  <2>1. pc' \in {"halted", "start"}
    BY <1>5 DEF Stop
  <2>2. QED
    BY <1>0, <1>5, <1>t, <2>1, OutsideLoop DEF Stop, PCs, Loop
<1>6. CASE SuperviseStart
  <2>1. CASE opts.shell
    BY <1>0, <1>6, <2>1, SpawnShellIInv DEF SuperviseStart
  <2>2. CASE ~ opts.shell
    <3>1. UNCHANGED procs /\ shell' = NoPid /\ pc = "start" /\ pc' = "wait"
          /\ UNCHANGED <<opts, present, runner, errors>>
      BY <1>6, <2>2 DEF SuperviseStart
    <3>2. CleanTable'
      BY <1>0, <3>1 DEF IInv, CleanTable, ProcessesTypeOK, FreeIsClean,
                        InUse, procs
    <3>3. TypeOK'
      BY <1>0, <3>1, <3>2 DEF IInv, TypeOK, CleanTable, PCs, Loop
    <3>4. Handles'
      BY <1>0, <3>1 DEF IInv, Handles, procs, HandleIsShell, ShellIsHandled,
                        ProgramIsAwaited, RunStatusKept, IdleDelaysNoRestart, Loop
    <3>5. QED
      BY <3>2, <3>3, <3>4 DEF IInv, Handles
  <2>3. QED
    BY <2>1, <2>2
<1>7. CASE Restart
  BY <1>0, <1>7, SpawnShellIInv DEF Restart
<1>8. CASE ReapNoChildren
  <2>1. shell = NoPid
    BY <1>0, <1>8 DEF IInv, ReapNoChildren, HandleIsShell, Loop
  <2>2. \A p \in Pids : prog[p] = "other"
    BY <1>0, <1>8, <2>1, NoPidAssumption
    DEF IInv, TypeOK, ProcessesTypeOK, Programs, ShellIsHandled, ProgramIsAwaited, ReapNoChildren
  <2>3. IdleDelaysNoRestart'
    BY <1>8, <2>1, <2>2 DEF ReapNoChildren, procs, IdleDelaysNoRestart, InUse
  <2>4. QED
    BY <1>0, <1>8, <2>3, InsideLoop DEF ReapNoChildren, Loop
<1>9. CASE ReapError
  BY <1>0, <1>9, InsideLoop DEF ReapError, Loop
<1>10. CASE Wake
  BY <1>0, <1>10, InsideLoop DEF Wake, Loop
<1>11. CASE \E c \in Pids : Reap(c)
  BY <1>0, <1>11, ReapIInv
<1>12. CASE Others
  BY <1>0, <1>12, OthersIInv
<1>13. CASE MachineOff \/ UNCHANGED vars
  BY <1>0, <1>13, StutterIInv DEF MachineOff
<1>14. QED
  BY <1>0, <1>1, <1>2, <1>3, <1>4, <1>5, <1>6, <1>7, <1>8, <1>9, <1>10, <1>11,
     <1>12, <1>13 DEF Next, InitStep, RunOnce

-----------------------------------------------------------------------------
THEOREM Invariance == Spec => []IInv
<1>1. IInv /\ [Next]_vars => IInv'
  BY NextIInv
<1>2. QED
  BY <1>1, InitIInv, PTL DEF Spec

(* Type correctness: whatever the kernel and the processes do, supervise   *)
(* and run_once keep their state well formed.                              *)
THEOREM TypeCorrect == Spec => []TypeOK
<1>1. IInv => TypeOK
  BY DEF IInv
<1>2. QED
  BY <1>1, Invariance, PTL

(* No two console processes: two shells, two programs, or a shell and a    *)
(* program started by init never exist together.                           *)
THEOREM ConsoleExclusive == Spec => []OneConsoleProcess
<1>1. IInv => OneConsoleProcess
  BY DEF IInv, OneConsoleProcess, ShellIsHandled, ProgramIsAwaited, InUse, Loop
<1>2. QED
  BY <1>1, Invariance, PTL

(* run_once gets the status of the program it started. *)
THEOREM RunStatusSafe == Spec => []RunStatusKept
<1>1. IInv => RunStatusKept
  BY DEF IInv
<1>2. QED
  BY <1>1, Invariance, PTL

(* The five-second sleep of supervise never delays the restart of a shell, *)
(* whatever orphans are adopted while it lasts.                            *)
THEOREM IdleHarmless == Spec => []IdleDelaysNoRestart
<1>1. IInv => IdleDelaysNoRestart
  BY DEF IInv
<1>2. QED
  BY <1>1, Invariance, PTL

(* supervise restarts the shell exactly when it has reaped the shell. *)
THEOREM RestartExact == Spec => RestartIffShellReaped
<1> DEFINE Exact == \A c \in Pids :
       (pc = "wait" /\ st[c] = "zombie" /\ st'[c] = "free" /\ parent[c] = Pid1)
         => (pc' = "restart" <=> prog[c] = "shell")
<1>1. IInv /\ [Next]_vars => [Exact]_vars
  <2>1. SUFFICES ASSUME IInv, Next, NEW c \in Pids, pc = "wait", st[c] = "zombie",
                        st'[c] = "free", parent[c] = Pid1
                 PROVE  pc' = "restart" <=> prog[c] = "shell"
    OBVIOUS
  <2>2. CASE Others
    <3>1. st'[c] = "zombie"
      BY <2>1, <2>2, Pid1Assumption
      DEF Others, ForkByProcess, HelperStarts, ReapByProcess, SomeExit, Fork, Release, Exit,
          IInv, TypeOK, ProcessesTypeOK
    <3>2. QED
      BY <2>1, <3>1
  <2>3. CASE InitStep
    <3>1. PICK d \in Pids : Reap(d)
      BY <2>1, <2>3
      DEF InitStep, BootDone, RunOnce, RunOnceSkipped, RunOnceStarts, RunOnceFails,
          RunOnceWaited, Stop, SuperviseStart, Restart, ReapNoChildren, ReapError,
          Wake, procs
    <3>2. c = d
      BY <2>1, <3>1 DEF Reap, Release, IInv, TypeOK, ProcessesTypeOK
    <3>3. shell = c <=> prog[c] = "shell"
      BY <2>1, NoPidAssumption DEF IInv, HandleIsShell, ShellIsHandled, Loop
    <3>4. QED
      BY <3>1, <3>2, <3>3 DEF Reap
  <2>4. QED
    BY <2>1, <2>2, <2>3 DEF Next, MachineOff, vars, procs
<1>2. QED
  BY <1>1, Invariance, PTL DEF Spec, RestartIffShellReaped

-----------------------------------------------------------------------------
(* The owner of the console, read off the handles instead of off the       *)
(* process table.                                                          *)
OwnerByHandle ==
  IF pc = "halted" THEN "off"
  ELSE IF pc \in Loop \ {"restart"} /\ shell = NoPid THEN "nobody"
  ELSE IF pc \in Loop \ {"restart"} /\ st[shell] = "running" THEN "shell"
  ELSE IF pc = "runwait" /\ st[runner] = "running" THEN "run"
  ELSE "init"

LEMMA OwnerFollowsHandles == IInv => Owner = OwnerByHandle
<1>1. SUFFICES ASSUME IInv PROVE Owner = OwnerByHandle
  OBVIOUS
<1>2. Running("run") <=> pc = "runwait" /\ st[runner] = "running"
  BY <1>1 DEF Running, IInv, RunStatusKept, ProgramIsAwaited, Children, InUse
<1>3. Running("shell") <=>
        pc \in Loop \ {"restart"} /\ shell # NoPid /\ st[shell] = "running"
  BY <1>1, NoPidAssumption
  DEF Running, IInv, HandleIsShell, ShellIsHandled, Children, InUse
<1>4. QED
  BY <1>2, <1>3 DEF Owner, OwnerByHandle, Loop

(* Every step of wana-init and of the processes around it is a step of     *)
(* ConsoleService or leaves the console and the stage as they are.         *)
LEMMA ConsoleStep ==
  ASSUME IInv, IInv', Next, Owner = OwnerByHandle, Owner' = OwnerByHandle'
  PROVE  Console!Next \/ UNCHANGED Console!svars
<1> USE DEF Console!Next, Console!InitActs, Console!svars
<1>h. /\ pc \in Loop \ {"restart"} /\ shell # NoPid => shell \in Pids
      /\ pc = "runwait" => runner \in Pids
  BY DEF IInv, TypeOK, RunStatusKept, Children, InUse
<1>1. CASE BootDone
  BY <1>1 DEF BootDone, OwnerByHandle, Stage, Loop
<1>2. CASE RunOnceSkipped \/ RunOnceFails \/ RunOnceStarts
  <2>1. pc = "run" /\ pc' \in {"runwait", "test"}
    BY <1>2 DEF RunOnceSkipped, RunOnceFails, RunOnceStarts
  <2>2. Owner = "init" /\ Owner' \in {"run", "init"}
    BY <2>1 DEF OwnerByHandle, Loop
  <2>3. Stage = "boot" /\ Stage' = "ran"
    BY <2>1 DEF Stage, Loop
  <2>4. QED
    BY <2>2, <2>3 DEF Console!RunProgram
<1>3. CASE RunOnceWaited
  BY <1>3 DEF RunOnceWaited, Release, OwnerByHandle, Stage, Loop
<1>4. CASE Stop
  BY <1>4 DEF Stop, OwnerByHandle, Stage, Loop, Console!HaltMachine
<1>5. CASE SuperviseStart \/ Restart
  <2>1. pc \in {"start", "restart"} /\ pc' = "wait"
    BY <1>5 DEF SuperviseStart, Restart
  <2>2. shell' # NoPid => st'[shell'] = "running"
    BY <1>5 DEF SuperviseStart, Restart, SpawnShell, SpawnShellOk, SpawnShellNone, Fork,
                IInv, TypeOK, ProcessesTypeOK
  <2>3. QED
    BY <2>1, <2>2 DEF OwnerByHandle, Stage, Loop, Console!StartShell
<1>6. CASE ReapNoChildren \/ ReapError \/ Wake
  BY <1>6 DEF ReapNoChildren, ReapError, Wake, procs, OwnerByHandle, Stage, Loop
<1>7. CASE \E c \in Pids : Reap(c)
  <2>1. PICK c \in Pids : Reap(c)
    BY <1>7
  <2>2. /\ pc = "wait" /\ st[c] = "zombie" /\ shell' = shell
        /\ pc' = IF shell = c THEN "restart" ELSE "wait"
        /\ \A p \in Pids \ {c} : st'[p] = st[p]
    BY <2>1 DEF Reap, Release, IInv, TypeOK, ProcessesTypeOK
  <2>3. Owner' = Owner
    BY <1>h, <2>2, NoPidAssumption DEF OwnerByHandle, Loop
  <2>4. Stage' = Stage
    BY <2>2 DEF Stage, Loop
  <2>5. QED
    BY <2>3, <2>4
<1>8. CASE Others
  <2>1. UNCHANGED <<pc, shell, runner>> /\ pc # "halted"
    BY <1>8 DEF Others, own
  <2>2. /\ pc \in Loop \ {"restart"} /\ shell # NoPid =>
             (st'[shell] = st[shell] \/ (st[shell] = "running" /\ st'[shell] = "zombie"))
        /\ pc = "runwait" =>
             (st'[runner] = st[runner] \/ (st[runner] = "running" /\ st'[runner] = "zombie"))
    BY <1>8, <1>h DEF Others, ForkByProcess, HelperStarts, ReapByProcess, SomeExit, Fork, Release, Exit,
                HandleIsShell, RunStatusKept, Children, InUse, IInv, TypeOK, ProcessesTypeOK
  <2>3. QED
    BY <2>1, <2>2 DEF OwnerByHandle, Stage, Loop, Console!ProgramExits, Console!ShellExits
<1>9. CASE MachineOff
  BY <1>9 DEF MachineOff, vars, procs, own, OwnerByHandle, Stage
<1>10. QED
  BY <1>1, <1>2, <1>3, <1>4, <1>5, <1>6, <1>7, <1>8, <1>9 DEF Next, InitStep, RunOnce

(* wana-init implements the safety part of ConsoleService: for any number  *)
(* of processes the console passes from init to the program, back, and to  *)
(* one shell after the other, and only as ConsoleService allows.           *)
THEOREM ConsoleRefinement == Spec => Console!Init /\ [][Console!Next]_(Console!svars)
<1>1. Init => Console!Init
  BY DEF Init, NoProcesses, Owner, Stage, Running, Loop, Console!Init
<1>2. IInv /\ IInv' /\ [Next]_vars => [Console!Next]_(Console!svars)
  <2>1. SUFFICES ASSUME IInv, IInv', [Next]_vars
                 PROVE  [Console!Next]_(Console!svars)
    OBVIOUS
  <2>2. Owner = OwnerByHandle
    BY <2>1, OwnerFollowsHandles
  <2>3. (IInv => Owner = OwnerByHandle)'
    BY OwnerFollowsHandles, PTL
  <2>4. CASE Next
    BY <2>1, <2>2, <2>3, <2>4, ConsoleStep
  <2>5. CASE UNCHANGED vars
    BY <2>5 DEF vars, procs, own, Owner, Stage, Running, Console!svars
  <2>6. QED
    BY <2>1, <2>4, <2>5
<1>3. QED
  BY <1>1, <1>2, Invariance, PTL DEF Spec

=============================================================================
