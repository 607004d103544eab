----------------------------- MODULE Processes -----------------------------
(***************************************************************************)
(* The part of the Linux process table that wana-init sees: which process  *)
(* ids are in use, whose child each process is, and the zombies that wait  *)
(* to be reaped.  This is the kernel, not the repository: it is modelled   *)
(* from how src/crates/wana-init uses fork/exec, waitpid and the adoption  *)
(* of orphans by PID 1.  A released process id may be given to a new       *)
(* process at once, which is the worst case for a program that holds ids.  *)
(***************************************************************************)

CONSTANTS
  Pids,     \* the process ids the kernel can hand out, PID 1 excluded
  Pid1,     \* wana-init itself
  Kthread   \* the kernel threads, which start helpers of the kernel's own

ASSUME Pid1Assumption == Pid1 \notin Pids
ASSUME KthreadAssumption == Kthread \notin Pids \union {Pid1}

VARIABLES
  st,       \* st[p]: "free", "running" or "zombie" (exited, not yet reaped)
  parent,   \* parent[p]: the process that must reap p
  prog      \* prog[p]: what p was started as

procs == <<st, parent, prog>>

Programs == {"shell", "run", "other"}

ProcessesTypeOK ==
  /\ st \in [Pids -> {"free", "running", "zombie"}]
  /\ parent \in [Pids -> Pids \union {Pid1, Kthread}]
  /\ prog \in [Pids -> Programs]

NoProcesses ==
  /\ st = [p \in Pids |-> "free"]
  /\ parent = [p \in Pids |-> Pid1]
  /\ prog = [p \in Pids |-> "other"]

InUse == {p \in Pids : st[p] # "free"}

Children(p) == {c \in InUse : parent[c] = p}

(* fork and exec: the free id c becomes a running child of p. *)
Fork(p, c, program) ==
  /\ st[c] = "free"
  /\ st' = [st EXCEPT ![c] = "running"]
  /\ parent' = [parent EXCEPT ![c] = p]
  /\ prog' = [prog EXCEPT ![c] = program]

(* A process ends: it stays a zombie until its parent reaps it, and every  *)
(* child it leaves behind, zombies included, is adopted by PID 1.          *)
Exit(p) ==
  /\ st[p] = "running"
  /\ st' = [st EXCEPT ![p] = "zombie"]
  /\ parent' = [c \in Pids |-> IF parent[c] = p THEN Pid1 ELSE parent[c]]
  /\ UNCHANGED prog

(* waitpid collects zombie c and its id becomes free for reuse. *)
Release(c) ==
  /\ st[c] = "zombie"
  /\ st' = [st EXCEPT ![c] = "free"]
  /\ parent' = [parent EXCEPT ![c] = Pid1]
  /\ prog' = [prog EXCEPT ![c] = "other"]

(* What the others do on their own: a process forks; the kernel starts a   *)
(* helper, which does not descend from PID 1 although its orphans will be  *)
(* adopted by it; a parent, or the kernel, reaps; a process ends.          *)
ForkByProcess == \E p, c \in Pids : st[p] = "running" /\ Fork(p, c, "other")
HelperStarts == \E c \in Pids : Fork(Kthread, c, "other")
ReapByProcess == \E c \in Pids : parent[c] # Pid1 /\ Release(c)
SomeExit == \E p \in Pids : Exit(p)

(* Free ids carry nothing over to their next use. *)
FreeIsClean ==
  \A p \in Pids : st[p] = "free" => parent[p] = Pid1 /\ prog[p] = "other"

=============================================================================
