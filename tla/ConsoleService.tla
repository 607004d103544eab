--------------------------- MODULE ConsoleService ---------------------------
(***************************************************************************)
(* What wana-init promises about the system console, without processes:    *)
(* at every moment one owner has it.  Init has it while it boots; it may   *)
(* lend it once to the wana.run program, then either stops the machine or  *)
(* hands it to a shell, and hands it to a fresh shell each time the shell  *)
(* exits.  When a shell is not wanted or cannot be started the console is  *)
(* left to nobody, for good.  WanaInit is shown to implement this.         *)
(***************************************************************************)

VARIABLES
  owner,    \* "init", "run", "shell", "nobody" or "off"
  stage     \* "boot", "ran" (the wana.run step is past) or "serving"

svars == <<owner, stage>>

Init == owner = "init" /\ stage = "boot"

(* The program is started, or there is none or it cannot be started. *)
RunProgram ==
  /\ owner = "init" /\ stage = "boot"
  /\ owner' \in {"run", "init"}
  /\ stage' = "ran"

ProgramExits ==
  /\ owner = "run"
  /\ owner' = "init"
  /\ UNCHANGED stage

HaltMachine ==
  /\ owner = "init" /\ stage = "ran"
  /\ owner' = "off"
  /\ UNCHANGED stage

(* The first shell and every later one: started, or the console is lost. *)
StartShell ==
  /\ owner = "init" /\ stage \in {"ran", "serving"}
  /\ owner' \in {"shell", "nobody"}
  /\ stage' = "serving"

ShellExits ==
  /\ owner = "shell"
  /\ owner' = "init"
  /\ UNCHANGED stage

InitActs == RunProgram \/ HaltMachine \/ StartShell

Next == InitActs \/ ProgramExits \/ ShellExits

(* Init never sits on the console: whenever it has it, it moves on. *)
Fairness == WF_svars(InitActs)

Spec == Init /\ [][Next]_svars /\ Fairness

=============================================================================
