-------------------------- MODULE MCSerialConsole --------------------------
(***************************************************************************)
(* Both ends of the serial console in one run: the processes of the guest  *)
(* that write their records to it (LogConsole), and the boot test of the   *)
(* host that reads it (GraphicsTest).  They share no state: a behaviour is *)
(* one of either, and the other does not start.                            *)
(***************************************************************************)
EXTENDS MCLogConsole, MCGraphicsTest

NoTest ==
  /\ program = <<>> /\ at = 0 /\ screen = "dark" /\ qemu = "running"
  /\ pipe = <<>> /\ pending = <<>> /\ todo = <<>> /\ text = <<>>
  /\ test = "not started" /\ shot = FALSE /\ late = FALSE /\ verdict = "none"
  /\ file = [pixels |-> "absent", run |-> "earlier", at |-> 0]

SerialInit == Init /\ (NoTest \/ TestInit)

SerialNext ==
  \/ test = "not started" /\ Next /\ UNCHANGED testVars
  \/ test # "not started" /\ TestNext /\ UNCHANGED vars

SerialSpec == SerialInit /\ [][SerialNext]_<<vars, testVars>>

=============================================================================
