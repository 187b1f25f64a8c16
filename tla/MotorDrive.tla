----------------------------- MODULE MotorDrive -----------------------------
(***************************************************************************)
(* What the motor side of the RTU promises, without tasks, pins or words:  *)
(* the drive the motor feels is off, or a duty that what clients have sent *)
(* allows, or, until the boot drive is over, the boot duty.  A reset turns *)
(* it off and forgets the clients.                                         *)
(***************************************************************************)
EXTENDS Integers

CONSTANTS
  Commands,  \* what clients may send
  Values,    \* the duties that a set of commands allows
  BootDuty   \* the duty of the boot drive

VARIABLES
  output,     \* duty the motor is driven with, 0 when it is not
  commanded,  \* commands received since the reset
  booted      \* is the boot drive over?

vars == <<output, commanded, booted>>

Init == output = 0 /\ commanded = {} /\ booted = FALSE

Boot ==
  /\ ~booted
  /\ output' \in {output, 0, BootDuty} /\ booted' \in BOOLEAN
  /\ UNCHANGED commanded

Command ==
  /\ booted
  /\ \E c \in Commands : commanded' = commanded \cup {c}
  /\ UNCHANGED <<output, booted>>

Drive ==
  /\ booted
  /\ output' \in {0} \cup Values[commanded]
  /\ UNCHANGED <<commanded, booted>>

Reset == output' = 0 /\ commanded' = {} /\ booted' = FALSE

Next == Boot \/ Command \/ Drive \/ Reset

Spec == Init /\ [][Next]_vars
=============================================================================
