-------------------------- MODULE FirmwareInstall --------------------------
(***************************************************************************)
(* What the update mechanism promises, without flash, pages or checksums:  *)
(* the installed firmware changes in one step, only to an image that was   *)
(* staged whole, only while no firmware runs, and firmware starts only     *)
(* when nothing is left to install.  A staged image is forgotten by the    *)
(* boot loader only once it is the installed one.                          *)
(***************************************************************************)
CONSTANTS Images, None, FactoryImage

VARIABLES installed, pending, running

absVars == <<installed, pending, running>>

Init == installed = FactoryImage /\ pending = None /\ running = FALSE

Start ==
  /\ ~ running /\ pending = None
  /\ running' = TRUE
  /\ UNCHANGED <<installed, pending>>

\* The running firmware replaces, spoils or completes the staged image.
Stage ==
  /\ running
  /\ pending' \in Images \cup {None}
  /\ UNCHANGED <<installed, running>>

\* A reboot, or a power loss that may spoil the staged image.
Stop ==
  /\ running
  /\ running' = FALSE
  /\ pending' \in {pending, None}
  /\ UNCHANGED installed

Install ==
  /\ ~ running /\ pending # None
  /\ installed' = pending
  /\ UNCHANGED <<pending, running>>

Forget ==
  /\ ~ running /\ pending = installed
  /\ pending' = None
  /\ UNCHANGED <<installed, running>>

Next == Start \/ Stage \/ Stop \/ Install \/ Forget

Spec == Init /\ [][Next]_absVars
=============================================================================
