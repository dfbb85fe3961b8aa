------------------------------ MODULE MCReboot ------------------------------
(* Reboot with two processes and two configurations. *)
EXTENDS Reboot
==============================================================================
