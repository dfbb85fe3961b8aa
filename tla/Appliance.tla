------------------------------ MODULE Appliance ------------------------------
(***************************************************************************)
(* What the pods promise an operator, whatever commands restart them, and  *)
(* however these interleave or fail: the appliance carries traffic under   *)
(* one configuration that somebody asked for, or under none.  It never     *)
(* passes from one configuration to another without being down between.   *)
(***************************************************************************)
CONSTANTS
  Conf,  \* the configurations
  None   \* no traffic is carried; not a configuration

VARIABLES
  carries,  \* the configuration traffic is carried under, or None
  asked     \* the configurations the commands so far were to boot

Init == carries = None /\ asked = {}

Ask == \E c \in Conf : asked' = asked \cup {c} /\ UNCHANGED carries

TakeUp == carries = None /\ carries' \in asked /\ UNCHANGED asked

TakeDown == carries # None /\ carries' = None /\ UNCHANGED asked

Spec == Init /\ [][Ask \/ TakeUp \/ TakeDown]_<<carries, asked>>
==============================================================================
