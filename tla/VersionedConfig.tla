--------------------------- MODULE VersionedConfig ---------------------------
(***************************************************************************)
(* What a git directory and a device promise to operators who share them,  *)
(* however many commands overlap and wherever they end:                    *)
(*                                                                         *)
(*   - a commit, once made, stays as it is; it follows a commit that was   *)
(*     HEAD, and becomes HEAD itself at most once;                         *)
(*   - a commit that nobody disturbed, and for which no write was lost,    *)
(*     holds what was accepted, and one made to return to another holds    *)
(*     what that one holds;                                                *)
(*   - the device is given nothing but single entries of commits that have *)
(*     been HEAD, and whole configurations that were accepted.             *)
(*                                                                         *)
(* That HEAD, and with it the device, only ever moves to a child is not    *)
(* promised: overlapping commits leave branches behind.                    *)
(***************************************************************************)
EXTENDS Naturals, Sequences

CONSTANTS
  Config,      \* the configurations
  Unreadable,  \* what else a commit may hold
  Valid,       \* the configurations that are accepted
  Given,       \* the entries the device is given one by one
  Booted,      \* the other entries of the device: it is given them when it boots
  Default,     \* what it starts with
  Unset,       \* an entry that holds nothing
  Lost         \* an entry of the device that was wiped

VARIABLES
  commits,    \* in the order they were made
  head,       \* the one in force
  published,  \* those that have been in force
  device

Init ==
  /\ commits = <<[cfg |-> Default, parent |-> 0, checked |-> TRUE, source |-> 0]>>
  /\ head = 1
  /\ published = {1}
  /\ device = [e \in Given \cup Booted |-> Default[e]]

Create ==
  LET made == commits'[Len(commits) + 1]
  IN /\ Len(commits') = Len(commits) + 1
     /\ commits' = Append(commits, made)
     /\ made.cfg \in Config \cup Unreadable
     /\ made.parent \in published /\ made.source \in published \cup {0}
     /\ made.checked =>
          /\ made.cfg \in Valid
          /\ made.source # 0 => made.cfg = commits[made.source].cfg
     /\ UNCHANGED <<head, published, device>>

Publish ==
  /\ head' \in 1..Len(commits) \ published
  /\ published' = published \cup {head'}
  /\ UNCHANGED <<commits, device>>

Give ==
  /\ \E i \in published, e \in Given :
       /\ commits[i].cfg \in Config /\ commits[i].cfg[e] # Unset
       /\ device' = [device EXCEPT ![e] = commits[i].cfg[e]]
  /\ UNCHANGED <<commits, head, published>>

Wipe ==
  /\ device' = [e \in Given \cup Booted |-> IF e \in Booted THEN device[e] ELSE Lost]
  /\ UNCHANGED <<commits, head, published>>

Boot ==
  /\ \E c \in Valid : device' = [e \in Given \cup Booted |-> c[e]]
  /\ UNCHANGED <<commits, head, published>>

Next == Create \/ Publish \/ Give \/ Wipe \/ Boot

Spec == Init /\ [][Next]_<<commits, head, published, device>>
==============================================================================
