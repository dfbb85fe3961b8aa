----------------------------- MODULE MCSonicVlan -----------------------------
(* Two interfaces, two optical ports and two VLAN ids: enough for two       *)
(* interfaces to swap their ids or their ports and to share a port.  In the *)
(* run `vlan` the working file may hold any connections of distinct ports   *)
(* at a reboot; in `vlan_one` it holds what HEAD has, so that the trace is  *)
(* about the handler.                                                       *)
EXTENDS SonicVlan, TLC

MCDrafts ==
  {c \in Config : \A i, j \in Intf :
     /\ ~c[i].other
     /\ i # j /\ Connected(c, i) /\ Connected(c, j) => c[i].conn.opt # c[j].conn.opt}
MCSymmetry == Permutations(Intf) \cup Permutations(OptPort) \cup Permutations(Vid)
==============================================================================
