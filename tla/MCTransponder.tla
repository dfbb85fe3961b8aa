---------------------------- MODULE MCTransponder ----------------------------
(* Two ports that share the channels of one module: two of 100 Gbit/s are   *)
(* more than a channel carries, a broken-out lane beside one is too.        *)
EXTENDS Transponder, TLC

MCSpeeds == {25000, 100000}
MCOperated == {<<1, 4>>, <<2, 0>>}
Ids == Permutations(Id)
(* Bound: once the device need not follow HEAD nothing is connected and     *)
(* nothing set at the modules; the tables depend on neither.                *)
DriftBound ==
  drift # {} => /\ allow = Unset
                /\ \A i \in DOMAIN intf : ~Connected(i)
                /\ \A m \in Module : optical[m] = [modulation |-> Unset, allow |-> Unset]
MCGnmiSets == {<<2, [num |-> 4, speed |-> 25000]>>}
==============================================================================
