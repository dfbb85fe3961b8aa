---- MODULE MCOpticalTable ----
(* Two modules, two processes; every setting has a value that is not its   *)
(* default.                                                                *)
EXTENDS OpticalTable, TLC
Procs == Permutations(Proc)
(* Bound: two processes overlap within the first three commands; the last  *)
(* one comes when nobody else is running.                                  *)
OverlapBound ==
  count = MaxCommands => \A p, q \in Proc : Running(p) /\ Running(q) => p = q
====
