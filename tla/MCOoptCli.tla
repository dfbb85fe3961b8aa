------------------------------ MODULE MCOoptCli ------------------------------
(* Small instances of OoptCli: one setting of an optical module, the        *)
(* connection of one interface, the breakout of one port and the            *)
(* allow-oversubscription leaf of the root.                                 *)
EXTENDS OoptCliHistory, TLC

CONSTANTS opt, intf, port, root, a, b

MCSymmetry == Permutations(Proc)

NoFlags == {[dry |-> FALSE, reboot |-> FALSE]}
AnyFlags == [dry : BOOLEAN, reboot : BOOLEAN]

(* One operator: the modulation a leaves no capacity on the channel that    *)
(* the interface can be connected to; a breakout replaces the interface;    *)
(* most commands that only display something rewrite the file as well.      *)
OneDefault == (opt :> Unset) @@ (intf :> Unset) @@ (port :> a)
OneValid == {c \in Config : c[port] # Unset /\ ~(c[opt] = a /\ c[intf] = a)}
OneEdits == {<<>>, opt :> a, intf :> a, intf :> Unset,
             (port :> b) @@ (intf :> Unset)}

(* Two operators: the connection over-subscribes its channel unless the     *)
(* root allows it.                                                          *)
TwoDefault == (intf :> Unset) @@ (root :> Unset)
TwoValid == {c \in Config : c[intf] = a => c[root] = a}
TwoEdits == {intf :> a, root :> a}

(* Two operators and an interface: b is a connection without its id.        *)
HandedDefault == (intf :> Unset)
HandedValid == {c \in Config : c[intf] # b}
HandedEdits == {intf :> a, intf :> b}
==============================================================================
