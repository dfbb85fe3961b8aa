----------------------------- MODULE Transponder -----------------------------
(***************************************************************************)
(* What is in the configuration tree: ports that can be broken out into    *)
(* four, the interfaces that stand for them, the channels of the optical   *)
(* modules they are connected to; what the edit commands do to it, what    *)
(* validateFinal accepts, and the port tables the device boots with.       *)
(*                                                                         *)
(* One command at a time, each with the file it reads and writes           *)
(* (OoptCli.tla has the steps of several).  The gNMI server writes the     *)
(* same tree without the rules of the commands.  Speeds are in Mbit/s.     *)
(***************************************************************************)
EXTENDS Integers, FiniteSetsExt

CONSTANTS
  Port,     \* the front panel ports
  Module,   \* the optical modules
  Id,       \* the ids a connection may be given
  Speeds,   \* the speeds a port may be given
  Operated, \* the interfaces that interface commands are given
  GnmiSets, \* what gNMI requests write: pairs of a port and a breakout
  Unset     \* a leaf that is not there

Breakout == [num : {1, 4}, speed : Speeds]
(* Interface <<p, 0>> is Ethernet<p>, <<p, n>> is Ethernet<p>_<n>.           *)
Interface == Port \X (0..4)
Channel == {"A", "B"}

(* opticalModuleNum and portNum of the hardware are 8 and 16. *)
ASSUME InventoryAssumption ==
  /\ Port \subseteq 1..16
  /\ Module \subseteq 1..8
  /\ Operated \subseteq Interface
  /\ Speeds \subseteq Nat \ {0} /\ 100000 \in Speeds
  /\ GnmiSets \subseteq Port \X Breakout
  /\ Unset \notin Id /\ Unset \notin Module
  /\ Unset \notin Channel /\ Unset \notin BOOLEAN /\ Unset \notin {"QPSK", "16QAM"}

VARIABLES
  port,    \* the breakout of each port
  intf,    \* the interfaces there are, each with its speed and connection
  optical, \* the settings of each module that validation looks at
  allow,   \* the root's allow-oversubscription
  head,    \* of the configuration of HEAD: its ports and its interfaces
  table,   \* what the device was booted with: lanes of SONiC, modes of ofdpa
  drift    \* ghost: "gnmi", a request of the server has changed a breakout;
           \* "lost", a commit or a reboot ended half way; "uncommitted",
           \* the last reboot took what is not HEAD's; "virtual", it left
           \* ofdpa out

vars == <<port, intf, optical, allow, head, table, drift>>

Intf == [speed : Speeds, id : Id \cup {Unset}, module : Module \cup {Unset},
         channel : Channel \cup {Unset}]
Optical == [modulation : {"QPSK", "16QAM", Unset}, allow : BOOLEAN \cup {Unset}]

(* newInterface *)
NewIntfWithoutSpeed(s) ==  \* mutant: leaves the speed to the device
  [speed |-> Unset, id |-> Unset, module |-> Unset, channel |-> Unset]
NewIntf(s) == [speed |-> s, id |-> Unset, module |-> Unset, channel |-> Unset]

Lanes(p, num) == IF num = 1 THEN {<<p, 0>>} ELSE {p} \X (1..4)
AllLanes(ports) == UNION {Lanes(p, ports[p].num) : p \in Port}

------------------------------------------------------------------------------
(* The tables of the device *)

(* The number of the lane of an interface (sonic.go).                       *)
LaneFrom(i) ==  \* mutant: the first lane of the first port is 32, not 33
  IF i[2] = 0 THEN i[1] ELSE 31 + 4 * (i[1] - 1) + i[2]
Lane(i) == IF i[2] = 0 THEN i[1] ELSE 32 + 4 * (i[1] - 1) + i[2]

(* The Ethernet ports of the modules, two for each of eight. *)
ModulePort == (17..32) \X {0}

(* ofdpaPortMap: the logical port of ofdpa for each port; 17..32 are the    *)
(* ports of the modules.                                                    *)
OfdpaPort ==
  <<68, 72, 76, 80, 96, 106, 110, 114, 118, 122, 126, 130, 84, 88, 92, 102,
    38, 34, 46, 42, 54, 50, 62, 58, 5, 1, 13, 9, 21, 17, 25, 29>>
ModuleIndex == 17..32

(* The speed of ofdpa's modes is in Gbit/s.                                 *)
GigabitsRound(s) ==  \* mutant: does not know 25 Gbit/s
  CASE s = 10000 -> 10 [] s = 40000 -> 40 [] s = 50000 -> 50 [] OTHER -> 100
Gigabits(s) ==
  CASE s = 10000 -> 10 [] s = 25000 -> 25 [] s = 40000 -> 40
    [] s = 50000 -> 50 [] OTHER -> 100

(* NewPort: one port_mode line. *)
Mode(i, b) == [index |-> OfdpaPort[i], num |-> b.num, speed |-> Gigabits(b.speed)]
ModeType == [index : 1..130, num : {1, 4}, speed : {10, 25, 40, 50, 100}]

Modes(ports) ==
  [i \in Port \cup ModuleIndex |->
     Mode(i, IF i \in Port THEN ports[i] ELSE [num |-> 1, speed |-> 100000])]

Sonic(names) == [i \in names \cup ModulePort |-> Lane(i)]

Init ==
  /\ port = [p \in Port |-> [num |-> 1, speed |-> 100000]]
  /\ intf = [i \in Port \X {0} |-> NewIntf(100000)]
  /\ optical = [m \in Module |-> [modulation |-> Unset, allow |-> Unset]]
  /\ allow = Unset
  /\ head = [port |-> port, names |-> DOMAIN intf]
  /\ table = [sonic |-> Sonic(DOMAIN intf), ofdpa |-> Modes(port)]
  /\ drift = {}

------------------------------------------------------------------------------
(* oopt port *)

ChannelSpeed(p, s) ==
  /\ port' = [port EXCEPT ![p].speed = s]
  /\ intf' = [i \in DOMAIN intf |->
                IF i[1] = p THEN [intf[i] EXCEPT !.speed = s] ELSE intf[i]]
  /\ UNCHANGED <<optical, allow, head, table, drift>>

(* What a breakout takes away.                                              *)
RemovedButLast(p, num) == Lanes(p, num) \ {<<p, 4>>}  \* mutant: i < 4
Removed(p, num) == Lanes(p, num)

(* The interfaces of the old mode go, with their connections, and those of  *)
(* the new one must not be there yet.                                       *)
NumChannels(p, num) ==
  LET old == port[p].num
      kept == DOMAIN intf \ Removed(p, old)
  IN /\ num # old
     /\ kept \cap Lanes(p, num) = {}
     /\ port' = [port EXCEPT ![p].num = num]
     /\ intf' = [i \in kept \cup Lanes(p, num) |->
                   IF i \in kept THEN intf[i] ELSE NewIntf(port[p].speed)]
     /\ UNCHANGED <<optical, allow, head, table, drift>>

------------------------------------------------------------------------------
(* oopt interface *)

Connect(i, c) ==
  /\ i \in DOMAIN intf
  /\ intf' = [intf EXCEPT ![i] = c]
  /\ UNCHANGED <<port, optical, allow, head, table, drift>>

SetId(i) == \E v \in Id : Connect(i, [intf[i] EXCEPT !.id = v])
SetName(i) == \E m \in Module : Connect(i, [intf[i] EXCEPT !.module = m])
SetChannel(i) == \E c \in Channel : Connect(i, [intf[i] EXCEPT !.channel = c])
ClearConnection(i) == Connect(i, NewIntf(intf[i].speed))

------------------------------------------------------------------------------
(* oopt optical-module, oopt allow-oversubscription *)

SetModule(m, o) ==
  /\ optical' = [optical EXCEPT ![m] = o]
  /\ UNCHANGED <<port, intf, allow, head, table, drift>>

ModulationType(m) ==
  \E t \in {"QPSK", "16QAM"} : SetModule(m, [optical[m] EXCEPT !.modulation = t])
AllowModule(m) ==
  \E v \in BOOLEAN \cup {Unset} : SetModule(m, [optical[m] EXCEPT !.allow = v])
AllowRoot ==
  /\ allow' \in BOOLEAN
  /\ UNCHANGED <<port, intf, optical, head, table, drift>>

------------------------------------------------------------------------------
(* validateFinal *)

Connected(i) == intf[i].id # Unset \/ intf[i].module # Unset \/ intf[i].channel # Unset

ConnectionsValid ==
  /\ \A i \in DOMAIN intf :
       Connected(i) => intf[i].id # Unset /\ intf[i].module # Unset /\ intf[i].channel # Unset
  /\ \A i, j \in DOMAIN intf :
       i # j /\ Connected(i) /\ Connected(j) => intf[i].id # intf[j].id

BreakoutValid(b) ==
  \/ b.num = 1 /\ b.speed \in {40000, 100000}
  \/ b.num = 4 /\ b.speed \in {10000, 25000}

(* FillTransportDefaultConfig *)
Modulation(m) == IF optical[m].modulation = Unset THEN "16QAM" ELSE optical[m].modulation
Default(v, otherwise) == IF v = Unset THEN otherwise ELSE v
RootFirst(m) == Default(allow, Default(optical[m].allow, FALSE))  \* mutant
AllowOversubscription(m) == Default(optical[m].allow, Default(allow, FALSE))

(* calculateOccupancy *)
Users(m, ch) == {i \in DOMAIN intf : intf[i].module = m /\ intf[i].channel = ch}
Load(m, ch) == MapThenSumSet(LAMBDA i : intf[i].speed, Users(m, ch))
Capacity(m, ch) == IF Modulation(m) = "QPSK" /\ ch = "B" THEN 0 ELSE 100000

(* The error of calculateOccupancy comes first; the percentage is only      *)
(* looked at when the module does not allow more than 100.                  *)
OccupancyValid(m) ==
  /\ \A ch \in Channel : Capacity(m, ch) = 0 => Load(m, ch) = 0
  /\ AllowOversubscription(m)
     \/ \A ch \in Channel : Load(m, ch) <= Capacity(m, ch)

ValidateFinal ==
  /\ ConnectionsValid
  /\ \A p \in Port : BreakoutValid(port[p])
  /\ \A m \in Module : OccupancyValid(m)

(* rebootSystem, of the tree in memory: ofdpa is started before SONiC, and  *)
(* not at all with --virtual.  A dry run, an error or a kill ends it at one *)
(* of its stages.                                                           *)
Stage == {"none", "ofdpa", "all"}
Tree == [port |-> port, names |-> DOMAIN intf]
Boot(virtual, stage, committed) ==
  /\ table' = [sonic |-> IF stage = "all" THEN Sonic(DOMAIN intf) ELSE table.sonic,
               ofdpa |-> IF virtual \/ stage = "none" THEN table.ofdpa ELSE Modes(port)]
  /\ drift' = IF stage # "all" THEN drift \cup {"lost"}
              ELSE (drift \cap {"gnmi"})
                   \cup (IF virtual THEN {"virtual"} ELSE {})
                   \cup (IF committed THEN {} ELSE {"uncommitted"})

(* HandlePortDiff: does the change of a port ask for a reboot?              *)
BreakoutDiff(old, new) ==  \* mutant: only a port that is broken out asks
  old # new /\ new.num = 4
PortDiff(old, new) == old # new

(* commit, with "reboot" or not: the branch is moved first, and a dry run   *)
(* or a handler that fails ends it before the reboot it asks for.           *)
NeedsReboot == \E p \in Port : PortDiff(head.port[p], port[p])
Commit(reboot, virtual, stage) ==
  /\ ValidateFinal
  /\ head' = Tree
  /\ IF reboot \/ NeedsReboot \/ stage = "none" THEN Boot(virtual, stage, TRUE)
     ELSE UNCHANGED <<table, drift>>
  /\ UNCHANGED <<port, intf, optical, allow>>

(* oopt reboot: the working file, whatever HEAD holds. *)
RebootCmd(virtual, stage) ==
  /\ ValidateFinal
  /\ Boot(virtual, stage, Tree = head)
  /\ UNCHANGED <<port, intf, optical, allow, head>>

(* A Set of a breakout through the gNMI server: nobody makes interfaces.    *)
GnmiSet ==
  /\ \E s \in GnmiSets : port' = [port EXCEPT ![s[1]] = s[2]]
  /\ drift' = drift \cup {"gnmi"}
  /\ UNCHANGED <<intf, optical, allow, head, table>>

Next ==
  \/ \E p \in Port : \/ \E s \in Speeds : ChannelSpeed(p, s)
                     \/ \E num \in {1, 4} : NumChannels(p, num)
  \/ \E i \in Operated : \/ SetId(i) \/ SetName(i) \/ SetChannel(i)
                         \/ ClearConnection(i)
  \/ \E m \in Module : ModulationType(m) \/ AllowModule(m)
  \/ AllowRoot
  \/ \E virtual \in BOOLEAN, stage \in Stage :
       \/ \E reboot \in BOOLEAN : Commit(reboot, virtual, stage)
       \/ RebootCmd(virtual, stage)
  \/ GnmiSet

Spec == Init /\ [][Next]_vars
------------------------------------------------------------------------------
TypeOK ==
  /\ port \in [Port -> Breakout]
  /\ DOMAIN intf \subseteq Interface
  /\ intf \in [DOMAIN intf -> Intf]
  /\ optical \in [Module -> Optical]
  /\ allow \in BOOLEAN \cup {Unset}
  /\ head \in [port : [Port -> Breakout], names : SUBSET Interface]
  /\ DOMAIN table.sonic \subseteq Interface \cup ModulePort
  /\ table = [sonic |-> [i \in DOMAIN table.sonic |-> Lane(i)], ofdpa |-> table.ofdpa]
  /\ table.ofdpa \in [Port \cup ModuleIndex -> ModeType]
  /\ drift \subseteq {"gnmi", "lost", "uncommitted", "virtual"}

(* The commands keep exactly the interfaces of the breakout of each port,   *)
(* all at the speed of the port, however they are mixed.                    *)
InterfacesMatchPorts ==
  "gnmi" \notin drift =>
    /\ DOMAIN intf = AllLanes(port)
    /\ \A i \in DOMAIN intf : intf[i].speed = port[i[1]].speed

(* SONiC is booted with the interfaces of HEAD and ofdpa with its ports: a  *)
(* commit that goes without a reboot did not need one.  With --virtual that *)
(* is still so for SONiC, and with breakouts set over gNMI for ofdpa.       *)
TablesFollowHead ==
  /\ drift \subseteq {"virtual"} => table.sonic = Sonic(head.names)
  /\ drift \subseteq {"gnmi"} => table.ofdpa = Modes(head.port)

(* No two Ethernet ports of SONiC are given the same lane of the switch,    *)
(* no two ports of ofdpa the same logical port.  (sonic.go:328, ofdpa.go:99)*)
LanesDistinct ==
  /\ \A i, j \in DOMAIN table.sonic : table.sonic[i] = table.sonic[j] => i = j
  /\ \A i, j \in DOMAIN table.ofdpa :
       table.ofdpa[i].index = table.ofdpa[j].index => i = j

(* The two tables of the switch go together: SONiC has, of each port, the   *)
(* Ethernet ports of the mode in which ofdpa runs it, even when they were   *)
(* booted with what was not committed, and else the mode has the speed that *)
(* was accepted.  (NewOFDPAConfigFromModel goes through the ports,          *)
(* NewSONiCConfigFromModel through the interfaces.)                         *)
TablesAgree ==
  \A p \in Port :
    /\ drift \subseteq {"uncommitted"} =>
         {i \in DOMAIN table.sonic : i[1] = p} = Lanes(p, table.ofdpa[p].num)
    /\ drift = {} => table.ofdpa[p].speed * 1000 = head.port[p].speed

(* What is accepted fits: the client ports of a channel have no more than   *)
(* its capacity unless the module, or the root when the module says         *)
(* nothing, allows it; and a channel that carries nothing has no users.     *)
Permitted(m) == optical[m].allow = TRUE \/ (optical[m].allow = Unset /\ allow = TRUE)
ValidatedFits ==
  ValidateFinal =>
    \A m \in Module :
      /\ Permitted(m) \/ \A ch \in Channel : Load(m, ch) <= 100000
      /\ optical[m].modulation = "QPSK" => Users(m, "B") = {}

(* packet-transport.yang:255: "when a port is configured to break out into  *)
(* 4, 4 interfaces will be created."                                        *)
BreakoutCreatesInterfaces ==
  \A p \in Port : head.port[p].num = 4 => {p} \X (1..4) \subseteq head.names
==============================================================================
