-------------------------- MODULE TransponderProofs --------------------------
(* Ports, interfaces and the tables of the device, for every set of ports,  *)
(* speeds, modules, connections and gNMI requests.                          *)
EXTENDS Transponder, FiniteSetTheorems, WellFoundedInduction, TLAPS

(* What the commands keep of the configuration of HEAD.                     *)
HeadMatches == "gnmi" \notin drift => head.names = AllLanes(head.port)
(* HEAD was accepted; every port has the logical port of ofdpaPortMap.      *)
HeadAccepted == \A p \in Port : BreakoutValid(head.port[p])
Indexed == \A i \in Port \cup ModuleIndex : table.ofdpa[i].index = OfdpaPort[i]
(* The last reboot that came to its end gave SONiC and ofdpa the same tree. *)
BootedTogether ==
  drift \subseteq {"uncommitted"} =>
    \E ports \in [Port -> Breakout] :
      table.sonic = Sonic(AllLanes(ports)) /\ table.ofdpa = Modes(ports)
TableInv ==
  /\ TypeOK /\ InterfacesMatchPorts /\ HeadMatches /\ TablesFollowHead
  /\ BootedTogether /\ HeadAccepted /\ Indexed

------------------------------------------------------------------------------
(* Lanes of ports, lanes of the switch *)

LEMMA LanesType ==
  ASSUME NEW p \in Port, NEW num \in {1, 4}
  PROVE  /\ Lanes(p, num) \subseteq Interface
         /\ \A i \in Lanes(p, num) : i[1] = p
<1>1. CASE num = 1
  BY <1>1 DEF Lanes, Interface
<1>2. CASE num = 4
  <2>1. Lanes(p, num) = {p} \X (1..4)
    BY <1>2 DEF Lanes
  <2>2. 1..4 \subseteq 0..4
    OBVIOUS
  <2>3. QED
    BY <2>1, <2>2 DEF Interface
<1>3. QED
  BY <1>1, <1>2

LEMMA AllLanesType ==
  ASSUME NEW ports \in [Port -> Breakout]
  PROVE  AllLanes(ports) \subseteq Interface
BY LanesType DEF AllLanes, Breakout

(* A change of one port changes its lanes and no others. *)
LEMMA LanesOfOne ==
  ASSUME NEW ports \in [Port -> Breakout], NEW p \in Port, NEW b \in Breakout
  PROVE  AllLanes([ports EXCEPT ![p] = b])
           = (AllLanes(ports) \ Lanes(p, ports[p].num)) \cup Lanes(p, b.num)
<1> DEFINE new == [ports EXCEPT ![p] = b]
<1>1. \A q \in Port : ports[q].num \in {1, 4} /\ new[q].num \in {1, 4}
  BY DEF Breakout
<1>2. \A q \in Port : q # p => Lanes(q, new[q].num) = Lanes(q, ports[q].num)
  OBVIOUS
<1>3. \A q \in Port : q # p => Lanes(q, ports[q].num) \cap Lanes(p, ports[p].num) = {}
  BY <1>1, LanesType
<1>4. new[p].num = b.num
  OBVIOUS
<1>5. AllLanes(new) = UNION {Lanes(q, new[q].num) : q \in Port}
  BY DEF AllLanes
<1>6. AllLanes(ports) = UNION {Lanes(q, ports[q].num) : q \in Port}
  BY DEF AllLanes
<1> HIDE DEF new
<1>7. AllLanes(new) = (AllLanes(ports) \ Lanes(p, ports[p].num)) \cup Lanes(p, b.num)
  BY <1>2, <1>3, <1>4, <1>5, <1>6
<1>8. QED
  BY <1>7, Zenon DEF new

(* Lane is one to one on front panel, broken-out and module ports. *)
LEMMA LaneInjective ==
  ASSUME NEW i \in Interface \cup ModulePort, NEW j \in Interface \cup ModulePort,
         Lane(i) = Lane(j)
  PROVE  i = j
<1>1. \A k \in Interface : /\ k = <<k[1], k[2]>> /\ k[1] \in 1..16 /\ k[2] \in 0..4
  <2>1. Port \subseteq 1..16
    BY InventoryAssumption DEF InventoryAssumption
  <2>2. \A k \in Port \X (0..4) : k = <<k[1], k[2]>> /\ k[1] \in Port /\ k[2] \in 0..4
    OBVIOUS
  <2>3. QED
    BY <2>1, <2>2 DEF Interface
<1>2. \A k \in ModulePort : /\ k = <<k[1], k[2]>> /\ k[1] \in 17..32 /\ k[2] = 0
  BY DEF ModulePort
<1>3. \A k \in Interface \cup ModulePort :
        /\ k = <<k[1], k[2]>> /\ k[1] \in 1..32 /\ k[2] \in 0..4
        /\ k[2] # 0 => k[1] \in 1..16
  BY <1>1, <1>2
<1>4. Lane(i) = IF i[2] = 0 THEN i[1] ELSE 32 + 4 * (i[1] - 1) + i[2]
  BY DEF Lane
<1>5. Lane(j) = IF j[2] = 0 THEN j[1] ELSE 32 + 4 * (j[1] - 1) + j[2]
  BY DEF Lane
<1>6. i[1] = j[1] /\ i[2] = j[2]
  <2> DEFINE a == i[1]
             b == i[2]
             c == j[1]
             d == j[2]
  <2>1. /\ a \in 1..32 /\ b \in 0..4 /\ (b # 0 => a \in 1..16)
        /\ c \in 1..32 /\ d \in 0..4 /\ (d # 0 => c \in 1..16)
    BY <1>3
  <2>2. (IF b = 0 THEN a ELSE 32 + 4 * (a - 1) + b)
          = (IF d = 0 THEN c ELSE 32 + 4 * (c - 1) + d)
    BY <1>4, <1>5
  <2> HIDE DEF a, b, c, d
  <2>3. a = c /\ b = d
    BY <2>1, <2>2
  <2>4. QED
    BY <2>3 DEF a, b, c, d
<1>7. QED
  BY <1>3, <1>6

(* ofdpaPortMap is one to one. *)
LEMMA OfdpaPortInjective ==
  /\ \A i \in 1..32 : OfdpaPort[i] \in 1..130
  /\ \A i \in 1..32, j \in 1..32 : OfdpaPort[i] = OfdpaPort[j] => i = j
BY SMTT(60) DEF OfdpaPort

LEMMA ModesType ==
  ASSUME NEW ports \in [Port -> Breakout]
  PROVE  /\ Modes(ports) \in [Port \cup ModuleIndex -> ModeType]
         /\ \A i \in Port \cup ModuleIndex : Modes(ports)[i].index = OfdpaPort[i]
         /\ \A p \in Port : /\ Modes(ports)[p].num = ports[p].num
                            /\ Modes(ports)[p].speed = Gigabits(ports[p].speed)
<1>1. Port \cup ModuleIndex \subseteq 1..32
  BY InventoryAssumption DEF InventoryAssumption, ModuleIndex
<1>2. \A s : Gigabits(s) \in {10, 25, 40, 50, 100}
  BY DEF Gigabits
<1>3. \A i \in 1..32 : \A b : b.num \in {1, 4} =>
        /\ Mode(i, b) \in ModeType
        /\ Mode(i, b).index = OfdpaPort[i]
        /\ Mode(i, b).num = b.num /\ Mode(i, b).speed = Gigabits(b.speed)
  BY <1>2, OfdpaPortInjective DEF Mode, ModeType
<1>4. \A p \in Port : ports[p].num \in {1, 4}
  BY DEF Breakout
<1>5. QED
  BY <1>1, <1>3, <1>4 DEF Modes

(* The conjuncts of TypeOK about the tables. *)
TableShape(t) ==
  /\ DOMAIN t.sonic \subseteq Interface \cup ModulePort
  /\ t = [sonic |-> [i \in DOMAIN t.sonic |-> Lane(i)], ofdpa |-> t.ofdpa]
  /\ t.ofdpa \in [Port \cup ModuleIndex -> ModeType]

LEMMA SonicType ==
  ASSUME NEW names \in SUBSET Interface
  PROVE  /\ DOMAIN Sonic(names) = names \cup ModulePort
         /\ Sonic(names) = [i \in DOMAIN Sonic(names) |-> Lane(i)]
BY DEF Sonic

LEMMA ShapeOf ==
  ASSUME NEW s, NEW o, DOMAIN s \subseteq Interface \cup ModulePort,
         s = [i \in DOMAIN s |-> Lane(i)], o \in [Port \cup ModuleIndex -> ModeType]
  PROVE  TableShape([sonic |-> s, ofdpa |-> o])
<1> DEFINE t == [sonic |-> s, ofdpa |-> o]
<1>1. t.sonic = s /\ t.ofdpa = o
  OBVIOUS
<1>2. t = [sonic |-> [i \in DOMAIN t.sonic |-> Lane(i)], ofdpa |-> t.ofdpa]
  BY <1>1
<1> HIDE DEF t
<1>3. TableShape(t)
  BY <1>1, <1>2 DEF TableShape
<1>4. QED
  BY <1>3 DEF t

------------------------------------------------------------------------------
(* The interfaces, before and after *)

LEMMA NewIntfType ==
  ASSUME NEW s \in Speeds
  PROVE  NewIntf(s) \in Intf /\ NewIntf(s).speed = s
BY DEF NewIntf, Intf

(* What a command on one interface may turn it into. *)
LEMMA ConnectInv ==
  ASSUME TableInv, NEW i \in Interface, NEW c,
         i \in DOMAIN intf => c \in Intf /\ c.speed = intf[i].speed,
         Connect(i, c)
  PROVE  TableInv'
<1>1. /\ i \in DOMAIN intf /\ intf' = [intf EXCEPT ![i] = c]
      /\ UNCHANGED <<port, optical, allow, head, table, drift>>
  BY DEF Connect
<1>2. intf \in [DOMAIN intf -> Intf] /\ DOMAIN intf \subseteq Interface
  BY DEF TableInv, TypeOK
<1>3. DOMAIN intf' = DOMAIN intf /\ intf' \in [DOMAIN intf -> Intf]
  BY <1>1, <1>2
<1>4. \A j \in DOMAIN intf : intf'[j].speed = intf[j].speed
  BY <1>1, <1>2
<1>5. TypeOK'
  BY <1>1, <1>2, <1>3 DEF TableInv, TypeOK
<1>6. InterfacesMatchPorts'
  BY <1>1, <1>3, <1>4 DEF TableInv, InterfacesMatchPorts
<1>7. HeadMatches' /\ TablesFollowHead' /\ BootedTogether'
      /\ HeadAccepted' /\ Indexed'
  BY <1>1 DEF TableInv, HeadMatches, TablesFollowHead, BootedTogether,
         HeadAccepted, Indexed
<1>8. QED
  BY <1>5, <1>6, <1>7 DEF TableInv

LEMMA IntfType ==
  ASSUME TableInv, NEW i \in DOMAIN intf
  PROVE  intf[i] \in Intf /\ intf[i].speed \in Speeds
<1>1. intf[i] \in Intf
  BY DEF TableInv, TypeOK
<1>2. QED
  BY <1>1 DEF Intf

LEMMA InterfaceInv ==
  ASSUME TableInv, NEW i \in Operated,
         SetId(i) \/ SetName(i) \/ SetChannel(i) \/ ClearConnection(i)
  PROVE  TableInv'
<1>1. i \in Interface
  BY InventoryAssumption DEF InventoryAssumption
<1>2. CASE SetId(i)
  <2>1. PICK v \in Id : Connect(i, [intf[i] EXCEPT !.id = v])
    BY <1>2 DEF SetId
  <2>2. i \in DOMAIN intf
    BY <2>1 DEF Connect
  <2>3. /\ [intf[i] EXCEPT !.id = v] \in Intf
        /\ [intf[i] EXCEPT !.id = v].speed = intf[i].speed
    BY <2>2, IntfType DEF Intf
  <2>4. QED
    BY <1>1, <2>1, <2>3, ConnectInv
<1>3. CASE SetName(i)
  <2>1. PICK m \in Module : Connect(i, [intf[i] EXCEPT !.module = m])
    BY <1>3 DEF SetName
  <2>2. i \in DOMAIN intf
    BY <2>1 DEF Connect
  <2>3. /\ [intf[i] EXCEPT !.module = m] \in Intf
        /\ [intf[i] EXCEPT !.module = m].speed = intf[i].speed
    BY <2>2, IntfType DEF Intf
  <2>4. QED
    BY <1>1, <2>1, <2>3, ConnectInv
<1>4. CASE SetChannel(i)
  <2>1. PICK ch \in Channel : Connect(i, [intf[i] EXCEPT !.channel = ch])
    BY <1>4 DEF SetChannel
  <2>2. i \in DOMAIN intf
    BY <2>1 DEF Connect
  <2>3. /\ [intf[i] EXCEPT !.channel = ch] \in Intf
        /\ [intf[i] EXCEPT !.channel = ch].speed = intf[i].speed
    BY <2>2, IntfType DEF Intf
  <2>4. QED
    BY <1>1, <2>1, <2>3, ConnectInv
<1>5. CASE ClearConnection(i)
  <2>1. Connect(i, NewIntf(intf[i].speed)) /\ i \in DOMAIN intf
    BY <1>5 DEF ClearConnection, Connect
  <2>2. NewIntf(intf[i].speed) \in Intf /\ NewIntf(intf[i].speed).speed = intf[i].speed
    BY <2>1, IntfType, NewIntfType
  <2>3. QED
    BY <1>1, <2>1, <2>2, ConnectInv
<1>6. QED
  BY <1>2, <1>3, <1>4, <1>5

------------------------------------------------------------------------------
(* The ports *)

LEMMA ChannelSpeedInv ==
  ASSUME TableInv, NEW p \in Port, NEW s \in Speeds, ChannelSpeed(p, s)
  PROVE  TableInv'
<1>1. /\ port' = [port EXCEPT ![p].speed = s]
      /\ intf' = [i \in DOMAIN intf |->
                    IF i[1] = p THEN [intf[i] EXCEPT !.speed = s] ELSE intf[i]]
      /\ UNCHANGED <<optical, allow, head, table, drift>>
  BY DEF ChannelSpeed
<1>2. /\ port \in [Port -> Breakout] /\ intf \in [DOMAIN intf -> Intf]
      /\ DOMAIN intf \subseteq Interface
  BY DEF TableInv, TypeOK
<1>3. /\ port' \in [Port -> Breakout]
      /\ \A q \in Port : /\ port'[q].num = port[q].num
                         /\ port'[q].speed = IF q = p THEN s ELSE port[q].speed
  BY <1>1, <1>2 DEF Breakout
<1>4. DOMAIN intf' = DOMAIN intf
  BY <1>1
<1>5. \A i \in DOMAIN intf :
        /\ intf'[i] \in Intf
        /\ intf'[i].speed = IF i[1] = p THEN s ELSE intf[i].speed
  BY <1>1, <1>2 DEF Intf
<1>6. intf' \in [DOMAIN intf' -> Intf]
  BY <1>1, <1>4, <1>5
<1>7. TypeOK'
  BY <1>1, <1>2, <1>3, <1>4, <1>6 DEF TableInv, TypeOK
<1>8. AllLanes(port') = AllLanes(port)
  BY <1>3 DEF AllLanes
<1>9. \A i \in DOMAIN intf : i[1] \in Port
  BY <1>2 DEF Interface
<1>10. InterfacesMatchPorts'
  BY <1>1, <1>3, <1>4, <1>5, <1>8, <1>9 DEF TableInv, InterfacesMatchPorts
<1>11. HeadMatches' /\ TablesFollowHead' /\ BootedTogether'
      /\ HeadAccepted' /\ Indexed'
  BY <1>1 DEF TableInv, HeadMatches, TablesFollowHead, BootedTogether,
         HeadAccepted, Indexed
<1>12. QED
  BY <1>7, <1>10, <1>11 DEF TableInv

(* Breaking out takes the lanes of the old mode and adds those of the new.  *)
LEMMA NumChannelsInv ==
  ASSUME TableInv, NEW p \in Port, NEW num \in {1, 4}, NumChannels(p, num)
  PROVE  TableInv'
<1> DEFINE kept == DOMAIN intf \ Lanes(p, port[p].num)
           b == [num |-> num, speed |-> port[p].speed]
<1>1. /\ port' = [port EXCEPT ![p].num = num]
      /\ intf' = [i \in kept \cup Lanes(p, num) |->
                    IF i \in kept THEN intf[i] ELSE NewIntf(port[p].speed)]
      /\ UNCHANGED <<optical, allow, head, table, drift>>
  BY DEF NumChannels, Removed
<1>2. /\ port \in [Port -> Breakout] /\ intf \in [DOMAIN intf -> Intf]
      /\ DOMAIN intf \subseteq Interface
  BY DEF TableInv, TypeOK
<1>3. port[p] \in Breakout /\ port[p].speed \in Speeds /\ port[p].num \in {1, 4}
  BY <1>2 DEF Breakout
<1>4. b \in Breakout /\ b.num = num /\ b.speed = port[p].speed
  BY <1>3 DEF Breakout
<1>5. port' = [port EXCEPT ![p] = b]
  <2>1. [port[p] EXCEPT !.num = num] = b
    BY <1>3 DEF Breakout
  <2>2. QED
    BY <1>1, <2>1
<1>6. port' \in [Port -> Breakout] /\ \A q \in Port : port'[q].speed = port[q].speed
  BY <1>2, <1>4, <1>5
<1>7. Lanes(p, num) \subseteq Interface /\ \A i \in Lanes(p, num) : i[1] = p
  BY LanesType
<1>8. NewIntf(port[p].speed) \in Intf /\ NewIntf(port[p].speed).speed = port[p].speed
  BY <1>3, NewIntfType
<1>9. DOMAIN intf' = kept \cup Lanes(p, num)
  BY <1>1
<1>10. \A i \in DOMAIN intf' :
         intf'[i] = IF i \in kept THEN intf[i] ELSE NewIntf(port[p].speed)
  BY <1>1
<1>11. DOMAIN intf' \subseteq Interface /\ intf' \in [DOMAIN intf' -> Intf]
  <2>1. \A i \in DOMAIN intf' : intf'[i] \in Intf
    BY <1>2, <1>8, <1>10
  <2>2. intf' = [i \in DOMAIN intf' |-> intf'[i]]
    BY <1>1
  <2>3. QED
    BY <1>2, <1>7, <1>9, <2>1, <2>2
<1>12. TypeOK'
  BY <1>1, <1>6, <1>11 DEF TableInv, TypeOK
<1>13. AllLanes(port') = (AllLanes(port) \ Lanes(p, port[p].num)) \cup Lanes(p, num)
  BY <1>2, <1>4, <1>5, LanesOfOne
<1>14. ASSUME "gnmi" \notin drift
       PROVE  /\ DOMAIN intf' = AllLanes(port')
              /\ \A i \in DOMAIN intf' : intf'[i].speed = port'[i[1]].speed
  <2>1. /\ DOMAIN intf = AllLanes(port)
        /\ \A i \in DOMAIN intf : intf[i].speed = port[i[1]].speed
    BY <1>14 DEF TableInv, InterfacesMatchPorts
  <2>2. DOMAIN intf' = AllLanes(port')
    BY <1>9, <1>13, <2>1
  <2>3. \A i \in DOMAIN intf : i[1] \in Port
    BY <1>2 DEF Interface
  <2>4. ASSUME NEW i \in DOMAIN intf'
        PROVE  intf'[i].speed = port'[i[1]].speed
    <3>1. CASE i \in kept
      BY <3>1, <1>6, <1>10, <2>1, <2>3, <2>4
    <3>2. CASE i \notin kept
      <4>1. i[1] = p
        BY <3>2, <1>7, <1>9, <2>4
      <4>2. QED
        BY <3>2, <4>1, <1>6, <1>8, <1>10, <2>4
    <3>3. QED
      BY <3>1, <3>2
  <2>5. QED
    BY <2>2, <2>4
<1>15. InterfacesMatchPorts'
  BY <1>1, <1>14 DEF InterfacesMatchPorts
<1>16. HeadMatches' /\ TablesFollowHead' /\ BootedTogether'
      /\ HeadAccepted' /\ Indexed'
  BY <1>1 DEF TableInv, HeadMatches, TablesFollowHead, BootedTogether,
         HeadAccepted, Indexed
<1>17. QED
  BY <1>12, <1>15, <1>16 DEF TableInv

------------------------------------------------------------------------------
(* The modules, commits and the gNMI server *)

LEMMA SetModuleInv ==
  ASSUME TableInv, NEW m \in Module, NEW o, optical[m] \in Optical => o \in Optical,
         SetModule(m, o)
  PROVE  TableInv'
<1>1. optical' = [optical EXCEPT ![m] = o] /\ UNCHANGED <<port, intf, allow, head, table, drift>>
  BY DEF SetModule
<1>2. optical \in [Module -> Optical]
  BY DEF TableInv, TypeOK
<1>3. optical' \in [Module -> Optical]
  BY <1>1, <1>2
<1>4. TypeOK'
  BY <1>1, <1>3 DEF TableInv, TypeOK
<1>5. InterfacesMatchPorts' /\ HeadMatches' /\ TablesFollowHead' /\ BootedTogether'
      /\ HeadAccepted' /\ Indexed'
  BY <1>1 DEF TableInv, InterfacesMatchPorts, HeadMatches, TablesFollowHead, BootedTogether,
         HeadAccepted, Indexed
<1>6. QED
  BY <1>4, <1>5 DEF TableInv

LEMMA ModuleInv ==
  ASSUME TableInv, NEW m \in Module, ModulationType(m) \/ AllowModule(m)
  PROVE  TableInv'
<1>1. CASE ModulationType(m)
  <2>1. PICK t \in {"QPSK", "16QAM"} : SetModule(m, [optical[m] EXCEPT !.modulation = t])
    BY <1>1 DEF ModulationType
  <2>2. optical[m] \in Optical => [optical[m] EXCEPT !.modulation = t] \in Optical
    BY DEF Optical
  <2>3. QED
    BY <2>1, <2>2, SetModuleInv
<1>2. CASE AllowModule(m)
  <2>1. PICK v \in BOOLEAN \cup {Unset} : SetModule(m, [optical[m] EXCEPT !.allow = v])
    BY <1>2 DEF AllowModule
  <2>2. optical[m] \in Optical => [optical[m] EXCEPT !.allow = v] \in Optical
    BY DEF Optical
  <2>3. QED
    BY <2>1, <2>2, SetModuleInv
<1>3. QED
  BY <1>1, <1>2

LEMMA AllowRootInv ==
  ASSUME TableInv, AllowRoot
  PROVE  TableInv'
<1>1. allow' \in BOOLEAN /\ UNCHANGED <<port, intf, optical, head, table, drift>>
  BY DEF AllowRoot
<1>2. TypeOK'
  BY <1>1 DEF TableInv, TypeOK
<1>3. InterfacesMatchPorts' /\ HeadMatches' /\ TablesFollowHead' /\ BootedTogether'
      /\ HeadAccepted' /\ Indexed'
  BY <1>1 DEF TableInv, InterfacesMatchPorts, HeadMatches, TablesFollowHead, BootedTogether,
         HeadAccepted, Indexed
<1>4. QED
  BY <1>2, <1>3 DEF TableInv

(* A reboot of the tree, as far as it comes: what it leaves out is said in  *)
(* `drift`.                                                                 *)
LEMMA BootInv ==
  ASSUME TableInv, ValidateFinal, NEW virtual \in BOOLEAN, NEW stage \in Stage,
         NEW committed, Boot(virtual, stage, committed), head' \in {Tree, head},
         committed => head' = Tree, UNCHANGED <<port, intf, optical, allow>>
  PROVE  TableInv'
<1> DEFINE names == DOMAIN intf
<1>1. /\ port \in [Port -> Breakout] /\ names \in SUBSET Interface
      /\ head \in [port : [Port -> Breakout], names : SUBSET Interface]
      /\ drift \subseteq {"gnmi", "lost", "uncommitted", "virtual"}
      /\ TableShape(table)
  BY DEF TableInv, TypeOK, TableShape
<1>2. Tree = [port |-> port, names |-> names]
  BY DEF Tree
<1>3. table' = [sonic |-> IF stage = "all" THEN Sonic(names) ELSE table.sonic,
                ofdpa |-> IF virtual \/ stage = "none" THEN table.ofdpa ELSE Modes(port)]
  BY DEF Boot
<1>4. /\ drift' \subseteq {"gnmi", "lost", "uncommitted", "virtual"}
      /\ "gnmi" \in drift' <=> "gnmi" \in drift
      /\ stage # "all" => "lost" \in drift'
      /\ stage = "all" /\ virtual => "virtual" \in drift'
      /\ stage = "all" /\ ~committed => "uncommitted" \in drift'
  BY <1>1 DEF Boot
<1>5. TableShape(table') /\ Indexed'
  <2> DEFINE s == IF stage = "all" THEN Sonic(names) ELSE table.sonic
             o == IF virtual \/ stage = "none" THEN table.ofdpa ELSE Modes(port)
  <2>1. DOMAIN s \subseteq Interface \cup ModulePort /\ s = [i \in DOMAIN s |-> Lane(i)]
    <3>1. CASE stage = "all"
      <4>1. s = Sonic(names)
        BY <3>1
      <4> HIDE DEF s
      <4>2. QED
        BY <1>1, <4>1, SonicType
    <3>2. CASE stage # "all"
      <4>1. s = table.sonic
        BY <3>2
      <4>2. table.sonic = [i \in DOMAIN table.sonic |-> Lane(i)]
        BY <1>1 DEF TableShape
      <4> HIDE DEF s
      <4>3. QED
        BY <1>1, <4>1, <4>2 DEF TableShape
    <3>3. QED
      BY <3>1, <3>2
  <2>2. /\ o \in [Port \cup ModuleIndex -> ModeType]
        /\ \A i \in Port \cup ModuleIndex : o[i].index = OfdpaPort[i]
    BY <1>1, ModesType DEF TableShape, TableInv, Indexed
  <2> HIDE DEF s, o
  <2>3. table' = [sonic |-> s, ofdpa |-> o]
    BY <1>3 DEF s, o
  <2>4. TableShape(table')
    BY <2>1, <2>2, <2>3, ShapeOf
  <2>5. table'.ofdpa = o
    BY <2>3
  <2>6. QED
    BY <2>2, <2>4, <2>5 DEF Indexed
<1>6. head' \in [port : [Port -> Breakout], names : SUBSET Interface]
  BY <1>1, <1>2
<1>7. TypeOK'
  BY <1>4, <1>5, <1>6 DEF TableInv, TypeOK, TableShape
<1>8. InterfacesMatchPorts'
  BY <1>4 DEF TableInv, InterfacesMatchPorts
<1>9. HeadMatches' /\ HeadAccepted'
  <2>1. CASE head' = head
    BY <1>4, <2>1 DEF TableInv, HeadMatches, HeadAccepted
  <2>2. CASE head' = Tree
    <3>1. head'.port = port /\ head'.names = names
      BY <1>2, <2>2
    <3>2. HeadAccepted'
      BY <3>1 DEF ValidateFinal, HeadAccepted
    <3>3. "gnmi" \notin drift => names = AllLanes(port)
      BY DEF TableInv, InterfacesMatchPorts
    <3>4. QED
      BY <1>4, <3>1, <3>2, <3>3 DEF HeadMatches
  <2>3. QED
    BY <2>1, <2>2
<1>10. TablesFollowHead'
  <2>1. ASSUME drift' \subseteq {"virtual"}
        PROVE  table'.sonic = Sonic(head'.names)
    <3>1. stage = "all" /\ head' = Tree
      BY <1>4, <2>1
    <3>2. QED
      BY <1>2, <1>3, <3>1
  <2>2. ASSUME drift' \subseteq {"gnmi"}
        PROVE  table'.ofdpa = Modes(head'.port)
    <3>1. stage = "all" /\ ~virtual /\ head' = Tree
      BY <1>4, <2>2
    <3>2. QED
      BY <1>2, <1>3, <3>1
  <2>3. QED
    BY <2>1, <2>2 DEF TablesFollowHead
<1>11. BootedTogether'
  <2>1. SUFFICES ASSUME drift' \subseteq {"uncommitted"}
                 PROVE  /\ table'.sonic = Sonic(AllLanes(port))
                        /\ table'.ofdpa = Modes(port)
    BY <1>1 DEF BootedTogether
  <2>2. stage = "all" /\ ~virtual /\ "gnmi" \notin drift
    BY <1>4, <2>1
  <2>3. names = AllLanes(port)
    BY <2>2 DEF TableInv, InterfacesMatchPorts
  <2>4. QED
    BY <1>3, <2>2, <2>3
<1>12. QED
  BY <1>5, <1>7, <1>8, <1>9, <1>10, <1>11 DEF TableInv

(* A commit that asks for no reboot has the ports of the HEAD before it,    *)
(* and with the ports the names of the interfaces.                          *)
LEMMA CommitInv ==
  ASSUME TableInv, NEW reboot \in BOOLEAN, NEW virtual \in BOOLEAN, NEW stage \in Stage,
         Commit(reboot, virtual, stage)
  PROVE  TableInv'
<1> DEFINE names == DOMAIN intf
<1>1. ValidateFinal /\ head' = Tree /\ UNCHANGED <<port, intf, optical, allow>>
  BY DEF Commit
<1>2. CASE reboot \/ NeedsReboot \/ stage = "none"
  <2>1. Boot(virtual, stage, TRUE)
    BY <1>2 DEF Commit
  <2>2. QED
    BY <1>1, <2>1, BootInv
<1>3. CASE ~reboot /\ ~NeedsReboot /\ stage # "none"
  <2>1. UNCHANGED <<table, drift>>
    BY <1>3 DEF Commit
  <2>2. /\ port \in [Port -> Breakout] /\ names \in SUBSET Interface
        /\ head.port \in [Port -> Breakout]
    BY DEF TableInv, TypeOK
  <2>3. head.port = port
    <3>1. \A p \in Port : head.port[p] = port[p]
      BY <1>3 DEF NeedsReboot, PortDiff
    <3>2. QED
      BY <2>2, <3>1
  <2>4. head' = [port |-> port, names |-> names]
    BY <1>1 DEF Tree
  <2>5. head' \in [port : [Port -> Breakout], names : SUBSET Interface]
    BY <2>2, <2>4
  <2>6. TypeOK'
    BY <1>1, <2>1, <2>5 DEF TableInv, TypeOK
  <2>7. InterfacesMatchPorts' /\ BootedTogether' /\ Indexed'
    BY <1>1, <2>1 DEF TableInv, InterfacesMatchPorts, BootedTogether, Indexed
  <2>8. HeadMatches'
    BY <2>1, <2>4 DEF TableInv, InterfacesMatchPorts, HeadMatches
  <2>9. HeadAccepted'
    BY <1>1, <2>4 DEF ValidateFinal, HeadAccepted
  <2>10. "gnmi" \notin drift => head.names = names
    BY <2>3 DEF TableInv, HeadMatches, InterfacesMatchPorts
  <2>11. TablesFollowHead'
    BY <2>1, <2>3, <2>4, <2>10 DEF TableInv, TablesFollowHead
  <2>12. QED
    BY <2>6, <2>7, <2>8, <2>9, <2>11 DEF TableInv
<1>4. QED
  BY <1>2, <1>3

LEMMA RebootCmdInv ==
  ASSUME TableInv, NEW virtual \in BOOLEAN, NEW stage \in Stage,
         RebootCmd(virtual, stage)
  PROVE  TableInv'
<1> DEFINE committed == Tree = head
<1>1. /\ ValidateFinal /\ Boot(virtual, stage, committed)
      /\ UNCHANGED <<port, intf, optical, allow, head>>
  BY DEF RebootCmd
<1>2. head' \in {Tree, head} /\ (committed => head' = Tree)
  BY <1>1
<1> HIDE DEF committed
<1>3. QED
  BY <1>1, <1>2, BootInv

LEMMA GnmiSetInv ==
  ASSUME TableInv, GnmiSet
  PROVE  TableInv'
<1>1. PICK s \in GnmiSets : port' = [port EXCEPT ![s[1]] = s[2]]
  BY DEF GnmiSet
<1>2. drift' = drift \cup {"gnmi"} /\ UNCHANGED <<intf, optical, allow, head, table>>
  BY DEF GnmiSet
<1>3. s[1] \in Port /\ s[2] \in Breakout
  BY InventoryAssumption DEF InventoryAssumption
<1>4. port' \in [Port -> Breakout]
  BY <1>1, <1>3 DEF TableInv, TypeOK
<1>5. TypeOK'
  BY <1>2, <1>4 DEF TableInv, TypeOK
<1>6. InterfacesMatchPorts' /\ HeadMatches' /\ TablesFollowHead' /\ BootedTogether'
      /\ HeadAccepted' /\ Indexed'
  BY <1>2 DEF TableInv, InterfacesMatchPorts, HeadMatches, TablesFollowHead, BootedTogether,
         HeadAccepted, Indexed
<1>7. QED
  BY <1>5, <1>6 DEF TableInv

------------------------------------------------------------------------------
LEMMA InitInv ==
  ASSUME Init
  PROVE  TableInv
<1> DEFINE one == [num |-> 1, speed |-> 100000]
<1>1. one \in Breakout /\ NewIntf(100000) \in Intf /\ NewIntf(100000).speed = 100000
  <2>1. 100000 \in Speeds
    BY InventoryAssumption DEF InventoryAssumption
  <2>2. QED
    BY <2>1, NewIntfType DEF Breakout
<1>2. /\ port = [p \in Port |-> one] /\ intf = [i \in Port \X {0} |-> NewIntf(100000)]
      /\ optical = [m \in Module |-> [modulation |-> Unset, allow |-> Unset]]
      /\ allow = Unset /\ head = [port |-> port, names |-> DOMAIN intf]
      /\ table = [sonic |-> Sonic(DOMAIN intf), ofdpa |-> Modes(port)] /\ drift = {}
  BY DEF Init
<1>3. port \in [Port -> Breakout] /\ \A p \in Port : port[p] = one
  BY <1>1, <1>2
<1>4. DOMAIN intf = Port \X {0}
  BY <1>2
<1>5. DOMAIN intf \subseteq Interface /\ intf \in [DOMAIN intf -> Intf]
  BY <1>1, <1>2, <1>4 DEF Interface
<1>6. AllLanes(port) = Port \X {0}
  <2>1. \A p \in Port : Lanes(p, port[p].num) = {<<p, 0>>}
    BY <1>3 DEF Lanes
  <2>2. QED
    BY <2>1 DEF AllLanes
<1>7. optical \in [Module -> Optical]
  BY <1>2 DEF Optical
<1>13. Indexed
  BY <1>2, <1>3, <1>5, ModesType DEF Indexed
<1>14. BootedTogether
  <2>1. table.sonic = Sonic(DOMAIN intf) /\ table.ofdpa = Modes(port)
    BY <1>2
  <2>2. DOMAIN intf = AllLanes(port)
    BY <1>4, <1>6
  <2>3. table.sonic = Sonic(AllLanes(port))
    BY <2>1, <2>2
  <2>4. QED
    BY <1>3, <2>1, <2>3 DEF BootedTogether
<1>8. TableShape(table)
  <2>1. port \in [Port -> Breakout] /\ DOMAIN intf \in SUBSET Interface
    BY <1>3, <1>5
  <2> DEFINE s == Sonic(DOMAIN intf)
             o == Modes(port)
  <2>2. /\ DOMAIN s \subseteq Interface \cup ModulePort
        /\ s = [i \in DOMAIN s |-> Lane(i)]
        /\ o \in [Port \cup ModuleIndex -> ModeType]
    BY <2>1, SonicType, ModesType
  <2>3. table = [sonic |-> s, ofdpa |-> o]
    BY <1>2
  <2> HIDE DEF s, o
  <2>4. QED
    BY <2>2, <2>3, ShapeOf
<1>9. TypeOK
  <2>1. head \in [port : [Port -> Breakout], names : SUBSET Interface]
    BY <1>2, <1>3, <1>5
  <2>2. allow \in BOOLEAN \cup {Unset} /\ drift \subseteq {"gnmi", "lost", "uncommitted", "virtual"}
    BY <1>2
  <2>3. QED
    BY <1>3, <1>5, <1>7, <1>8, <2>1, <2>2 DEF TypeOK, TableShape
<1>10. InterfacesMatchPorts
  <2>1. \A i \in DOMAIN intf : intf[i].speed = 100000 /\ i[1] \in Port
    BY <1>1, <1>2, <1>4
  <2>2. \A i \in DOMAIN intf : intf[i].speed = port[i[1]].speed
    BY <1>3, <2>1
  <2>3. QED
    BY <1>4, <1>6, <2>2 DEF InterfacesMatchPorts
<1>11. HeadMatches /\ TablesFollowHead /\ HeadAccepted /\ Indexed
  <2>1. HeadAccepted
    BY <1>2, <1>3 DEF HeadAccepted, BreakoutValid
  <2>2. QED
    BY <1>2, <1>4, <1>6, <1>13, <2>1 DEF HeadMatches, TablesFollowHead
<1>12. QED
  BY <1>9, <1>10, <1>11, <1>14 DEF TableInv

LEMMA NextInv ==
  ASSUME TableInv, [Next]_vars
  PROVE  TableInv'
<1>1. CASE \E p \in Port : \E s \in Speeds : ChannelSpeed(p, s)
  BY <1>1, ChannelSpeedInv
<1>2. CASE \E p \in Port : \E num \in {1, 4} : NumChannels(p, num)
  BY <1>2, NumChannelsInv
<1>3. CASE \E i \in Operated : \/ SetId(i) \/ SetName(i) \/ SetChannel(i)
                             \/ ClearConnection(i)
  BY <1>3, InterfaceInv
<1>4. CASE \E m \in Module : ModulationType(m) \/ AllowModule(m)
  BY <1>4, ModuleInv
<1>5. CASE AllowRoot
  BY <1>5, AllowRootInv
<1>6. CASE \E virtual \in BOOLEAN, stage \in Stage :
              \/ \E reboot \in BOOLEAN : Commit(reboot, virtual, stage)
              \/ RebootCmd(virtual, stage)
  BY <1>6, CommitInv, RebootCmdInv
<1>7. CASE GnmiSet
  BY <1>7, GnmiSetInv
<1>8. CASE UNCHANGED vars
  BY <1>8 DEF vars, TableInv, TypeOK, InterfacesMatchPorts, HeadMatches, TablesFollowHead, BootedTogether,
         HeadAccepted, Indexed
<1>9. QED
  BY <1>1, <1>2, <1>3, <1>4, <1>5, <1>6, <1>7, <1>8 DEF Next

LEMMA Invariance == Spec => []TableInv
<1>1. Init => TableInv
  BY InitInv
<1>2. TableInv /\ [Next]_vars => TableInv'
  BY NextInv
<1>3. QED
  BY <1>1, <1>2, PTL DEF Spec

(* Whatever is edited, committed or set over gNMI, the tree and the tables  *)
(* of the device are well formed (newInterface, NewSONiCConfigFromModel).   *)
THEOREM TypeCorrect == Spec => []TypeOK
<1>1. TableInv => TypeOK
  BY DEF TableInv
<1>2. QED
  BY <1>1, Invariance, PTL

(* The port commands keep exactly the interfaces of every port's breakout,  *)
(* at the port's speed, for any ports and speeds (main.go:440-519).         *)
THEOREM PortsMatch == Spec => []InterfacesMatchPorts
<1>1. TableInv => InterfacesMatchPorts
  BY DEF TableInv
<1>2. QED
  BY <1>1, Invariance, PTL

(* A commit that does not reboot did not have to (HandlePortDiff, commit):  *)
(* SONiC has the interfaces of HEAD and ofdpa its ports, unless a commit or *)
(* a reboot ended half way or `oopt reboot` took what was not committed.    *)
(* With --virtual SONiC still follows, after a breakout over gNMI ofdpa.    *)
THEOREM TablesFollow == Spec => []TablesFollowHead
<1>1. TableInv => TablesFollowHead
  BY DEF TableInv
<1>2. QED
  BY <1>1, Invariance, PTL

(* The lanes of up to sixteen ports, broken out or not, and of the ports of *)
(* the modules are all different (NewSONiCConfigFromModel), and so are the  *)
(* logical ports that ofdpa gives them (NewPort).                           *)
THEOREM LanesUnique == Spec => []LanesDistinct
<1>1. TableInv => LanesDistinct
  <2>1. SUFFICES ASSUME TableInv
                 PROVE  LanesDistinct
    OBVIOUS
  <2>2. table.sonic = [k \in DOMAIN table.sonic |-> Lane(k)]
    BY <2>1 DEF TableInv, TypeOK
  <2>3. DOMAIN table.sonic \subseteq Interface \cup ModulePort
    BY <2>1 DEF TableInv, TypeOK
  <2>4. ASSUME NEW i \in DOMAIN table.sonic, NEW j \in DOMAIN table.sonic,
               table.sonic[i] = table.sonic[j]
        PROVE  i = j
    <3>1. table.sonic[i] = Lane(i) /\ table.sonic[j] = Lane(j)
      BY <2>2
    <3>2. QED
      BY <2>3, <2>4, <3>1, LaneInjective
  <2>5. DOMAIN table.ofdpa = Port \cup ModuleIndex /\ Port \cup ModuleIndex \subseteq 1..32
    BY <2>1, InventoryAssumption DEF InventoryAssumption, TableInv, TypeOK, ModuleIndex
  <2>6. ASSUME NEW i \in DOMAIN table.ofdpa, NEW j \in DOMAIN table.ofdpa,
               table.ofdpa[i].index = table.ofdpa[j].index
        PROVE  i = j
    BY <2>1, <2>5, <2>6, OfdpaPortInjective DEF TableInv, Indexed
  <2>7. QED
    BY <2>4, <2>6 DEF LanesDistinct
<1>2. QED
  BY <1>1, Invariance, PTL

(* The table of SONiC has the Ethernet ports of each port's mode in ofdpa,  *)
(* whatever was booted, and the mode the speed of HEAD, when HEAD was       *)
(* (NewSONiCConfigFromModel and NewOFDPAConfigFromModel).                   *)
THEOREM TablesGoTogether == Spec => []TablesAgree
<1>1. TableInv => TablesAgree
  <2>1. SUFFICES ASSUME TableInv, NEW p \in Port
                 PROVE  /\ drift \subseteq {"uncommitted"} =>
                             {i \in DOMAIN table.sonic : i[1] = p}
                               = Lanes(p, table.ofdpa[p].num)
                        /\ drift = {} => table.ofdpa[p].speed * 1000 = head.port[p].speed
    BY DEF TablesAgree
  <2>2. ASSUME drift \subseteq {"uncommitted"}
        PROVE  {i \in DOMAIN table.sonic : i[1] = p} = Lanes(p, table.ofdpa[p].num)
    <3>1. PICK ports \in [Port -> Breakout] :
            table.sonic = Sonic(AllLanes(ports)) /\ table.ofdpa = Modes(ports)
      BY <2>1, <2>2 DEF TableInv, BootedTogether
    <3>2. table.ofdpa[p].num = ports[p].num
      BY <3>1, ModesType
    <3>3. DOMAIN table.sonic = AllLanes(ports) \cup ModulePort
      BY <3>1 DEF Sonic
    <3>4. \A i \in ModulePort : i[1] # p
      BY InventoryAssumption DEF InventoryAssumption, ModulePort
    <3>5. \A q \in Port : \A i \in Lanes(q, ports[q].num) : i[1] = q
      BY LanesType DEF Breakout
    <3>6. QED
      BY <3>2, <3>3, <3>4, <3>5 DEF AllLanes
  <2>3. ASSUME drift = {}
        PROVE  table.ofdpa[p].speed * 1000 = head.port[p].speed
    <3>1. head.port \in [Port -> Breakout] /\ table.ofdpa = Modes(head.port)
      BY <2>1, <2>3 DEF TableInv, TypeOK, TablesFollowHead
    <3>2. table.ofdpa[p].speed = Gigabits(head.port[p].speed)
      BY <3>1, ModesType
    <3>3. Gigabits(head.port[p].speed) * 1000 = head.port[p].speed
      BY <2>1 DEF TableInv, HeadAccepted, BreakoutValid, Gigabits
    <3>4. QED
      BY <3>2, <3>3
  <2>4. QED
    BY <2>2, <2>3
<1>2. QED
  BY <1>1, Invariance, PTL

------------------------------------------------------------------------------
(* Sums *)

(* Induction on a set of numbers: the least number it lacks would be one    *)
(* that it has.                                                             *)
LEMMA AllNaturals ==
  ASSUME NEW G, 0 \in G, \A n \in Nat : n \in G => n + 1 \in G
  PROVE  Nat \subseteq G
<1> DEFINE R == OpToRel(<, Nat)
           lacks == Nat \ G
<1>1. \A x \in Nat, y \in Nat : <<x, y>> \in R <=> x < y
  BY DEF OpToRel
<1>2. IsWellFoundedOn(R, Nat)
  BY NatLessThanWellFounded, Zenon
<1> HIDE DEF R
<1>3. SUFFICES ASSUME lacks # {} PROVE FALSE
  OBVIOUS
<1>4. lacks \subseteq Nat
  OBVIOUS
<1>5. PICK m \in lacks : \A k \in lacks : ~(<<k, m>> \in R)
  <2> HIDE DEF lacks
  <2> QED BY <1>2, <1>3, <1>4, WFMin
<1>6. m \in Nat /\ m \notin G /\ m # 0
  OBVIOUS
<1>7. m - 1 \in Nat /\ m - 1 < m /\ (m - 1) + 1 = m
  BY <1>6
<1>8. m - 1 \in G
  BY <1>1, <1>5, <1>6, <1>7
<1> QED BY <1>6, <1>7, <1>8

(* MapThenSumSet of the community modules takes one element after the other. *)
First(s) == CHOOSE x \in s : TRUE
Summed(s, f) == IF s = {} THEN 0 ELSE intf[First(s)].speed + f[s \ {First(s)}]
IsSum(f, S) == f = [s \in SUBSET S |-> Summed(s, f)]

LEMMA LoadUnfolds ==
  ASSUME NEW m, NEW ch
  PROVE  LET S == Users(m, ch) IN Load(m, ch) = (CHOOSE f : IsSum(f, S))[S]
BY Zenon DEF Load, MapThenSumSet, MapThenFoldSet, IsSum, Summed, First

LEMMA FirstOf ==
  ASSUME NEW S, IsFiniteSet(S), NEW s \in SUBSET S, s # {}
  PROVE  /\ First(s) \in s /\ s \ {First(s)} \in SUBSET S
         /\ Cardinality(s) \in Nat /\ Cardinality(s \ {First(s)}) = Cardinality(s) - 1
<1>1. First(s) \in s
  BY DEF First
<1>2. IsFiniteSet(s)
  BY FS_Subset
<1>3. Cardinality(s) \in Nat
  BY <1>2, FS_CardinalityType
<1>4. Cardinality(s \ {First(s)}) = Cardinality(s) - 1
  <2> DEFINE x == First(s)
  <2>1. x \in s
    BY <1>1
  <2> HIDE DEF x
  <2>2. Cardinality(s \ {x}) = Cardinality(s) - 1
    BY <1>2, <2>1, FS_RemoveElement
  <2> QED BY <2>2 DEF x
<1> QED BY <1>1, <1>3, <1>4

(* The equation of the sum has a solution: one layer of the subsets of S    *)
(* after the other, by the number of their elements.                        *)
Layer(S, n) == {s \in SUBSET S : Cardinality(s) <= n}
Upto(S, n, f) == \A s \in Layer(S, n) : f[s] = Summed(s, f)

LEMMA SumExists ==
  ASSUME NEW S, IsFiniteSet(S)
  PROVE  \E f : IsSum(f, S)
<1> DEFINE G == {n \in Nat : \E f : Upto(S, n, f)}
           next(f) == [s \in SUBSET S |-> Summed(s, f)]
<1>1. ASSUME NEW n \in Nat, NEW f, NEW s \in Layer(S, n + 1), s # {}
      PROVE  s \ {First(s)} \in Layer(S, n)
  <2>1. s \in SUBSET S /\ Cardinality(s) <= n + 1
    BY <1>1 DEF Layer
  <2> QED BY <1>1, <2>1, FirstOf DEF Layer
<1>2. 0 \in G
  <2> DEFINE f == [s \in SUBSET S |-> 0]
  <2>1. \A s \in Layer(S, 0) : s = {}
    <3> SUFFICES ASSUME NEW s \in SUBSET S, Cardinality(s) <= 0, s # {}
                 PROVE  FALSE
      BY DEF Layer
    <3> QED BY FirstOf, FS_Subset, FS_CardinalityType, FS_EmptySet
  <2>2. Upto(S, 0, f)
    BY <2>1 DEF Upto, Summed
  <2> QED BY <2>2
<1>3. ASSUME NEW n \in Nat, n \in G PROVE n + 1 \in G
  <2>1. PICK f : Upto(S, n, f)
    BY <1>3
  <2> DEFINE g == next(f)
  <2>2. \A s \in SUBSET S : g[s] = Summed(s, f)
    OBVIOUS
  <2>3. \A s \in Layer(S, n) : s \in SUBSET S /\ g[s] = f[s]
    BY <2>1, <2>2 DEF Upto, Layer
  <2> HIDE DEF g
  <2>4. ASSUME NEW s \in Layer(S, n + 1) PROVE g[s] = Summed(s, g)
    <3>1. g[s] = Summed(s, f)
      BY <2>2 DEF Layer
    <3>2. s # {} => g[s \ {First(s)}] = f[s \ {First(s)}]
      BY <1>1, <2>3
    <3> QED BY <3>1, <3>2 DEF Summed
  <2>5. Upto(S, n + 1, g)
    BY <2>4 DEF Upto
  <2> QED BY <2>5
<1>4. Nat \subseteq G
  <2> HIDE DEF G
  <2> QED BY <1>2, <1>3, AllNaturals
<1>5. Cardinality(S) \in Nat /\ \A s \in SUBSET S : Cardinality(s) <= Cardinality(S)
  BY FS_Subset, FS_CardinalityType
<1>6. PICK f : Upto(S, Cardinality(S), f)
  BY <1>4, <1>5
<1>7. Layer(S, Cardinality(S)) = SUBSET S
  BY <1>5 DEF Layer
<1> DEFINE g == [s \in SUBSET S |-> f[s]]
<1>8. \A s \in SUBSET S : g[s] = f[s] /\ f[s] = Summed(s, f)
  BY <1>6, <1>7 DEF Upto
<1>9. \A s \in SUBSET S : Summed(s, g) = Summed(s, f)
  <2> SUFFICES ASSUME NEW s \in SUBSET S PROVE Summed(s, g) = Summed(s, f)
    OBVIOUS
  <2> HIDE DEF g
  <2>1. s # {} => s \ {First(s)} \in SUBSET S
    OBVIOUS
  <2> QED BY <1>8, <2>1 DEF Summed
<1>10. g = [s \in SUBSET S |-> Summed(s, g)]
  BY <1>8, <1>9
<1> QED BY <1>10 DEF IsSum

(* The load of a channel is a number, and of one with users not zero.       *)
LEMMA LoadPositive ==
  ASSUME NEW m, NEW ch, IsFiniteSet(Users(m, ch)),
         \A i \in Users(m, ch) : intf[i].speed \in Nat \ {0}
  PROVE  /\ Load(m, ch) \in Nat
         /\ Load(m, ch) = 0 => Users(m, ch) = {}
<1> DEFINE S == Users(m, ch)
           f == CHOOSE f : IsSum(f, S)
           G == {n \in Nat : \A s \in Layer(S, n) : f[s] \in Nat /\ (f[s] = 0 => s = {})}
<1>1. Load(m, ch) = f[S]
  BY LoadUnfolds
<1>2. IsFiniteSet(S) /\ \A i \in S : intf[i].speed \in Nat \ {0}
  OBVIOUS
<1> HIDE DEF S
<1>3. IsSum(f, S)
  BY <1>2, SumExists
<1> HIDE DEF f
<1>4. \A s \in SUBSET S : f[s] = Summed(s, f)
  BY <1>3 DEF IsSum
<1>5. 0 \in G
  <2> SUFFICES ASSUME NEW s \in SUBSET S, Cardinality(s) <= 0
               PROVE  f[s] \in Nat /\ (f[s] = 0 => s = {})
    BY DEF Layer
  <2>1. s = {}
    BY <1>2, FS_Subset, FS_CardinalityType, FS_EmptySet
  <2>2. f[{}] = 0
    BY <1>4, Zenon DEF Summed
  <2> QED BY <2>1, <2>2
<1>6. ASSUME NEW n \in Nat, n \in G PROVE n + 1 \in G
  <2> SUFFICES ASSUME NEW s \in SUBSET S, Cardinality(s) <= n + 1, s # {}
               PROVE  f[s] \in Nat /\ f[s] # 0
    <3>1. f[{}] = 0
      BY <1>4 DEF Summed
    <3> QED BY <3>1 DEF Layer
  <2>1. /\ First(s) \in S /\ s \ {First(s)} \in Layer(S, n)
    BY <1>2, FirstOf DEF Layer
  <2>2. f[s] = intf[First(s)].speed + f[s \ {First(s)}]
    BY <1>4 DEF Summed
  <2>3. f[s \ {First(s)}] \in Nat
    BY <1>6, <2>1
  <2> QED BY <1>2, <2>1, <2>2, <2>3
<1>7. Nat \subseteq G
  <2> HIDE DEF G
  <2> QED BY <1>5, <1>6, AllNaturals
<1>8. S \in Layer(S, Cardinality(S)) /\ Cardinality(S) \in Nat
  BY <1>2, FS_CardinalityType DEF Layer
<1>9. f[S] \in Nat /\ (f[S] = 0 => S = {})
  BY <1>7, <1>8
<1> QED BY <1>1, <1>9 DEF S

LEMMA SpeedsPositive == \A s \in Speeds : s \in Nat \ {0}
BY InventoryAssumption

(* There are at most as many interfaces as lanes. *)
LEMMA UsersFinite ==
  ASSUME DOMAIN intf \subseteq Interface, NEW m, NEW ch
  PROVE  IsFiniteSet(Users(m, ch))
<1>1. IsFiniteSet(1..16) /\ IsFiniteSet(0..4)
  <2>1. 0 \in Int /\ 1 \in Int /\ 4 \in Int /\ 16 \in Int
    OBVIOUS
  <2> QED BY <2>1, FS_Interval, Zenon
<1>2. IsFiniteSet(Port)
  <2>1. Port \in SUBSET (1..16)
    BY InventoryAssumption DEF InventoryAssumption
  <2> QED BY <1>1, <2>1, FS_Subset
<1>3. IsFiniteSet(Port \X (0..4))
  <2> DEFINE n == 0..4
  <2>1. IsFiniteSet(n)
    BY <1>1
  <2> HIDE DEF n
  <2>2. IsFiniteSet(Port \X n)
    BY <1>2, <2>1, FS_Product
  <2> QED BY <2>2 DEF n
<1>4. Users(m, ch) \in SUBSET Interface
  BY DEF Users
<1> QED BY <1>3, <1>4, FS_Subset DEF Interface

(* Whatever tree there is, what is accepted of it fits.                     *)
LEMMA AcceptedFits == TypeOK => ValidatedFits
<1> SUFFICES ASSUME TypeOK, ValidateFinal, NEW m \in Module
             PROVE  /\ Permitted(m) \/ \A ch \in Channel : Load(m, ch) <= 100000
                    /\ optical[m].modulation = "QPSK" => Users(m, "B") = {}
  BY DEF ValidatedFits
<1>1. OccupancyValid(m)
  BY DEF ValidateFinal
<1>2. \A ch : IsFiniteSet(Users(m, ch))
  BY UsersFinite DEF TypeOK
<1>3. \A i \in DOMAIN intf : intf[i].speed \in Nat \ {0}
  <2> SUFFICES ASSUME NEW i \in DOMAIN intf PROVE intf[i].speed \in Nat \ {0}
    OBVIOUS
  <2>1. intf[i] \in Intf
    BY DEF TypeOK
  <2>2. intf[i].speed \in Speeds
    BY <2>1 DEF Intf
  <2> QED BY <2>2, SpeedsPositive
<1>4. \A ch : Load(m, ch) \in Nat /\ (Load(m, ch) = 0 => Users(m, ch) = {})
  <2> SUFFICES ASSUME NEW ch
               PROVE  Load(m, ch) \in Nat /\ (Load(m, ch) = 0 => Users(m, ch) = {})
    OBVIOUS
  <2>1. \A i \in Users(m, ch) : intf[i].speed \in Nat \ {0}
    BY <1>3 DEF Users
  <2> QED BY <1>2, <2>1, LoadPositive
<1>5. ASSUME ~Permitted(m) PROVE ~AllowOversubscription(m)
  BY <1>5, InventoryAssumption DEF InventoryAssumption, Permitted, AllowOversubscription, Default, TypeOK, Optical
<1>6. ASSUME ~AllowOversubscription(m), NEW ch \in Channel
      PROVE  Load(m, ch) <= 100000
  <2>1. Load(m, ch) <= Capacity(m, ch) /\ Capacity(m, ch) \in {0, 100000}
    BY <1>1, <1>6 DEF OccupancyValid, Capacity
  <2> QED BY <1>4, <2>1
<1>7. ASSUME optical[m].modulation = "QPSK" PROVE Users(m, "B") = {}
  <2>1. Capacity(m, "B") = 0
    BY <1>7, InventoryAssumption DEF InventoryAssumption, Capacity, Modulation
  <2>2. Load(m, "B") = 0
    BY <1>1, <2>1 DEF OccupancyValid, Channel
  <2> QED BY <1>4, <2>2
<1> QED BY <1>5, <1>6, <1>7

(* validateFinal, with calculateOccupancy and FillTransportDefaultConfig:   *)
(* whatever is accepted, the client ports of a channel have no more than    *)
(* its capacity unless that is allowed, and the channel that QPSK does      *)
(* without has no client ports.                                             *)
THEOREM Fits == Spec => []ValidatedFits
<1>1. TableInv => ValidatedFits
  BY AcceptedFits DEF TableInv
<1>2. QED
  BY <1>1, Invariance, PTL
==============================================================================
