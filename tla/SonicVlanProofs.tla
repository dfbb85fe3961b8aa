--------------------------- MODULE SonicVlanProofs ---------------------------
(* What the VLAN handler does for every number of interfaces, ports, ids    *)
(* and commits.                                                             *)
EXTENDS SonicVlan, SequenceTheorems, TLAPS

(* The commands a call for interface i may issue: they are about the VLAN   *)
(* it had and the VLAN it gets.                                             *)
Own(i) ==
  {c \in Command : \/ c = Panic
                   \/ Connected(old, i) /\ c.vid = old[i].conn.id
                   \/ Connected(new, i) /\ c.vid = new[i].conn.id}

(* An interface that the last commit leaves alone.                          *)
Kept(i) == Connected(new, i) /\ old[i] = new[i]

(* Commands that keep away from the VLANs of such interfaces.               *)
Foreign ==
  {c \in Command : \/ c = Panic
                   \/ \A i \in Intf : Kept(i) => c.vid # new[i].conn.id}

VInv ==
  /\ TypeOK
  /\ ValidateFinal(old) /\ ValidateFinal(new)
  /\ \A i \in todo : old[i] # new[i]
  /\ queue \in Seq(SUBSET Foreign)
  /\ fill = {} \/ (queue = <<>> /\ todo = {})

------------------------------------------------------------------------------
(* The commands, one constructor each. *)

LEMMA DelVlanType ==
  ASSUME NEW v \in Vid
  PROVE  DelVlan(v) \in Command /\ DelVlan(v).vid = v /\ DelVlan(v) # Panic
BY DEF DelVlan, Command, Panic

LEMMA SetVlanType ==
  ASSUME NEW v \in Vid, NEW b \in BOOLEAN, NEW ps \in SUBSET Port
  PROVE  /\ SetVlan(v, b, ps) \in Command
         /\ SetVlan(v, b, ps).vid = v /\ SetVlan(v, b, ps) # Panic
BY DEF SetVlan, Command, Panic

LEMMA DelMemberType ==
  ASSUME NEW v \in Vid, NEW p \in Port
  PROVE  DelMember(v, p) \in Command /\ DelMember(v, p).vid = v
BY DEF DelMember, Command

LEMMA SetMemberType ==
  ASSUME NEW v \in Vid, NEW p \in Port
  PROVE  /\ SetMember(v, p) \in Command
         /\ SetMember(v, p).vid = v /\ SetMember(v, p) # Panic
BY DEF SetMember, Command, Panic

LEMMA PanicType == Panic \in Command
BY DEF Command

(* A connected interface has an id and a port. *)
LEMMA ConnType ==
  ASSUME NEW c \in Config, NEW i \in Intf, Connected(c, i)
  PROVE  /\ c[i].conn \in Connection
         /\ c[i].conn.id \in Vid /\ c[i].conn.opt \in OptPort
         /\ c[i].conn.opt \in Port /\ i \in Port
<1>1. c[i] \in IntfConfig
  BY DEF Config
<1>2. c[i].conn \in Connection
  BY <1>1 DEF IntfConfig, Connected
<1>3. QED
  BY <1>2 DEF Connection, Port

LEMMA MembersType ==
  ASSUME TypeOK, NEW v \in Vid
  PROVE  Members(v) \in SUBSET Port
<1>1. vlan[v] \in Row \cup {Absent}
  BY DEF TypeOK
<1>2. QED
  BY <1>1 DEF Members, Row

(* One command leaves the tables well formed and, unless it is a panic,     *)
(* touches no other VLAN than its own.                                      *)
LEMMA ApplyType ==
  ASSUME TypeOK, NEW c \in Command, c # Panic, Apply(c)
  PROVE  /\ vlan' \in [Vid -> Row \cup {Absent}]
         /\ member' \subseteq Vid \X Port
         /\ \A v \in Vid :
              v # c.vid => /\ vlan'[v] = vlan[v]
                           /\ \A p \in Port : <<v, p>> \in member'
                                                <=> <<v, p>> \in member
<1>0. vlan \in [Vid -> Row \cup {Absent}] /\ member \subseteq Vid \X Port
  BY DEF TypeOK
<1>1. CASE c \in [op : {"del_vlan"}, vid : Vid]
  <2>1. vlan' = [vlan EXCEPT ![c.vid] = Absent] /\ member' = member
    BY <1>1 DEF Apply
  <2>2. QED
    BY <1>0, <1>1, <2>1
<1>2. CASE c \in [op : {"set_vlan"}, vid : Vid, id : BOOLEAN, ports : SUBSET Port]
  <2> DEFINE row == [hasId |-> c.id \/ (vlan[c.vid] # Absent /\ vlan[c.vid].hasId),
                     members |-> c.ports]
  <2>1. vlan' = [vlan EXCEPT ![c.vid] = row] /\ member' = member
    BY <1>2 DEF Apply
  <2>2. c.vid \in Vid /\ c.ports \in SUBSET Port /\ c.id \in BOOLEAN
    BY <1>2
  <2>3. (c.id \/ (vlan[c.vid] # Absent /\ vlan[c.vid].hasId)) \in BOOLEAN
    OBVIOUS
  <2>4. row \in Row
    BY <2>2, <2>3 DEF Row
  <2>5. QED
    BY <1>0, <2>1, <2>2, <2>4
<1>3. CASE c \in [op : {"del_member", "set_member"}, vid : Vid, port : Port]
  <2>1. vlan' = vlan
    BY <1>3 DEF Apply
  <2>2. \/ member' = member \ {<<c.vid, c.port>>}
        \/ member' = member \cup {<<c.vid, c.port>>}
    BY <1>3 DEF Apply
  <2>3. c.vid \in Vid /\ c.port \in Port
    BY <1>3
  <2>4. QED
    BY <1>0, <2>1, <2>2, <2>3
<1>4. QED
  BY <1>1, <1>2, <1>3 DEF Command

------------------------------------------------------------------------------
(* A call issues commands about its own VLANs only. *)

LEMMA OneStage ==
  ASSUME NEW S, NEW x \in SUBSET S
  PROVE  <<x>> \in Seq(SUBSET S)
OBVIOUS

LEMMA TwoStages ==
  ASSUME NEW S, NEW x \in SUBSET S, NEW y \in SUBSET S
  PROVE  <<x, y>> \in Seq(SUBSET S)
OBVIOUS

LEMMA OwnOld ==
  ASSUME TypeOK, NEW i \in Intf, Connected(old, i)
  PROVE  LET v == old[i].conn.id
         IN /\ DelVlan(v) \in Own(i)
            /\ \A b \in BOOLEAN, ps \in SUBSET Port : SetVlan(v, b, ps) \in Own(i)
            /\ \A p \in Port : DelMember(v, p) \in Own(i)
<1>1. old[i].conn.id \in Vid
  BY ConnType DEF TypeOK
<1>2. QED
  BY <1>1, DelVlanType, SetVlanType, DelMemberType DEF Own

LEMMA OwnNew ==
  ASSUME TypeOK, NEW i \in Intf, Connected(new, i)
  PROVE  LET v == new[i].conn.id
         IN /\ \A b \in BOOLEAN, ps \in SUBSET Port : SetVlan(v, b, ps) \in Own(i)
            /\ \A p \in Port : SetMember(v, p) \in Own(i)
<1>1. new[i].conn.id \in Vid
  BY ConnType DEF TypeOK
<1>2. QED
  BY <1>1, SetVlanType, SetMemberType DEF Own

LEMMA DeleteOldType ==
  ASSUME TypeOK, NEW i \in Intf, Connected(old, i)
  PROVE  DeleteOld(old[i].conn) \in Seq(SUBSET Own(i))
<1> DEFINE v == old[i].conn.id
           gone == {DelMember(v, p) : p \in Members(v)}
<1>1. v \in Vid
  BY ConnType DEF TypeOK
<1>2. Members(v) \in SUBSET Port
  BY <1>1, MembersType
<1>3. {DelVlan(v)} \in SUBSET Own(i)
  BY OwnOld
<1>4. gone \in SUBSET Own(i)
  BY <1>2, OwnOld
<1>5. CASE Members(v) = {}
  BY <1>3, <1>5, OneStage DEF DeleteOld
<1>6. CASE Members(v) # {}
  <2>1. DeleteOld(old[i].conn) = <<{DelVlan(v)}, gone>>
    BY <1>6 DEF DeleteOld
  <2>2. QED
    BY <1>3, <1>4, <2>1, TwoStages
<1>7. QED
  BY <1>5, <1>6

LEMMA JoinType ==
  ASSUME TypeOK, NEW i \in Intf, Connected(new, i), NEW was, NEW is \in Port,
         Connected(old, i) => was \in Port
  PROVE  Join(i, was, is) \in Seq(SUBSET Own(i))
<1>1. {SetMember(new[i].conn.id, is)} \in SUBSET Own(i)
  BY OwnNew
<1>2. CASE Connected(old, i)
  <2>1. {DelMember(old[i].conn.id, was)} \in SUBSET Own(i)
    BY <1>2, OwnOld
  <2>2. QED
    BY <1>1, <1>2, <2>1, TwoStages DEF Join
<1>3. CASE ~Connected(old, i)
  BY <1>1, <1>3, OneStage DEF Join
<1>4. QED
  BY <1>2, <1>3

LEMMA MoveMembersType ==
  ASSUME TypeOK, NEW i \in Intf, Connected(new, i)
  PROVE  MoveMembers(i) \in Seq(SUBSET Own(i))
<1> DEFINE ether == IF ModEther(i) THEN Join(i, i, i) ELSE <<>>
           opt == IF ModOpt(i)
                    THEN Join(i, old[i].conn.opt, new[i].conn.opt) ELSE <<>>
<1>1. <<>> \in Seq(SUBSET Own(i))
  OBVIOUS
<1>2. i \in Port /\ new[i].conn.opt \in Port
  BY ConnType DEF TypeOK
<1>3. Connected(old, i) => old[i].conn.opt \in Port
  BY ConnType DEF TypeOK
<1>4. Join(i, i, i) \in Seq(SUBSET Own(i))
  BY <1>2, JoinType
<1>5. Join(i, old[i].conn.opt, new[i].conn.opt) \in Seq(SUBSET Own(i))
  BY <1>2, <1>3, JoinType
<1>6. ether \in Seq(SUBSET Own(i)) /\ opt \in Seq(SUBSET Own(i))
  BY <1>1, <1>4, <1>5
<1>7. MoveMembers(i) = ether \o opt
  BY DEF MoveMembers
<1> HIDE DEF ether, opt
<1>8. QED
  BY <1>6, <1>7, ConcatProperties

LEMMA LeaveOldType ==
  ASSUME TypeOK, NEW i \in Intf, Connected(old, i)
  PROVE  LeaveOld(i, old[i].conn) \in SUBSET Own(i)
<1>1. {i} \in SUBSET Port
  BY DEF Port
<1>2. Panic \in Own(i)
  BY PanicType DEF Own
<1>3. /\ DelVlan(old[i].conn.id) \in Own(i)
      /\ SetVlan(old[i].conn.id, FALSE, {i}) \in Own(i)
  BY <1>1, OwnOld
<1>4. QED
  BY <1>2, <1>3 DEF LeaveOld

LEMMA EnrolType ==
  ASSUME TypeOK, NEW i \in Intf, Connected(new, i)
  PROVE  Enrol(i) \in SUBSET Own(i)
<1>1. /\ new[i].conn.id \in Vid
      /\ new[i].conn.opt \in Port /\ i \in Port
  BY ConnType DEF TypeOK
<1>2. Members(new[i].conn.id) \in SUBSET Port
  BY <1>1, MembersType
<1>3. NewMembers(i) \in SUBSET Port
  BY <1>1, <1>2 DEF NewMembers
<1> DEFINE b == vlan[new[i].conn.id] = Absent
<1>4. b \in BOOLEAN
  OBVIOUS
<1>5. Enrol(i) = {SetVlan(new[i].conn.id, b, NewMembers(i))}
  BY DEF Enrol
<1> HIDE DEF b
<1>6. SetVlan(new[i].conn.id, b, NewMembers(i)) \in Own(i)
  BY <1>3, <1>4, OwnNew
<1>7. QED
  BY <1>5, <1>6

LEMMA CommandsType ==
  ASSUME TypeOK, NEW i \in Intf
  PROVE  Commands(i) \in Seq(SUBSET Own(i))
<1>1. CASE ~Connected(new, i)
  BY <1>1 DEF Commands
<1>2. CASE Connected(new, i) /\ DelOld(i)
  BY <1>2, DeleteOldType DEF Commands
<1>3. CASE Connected(new, i) /\ ~DelOld(i) /\ ~ModEther(i) /\ ~ModOpt(i)
  BY <1>3 DEF Commands
<1>4. CASE Connected(new, i) /\ ~DelOld(i) /\ (ModEther(i) \/ ModOpt(i))
  <2>1. MoveMembers(i) \in Seq(SUBSET Own(i))
    BY <1>4, MoveMembersType
  <2>2. Enrol(i) \in SUBSET Own(i)
    BY <1>4, EnrolType
  <2>3. CASE ~Connected(old, i)
    <3>1. <<Enrol(i)>> \in Seq(SUBSET Own(i))
      BY <2>2, OneStage
    <3>2. Commands(i) = MoveMembers(i) \o <<Enrol(i)>>
      BY <1>4, <2>3 DEF Commands
    <3>3. QED
      BY <2>1, <3>1, <3>2, ConcatProperties
  <2>4. CASE Connected(old, i)
    <3>1. <<LeaveOld(i, old[i].conn), Enrol(i)>> \in Seq(SUBSET Own(i))
      BY <2>2, <2>4, LeaveOldType, TwoStages
    <3>2. Commands(i) =
            MoveMembers(i) \o <<LeaveOld(i, old[i].conn), Enrol(i)>>
      BY <1>4, <2>4 DEF Commands
    <3>3. QED
      BY <2>1, <3>1, <3>2, ConcatProperties
  <2>5. QED
    BY <2>3, <2>4
<1>5. QED
  BY <1>1, <1>2, <1>3, <1>4

(* An interface that changed shares no VLAN, old or new, with one that did  *)
(* not: the ids of both configurations are unique.                          *)
LEMMA OwnIsForeign ==
  ASSUME TypeOK, ValidateFinal(old), ValidateFinal(new),
         NEW i \in Intf, old[i] # new[i]
  PROVE  Own(i) \subseteq Foreign
<1> SUFFICES ASSUME NEW c \in Own(i), c # Panic, NEW j \in Intf, Kept(j)
             PROVE  c.vid # new[j].conn.id
  BY DEF Own, Foreign
<1>1. i # j
  BY DEF Kept
<1>2. CASE Connected(old, i) /\ c.vid = old[i].conn.id
  <2>1. Connected(old, j) /\ old[j].conn.id = new[j].conn.id
    BY DEF Kept, Connected
  <2>2. QED
    BY <1>1, <1>2, <2>1 DEF ValidateFinal
<1>3. CASE Connected(new, i) /\ c.vid = new[i].conn.id
  BY <1>1, <1>3 DEF Kept, ValidateFinal
<1>4. QED
  BY <1>2, <1>3 DEF Own

------------------------------------------------------------------------------
(* The inductive invariant. *)

LEMMA ForeignType == Foreign \subseteq Command
BY DEF Foreign

LEMMA BlameType ==
  ASSUME TypeOK, NEW what \in Mishaps, Blame(what)
  PROVE  mishap' \in Mishaps
BY DEF TypeOK, Blame

LEMMA RowsType ==
  ASSUME NEW c \in Config
  PROVE  Rows(c) \subseteq Command \ {Panic}
<1> SUFFICES ASSUME NEW i \in Intf, Connected(c, i)
             PROVE  {SetVlan(c[i].conn.id, TRUE, {i, c[i].conn.opt}),
                     SetMember(c[i].conn.id, i),
                     SetMember(c[i].conn.id, c[i].conn.opt)}
                      \subseteq Command \ {Panic}
  BY DEF Rows
<1>1. c[i].conn.id \in Vid /\ c[i].conn.opt \in Port /\ i \in Port
  BY ConnType
<1>2. {i, c[i].conn.opt} \in SUBSET Port
  BY <1>1
<1>3. SetVlan(c[i].conn.id, TRUE, {i, c[i].conn.opt}) \in Command \ {Panic}
  BY <1>1, <1>2, SetVlanType
<1>4. QED
  BY <1>1, <1>3, SetMemberType

LEMMA VInit == Init => VInv
<1> SUFFICES ASSUME Init PROVE VInv
  OBVIOUS
<1>1. vlan \in [Vid -> Row \cup {Absent}] /\ member \subseteq Vid \X Port
  BY DEF Init
<1>2. [conn |-> Unset, other |-> FALSE] \in IntfConfig
  BY DEF IntfConfig
<1>3. old \in Config /\ new \in Config
  BY <1>2 DEF Init, Config
<1>4. TypeOK
  BY <1>1, <1>3, VlanAssumption DEF Init, TypeOK, Mishaps
<1>5. ValidateFinal(old) /\ ValidateFinal(new)
  BY DEF Init, ValidateFinal, Connected
<1>6. QED
  BY <1>4, <1>5 DEF Init, VInv

(* The queue of a state in which HEAD does not move. *)
LEMMA ForeignKept ==
  ASSUME UNCHANGED <<old, new>>
  PROVE  Foreign' = Foreign
BY DEF Foreign, Kept, Connected

(* Taking one command from the first stage. *)
LEMMA DoneType ==
  ASSUME NEW S, queue \in Seq(SUBSET S), queue # <<>>, NEW c, Done(c)
  PROVE  queue' \in Seq(SUBSET S)
<1>1. Tail(queue) \in Seq(SUBSET S)
  BY HeadTailProperties
<1>2. 1 \in 1..Len(queue)
  BY EmptySeq
<1>3. queue[1] \ {c} \in SUBSET S
  BY <1>2, ElementOfSeq
<1>4. [queue EXCEPT ![1] = @ \ {c}] \in Seq(SUBSET S)
  BY <1>2, <1>3, ExceptSeq
<1>5. QED
  BY <1>1, <1>4 DEF Done

LEMMA VStep == VInv /\ [Next]_vars => VInv'
<1> SUFFICES ASSUME VInv, [Next]_vars PROVE VInv'
  OBVIOUS
<1>0. /\ TypeOK
      /\ vlan \in [Vid -> Row \cup {Absent}]
      /\ member \subseteq Vid \X Port
      /\ old \in Config /\ new \in Config
      /\ todo \subseteq Intf
      /\ queue \in Seq(SUBSET Command)
      /\ fill \subseteq Command \ {Panic}
      /\ count \in 0..MaxCommits
      /\ mishap \in Mishaps
      /\ ValidateFinal(old) /\ ValidateFinal(new)
      /\ \A i \in todo : old[i] # new[i]
      /\ queue \in Seq(SUBSET Foreign)
      /\ fill = {} \/ (queue = <<>> /\ todo = {})
  BY DEF VInv, TypeOK
<1>t. <<>> \in Seq(SUBSET Foreign') /\ <<>> \in Seq(SUBSET Command)
  OBVIOUS
<1>1. CASE Commit
  <2>1. PICK c \in Config : /\ ValidateFinal(c) /\ new' = c
                            /\ todo' = {i \in Intf : c[i] # new[i]}
    BY <1>1 DEF Commit
  <2>2. /\ queue' = <<>> /\ fill' = {} /\ old' = new /\ count' = count + 1
        /\ count < MaxCommits
        /\ UNCHANGED <<vlan, member, mishap>>
    BY <1>1 DEF Commit, AtRest
  <2>3. count' \in 0..MaxCommits
    BY <1>0, <2>2, VlanAssumption
  <2>4. TypeOK'
    BY <1>0, <1>t, <2>1, <2>2, <2>3 DEF TypeOK
  <2>5. ValidateFinal(old)' /\ ValidateFinal(new)'
    BY <1>0, <2>1, <2>2 DEF ValidateFinal, Connected
  <2>6. \A i \in todo' : old'[i] # new'[i]
    BY <2>1, <2>2
  <2>7. QED
    BY <1>t, <2>2, <2>4, <2>5, <2>6 DEF VInv
<1>2. CASE \E i \in Intf : Handle(i)
  <2>1. PICK i \in Intf : Handle(i)
    BY <1>2
  <2>2. /\ i \in todo /\ queue' = Commands(i) /\ todo' = todo \ {i}
        /\ UNCHANGED <<vlan, member, old, new, fill, count>>
    BY <2>1 DEF Handle
  <2>3. mishap' \in Mishaps
    BY <1>0, <2>1, BlameType DEF Handle, Mishaps
  <2>4. Commands(i) \in Seq(SUBSET Own(i))
    BY <1>0, CommandsType
  <2>5. Own(i) \subseteq Foreign
    BY <1>0, <2>2, OwnIsForeign
  <2>6. queue' \in Seq(SUBSET Foreign)
    BY <2>2, <2>4, <2>5, SeqMonotonic
  <2>7. queue' \in Seq(SUBSET Command)
    BY <2>6, ForeignType, SeqMonotonic
  <2>8. TypeOK'
    BY <1>0, <2>2, <2>3, <2>7 DEF TypeOK
  <2>9. Foreign' = Foreign
    BY <2>2, ForeignKept
  <2>10. ValidateFinal(old)' /\ ValidateFinal(new)'
    BY <1>0, <2>2 DEF ValidateFinal, Connected
  <2>11. fill' = {}
    BY <1>0, <2>2
  <2>12. \A j \in todo' : old'[j] # new'[j]
    BY <1>0, <2>2
  <2>13. QED
    BY <2>6, <2>8, <2>9, <2>10, <2>11, <2>12 DEF VInv
<1> DEFINE Same == UNCHANGED <<old, new, count>>
<1>3. ASSUME Same,
             vlan' \in [Vid -> Row \cup {Absent}], member' \subseteq Vid \X Port,
             todo' \subseteq todo, fill' \subseteq Command \ {Panic}, mishap' \in Mishaps,
             queue' \in Seq(SUBSET Foreign),
             fill' = {} \/ (queue' = <<>> /\ todo' = {})
      PROVE  VInv'
  <2>1. Foreign' = Foreign
    BY <1>3, ForeignKept
  <2>2. queue' \in Seq(SUBSET Command)
    BY <1>3, ForeignType, SeqMonotonic
  <2>3. TypeOK'
    BY <1>0, <1>3, <2>2 DEF TypeOK
  <2>4. ValidateFinal(old)' /\ ValidateFinal(new)'
    BY <1>0, <1>3 DEF ValidateFinal, Connected
  <2>5. \A j \in todo' : old'[j] # new'[j]
    BY <1>0, <1>3
  <2>6. QED
    BY <1>3, <2>1, <2>3, <2>4, <2>5 DEF VInv
<1>4. CASE Execute
  <2>1. /\ queue # <<>> /\ UNCHANGED <<todo, fill, mishap>> /\ Same
    BY <1>4 DEF Execute
  <2>2. PICK c \in Head(queue) : c # Panic /\ Apply(c) /\ Done(c)
    BY <1>4 DEF Execute
  <2>3. c \in Command
    BY <1>0, <2>1, HeadTailProperties
  <2>4. vlan' \in [Vid -> Row \cup {Absent}] /\ member' \subseteq Vid \X Port
    BY <1>0, <2>2, <2>3, ApplyType
  <2>5. queue' \in Seq(SUBSET Foreign)
    BY <1>0, <2>1, <2>2, DoneType
  <2>6. fill' = {}
    BY <1>0, <2>1
  <2>7. QED
    BY <1>0, <1>3, <2>1, <2>4, <2>5, <2>6
<1>5. CASE IgnoredError
  <2>1. /\ Len(queue) = 2 /\ queue' = Tail(queue) /\ Blame("fault")
        /\ UNCHANGED <<vlan, member, todo, fill>> /\ Same
    BY <1>5 DEF IgnoredError
  <2>2. queue # <<>>
    BY <2>1
  <2>3. queue' \in Seq(SUBSET Foreign)
    BY <1>0, <2>1, <2>2, HeadTailProperties
  <2>4. fill' = {}
    BY <1>0, <2>1, <2>2
  <2>5. mishap' \in Mishaps
    BY <1>0, <2>1, BlameType DEF Mishaps
  <2>6. QED
    BY <1>0, <1>3, <2>1, <2>3, <2>4, <2>5
<1>6. CASE HandlerPanics
  <2>1. /\ queue' = <<>> /\ todo' = {} /\ Blame("panic")
        /\ UNCHANGED <<vlan, member, fill>> /\ Same
    BY <1>6 DEF HandlerPanics
  <2>2. mishap' \in Mishaps
    BY <1>0, <2>1, BlameType DEF Mishaps
  <2>3. QED
    BY <1>0, <1>3, <2>1, <2>2
<1>7. CASE Reboot
  <2>1. PICK c \in Drafts \cup {new} :
          /\ queue' = <<>> /\ todo' = {} /\ member' = {}
          /\ vlan' = [v \in Vid |-> Absent] /\ fill' = Rows(c) /\ Same
          /\ mishap' \in {"none", "uncommitted"}
    BY <1>7 DEF Reboot, AtRest
  <2>2. c \in Config
    BY <1>0, VlanAssumption
  <2>3. /\ fill' \subseteq Command \ {Panic}
        /\ vlan' \in [Vid -> Row \cup {Absent}] /\ mishap' \in Mishaps
    BY <2>1, <2>2, RowsType DEF Mishaps
  <2>4. QED
    BY <1>0, <1>3, <2>1, <2>3
<1>8. CASE Fill
  <2>1. PICK r \in fill : Due(r) /\ Apply(r) /\ fill' = fill \ {r}
                          /\ UNCHANGED <<todo, queue, mishap>> /\ Same
    BY <1>8 DEF Fill
  <2>2. r \in Command /\ r # Panic
    BY <1>0, <2>1
  <2>3. vlan' \in [Vid -> Row \cup {Absent}] /\ member' \subseteq Vid \X Port
    BY <1>0, <2>1, <2>2, ApplyType
  <2>4. QED
    BY <1>0, <1>3, <2>1, <2>3
<1>9. CASE FillLost
  <2>1. PICK r \in fill : /\ fill' = fill \ {r} /\ Blame("fault")
                          /\ UNCHANGED <<vlan, member, todo, queue>> /\ Same
    BY <1>9 DEF FillLost
  <2>2. mishap' \in Mishaps
    BY <1>0, <2>1, BlameType DEF Mishaps
  <2>3. QED
    BY <1>0, <1>3, <2>1, <2>2
<1>10. CASE Fail
  <2>1. /\ queue' = <<>> /\ todo' = {} /\ fill' = {} /\ Blame("fault")
        /\ UNCHANGED <<vlan, member>> /\ Same
    BY <1>10 DEF Fail
  <2>2. mishap' \in Mishaps
    BY <1>0, <2>1, BlameType DEF Mishaps
  <2>3. QED
    BY <1>0, <1>3, <2>1, <2>2
<1>11. CASE UNCHANGED vars
  BY <1>0, <1>3, <1>11 DEF vars
<1>12. QED
  BY <1>1, <1>2, <1>4, <1>5, <1>6, <1>7, <1>8, <1>9, <1>10, <1>11 DEF Next

(* A call that writes an interface's VLAN is a call for an interface that   *)
(* changed.                                                                 *)
LEMMA KeepStep == VInv /\ [Next]_vars => [OthersKept]_vars
<1> SUFFICES ASSUME VInv, [Next]_vars, queue # <<>>,
                    NEW i \in Intf, Kept(i)
             PROVE  /\ vlan'[new[i].conn.id] = vlan[new[i].conn.id]
                    /\ \A p \in Port : <<new[i].conn.id, p>> \in member'
                                         <=> <<new[i].conn.id, p>> \in member
  BY DEF OthersKept, Kept
<1>0. /\ TypeOK /\ fill = {} /\ queue \in Seq(SUBSET Foreign)
  BY DEF VInv
<1>1. ~AtRest /\ ~Fill /\ ~FillLost
  BY <1>0 DEF AtRest, Fill, FillLost
<1>2. CASE Execute
  <2>1. PICK c \in Head(queue) : c # Panic /\ Apply(c)
    BY <1>2 DEF Execute
  <2>2. c \in Foreign
    BY <1>0, HeadTailProperties
  <2>3. c \in Command /\ c.vid # new[i].conn.id
    BY <2>1, <2>2 DEF Foreign
  <2>4. new[i].conn.id \in Vid
    BY <1>0, ConnType DEF TypeOK, Kept
  <2>5. QED
    BY <1>0, <2>1, <2>3, <2>4, ApplyType
<1>3. CASE UNCHANGED <<vlan, member>>
  BY <1>3
<1>4. QED
  BY <1>1, <1>2, <1>3 DEF Next, Commit, Handle, IgnoredError, HandlerPanics,
                          Reboot, Fail, vars

(* The tables, the queue of redis commands and both configurations stay     *)
(* well formed through commits, reboots, lost writes and failures.          *)
THEOREM TypeCorrect == Spec => []TypeOK
<1>1. VInv => TypeOK
  BY DEF VInv
<1>2. QED
  BY <1>1, VInit, VStep, PTL DEF Spec

(* However many interfaces and ids there are and whatever failed before, a  *)
(* commit does not touch the VLAN of an interface it leaves alone.          *)
THEOREM UnchangedKept == Spec => UnchangedInterfacesKeepTheirVlan
  BY VInit, VStep, KeepStep, PTL DEF Spec, UnchangedInterfacesKeepTheirVlan
==============================================================================
