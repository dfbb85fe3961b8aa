------------------------- MODULE SonicVlanRowsProofs -------------------------
(***************************************************************************)
(* The handler and the reboot write the same rows, for every number of     *)
(* interfaces, ports, ids and commits.                                     *)
(*                                                                         *)
(* Half way through a commit the tables are those of neither               *)
(* configuration: the interfaces still to be handled have their old        *)
(* connection, the others their new one, and one VLAN may serve two of     *)
(* them.  The invariant says what each row holds then, up to the commands  *)
(* that are still in the queue.                                            *)
(***************************************************************************)
EXTENDS SonicVlanProofs

(* The connection of an interface as far as the commit has come, and what   *)
(* that makes of the VLANs.                                                 *)
Cur(i) == IF i \in todo THEN old[i].conn ELSE new[i].conn
User(i, v) == Cur(i) # Unset /\ Cur(i).id = v
Used(v) == \E i \in Intf : User(i, v)
Ports(v) == {p \in Port : \E i \in Intf : User(i, v) /\ p \in {i, Cur(i).opt}}

RowFits(v) == IF Used(v) THEN vlan[v] = [hasId |-> TRUE, members |-> Ports(v)]
              ELSE vlan[v] = Absent

Commanded(q) == {c \in Command : \E n \in 1..Len(q) : c \in q[n]}
Pending == Commanded(queue)

(* The VLAN_MEMBER table, once the queue is empty. *)
MembersFit ==
  \A v \in Vid, p \in Port :
    /\ ~(DelMember(v, p) \in Pending /\ SetMember(v, p) \in Pending)
    /\ p \in Ports(v) <=> \/ <<v, p>> \in member /\ DelMember(v, p) \notin Pending
                          \/ SetMember(v, p) \in Pending

(* The last command of the queue makes the row of VLAN v what it is to be.  *)
Finishes(v) ==
  /\ \E b \in BOOLEAN : /\ queue[Len(queue)] = {SetVlan(v, b, Ports(v))}
                        /\ b \/ (vlan[v] # Absent /\ vlan[v].hasId)
  /\ Used(v)
  /\ \A c \in Pending : c.op = "set_vlan" => c.vid = v
  /\ \A w \in Vid \ {v} : RowFits(w)

Handing ==
  /\ \A n \in 1..Len(queue) : \E c \in Command : queue[n] = {c}
  /\ \A c \in Pending : c.op \notin {"panic", "del_vlan"}
  /\ MembersFit
  /\ IF queue = <<>> THEN \A v \in Vid : RowFits(v) ELSE \E v \in Vid : Finishes(v)

(* The reboot: what is not in the tables yet is in `fill`. *)
Filling ==
  /\ \A r \in fill : \/ \E v \in Vid : Used(v) /\ r = SetVlan(v, TRUE, Ports(v))
                     \/ \E v \in Vid, p \in Port : r = SetMember(v, p)
  /\ \A v \in Vid : RowFits(v) \/ /\ vlan[v] = Absent
                                  /\ SetVlan(v, TRUE, Ports(v)) \in fill
  /\ \A v \in Vid, p \in Port :
       p \in Ports(v) <=> <<v, p>> \in member \/ SetMember(v, p) \in fill

RowsInv ==
  mishap = "none" => IF fill = {} THEN Handing ELSE Filling

------------------------------------------------------------------------------
(* Connections and rows *)

LEMMA CurType ==
  ASSUME TypeOK, NEW i \in Intf
  PROVE  /\ i \in Port
         /\ Cur(i) # Unset => /\ Cur(i) \in Connection
                              /\ Cur(i).id \in Vid
                              /\ Cur(i).opt \in OptPort /\ Cur(i).opt \in Port
<1>1. old[i] \in IntfConfig /\ new[i] \in IntfConfig
  BY DEF TypeOK, Config
<1>2. Cur(i) \in Connection \cup {Unset}
  BY <1>1 DEF IntfConfig, Cur
<1>3. QED
  BY <1>2 DEF Connection, Port

(* A row that fits shows the handler its members. *)
LEMMA FittingRow ==
  ASSUME TypeOK, NEW v \in Vid, RowFits(v)
  PROVE  /\ Members(v) = Ports(v)
         /\ vlan[v] = Absent <=> ~Used(v)
         /\ vlan[v] # Absent => vlan[v].hasId = TRUE
<1>1. CASE Used(v)
  <2>1. vlan[v] = [hasId |-> TRUE, members |-> Ports(v)]
    BY <1>1 DEF RowFits
  <2>2. Ports(v) \in SUBSET Port
    BY DEF Ports
  <2>3. vlan[v] \in Row
    BY <2>1, <2>2 DEF Row
  <2>4. vlan[v] # Absent
    BY <2>3, VlanAssumption
  <2>5. QED
    BY <1>1, <2>1, <2>4 DEF Members
<1>2. CASE ~Used(v)
  <2>1. vlan[v] = Absent
    BY <1>2 DEF RowFits
  <2>2. Ports(v) = {}
    BY <1>2 DEF Ports, Used
  <2>3. QED
    BY <1>2, <2>1, <2>2 DEF Members
<1>3. QED
  BY <1>1, <1>2

LEMMA SameUsers ==
  ASSUME \A i \in Intf : Cur(i)' = Cur(i)
  PROVE  \A v : Ports(v)' = Ports(v) /\ (Used(v)' <=> Used(v))
BY DEF Ports, Used, User

LEMMA SameRow ==
  ASSUME NEW v \in Vid, RowFits(v), vlan'[v] = vlan[v],
         Ports(v)' = Ports(v), Used(v)' <=> Used(v)
  PROVE  RowFits(v)'
BY DEF RowFits

------------------------------------------------------------------------------
(* The queue *)

LEMMA PendingTail ==
  ASSUME queue \in Seq(SUBSET Command), queue # <<>>,
         NEW c \in Command, queue[1] = {c}, queue' = Tail(queue)
  PROVE  /\ Pending = {c} \cup Pending'
         /\ \A n \in 1..Len(queue') : n + 1 \in 1..Len(queue) /\ queue'[n] = queue[n + 1]
         /\ queue' # <<>> => queue'[Len(queue')] = queue[Len(queue)]
         /\ queue' = <<>> => Len(queue) = 1
<1>1. /\ Len(queue) \in Nat /\ Len(queue) >= 1 /\ Len(queue') = Len(queue) - 1
      /\ \A n \in 1..Len(queue') : queue'[n] = queue[n + 1]
  BY EmptySeq, HeadTailProperties
<1>2. \A n \in 1..Len(queue') : n + 1 \in 1..Len(queue)
  BY <1>1
<1>3. ASSUME NEW d \in Pending PROVE d \in {c} \cup Pending'
  <2>1. PICK n \in 1..Len(queue) : d \in queue[n]
    BY <1>3 DEF Pending, Commanded
  <2>2. CASE n = 1
    BY <2>1, <2>2
  <2>3. CASE n # 1
    <3>1. n - 1 \in 1..Len(queue') /\ (n - 1) + 1 = n
      BY <1>1, <2>3
    <3>2. d \in queue'[n - 1]
      BY <1>1, <2>1, <3>1
    <3>3. QED
      BY <3>1, <3>2 DEF Pending, Commanded
  <2>4. QED
    BY <2>2, <2>3
<1>4. ASSUME NEW d \in Pending' PROVE d \in Pending
  <2>1. PICK n \in 1..Len(queue') : d \in queue'[n]
    BY <1>4 DEF Pending, Commanded
  <2>2. QED
    BY <1>1, <1>2, <2>1 DEF Pending, Commanded
<1>5. c \in Pending
  <2>1. 1 \in 1..Len(queue)
    BY <1>1
  <2>2. QED
    BY <2>1 DEF Pending, Commanded
<1>6. queue' # <<>> => queue'[Len(queue')] = queue[Len(queue)]
  <2>1. SUFFICES ASSUME queue' # <<>> PROVE queue'[Len(queue')] = queue[Len(queue)]
    OBVIOUS
  <2>2. Len(queue') \in 1..Len(queue')
    <3>1. queue' \in Seq(SUBSET Command)
      BY HeadTailProperties
    <3>2. QED
      BY <1>1, <2>1, <3>1, EmptySeq
  <2>3. QED
    BY <1>1, <2>2
<1>7. queue' = <<>> => Len(queue) = 1
  <2>1. SUFFICES ASSUME queue' = <<>> PROVE Len(queue) = 1
    OBVIOUS
  <2>2. Len(<<>>) = 0
    OBVIOUS
  <2>3. Len(queue') = 0
    BY <2>1, <2>2
  <2>4. QED
    BY <1>1, <2>3
<1>8. QED
  BY <1>1, <1>2, <1>3, <1>4, <1>5, <1>6, <1>7

LEMMA ThreeStages ==
  ASSUME NEW S, NEW a \in S, NEW b \in S, NEW c \in S
  PROVE  (<<a>> \o <<b>>) \o <<c>> = <<a, b, c>>
<1>1. <<a>> \in Seq(S) /\ <<b>> \in Seq(S) /\ <<c>> \in Seq(S) /\ <<a, b, c>> \in Seq(S)
  OBVIOUS
<1> DEFINE q == <<a>> \o <<b>>
<1>2. q \in Seq(S) /\ Len(q) = 2 /\ q[1] = a /\ q[2] = b
  <2>1. /\ q \in Seq(S) /\ Len(q) = 2
        /\ \A n \in 1..2 : q[n] = IF n <= 1 THEN <<a>>[n] ELSE <<b>>[n - 1]
    <3>1. Len(<<a>>) = 1 /\ Len(<<b>>) = 1
      OBVIOUS
    <3>2. QED
      BY <1>1, <3>1, ConcatProperties
  <2>2. <<a>>[1] = a /\ <<b>>[2 - 1] = b
    OBVIOUS
  <2> HIDE DEF q
  <2>3. q[1] = <<a>>[1]
    BY <2>1
  <2>4. q[2] = <<b>>[2 - 1]
    BY <2>1
  <2>5. QED
    BY <2>1, <2>2, <2>3, <2>4, Zenon
<1> HIDE DEF q
<1>3. /\ q \o <<c>> \in Seq(S) /\ Len(q \o <<c>>) = 3
      /\ \A n \in 1..3 : (q \o <<c>>)[n] = IF n <= 2 THEN q[n] ELSE <<c>>[n - 2]
  <2>1. Len(<<c>>) = 1
    OBVIOUS
  <2> DEFINE r == <<c>>
  <2>2. r \in Seq(S)
    BY <1>1
  <2> HIDE DEF r
  <2>3. /\ q \o r \in Seq(S) /\ Len(q \o r) = Len(q) + Len(r)
        /\ \A n \in 1..Len(q) + Len(r) :
             (q \o r)[n] = IF n <= Len(q) THEN q[n] ELSE r[n - Len(q)]
    BY <1>2, <2>2, ConcatProperties
  <2>4. QED
    BY <1>2, <2>1, <2>3 DEF r
<1>4. \A n \in 1..3 : (q \o <<c>>)[n] = <<a, b, c>>[n]
  BY <1>2, <1>3
<1>5. q \o <<c>> = <<a, b, c>>
  BY <1>1, <1>3, <1>4, SeqEqual
<1>6. QED
  BY <1>5 DEF q

LEMMA FourStages ==
  ASSUME NEW S, NEW a \in S, NEW b \in S, NEW c \in S, NEW d \in S
  PROVE  (<<>> \o <<a, b>>) \o <<c, d>> = <<a, b, c, d>>
<1>1. <<a, b>> \in Seq(S) /\ <<c, d>> \in Seq(S) /\ <<a, b, c, d>> \in Seq(S)
  OBVIOUS
<1>2. <<>> \o <<a, b>> = <<a, b>>
  BY <1>1, ConcatEmptySeq
<1> DEFINE q == <<a, b>> \o <<c, d>>
<1>3. /\ q \in Seq(S) /\ Len(q) = 4
      /\ \A n \in 1..4 : q[n] = IF n <= 2 THEN <<a, b>>[n] ELSE <<c, d>>[n - 2]
  BY <1>1, ConcatProperties
<1> HIDE DEF q
<1>4. \A n \in 1..4 : q[n] = <<a, b, c, d>>[n]
  BY <1>3
<1>5. q = <<a, b, c, d>>
  BY <1>1, <1>3, <1>4, SeqEqual
<1>6. QED
  BY <1>2, <1>5 DEF q

(* A call leaves this queue, one command to a stage. *)
SendsThree(a, b, c) == queue' = <<{a}, {b}, {c}>>
SendsFour(a, b, c, d) == queue' = <<{a}, {b}, {c}, {d}>>

(* What counts of such a queue: its commands, and the one that comes last. *)
Sent(cs, last) ==
  /\ Pending' = cs /\ queue' # <<>> /\ queue'[Len(queue')] = {last}
  /\ \A n \in 1..Len(queue') : \E c \in Command : queue'[n] = {c}

LEMMA ThreeSent ==
  ASSUME NEW a \in Command, NEW b \in Command, NEW c \in Command,
         SendsThree(a, b, c)
  PROVE  Sent({a, b, c}, c)
<1>1. Len(queue') = 3 /\ queue'[1] = {a} /\ queue'[2] = {b} /\ queue'[3] = {c}
  BY DEF SendsThree
<1>2. 1..Len(queue') = {1, 2, 3}
  BY <1>1
<1>3. queue' # <<>>
  BY DEF SendsThree
<1>4. Pending' = {a, b, c}
  BY <1>1, <1>2 DEF Pending, Commanded
<1>5. queue'[Len(queue')] = {c}
  BY <1>1
<1>6. \A n \in 1..Len(queue') : \E x \in Command : queue'[n] = {x}
  BY <1>1, <1>2
<1>7. QED
  BY <1>3, <1>4, <1>5, <1>6 DEF Sent

LEMMA FourSent ==
  ASSUME NEW a \in Command, NEW b \in Command, NEW c \in Command, NEW d \in Command,
         SendsFour(a, b, c, d)
  PROVE  Sent({a, b, c, d}, d)
<1>1. /\ Len(queue') = 4 /\ queue'[1] = {a} /\ queue'[2] = {b} /\ queue'[3] = {c}
      /\ queue'[4] = {d}
  BY DEF SendsFour
<1>2. 1..Len(queue') = {1, 2, 3, 4}
  BY <1>1
<1>3. queue' # <<>>
  BY DEF SendsFour
<1>4. Pending' = {a, b, c, d}
  BY <1>1, <1>2 DEF Pending, Commanded
<1>5. queue'[Len(queue')] = {d}
  BY <1>1
<1>6. \A n \in 1..Len(queue') : \E x \in Command : queue'[n] = {x}
  BY <1>1, <1>2
<1>7. QED
  BY <1>3, <1>4, <1>5, <1>6 DEF Sent

LEMMA NonePending ==
  ASSUME queue = <<>>
  PROVE  Pending = {}
BY DEF Pending, Commanded
------------------------------------------------------------------------------
(* A redis command of the queue *)

LEMMA ApplySetVlan ==
  ASSUME TypeOK, NEW c \in Command, c.op = "set_vlan", Apply(c)
  PROVE  /\ member' = member /\ c.vid \in Vid /\ c.id \in BOOLEAN
         /\ \A w \in Vid \ {c.vid} : vlan'[w] = vlan[w]
         /\ vlan'[c.vid].members = c.ports
         /\ vlan'[c.vid] = [hasId |-> c.id \/ (vlan[c.vid] # Absent /\ vlan[c.vid].hasId),
                            members |-> c.ports]
<1> DEFINE row == [hasId |-> c.id \/ (vlan[c.vid] # Absent /\ vlan[c.vid].hasId),
                   members |-> c.ports]
<1>1. vlan \in [Vid -> Row \cup {Absent}]
  BY DEF TypeOK
<1>2. c \in [op : {"set_vlan"}, vid : Vid, id : BOOLEAN, ports : SUBSET Port]
  BY DEF Command, Panic
<1>3. vlan' = [vlan EXCEPT ![c.vid] = row] /\ member' = member
  BY <1>2 DEF Apply
<1>4. row.members = c.ports
  OBVIOUS
<1> HIDE DEF row
<1>5. c.vid \in Vid /\ c.id \in BOOLEAN
  BY <1>2
<1>6. vlan'[c.vid] = row /\ \A w \in Vid \ {c.vid} : vlan'[w] = vlan[w]
  BY <1>1, <1>3, <1>5
<1>7. QED
  BY <1>3, <1>4, <1>5, <1>6 DEF row

LEMMA ApplyMember ==
  ASSUME TypeOK, NEW c \in Command, c.op \in {"del_member", "set_member"}, Apply(c)
  PROVE  /\ vlan' = vlan /\ c.vid \in Vid /\ c.port \in Port
         /\ c.op = "del_member" => /\ c = DelMember(c.vid, c.port)
                                   /\ member' = member \ {<<c.vid, c.port>>}
         /\ c.op = "set_member" => /\ c = SetMember(c.vid, c.port)
                                   /\ member' = member \cup {<<c.vid, c.port>>}
<1>1. c \in [op : {"del_member", "set_member"}, vid : Vid, port : Port]
  BY DEF Command, Panic
<1>2. QED
  BY <1>1 DEF Apply, DelMember, SetMember

LEMMA OpOf ==
  /\ \A c \in Command : c.op \in {"panic", "del_vlan", "set_vlan", "del_member", "set_member"}
  /\ \A v, p : DelMember(v, p).op = "del_member" /\ DelMember(v, p).vid = v
               /\ DelMember(v, p).port = p
  /\ \A v, p : SetMember(v, p).op = "set_member" /\ SetMember(v, p).vid = v
               /\ SetMember(v, p).port = p
  /\ \A v, b, ps : SetVlan(v, b, ps).op = "set_vlan" /\ SetVlan(v, b, ps).vid = v
                   /\ SetVlan(v, b, ps).ports = ps
  /\ Panic.op = "panic"
BY DEF Command, Panic, DelMember, SetMember, SetVlan

LEMMA ExecuteMembers ==
  ASSUME VInv, MembersFit, NEW c \in Pending, c.op \notin {"panic", "del_vlan"},
         Apply(c), Pending = {c} \cup Pending', \A v : Ports(v)' = Ports(v)
  PROVE  MembersFit'
<1>0. TypeOK /\ c \in Command
  BY DEF VInv, Pending, Commanded
<1> SUFFICES ASSUME NEW v \in Vid, NEW p \in Port
             PROVE  /\ ~(DelMember(v, p) \in Pending' /\ SetMember(v, p) \in Pending')
                    /\ p \in Ports(v)' <=>
                         \/ <<v, p>> \in member' /\ DelMember(v, p) \notin Pending'
                         \/ SetMember(v, p) \in Pending'
  BY DEF MembersFit, DelMember, SetMember
<1>1. /\ ~(DelMember(v, p) \in Pending /\ SetMember(v, p) \in Pending)
      /\ p \in Ports(v) <=> \/ <<v, p>> \in member /\ DelMember(v, p) \notin Pending
                            \/ SetMember(v, p) \in Pending
  BY DEF MembersFit
<1>2. CASE c.op = "set_vlan"
  <2>1. member' = member
    BY <1>0, <1>2, ApplySetVlan
  <2>2. c # DelMember(v, p) /\ c # SetMember(v, p)
    BY <1>2, OpOf
  <2>3. QED
    BY <1>1, <2>1, <2>2
<1>3. CASE c.op = "del_member"
  <2>1. c = DelMember(c.vid, c.port) /\ member' = member \ {<<c.vid, c.port>>}
    BY <1>0, <1>3, ApplyMember
  <2>2. c # SetMember(v, p)
    BY <1>3, OpOf
  <2>3. CASE c = DelMember(v, p)
    <3>1. c.vid = v /\ c.port = p
      BY <2>3, OpOf
    <3>2. <<v, p>> \notin member' /\ SetMember(v, p) \notin Pending
      BY <1>1, <2>1, <2>3, <3>1
    <3>3. QED
      BY <1>1, <2>3, <3>2
  <2>4. CASE c # DelMember(v, p)
    <3>1. <<v, p>> \in member' <=> <<v, p>> \in member
      BY <2>1, <2>4
    <3>2. QED
      BY <1>1, <2>2, <2>4, <3>1
  <2>5. QED
    BY <2>3, <2>4
<1>4. CASE c.op = "set_member"
  <2>1. c = SetMember(c.vid, c.port) /\ member' = member \cup {<<c.vid, c.port>>}
    BY <1>0, <1>4, ApplyMember
  <2>2. c # DelMember(v, p)
    BY <1>4, OpOf
  <2>3. CASE c = SetMember(v, p)
    <3>1. c.vid = v /\ c.port = p
      BY <2>3, OpOf
    <3>2. <<v, p>> \in member' /\ DelMember(v, p) \notin Pending
      BY <1>1, <2>1, <2>3, <3>1
    <3>3. QED
      BY <1>1, <2>3, <3>2
  <2>4. CASE c # SetMember(v, p)
    <3>1. <<v, p>> \in member' <=> <<v, p>> \in member
      BY <2>1, <2>4
    <3>2. QED
      BY <1>1, <2>2, <2>4, <3>1
  <2>5. QED
    BY <2>3, <2>4
<1>5. QED
  BY <1>0, <1>2, <1>3, <1>4, OpOf

LEMMA ExecuteRows ==
  ASSUME VInv, Handing, Execute
  PROVE  Handing'
<1>0. /\ TypeOK /\ queue \in Seq(SUBSET Command) /\ queue # <<>>
      /\ \A n \in 1..Len(queue) : \E d \in Command : queue[n] = {d}
      /\ \A d \in Pending : d.op \notin {"panic", "del_vlan"}
      /\ MembersFit /\ \E v \in Vid : Finishes(v)
      /\ UNCHANGED <<old, new, todo, fill, count, mishap>>
  BY DEF VInv, TypeOK, Handing, Execute
<1>1. PICK c \in Head(queue) : c # Panic /\ Apply(c) /\ Done(c)
  BY DEF Execute
<1>2. /\ c \in Command /\ queue[1] = {c} /\ queue' = Tail(queue)
  <2>1. 1 \in 1..Len(queue)
    BY <1>0, EmptySeq
  <2>2. PICK d \in Command : queue[1] = {d}
    BY <1>0, <2>1
  <2>3. Head(queue) = queue[1]
    OBVIOUS
  <2>4. QED
    BY <1>1, <2>2, <2>3 DEF Done
<1>3. /\ Pending = {c} \cup Pending'
      /\ \A n \in 1..Len(queue') : n + 1 \in 1..Len(queue) /\ queue'[n] = queue[n + 1]
      /\ queue' # <<>> => queue'[Len(queue')] = queue[Len(queue)]
      /\ queue' = <<>> => Len(queue) = 1
  BY <1>0, <1>2, PendingTail
<1>4. \A v : Ports(v)' = Ports(v) /\ (Used(v)' <=> Used(v))
  <2>1. \A i \in Intf : Cur(i)' = Cur(i)
    BY <1>0 DEF Cur
  <2>2. QED
    BY <2>1, SameUsers
<1>5. c \in Pending /\ c.op \notin {"panic", "del_vlan"}
  BY <1>0, <1>3
<1>6. MembersFit'
  BY <1>0, <1>1, <1>3, <1>4, <1>5, ExecuteMembers
<1>7. /\ \A n \in 1..Len(queue') : \E d \in Command : queue'[n] = {d}
      /\ \A d \in Pending' : d.op \notin {"panic", "del_vlan"}
  BY <1>0, <1>3
<1>8. PICK v \in Vid : Finishes(v)
  BY <1>0
<1>9. PICK b \in BOOLEAN : /\ queue[Len(queue)] = {SetVlan(v, b, Ports(v))}
                           /\ b \/ (vlan[v] # Absent /\ vlan[v].hasId)
  BY <1>8 DEF Finishes
<1>10. /\ Used(v) /\ \A d \in Pending : d.op = "set_vlan" => d.vid = v
       /\ \A w \in Vid \ {v} : RowFits(w)
  BY <1>8 DEF Finishes
<1>11. \A w \in Vid \ {v} : vlan'[w] = vlan[w]
  <2>1. CASE c.op = "set_vlan"
    BY <1>0, <1>1, <1>2, <1>5, <1>10, <2>1, ApplySetVlan
  <2>2. CASE c.op # "set_vlan"
    BY <1>0, <1>1, <1>2, <1>5, <2>2, OpOf, ApplyMember
  <2>3. QED
    BY <2>1, <2>2
<1>12. \A w \in Vid \ {v} : RowFits(w)'
  BY <1>4, <1>10, <1>11, SameRow
<1>13. CASE queue' = <<>>
  <2>1. c = SetVlan(v, b, Ports(v))
    BY <1>2, <1>3, <1>9, <1>13
  <2>2. c.op = "set_vlan" /\ c.vid = v /\ c.ports = Ports(v)
    BY <2>1, OpOf
  <2>3. c.id = b
    BY <2>1 DEF SetVlan
  <2>4. vlan'[v] = [hasId |-> c.id \/ (vlan[v] # Absent /\ vlan[v].hasId),
                    members |-> Ports(v)]
    BY <1>0, <1>1, <1>2, <2>2, ApplySetVlan
  <2>5. (c.id \/ (vlan[v] # Absent /\ vlan[v].hasId)) = TRUE
    BY <1>9, <2>3, Zenon
  <2>6. vlan'[v] = [hasId |-> TRUE, members |-> Ports(v)]
    BY <2>4, <2>5, Zenon
  <2>7. RowFits(v)'
    BY <1>4, <1>10, <2>6 DEF RowFits
  <2>8. QED
    BY <1>6, <1>7, <1>12, <1>13, <2>7 DEF Handing
<1>14. CASE queue' # <<>>
  <2>1. queue'[Len(queue')] = {SetVlan(v, b, Ports(v))}
    BY <1>3, <1>9, <1>14
  <2>2. b \/ (vlan'[v] # Absent /\ vlan'[v].hasId)
    <3>1. CASE c.op = "set_vlan"
      <4>1. c.vid = v
        BY <1>5, <1>10, <3>1
      <4>2. vlan'[v] = [hasId |-> c.id \/ (vlan[v] # Absent /\ vlan[v].hasId),
                        members |-> c.ports]
        BY <1>0, <1>1, <1>2, <3>1, <4>1, ApplySetVlan
      <4>3. vlan'[v].hasId = (c.id \/ (vlan[v] # Absent /\ vlan[v].hasId))
        <5> DEFINE known == c.id \/ (vlan[v] # Absent /\ vlan[v].hasId)
        <5>1. vlan'[v] = [hasId |-> known, members |-> c.ports]
          BY <4>2
        <5> HIDE DEF known
        <5>2. vlan'[v].hasId = known
          BY <5>1
        <5>3. QED
          BY <5>2 DEF known
      <4>4. vlan'[v] # Absent
        <5>1. c.ports \in SUBSET Port
          BY <1>2, <3>1 DEF Command, Panic
        <5>2. (c.id \/ (vlan[v] # Absent /\ vlan[v].hasId)) \in BOOLEAN
          OBVIOUS
        <5>3. vlan'[v] \in Row
          BY <4>2, <5>1, <5>2 DEF Row
        <5>4. QED
          BY <5>3, VlanAssumption
      <4>5. QED
        BY <1>9, <4>3, <4>4, Zenon
    <3>2. CASE c.op # "set_vlan"
      <4>1. vlan' = vlan
        BY <1>0, <1>1, <1>2, <1>5, <3>2, OpOf, ApplyMember
      <4>2. QED
        BY <1>9, <4>1
    <3>3. QED
      BY <3>1, <3>2
  <2>3. Used(v)' /\ \A d \in Pending' : d.op = "set_vlan" => d.vid = v
    BY <1>3, <1>4, <1>10
  <2>4. Finishes(v)'
    BY <1>4, <1>12, <2>1, <2>2, <2>3 DEF Finishes
  <2>5. QED
    BY <1>6, <1>7, <1>14, <2>4 DEF Handing
<1>15. QED
  BY <1>13, <1>14
------------------------------------------------------------------------------
(* A call of the handler *)

(* What the call finds: every row as it should be. *)
LEMMA AtCall ==
  ASSUME VInv, Handing, queue = <<>>
  PROVE  /\ Pending = {}
         /\ \A v \in Vid : RowFits(v)
         /\ \A v \in Vid, p \in Port : p \in Ports(v) <=> <<v, p>> \in member
<1>1. Pending = {} /\ MembersFit /\ \A v \in Vid : RowFits(v)
  BY NonePending DEF Handing
<1>2. QED
  BY <1>1 DEF MembersFit

(* The call has nothing to do: the connection is what it was. *)
LEMMA IdleCall ==
  ASSUME VInv, Handing, queue = <<>>, queue' = <<>>, UNCHANGED <<vlan, member>>,
         \A j \in Intf : Cur(j)' = Cur(j)
  PROVE  Handing'
<1>1. \A v : Ports(v)' = Ports(v) /\ (Used(v)' <=> Used(v))
  BY SameUsers
<1>2. Pending' = {}
  BY DEF Pending, Commanded
<1>3. \A v \in Vid : RowFits(v)'
  BY <1>1, AtCall, SameRow
<1>4. MembersFit'
  BY <1>1, <1>2, AtCall DEF MembersFit, DelMember, SetMember
<1>5. \A n \in 1..Len(queue') : \E c \in Command : queue'[n] = {c}
  OBVIOUS
<1>6. QED
  BY <1>2, <1>3, <1>4, <1>5 DEF Handing

(* An interface that was not connected enters its VLAN, which another that  *)
(* is still to be handled may not have left.                                *)
LEMMA JoiningCall ==
  ASSUME VInv, Handing, queue = <<>>, UNCHANGED <<vlan, member>>,
         NEW i \in Intf, Cur(i) = Unset, Cur(i)' # Unset, NEW k \in Connection, Cur(i)' = k,
         \A j \in Intf \ {i} : Cur(j)' = Cur(j),
         NEW b \in BOOLEAN, b <=> vlan[k.id] = Absent,
         NEW a \in Command, NEW c \in Command, NEW e \in Command, Sent({a, c, e}, e),
         a = SetMember(k.id, i), c = SetMember(k.id, k.opt),
         e = SetVlan(k.id, b, (Members(k.id) \cup {i}) \cup {k.opt})
  PROVE  Handing'
<1> DEFINE v == k.id
<1>0. TypeOK /\ v \in Vid /\ k.opt \in Port /\ i \in Port
  BY DEF VInv, Connection, Port
<1>1. /\ \A w \in Vid : RowFits(w)
      /\ \A w \in Vid, p \in Port : p \in Ports(w) <=> <<w, p>> \in member
  BY AtCall
<1>2. /\ Ports(v)' = (Ports(v) \cup {i}) \cup {k.opt} /\ Used(v)'
      /\ \A w \in Vid \ {v} : Ports(w)' = Ports(w) /\ (Used(w)' <=> Used(w))
  BY <1>0 DEF Ports, Used, User
<1>3. Members(v) = Ports(v) /\ (vlan[v] # Absent => vlan[v].hasId = TRUE)
  BY <1>0, <1>1, FittingRow
<1>4. Ports(v)' \in SUBSET Port
  BY DEF Ports
<1>5. e = SetVlan(v, b, Ports(v)')
  BY <1>2, <1>3
<1>7. a.op = "set_member" /\ c.op = "set_member" /\ e.op = "set_vlan" /\ e.vid = v
  BY OpOf
<1>8. \A w, p : /\ DelMember(w, p) \notin {a, c, e}
                /\ SetMember(w, p) \in {a, c, e} <=> w = v /\ p \in {i, k.opt}
  <2>1. SUFFICES ASSUME NEW w, NEW p
                 PROVE  /\ DelMember(w, p) \notin {a, c, e}
                        /\ SetMember(w, p) \in {a, c, e} <=> w = v /\ p \in {i, k.opt}
    OBVIOUS
  <2>2. SetMember(w, p) # e /\ DelMember(w, p) \notin {a, c, e}
    BY OpOf
  <2>3. SetMember(w, p) = a <=> w = v /\ p = i
    BY OpOf
  <2>4. SetMember(w, p) = c <=> w = v /\ p = k.opt
    BY OpOf
  <2> HIDE DEF v
  <2>5. QED
    BY <2>2, <2>3, <2>4
<1> HIDE DEF v
<1>9. /\ Pending' = {a, c, e} /\ queue' # <<>> /\ queue'[Len(queue')] = {e}
      /\ \A n \in 1..Len(queue') : \E d \in Command : queue'[n] = {d}
  BY Zenon DEF Sent
<1>10. MembersFit'
  <2>1. SUFFICES ASSUME NEW w \in Vid, NEW p \in Port
                 PROVE  p \in Ports(w)' <=>
                          <<w, p>> \in member \/ (w = v /\ p \in {i, k.opt})
    <3>1. \A w, p : /\ DelMember(w, p) \notin Pending'
                    /\ SetMember(w, p) \in Pending' <=> w = v /\ p \in {i, k.opt}
      BY <1>8, <1>9
    <3>2. member' = member
      OBVIOUS
    <3>3. QED
      BY <3>1, <3>2 DEF MembersFit
  <2>2. QED
    BY <1>1, <1>2
<1>11. \A w \in Vid \ {v} : RowFits(w)'
  BY <1>1, <1>2, SameRow
<1>12. Finishes(v)'
  <2>1. b \/ (vlan'[v] # Absent /\ vlan'[v].hasId)
    BY <1>3, Zenon DEF v
  <2>2. \A d \in Pending' : d.op = "set_vlan" => d.vid = v
    BY <1>7, <1>9
  <2>3. queue'[Len(queue')] = {SetVlan(v, b, Ports(v)')}
    BY <1>5, <1>9
  <2>4. QED
    BY <1>2, <1>11, <2>1, <2>2, <2>3 DEF Finishes
<1>13. \A d \in Pending' : d.op \notin {"panic", "del_vlan"}
  BY <1>7, <1>9
<1>14. QED
  BY <1>0, <1>9, <1>10, <1>12, <1>13 DEF Handing, v

(* An interface that keeps its id gets another port: nobody else has the id *)
(* before or after, and its row is written twice.                           *)
LEMMA PortCall ==
  ASSUME VInv, Handing, queue = <<>>, UNCHANGED <<vlan, member>>,
         NEW i \in Intf, NEW k \in Connection, NEW t \in Connection,
         Cur(i) = k, Cur(i)' = t, t.id = k.id, t.opt # k.opt,
         \A j \in Intf \ {i} : Cur(j)' = Cur(j) /\ ~User(j, k.id),
         NEW a \in Command, NEW c \in Command, NEW d \in Command, NEW e \in Command,
         Sent({a, c, d, e}, e),
         a = DelMember(k.id, k.opt), c = SetMember(k.id, t.opt),
         d = SetVlan(k.id, FALSE, {i}),
         e = SetVlan(k.id, FALSE, (Members(k.id) \cup {t.opt}) \ {k.opt})
  PROVE  Handing'
<1> DEFINE v == k.id
<1>0. /\ TypeOK /\ v \in Vid /\ k.opt \in Port /\ t.opt \in Port /\ i \in Port
      /\ i # k.opt /\ i # t.opt /\ k # Unset /\ t # Unset
  BY VlanAssumption DEF VInv, Connection, Port
<1>1. /\ \A w \in Vid : RowFits(w)
      /\ \A w \in Vid, p \in Port : p \in Ports(w) <=> <<w, p>> \in member
  BY AtCall
<1>2. /\ Used(v) /\ Used(v)' /\ Ports(v) = {i, k.opt} /\ Ports(v)' = {i, t.opt}
      /\ \A w \in Vid \ {v} : Ports(w)' = Ports(w) /\ (Used(w)' <=> Used(w))
  BY <1>0 DEF Ports, Used, User
<1>3. Members(v) = Ports(v) /\ vlan[v] # Absent /\ vlan[v].hasId = TRUE
  BY <1>0, <1>1, <1>2, FittingRow
<1>5. e = SetVlan(v, FALSE, Ports(v)')
  <2>1. (Members(v) \cup {t.opt}) \ {k.opt} = Ports(v)'
    BY <1>0, <1>2, <1>3
  <2>2. QED
    BY <2>1
<1>7. /\ a.op = "del_member" /\ c.op = "set_member"
      /\ d.op = "set_vlan" /\ d.vid = v /\ e.op = "set_vlan" /\ e.vid = v
  <2>1. a.op = "del_member" /\ c.op = "set_member"
    BY OpOf
  <2>2. d.op = "set_vlan" /\ d.vid = v
    BY DEF SetVlan
  <2>3. e.op = "set_vlan" /\ e.vid = v
    BY DEF SetVlan
  <2>4. QED
    BY <2>1, <2>2, <2>3
<1>8. \A w, p : /\ DelMember(w, p) \in {a, c, d, e} <=> w = v /\ p = k.opt
                /\ SetMember(w, p) \in {a, c, d, e} <=> w = v /\ p = t.opt
  <2>1. SUFFICES ASSUME NEW w, NEW p
                 PROVE  /\ DelMember(w, p) \in {a, c, d, e} <=> w = v /\ p = k.opt
                        /\ SetMember(w, p) \in {a, c, d, e} <=> w = v /\ p = t.opt
    OBVIOUS
  <2>2. SetMember(w, p) \notin {a, d, e} /\ DelMember(w, p) \notin {c, d, e}
    <3>1. SetMember(w, p).op = "set_member" /\ DelMember(w, p).op = "del_member"
      BY OpOf
    <3>2. QED
      BY <1>7, <3>1
  <2>3. DelMember(w, p) = a <=> w = v /\ p = k.opt
    BY OpOf
  <2>4. SetMember(w, p) = c <=> w = v /\ p = t.opt
    BY OpOf
  <2> HIDE DEF v
  <2>5. QED
    BY <2>2, <2>3, <2>4
<1> HIDE DEF v
<1>9. /\ Pending' = {a, c, d, e} /\ queue' # <<>> /\ queue'[Len(queue')] = {e}
      /\ \A n \in 1..Len(queue') : \E x \in Command : queue'[n] = {x}
  BY Zenon DEF Sent
<1>10. MembersFit'
  <2>1. SUFFICES ASSUME NEW w \in Vid, NEW p \in Port
                 PROVE  /\ ~(w = v /\ p = k.opt /\ p = t.opt)
                        /\ p \in Ports(w)' <=>
                             \/ <<w, p>> \in member /\ ~(w = v /\ p = k.opt)
                             \/ w = v /\ p = t.opt
    <3>1. \A w, p : /\ DelMember(w, p) \in Pending' <=> w = v /\ p = k.opt
                    /\ SetMember(w, p) \in Pending' <=> w = v /\ p = t.opt
      BY <1>8, <1>9
    <3>2. member' = member
      OBVIOUS
    <3>3. QED
      BY <3>1, <3>2 DEF MembersFit
  <2>2. QED
    BY <1>0, <1>1, <1>2
<1>11. \A w \in Vid \ {v} : RowFits(w)'
  BY <1>1, <1>2, SameRow
<1>12. Finishes(v)'
  <2>1. vlan'[v] # Absent /\ vlan'[v].hasId
    BY <1>3
  <2>2. \A x \in Pending' : x.op = "set_vlan" => x.vid = v
    BY <1>7, <1>9
  <2>3. queue'[Len(queue')] = {SetVlan(v, FALSE, Ports(v)')}
    BY <1>5, <1>9
  <2>4. QED
    BY <1>2, <1>11, <2>1, <2>2, <2>3 DEF Finishes
<1>13. \A x \in Pending' : x.op \notin {"panic", "del_vlan"}
  BY <1>7, <1>9
<1>14. QED
  BY <1>0, <1>9, <1>10, <1>12, <1>13 DEF Handing, v

(* Every call, as long as it is none that the ghost blames. *)
LEMMA HandleRows ==
  ASSUME VInv, Handing, NEW i \in Intf, Handle(i), mishap = "none", mishap' = "none"
  PROVE  Handing'
<1>0. /\ TypeOK /\ ValidateFinal(old) /\ ValidateFinal(new)
      /\ i \in todo /\ queue = <<>> /\ queue' = Commands(i) /\ todo' = todo \ {i}
      /\ UNCHANGED <<vlan, member, old, new, fill, count>>
  BY DEF VInv, Handle
<1>1. /\ ~(Connected(old, i) /\ ~Connected(new, i))
      /\ ~(DelOld(i) /\ Connected(new, i))
      /\ ~(Connected(old, i) /\ ModEther(i))
  BY DEF Handle, Blame
<1>2. /\ Cur(i) = old[i].conn /\ Cur(i)' = new[i].conn
      /\ \A j \in Intf \ {i} : Cur(j)' = Cur(j)
  BY <1>0 DEF Cur
<1>3. /\ old[i].conn \in Connection \cup {Unset}
      /\ new[i].conn \in Connection \cup {Unset}
  BY <1>0 DEF TypeOK, Config, IntfConfig
<1>4. CASE ~Connected(new, i)
  <2>1. queue' = <<>>
    BY <1>0, <1>4 DEF Commands
  <2>2. Cur(i)' = Cur(i)
    BY <1>1, <1>2, <1>4 DEF Connected
  <2>3. QED
    BY <1>0, <1>2, <2>1, <2>2, IdleCall
<1>5. CASE Connected(new, i) /\ ~ModEther(i) /\ ~ModOpt(i)
  <2>1. queue' = <<>>
    BY <1>0, <1>1, <1>5 DEF Commands
  <2>2. Cur(i)' = Cur(i)
    BY <1>2, <1>5 DEF ModOpt
  <2>3. QED
    BY <1>0, <1>2, <2>1, <2>2, IdleCall
<1>6. CASE Connected(new, i) /\ ~Connected(old, i)
  <2> DEFINE k == new[i].conn
             b == vlan[k.id] = Absent
             ports == (Members(k.id) \cup {i}) \cup {k.opt}
  <2>1. k \in Connection /\ k # Unset /\ Cur(i) = Unset
    BY <1>2, <1>3, <1>6 DEF Connected
  <2>2. ModEther(i) /\ ModOpt(i) /\ ~DelOld(i)
    BY <1>1, <1>6 DEF ModEther, ModOpt
  <2>3. MoveMembers(i) = <<{SetMember(k.id, i)}>> \o <<{SetMember(k.id, k.opt)}>>
    BY <1>6, <2>2 DEF MoveMembers, Join
  <2>4. NewMembers(i) = ports
    BY <1>6, <2>2 DEF NewMembers
  <2>5. Enrol(i) = {SetVlan(k.id, b, ports)}
    BY <2>4 DEF Enrol
  <2>6. queue' = MoveMembers(i) \o <<Enrol(i)>>
    BY <1>0, <1>6, <2>2 DEF Commands
  <2>7. b \in BOOLEAN
    OBVIOUS
  <2> DEFINE a == SetMember(k.id, i)
             c == SetMember(k.id, k.opt)
             e == SetVlan(k.id, b, ports)
  <2>8. SendsThree(a, c, e)
    <3> DEFINE x == {a}
               y == {c}
               z == {e}
    <3>1. queue' = (<<x>> \o <<y>>) \o <<z>>
      BY <2>3, <2>5, <2>6, Zenon
    <3> HIDE DEF x, y, z
    <3>2. (<<x>> \o <<y>>) \o <<z>> = <<x, y, z>>
      <4>1. x \in {x, y, z} /\ y \in {x, y, z} /\ z \in {x, y, z}
        OBVIOUS
      <4>2. QED
        BY <4>1, ThreeStages
    <3>3. queue' = <<x, y, z>>
      BY <3>1, <3>2, Zenon
    <3>4. QED
      BY <3>3, Zenon DEF x, y, z, SendsThree
  <2>9. b <=> vlan[k.id] = Absent
    OBVIOUS
  <2>10. /\ a = SetMember(k.id, i) /\ c = SetMember(k.id, k.opt)
         /\ e = SetVlan(k.id, b, (Members(k.id) \cup {i}) \cup {k.opt})
    OBVIOUS
  <2>11. a \in Command /\ c \in Command /\ e \in Command
    <3>1. k.id \in Vid /\ k.opt \in Port /\ i \in Port
      BY <2>1 DEF Connection, Port
    <3> HIDE DEF b, k
    <3>2. ports \in SUBSET Port
      BY <1>0, <3>1, MembersType
    <3>3. a \in Command /\ c \in Command
      BY <3>1, SetMemberType
    <3> HIDE DEF ports
    <3>4. e \in Command
      BY <2>7, <3>1, <3>2, SetVlanType
    <3>5. QED
      BY <3>3, <3>4
  <2> HIDE DEF a, c, e, b, k
  <2>12. Sent({a, c, e}, e)
    BY <2>8, <2>11, ThreeSent, Zenon
  <2>13. Cur(i)' = k
    BY <1>2 DEF k
  <2>14. QED
    BY <1>0, <1>2, <2>1, <2>7, <2>9, <2>10, <2>11, <2>12, <2>13, JoiningCall
<1>7. CASE Connected(new, i) /\ Connected(old, i) /\ ModOpt(i)
  <2> DEFINE k == old[i].conn
             t == new[i].conn
  <2>1. k \in Connection /\ t \in Connection /\ k # Unset
    BY <1>3, <1>7 DEF Connected
  <2>2. ~ModEther(i) /\ ~DelOld(i) /\ t.id = k.id /\ t # k
    BY <1>1, <1>7 DEF ModEther, ModOpt
  <2>3. t.opt # k.opt
    BY <2>1, <2>2 DEF Connection
  <2>4. \A j \in Intf \ {i} : ~User(j, k.id)
    <3>1. SUFFICES ASSUME NEW j \in Intf, j # i, Cur(j) # Unset, Cur(j).id = k.id
                   PROVE  FALSE
      BY DEF User
    <3>2. CASE j \in todo
      BY <1>0, <1>7, <3>1, <3>2 DEF Cur, ValidateFinal, Connected
    <3>3. CASE j \notin todo
      BY <1>0, <1>7, <2>2, <3>1, <3>3 DEF Cur, ValidateFinal, Connected
    <3>4. QED
      BY <3>2, <3>3
  <2>5. /\ vlan[k.id] # Absent /\ Members(k.id) = Ports(k.id)
        /\ i \in Ports(k.id)
    <3>1. k.id \in Vid /\ RowFits(k.id) /\ User(i, k.id) /\ i \in Port
      BY <1>0, <1>2, <2>1, AtCall DEF Connection, User, Port
    <3>2. Used(k.id) /\ i \in Ports(k.id)
      BY <3>1 DEF Used, Ports
    <3>3. QED
      BY <1>0, <3>1, <3>2, FittingRow
  <2>6. LeaveOld(i, k) = {SetVlan(k.id, FALSE, {i})}
    <3>1. ~(Members(k.id) \subseteq {t.opt})
      BY <2>1, <2>5, VlanAssumption DEF Connection
    <3>2. QED
      BY <1>7, <2>2, <2>5, <3>1 DEF LeaveOld
  <2>7. Enrol(i) = {SetVlan(k.id, FALSE, (Members(k.id) \cup {t.opt}) \ {k.opt})}
    <3>1. NewMembers(i) = (Members(k.id) \cup {t.opt}) \ {k.opt}
      BY <1>7, <2>2 DEF NewMembers
    <3>2. (vlan[t.id] = Absent) = FALSE
      BY <2>2, <2>5
    <3>3. QED
      BY <2>2, <3>1, <3>2, Zenon DEF Enrol
  <2>8. MoveMembers(i) =
          <<>> \o <<{DelMember(k.id, k.opt)}, {SetMember(k.id, t.opt)}>>
    BY <1>7, <2>2 DEF MoveMembers, Join
  <2>9. queue' = MoveMembers(i) \o <<LeaveOld(i, k), Enrol(i)>>
    BY <1>0, <1>7, <2>2 DEF Commands
  <2> DEFINE a == DelMember(k.id, k.opt)
             c == SetMember(k.id, t.opt)
             d == SetVlan(k.id, FALSE, {i})
             f == SetVlan(k.id, FALSE, (Members(k.id) \cup {t.opt}) \ {k.opt})
  <2>10. SendsFour(a, c, d, f)
    <3> DEFINE w == {a}
               x == {c}
               y == {d}
               z == {f}
    <3>1. queue' = (<<>> \o <<w, x>>) \o <<y, z>>
      BY <2>6, <2>7, <2>8, <2>9, Zenon
    <3> HIDE DEF w, x, y, z
    <3>2. (<<>> \o <<w, x>>) \o <<y, z>> = <<w, x, y, z>>
      <4>1. w \in {w, x, y, z} /\ x \in {w, x, y, z} /\ y \in {w, x, y, z} /\ z \in {w, x, y, z}
        OBVIOUS
      <4>2. QED
        BY <4>1, FourStages
    <3>3. queue' = <<w, x, y, z>>
      BY <3>1, <3>2, Zenon
    <3>4. QED
      BY <3>3, Zenon DEF w, x, y, z, SendsFour
  <2> HIDE DEF k, t
  <2>11. Cur(i) = k /\ Cur(i)' = t
    BY <1>2 DEF k, t
  <2>12. /\ a = DelMember(k.id, k.opt) /\ c = SetMember(k.id, t.opt)
         /\ d = SetVlan(k.id, FALSE, {i})
         /\ f = SetVlan(k.id, FALSE, (Members(k.id) \cup {t.opt}) \ {k.opt})
    OBVIOUS
  <2>13. a \in Command /\ c \in Command /\ d \in Command /\ f \in Command
    <3>1. k.id \in Vid /\ k.opt \in Port /\ t.opt \in Port /\ i \in Port
      BY <2>1 DEF Connection, Port
    <3>2. a \in Command /\ c \in Command
      BY <3>1, DelMemberType, SetMemberType
    <3> DEFINE one == {i}
               ports == (Members(k.id) \cup {t.opt}) \ {k.opt}
    <3>3. one \in SUBSET Port /\ ports \in SUBSET Port
      BY <1>0, <3>1, MembersType
    <3> HIDE DEF one, ports
    <3>4. d \in Command /\ f \in Command
      BY <3>1, <3>3, SetVlanType DEF one, ports
    <3>5. QED
      BY <3>2, <3>4
  <2> HIDE DEF a, c, d, f
  <2>14. Sent({a, c, d, f}, f)
    BY <2>10, <2>13, FourSent, Zenon
  <2>15. QED
    BY <1>0, <1>2, <2>1, <2>2, <2>3, <2>4, <2>11, <2>12, <2>13, <2>14, PortCall
<1>8. QED
  BY <1>4, <1>5, <1>6, <1>7 DEF ModEther, ModOpt

------------------------------------------------------------------------------
(* At rest the connections are those of HEAD, one interface to an id. *)

LEMMA RestUser ==
  ASSUME VInv, todo = {}, NEW i \in Intf, Connected(new, i)
  PROVE  LET k == new[i].conn
         IN /\ k.id \in Vid /\ k.opt \in Port /\ i \in Port
            /\ Used(k.id) /\ Ports(k.id) = {i, k.opt}
            /\ \A j \in Intf : User(j, k.id) => j = i
<1> DEFINE k == new[i].conn
<1>1. /\ k # Unset /\ k.id \in Vid /\ k.opt \in Port /\ i \in Port
      /\ ValidateFinal(new) /\ \A j \in Intf : Cur(j) = new[j].conn
  BY ConnType DEF VInv, TypeOK, Cur, Connected
<1>2. User(i, k.id)
  BY <1>1 DEF User
<1>3. \A j \in Intf : User(j, k.id) => j = i
  BY <1>1 DEF User, ValidateFinal, Connected
<1>4. Used(k.id) /\ Ports(k.id) = {i, k.opt}
  BY <1>1, <1>2, <1>3 DEF Used, Ports
<1>5. QED
  BY <1>1, <1>3, <1>4

(* Rows that fit are what the configuration says. *)
LEMMA RestFollows ==
  ASSUME VInv, Handing, AtRest
  PROVE  FollowsConfig(new)
<1>0. /\ TypeOK /\ todo = {} /\ queue = <<>> /\ member \subseteq Vid \X Port
      /\ \A i \in Intf : Cur(i) = new[i].conn
  BY DEF VInv, TypeOK, AtRest, Cur
<1>1. /\ \A v \in Vid : RowFits(v)
      /\ \A v \in Vid, p \in Port : p \in Ports(v) <=> <<v, p>> \in member
  BY <1>0, AtCall
<1>2. ASSUME NEW v \in Vid, ~\E i \in Intf : Connected(new, i) /\ new[i].conn.id = v
      PROVE  vlan[v] = Absent
  BY <1>0, <1>1, <1>2 DEF RowFits, Used, User, Connected
<1>3. ASSUME NEW v \in Vid, NEW i \in Intf, Connected(new, i), new[i].conn.id = v
      PROVE  vlan[v] = [hasId |-> TRUE, members |-> {i, new[i].conn.opt}]
  BY <1>0, <1>1, <1>3, RestUser DEF RowFits
<1>4. ASSUME NEW v \in Vid
      PROVE  LET users == {i \in Intf : Connected(new, i) /\ new[i].conn.id = v}
             IN IF users = {} THEN vlan[v] = Absent
                ELSE \A i \in users :
                       vlan[v] = [hasId |-> TRUE, members |-> {i, new[i].conn.opt}]
  BY <1>2, <1>3
<1> DEFINE rows == UNION {{<<new[i].conn.id, i>>, <<new[i].conn.id, new[i].conn.opt>>} :
                          i \in {j \in Intf : Connected(new, j)}}
<1>5. ASSUME NEW x \in member PROVE x \in rows
  <2>1. PICK v \in Vid, p \in Port : x = <<v, p>>
    BY <1>0
  <2>2. PICK i \in Intf : User(i, v) /\ p \in {i, Cur(i).opt}
    BY <1>1, <2>1 DEF Ports
  <2>3. Connected(new, i) /\ new[i].conn.id = v
    BY <1>0, <2>2 DEF User, Connected
  <2>4. QED
    BY <1>0, <2>1, <2>2, <2>3
<1>6. ASSUME NEW x \in rows PROVE x \in member
  <2>1. PICK i \in Intf : /\ Connected(new, i)
                          /\ x \in {<<new[i].conn.id, i>>, <<new[i].conn.id, new[i].conn.opt>>}
    OBVIOUS
  <2>2. /\ new[i].conn.id \in Vid /\ new[i].conn.opt \in Port /\ i \in Port
        /\ Ports(new[i].conn.id) = {i, new[i].conn.opt}
    BY <1>0, <2>1, RestUser
  <2>3. QED
    BY <1>1, <2>1, <2>2
<1>7. member = rows
  BY <1>5, <1>6
<1>8. QED
  BY <1>4, <1>7 DEF FollowsConfig

------------------------------------------------------------------------------
(* The reboot writes the rows of HEAD. *)

LEMMA Filled ==
  ASSUME Filling', fill' = {}, queue' = <<>>
  PROVE  Handing'
<1>1. Pending' = {}
  BY DEF Pending, Commanded
<1>2. \A v \in Vid : RowFits(v)'
  BY DEF Filling
<1>3. MembersFit'
  BY <1>1 DEF Filling, MembersFit
<1>4. \A n \in 1..Len(queue') : \E c \in Command : queue'[n] = {c}
  OBVIOUS
<1>5. QED
  BY <1>1, <1>2, <1>3, <1>4 DEF Handing

(* What WriteToConfigDB has to write, in terms of the VLANs. *)
LEMMA RestRows ==
  ASSUME VInv, todo = {}
  PROVE  /\ \A r \in Rows(new) : \/ \E v \in Vid : Used(v) /\ r = SetVlan(v, TRUE, Ports(v))
                                 \/ \E v \in Vid, p \in Port : r = SetMember(v, p)
         /\ \A v \in Vid : Used(v) => SetVlan(v, TRUE, Ports(v)) \in Rows(new)
         /\ \A v \in Vid, p \in Port : p \in Ports(v) <=> SetMember(v, p) \in Rows(new)
<1>0. \A i \in Intf : Cur(i) = new[i].conn
  BY DEF Cur
<1> DEFINE k(i) == new[i].conn
           rows(i) == {SetVlan(k(i).id, TRUE, {i, k(i).opt}),
                       SetMember(k(i).id, i), SetMember(k(i).id, k(i).opt)}
<1>1. \A r : r \in Rows(new) <=> \E i \in Intf : Connected(new, i) /\ r \in rows(i)
  BY DEF Rows
<1>2. ASSUME NEW i \in Intf, Connected(new, i)
      PROVE  /\ k(i).id \in Vid /\ k(i).opt \in Port /\ i \in Port
             /\ Used(k(i).id) /\ Ports(k(i).id) = {i, k(i).opt}
  BY <1>2, RestUser
<1>3. ASSUME NEW v, NEW i \in Intf, User(i, v)
      PROVE  Connected(new, i) /\ k(i).id = v
  BY <1>0, <1>3 DEF User, Connected
<1>4. ASSUME NEW r \in Rows(new)
      PROVE  \/ \E v \in Vid : Used(v) /\ r = SetVlan(v, TRUE, Ports(v))
             \/ \E v \in Vid, p \in Port : r = SetMember(v, p)
  <2>1. PICK i \in Intf : Connected(new, i) /\ r \in rows(i)
    BY <1>1
  <2>2. QED
    BY <1>2, <2>1, Zenon
<1>5. ASSUME NEW v \in Vid, Used(v)
      PROVE  SetVlan(v, TRUE, Ports(v)) \in Rows(new)
  <2>1. PICK i \in Intf : User(i, v)
    BY <1>5 DEF Used
  <2>2. Connected(new, i) /\ k(i).id = v /\ Ports(v) = {i, k(i).opt}
    BY <1>2, <1>3, <2>1
  <2>3. SetVlan(v, TRUE, Ports(v)) \in rows(i)
    BY <2>2, Zenon
  <2>4. QED
    BY <1>1, <2>2, <2>3
<1>6. ASSUME NEW v \in Vid, NEW p \in Port, p \in Ports(v)
      PROVE  SetMember(v, p) \in Rows(new)
  <2>1. PICK i \in Intf : User(i, v)
    BY <1>6 DEF Ports
  <2>2. Connected(new, i) /\ k(i).id = v /\ Ports(v) = {i, k(i).opt}
    BY <1>2, <1>3, <2>1
  <2>3. SetMember(v, p) \in rows(i)
    BY <1>6, <2>2
  <2>4. QED
    BY <1>1, <2>2, <2>3
<1>7. ASSUME NEW v \in Vid, NEW p \in Port, SetMember(v, p) \in Rows(new)
      PROVE  p \in Ports(v)
  <2>1. PICK i \in Intf : Connected(new, i) /\ SetMember(v, p) \in rows(i)
    BY <1>1, <1>7
  <2>2. SetMember(v, p) # SetVlan(k(i).id, TRUE, {i, k(i).opt})
    <3>1. SetMember(v, p).op = "set_member"
      BY OpOf
    <3>2. SetVlan(k(i).id, TRUE, {i, k(i).opt}).op = "set_vlan"
      BY DEF SetVlan
    <3>3. QED
      BY <3>1, <3>2
  <2>3. PICK q \in {i, k(i).opt} : SetMember(v, p) = SetMember(k(i).id, q)
    BY <2>1, <2>2
  <2>4. v = k(i).id /\ p = q
    <3>1. SetMember(v, p).vid = v /\ SetMember(v, p).port = p
      BY OpOf
    <3>2. SetMember(k(i).id, q).vid = k(i).id /\ SetMember(k(i).id, q).port = q
      BY OpOf
    <3>3. QED
      BY <2>3, <3>1, <3>2
  <2>5. QED
    BY <1>2, <2>1, <2>4
<1>8. QED
  BY <1>4, <1>5, <1>6, <1>7

(* The rows of a configuration are those of its connections. *)
LEMMA SameRows ==
  ASSUME NEW c, NEW d, SameConnections(c, d)
  PROVE  Rows(c) = Rows(d)
<1>1. \A i \in Intf : c[i].conn = d[i].conn
  BY DEF SameConnections
<1>2. {j \in Intf : Connected(c, j)} = {j \in Intf : Connected(d, j)}
  BY <1>1 DEF Connected
<1>3. QED
  BY <1>1, <1>2 DEF Rows

LEMMA RebootRows ==
  ASSUME VInv, Reboot, mishap' = "none"
  PROVE  Filling'
<1>0. /\ todo = {} /\ fill' = Rows(new) /\ member' = {}
      /\ \A v \in Vid : vlan'[v] = Absent
      /\ UNCHANGED <<old, new, todo>>
  <2>1. PICK c \in Drafts \cup {new} :
          /\ fill' = Rows(c) /\ member' = {} /\ vlan' = [v \in Vid |-> Absent]
          /\ mishap' = IF SameConnections(c, new) THEN "none" ELSE "uncommitted"
    BY DEF Reboot
  <2>2. Rows(c) = Rows(new)
    BY <2>1, SameRows
  <2>3. QED
    BY <2>1, <2>2 DEF Reboot, AtRest
<1>1. \A v : Ports(v)' = Ports(v) /\ (Used(v)' <=> Used(v))
  <2>1. \A i \in Intf : Cur(i)' = Cur(i)
    BY <1>0 DEF Cur
  <2>2. QED
    BY <2>1, SameUsers
<1>2. /\ \A r \in fill' : \/ \E v \in Vid : Used(v) /\ r = SetVlan(v, TRUE, Ports(v))
                          \/ \E v \in Vid, p \in Port : r = SetMember(v, p)
      /\ \A v \in Vid : Used(v) => SetVlan(v, TRUE, Ports(v)) \in fill'
      /\ \A v \in Vid, p \in Port : p \in Ports(v) <=> SetMember(v, p) \in fill'
  BY <1>0, RestRows
<1>3. \A r \in fill' : \/ \E v \in Vid : Used(v)' /\ r = SetVlan(v, TRUE, Ports(v)')
                       \/ \E v \in Vid, p \in Port : r = SetMember(v, p)
  BY <1>1, <1>2
<1>4. \A v \in Vid : RowFits(v)' \/ /\ vlan'[v] = Absent
                                    /\ SetVlan(v, TRUE, Ports(v)') \in fill'
  BY <1>0, <1>1, <1>2 DEF RowFits
<1>5. \A v \in Vid, p \in Port :
        p \in Ports(v)' <=> <<v, p>> \in member' \/ SetMember(v, p) \in fill'
  BY <1>0, <1>1, <1>2
<1>6. QED
  BY <1>3, <1>4, <1>5 DEF Filling

LEMMA FillRows ==
  ASSUME VInv, Filling, Fill
  PROVE  Filling'
<1>0. /\ TypeOK /\ fill \subseteq Command /\ UNCHANGED <<old, new, todo>>
  BY DEF VInv, TypeOK, Fill
<1>1. PICK r \in fill : Apply(r) /\ fill' = fill \ {r}
  BY DEF Fill
<1>2. \A v : Ports(v)' = Ports(v) /\ (Used(v)' <=> Used(v))
  <2>1. \A i \in Intf : Cur(i)' = Cur(i)
    BY <1>0 DEF Cur
  <2>2. QED
    BY <2>1, SameUsers
<1>3. r \in Command /\ \A v \in Vid : Ports(v) \in SUBSET Port
  BY <1>0 DEF Ports
<1>4. /\ \A x \in fill : \/ \E v \in Vid : Used(v) /\ x = SetVlan(v, TRUE, Ports(v))
                         \/ \E v \in Vid, p \in Port : x = SetMember(v, p)
      /\ \A v \in Vid : RowFits(v) \/ /\ vlan[v] = Absent
                                      /\ SetVlan(v, TRUE, Ports(v)) \in fill
      /\ \A v \in Vid, p \in Port :
           p \in Ports(v) <=> <<v, p>> \in member \/ SetMember(v, p) \in fill
  BY DEF Filling
<1>5. \A x \in fill' : \/ \E v \in Vid : Used(v)' /\ x = SetVlan(v, TRUE, Ports(v)')
                       \/ \E v \in Vid, p \in Port : x = SetMember(v, p)
  BY <1>1, <1>2, <1>4
<1>6. CASE \E v \in Vid : Used(v) /\ r = SetVlan(v, TRUE, Ports(v))
  <2>1. PICK v \in Vid : Used(v) /\ r = SetVlan(v, TRUE, Ports(v))
    BY <1>6
  <2>2. r.op = "set_vlan" /\ r.vid = v /\ r.ports = Ports(v)
    BY <2>1 DEF SetVlan
  <2>3. r.id = TRUE
    BY <2>1 DEF SetVlan
  <2>4. /\ member' = member
        /\ \A w \in Vid \ {v} : vlan'[w] = vlan[w]
        /\ vlan'[v] = [hasId |-> r.id \/ (vlan[v] # Absent /\ vlan[v].hasId),
                       members |-> Ports(v)]
    BY <1>0, <1>1, <1>3, <2>2, ApplySetVlan
  <2>5. vlan'[v] = [hasId |-> TRUE, members |-> Ports(v)]
    <3>1. (r.id \/ (vlan[v] # Absent /\ vlan[v].hasId)) = TRUE
      BY <2>3, Zenon
    <3>2. QED
      BY <2>4, <3>1, Zenon
  <2>6. RowFits(v)'
    BY <1>2, <2>1, <2>5 DEF RowFits
  <2>7. ASSUME NEW w \in Vid, w # v
        PROVE  RowFits(w)' \/ /\ vlan'[w] = Absent
                              /\ SetVlan(w, TRUE, Ports(w)') \in fill'
    <3>1. SetVlan(w, TRUE, Ports(w)) # r
      BY <2>2, <2>7 DEF SetVlan
    <3>2. CASE RowFits(w)
      BY <1>2, <2>4, <2>7, <3>2, SameRow
    <3>3. CASE vlan[w] = Absent /\ SetVlan(w, TRUE, Ports(w)) \in fill
      BY <1>1, <1>2, <2>4, <2>7, <3>1, <3>3
    <3>4. QED
      BY <1>4, <3>2, <3>3
  <2>8. ASSUME NEW w \in Vid, NEW p \in Port
        PROVE  p \in Ports(w)' <=> <<w, p>> \in member' \/ SetMember(w, p) \in fill'
    <3>1. SetMember(w, p) # r
      BY <2>2, OpOf
    <3>2. QED
      BY <1>1, <1>2, <1>4, <2>4, <3>1
  <2>9. QED
    BY <1>5, <2>6, <2>7, <2>8 DEF Filling
<1>7. CASE \E v \in Vid, p \in Port : r = SetMember(v, p)
  <2>1. PICK v \in Vid, p \in Port : r = SetMember(v, p)
    BY <1>7
  <2>2. r.op = "set_member" /\ r.vid = v /\ r.port = p
    BY <2>1, OpOf
  <2>3. vlan' = vlan /\ member' = member \cup {<<v, p>>}
    BY <1>0, <1>1, <1>3, <2>2, ApplyMember
  <2>4. ASSUME NEW w \in Vid
        PROVE  RowFits(w)' \/ /\ vlan'[w] = Absent
                              /\ SetVlan(w, TRUE, Ports(w)') \in fill'
    <3>1. SetVlan(w, TRUE, Ports(w)) # r
      <4>1. SetVlan(w, TRUE, Ports(w)).op = "set_vlan"
        BY DEF SetVlan
      <4>2. QED
        BY <2>2, <4>1
    <3>2. CASE RowFits(w)
      BY <1>2, <2>3, <3>2, SameRow
    <3>3. CASE vlan[w] = Absent /\ SetVlan(w, TRUE, Ports(w)) \in fill
      BY <1>1, <1>2, <2>3, <3>1, <3>3
    <3>4. QED
      BY <1>4, <3>2, <3>3
  <2>5. ASSUME NEW w \in Vid, NEW q \in Port
        PROVE  q \in Ports(w)' <=> <<w, q>> \in member' \/ SetMember(w, q) \in fill'
    <3>1. SetMember(w, q) = r <=> w = v /\ q = p
      BY <2>1, <2>2, OpOf
    <3>2. <<w, q>> \in member' <=> <<w, q>> \in member \/ (w = v /\ q = p)
      BY <2>3
    <3>3. QED
      BY <1>1, <1>2, <1>4, <3>1, <3>2
  <2>6. QED
    BY <1>5, <2>4, <2>5 DEF Filling
<1>8. QED
  BY <1>1, <1>4, <1>6, <1>7

------------------------------------------------------------------------------
(* The inductive invariant. *)

(* A deed that is blamed is blamed for good. *)
LEMMA Blamed ==
  ASSUME NEW what, what # "none", Blame(what)
  PROVE  mishap' # "none"
BY DEF Blame

LEMMA InitRows == Init => RowsInv
<1> SUFFICES ASSUME Init PROVE Handing
  BY DEF RowsInv, Init
<1>1. /\ vlan = [v \in Vid |-> Absent] /\ member = {} /\ todo = {} /\ queue = <<>>
      /\ \A i \in Intf : new[i].conn = Unset
  BY DEF Init
<1>2. \A i \in Intf : Cur(i) = Unset
  BY <1>1 DEF Cur
<1>3. \A v : ~Used(v) /\ Ports(v) = {}
  BY <1>2 DEF Used, User, Ports
<1>4. Pending = {}
  BY <1>1, NonePending
<1>5. MembersFit
  BY <1>1, <1>3, <1>4 DEF MembersFit
<1>6. \A v \in Vid : RowFits(v)
  BY <1>1, <1>3 DEF RowFits
<1>7. \A n \in 1..Len(queue) : \E c \in Command : queue[n] = {c}
  BY <1>1
<1>8. QED
  BY <1>1, <1>4, <1>5, <1>6, <1>7 DEF Handing

LEMMA CommitRows ==
  ASSUME VInv, Handing, Commit
  PROVE  Handing'
<1>1. PICK c \in Config : new' = c /\ todo' = {i \in Intf : c[i] # new[i]}
  BY DEF Commit
<1>2. /\ todo = {} /\ queue = <<>> /\ queue' = <<>> /\ old' = new
      /\ UNCHANGED <<vlan, member>>
  BY DEF Commit, AtRest
<1>3. \A i \in Intf : Cur(i)' = Cur(i)
  BY <1>1, <1>2 DEF Cur
<1>4. QED
  BY <1>2, <1>3, IdleCall

LEMMA RowsStep == VInv /\ RowsInv /\ [Next]_vars => RowsInv'
<1> SUFFICES ASSUME VInv, RowsInv, [Next]_vars, mishap' = "none"
             PROVE  IF fill' = {} THEN Handing' ELSE Filling'
  BY DEF RowsInv
<1>0. /\ fill = {} \/ (queue = <<>> /\ todo = {})
      /\ mishap = "none" => IF fill = {} THEN Handing ELSE Filling
  BY DEF VInv, RowsInv
<1>1. CASE Commit
  <2>1. fill = {} /\ fill' = {} /\ mishap = "none"
    BY <1>1 DEF Commit, AtRest
  <2>2. QED
    BY <1>0, <1>1, <2>1, CommitRows
<1>2. CASE \E i \in Intf : Handle(i)
  <2>1. PICK i \in Intf : Handle(i)
    BY <1>2
  <2>2. fill = {} /\ fill' = {}
    BY <1>0, <2>1 DEF Handle
  <2>3. mishap = "none"
    BY <2>1 DEF Handle, Blame
  <2>4. QED
    BY <1>0, <2>1, <2>2, <2>3, HandleRows
<1>3. CASE Execute
  <2>1. fill = {} /\ fill' = {} /\ mishap = "none"
    BY <1>0, <1>3 DEF Execute
  <2>2. QED
    BY <1>0, <1>3, <2>1, ExecuteRows
<1>4. CASE IgnoredError \/ HandlerPanics \/ FillLost \/ Fail
  BY <1>4, Blamed DEF IgnoredError, HandlerPanics, FillLost, Fail
<1>5. CASE Reboot
  <2>1. Filling' /\ queue' = <<>>
    BY <1>5, RebootRows DEF Reboot, AtRest
  <2>2. QED
    BY <2>1, Filled
<1>6. CASE Fill
  <2>1. fill # {} /\ mishap = "none" /\ queue' = queue
    BY <1>6 DEF Fill
  <2>2. Filling' /\ queue' = <<>>
    BY <1>0, <1>6, <2>1, FillRows
  <2>3. QED
    BY <2>2, Filled
<1>7. CASE UNCHANGED vars
  <2>1. mishap = "none" /\ fill' = fill
    BY <1>7 DEF vars
  <2>2. Handing' <=> Handing
    BY <1>7 DEF vars, Handing, MembersFit, Finishes, RowFits, Ports, Used, User, Cur,
                Pending, Commanded
  <2>3. Filling' <=> Filling
    BY <1>7 DEF vars, Filling, RowFits, Ports, Used, User, Cur
  <2>4. QED
    BY <1>0, <2>1, <2>2, <2>3
<1>8. QED
  BY <1>1, <1>2, <1>3, <1>4, <1>5, <1>6, <1>7 DEF Next

LEMMA RowsShow == VInv /\ RowsInv => DiffEqualsReboot /\ PanicIsSecond
<1> SUFFICES ASSUME VInv, RowsInv PROVE DiffEqualsReboot /\ PanicIsSecond
  OBVIOUS
<1>1. ASSUME AtRest, mishap = "none" PROVE FollowsConfig(new)
  <2>1. Handing
    BY <1>1 DEF AtRest, RowsInv
  <2>2. QED
    BY <1>1, <2>1, RestFollows
<1>2. ASSUME NEW n \in 1..Len(queue), Panic \in queue[n] PROVE mishap # "none"
  <2>1. SUFFICES ASSUME mishap = "none" PROVE FALSE
    OBVIOUS
  <2>2. queue # <<>>
    BY <1>2
  <2>3. Handing
    BY <2>1, <2>2 DEF VInv, RowsInv
  <2>4. Panic \in Pending /\ Panic.op = "panic"
    BY <1>2, PanicType, OpOf DEF Pending, Commanded
  <2>5. QED
    BY <2>3, <2>4 DEF Handing
<1>3. QED
  BY <1>1, <1>2 DEF DiffEqualsReboot, PanicIsSecond

(* However many interfaces, ids and commits there are: after a commit whose *)
(* calls HandleInterfaceDiff carried out without a cleared, renumbered or   *)
(* deleted leaf and without a fault, both VLAN tables hold what             *)
(* WriteToConfigDB would write for HEAD after a reboot, unless the last     *)
(* reboot was of connections nobody had committed.                          *)
THEOREM DiffIsReboot == Spec => []DiffEqualsReboot
BY InitRows, VInit, RowsStep, VStep, RowsShow, PTL DEF Spec

(* The conversion of a missing member list, interface.go:216, panics only   *)
(* in a command that runs after something else went wrong, or after a       *)
(* reboot of connections nobody had committed.                              *)
THEOREM PanicSecond == Spec => []PanicIsSecond
BY InitRows, VInit, RowsStep, VStep, RowsShow, PTL DEF Spec
==============================================================================
