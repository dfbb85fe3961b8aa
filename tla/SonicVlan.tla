------------------------------ MODULE SonicVlan ------------------------------
(***************************************************************************)
(* The VLAN tables that connect front-panel interfaces to the channels of  *)
(* the optical modules, in SONiC's CONFIG_DB:                               *)
(*                                                                         *)
(*   VLAN|Vlan<id>                 vlanid, members                         *)
(*   VLAN_MEMBER|Vlan<id>|<port>   tagging_mode                            *)
(*                                                                         *)
(* Two programs write them.  A commit hands every interface that changed   *)
(* to HandleInterfaceDiff, which moves it from its old VLAN to its new one *)
(* with single redis commands.  A reboot wipes redis, and WriteToConfigDB  *)
(* writes all the rows of a configuration anew: the one just committed, or *)
(* whatever the working file holds when somebody calls `oopt reboot`.      *)
(*                                                                         *)
(* One oopt command runs at a time here (OoptCli.tla is about several).    *)
(* Within one call of HandleInterfaceDiff everything is read before        *)
(* anything is written, so a call is the list of commands it computes, and *)
(* each command may fail.  A member list is a set: nothing reads its order *)
(* or its repetitions.                                                     *)
(***************************************************************************)
EXTENDS Integers, Sequences

CONSTANTS
  Intf,       \* the front-panel interfaces
  OptPort,    \* the Ethernet ports of the channels of the optical modules
  Vid,        \* VLAN ids
  Unset,      \* an interface that is not connected
  Absent,     \* a VLAN with no row
  Drafts,     \* what the working file may hold that was not committed
  MaxCommits  \* bound: how many commits are made

Connection == [id : Vid, opt : OptPort]
(* `other` stands for the leaves the handler does not look at (description, *)
(* mtu, port-speed): are they set?                                          *)
IntfConfig == [conn : Connection \cup {Unset}, other : BOOLEAN]
Config == [Intf -> IntfConfig]
Port == Intf \cup OptPort
Row == [hasId : BOOLEAN, members : SUBSET Port]

ASSUME VlanAssumption ==
  /\ Unset \notin Connection
  /\ Absent \notin Row
  /\ Intf \cap OptPort = {}
  /\ Drafts \subseteq Config
  /\ MaxCommits \in Nat

VARIABLES
  vlan,    \* the VLAN table
  member,  \* the VLAN_MEMBER table: which port is a member of which VLAN
  old,     \* the configuration of the commit before HEAD
  new,     \* the configuration of HEAD
  todo,    \* the interfaces that handleDiff has still to handle
  queue,   \* the redis commands the current call has still to issue: a
           \* sequence of stages, the commands of one stage in any order
  fill,    \* the rows WriteToConfigDB has still to write
  count,   \* how many commits were made
  mishap   \* ghost: what first made the tables differ from HEAD, or "none"

vars == <<vlan, member, old, new, todo, queue, fill, count, mishap>>

Mishaps ==
  {"none", "cleared", "renumbered", "deleted", "uncommitted", "fault", "panic"}
Blame(what) == mishap' = IF mishap = "none" THEN what ELSE mishap

Connected(c, i) == c[i].conn # Unset

(* validateFinal, as far as it is about interfaces: the ids are distinct.   *)
ValidateAnything(c) == c \in Config  \* mutant: no check of the ids
ValidateFinal(c) ==
  \A i, j \in Intf :
    i # j /\ Connected(c, i) /\ Connected(c, j) => c[i].conn.id # c[j].conn.id

(* What a redis command does to the tables.  HMSET keeps the fields it does *)
(* not name; the mode of a member is that of its kind of port.              *)
DelVlan(v) == [op |-> "del_vlan", vid |-> v]
SetVlan(v, id, ports) == [op |-> "set_vlan", vid |-> v, id |-> id, ports |-> ports]
DelMember(v, p) == [op |-> "del_member", vid |-> v, port |-> p]
SetMemberSwapped(v, p) ==  \* mutant: the key the wrong way round
  [op |-> "set_member", vid |-> p, port |-> v]
SetMember(v, p) == [op |-> "set_member", vid |-> v, port |-> p]
Panic == [op |-> "panic"]
Command == [op : {"del_vlan"}, vid : Vid]
           \cup [op : {"set_vlan"}, vid : Vid, id : BOOLEAN, ports : SUBSET Port]
           \cup [op : {"del_member", "set_member"}, vid : Vid, port : Port]
           \cup {Panic}

Apply(c) ==
  /\ vlan' = CASE c.op = "del_vlan" -> [vlan EXCEPT ![c.vid] = Absent]
               [] c.op = "set_vlan" ->
                    [vlan EXCEPT ![c.vid] =
                       [hasId |-> c.id \/ (@ # Absent /\ @.hasId),
                        members |-> c.ports]]
               [] OTHER -> vlan
  /\ member' = CASE c.op = "del_member" -> member \ {<<c.vid, c.port>>}
                 [] c.op = "set_member" -> member \cup {<<c.vid, c.port>>}
                 [] OTHER -> member

(* The rows of a configuration, as NewSONiCConfigFromModel builds them.     *)
RowsOfMembers(c) ==  \* mutant: forgets to store the VLAN row
  UNION {{SetMember(c[i].conn.id, i), SetMember(c[i].conn.id, c[i].conn.opt)} :
         i \in {j \in Intf : Connected(c, j)}}
Rows(c) ==
  UNION {LET k == c[i].conn
         IN {SetVlan(k.id, TRUE, {i, k.opt}),
             SetMember(k.id, i), SetMember(k.id, k.opt)} :
         i \in {j \in Intf : Connected(c, j)}}

FollowsConfig(c) ==
  /\ \A v \in Vid :
       LET users == {i \in Intf : Connected(c, i) /\ c[i].conn.id = v}
       IN IF users = {} THEN vlan[v] = Absent
          ELSE \A i \in users :
                 vlan[v] = [hasId |-> TRUE, members |-> {i, c[i].conn.opt}]
  /\ member = UNION {{<<c[i].conn.id, i>>, <<c[i].conn.id, c[i].conn.opt>>} :
                     i \in {j \in Intf : Connected(c, j)}}

AtRest == todo = {} /\ queue = <<>> /\ fill = {}

Init ==
  /\ vlan = [v \in Vid |-> Absent]
  /\ member = {}
  /\ old = [i \in Intf |-> [conn |-> Unset, other |-> FALSE]]
  /\ new = old
  /\ todo = {}
  /\ queue = <<>>
  /\ fill = {}
  /\ count = 0
  /\ mishap = "none"

------------------------------------------------------------------------------
(* The tasks of interface i: the leaves that were deleted or modified.  A   *)
(* new id counts as a new optical port too.                                 *)

DelOld(i) == \/ Connected(old, i) /\ ~Connected(new, i)
             \/ old[i].other /\ ~new[i].other
ModEther(i) == /\ Connected(new, i)
               /\ Connected(old, i) => new[i].conn.id # old[i].conn.id
ModOpt(i) == /\ Connected(new, i)
             /\ Connected(old, i) => new[i].conn # old[i].conn

(* commit: main.go stores the new configuration before the device sees any  *)
(* of it, and the next commit takes it for granted.  A dry commit stops     *)
(* there, `commit reboot` goes on with Reboot: both are Fail after Commit.  *)
Commit ==
  /\ AtRest
  /\ count < MaxCommits
  /\ \E c \in Config :
       /\ ValidateFinal(c)
       /\ new' = c
       /\ todo' = {i \in Intf : c[i] # new[i]}
  /\ old' = new
  /\ count' = count + 1
  /\ UNCHANGED <<vlan, member, queue, fill, mishap>>

Members(v) == IF vlan[v] = Absent THEN {} ELSE vlan[v].members

(* The old VLAN disappears, then its members one by one.                    *)
DeleteOld(k) ==
  IF Members(k.id) = {} THEN <<{DelVlan(k.id)}>>
  ELSE <<{DelVlan(k.id)}, {DelMember(k.id, p) : p \in Members(k.id)}>>

(* The interface and the port of its module leave the VLAN members table of *)
(* the old VLAN and enter the one of the new VLAN.                          *)
JoinOnly(i, was, is) ==  \* mutant: forgets to leave the old VLAN
  <<{SetMember(new[i].conn.id, is)}>>
Join(i, was, is) ==
  IF Connected(old, i)
    THEN <<{DelMember(old[i].conn.id, was)}, {SetMember(new[i].conn.id, is)}>>
    ELSE <<{SetMember(new[i].conn.id, is)}>>

MoveMembers(i) ==
  (IF ModEther(i) THEN Join(i, i, i) ELSE <<>>)
    \o (IF ModOpt(i) THEN Join(i, old[i].conn.opt, new[i].conn.opt) ELSE <<>>)

(* What the old VLAN k keeps: the handler writes the name of the interface  *)
(* for each of the members that stay.                                       *)
LeaveOld(i, k) ==
  LET left == (IF ModEther(i) THEN {i} ELSE {})
              \cup (IF ModOpt(i) THEN {new[i].conn.opt} ELSE {})
  IN IF vlan[k.id] = Absent THEN {Panic}  \* no member list to convert
     ELSE IF Members(k.id) \subseteq left THEN {DelVlan(k.id)}
     ELSE {SetVlan(k.id, FALSE, {i})}

NewMembers(i) ==
  LET t == new[i].conn
      ether == Members(t.id) \cup (IF ModEther(i) THEN {i} ELSE {})
  IN IF ~ModOpt(i) THEN ether
     ELSE IF Connected(old, i) THEN (ether \cup {t.opt}) \ {old[i].conn.opt}
     ELSE ether \cup {t.opt}

Enrol(i) ==
  {SetVlan(new[i].conn.id, vlan[new[i].conn.id] = Absent, NewMembers(i))}

Commands(i) ==
  IF ~Connected(new, i) THEN <<>>
  ELSE IF DelOld(i)
    THEN IF Connected(old, i) THEN DeleteOld(old[i].conn) ELSE <<>>
  ELSE IF ~ModEther(i) /\ ~ModOpt(i) THEN <<>>
  ELSE IF ~Connected(old, i) THEN MoveMembers(i) \o <<Enrol(i)>>
  ELSE MoveMembers(i) \o <<LeaveOld(i, old[i].conn), Enrol(i)>>

(* HandleInterfaceDiff up to its first write.  The ghost names the cases in *)
(* which what it goes on to write is not what the configuration says.       *)
Handle(i) ==
  /\ i \in todo
  /\ queue = <<>>
  /\ queue' = Commands(i)
  /\ todo' = todo \ {i}
  /\ IF Connected(old, i) /\ ~Connected(new, i) THEN Blame("cleared")
     ELSE IF DelOld(i) /\ Connected(new, i) THEN Blame("deleted")
     ELSE IF Connected(old, i) /\ ModEther(i) THEN Blame("renumbered")
     ELSE UNCHANGED mishap
  /\ UNCHANGED <<vlan, member, old, new, fill, count>>

Done(c) == queue' = IF Head(queue) = {c} THEN Tail(queue)
                    ELSE [queue EXCEPT ![1] = @ \ {c}]

Execute ==
  /\ queue # <<>>
  /\ \E c \in Head(queue) \ {Panic} : Apply(c) /\ Done(c)
  /\ UNCHANGED <<old, new, todo, fill, count, mishap>>

(* The error of the write to the old VLAN is overwritten by the next call.  *)
IgnoredError ==
  /\ Len(queue) = 2
  /\ \E c \in Head(queue) : c.op = "set_vlan"
  /\ queue' = Tail(queue)
  /\ Blame("fault")
  /\ UNCHANGED <<vlan, member, old, new, todo, fill, count>>

HandlerPanics ==
  /\ queue # <<>>
  /\ Panic \in Head(queue)
  /\ queue' = <<>>
  /\ todo' = {}
  /\ Blame("panic")
  /\ UNCHANGED <<vlan, member, old, new, fill, count>>

------------------------------------------------------------------------------
(* rebootSystem: redis is started empty, and WriteToConfigDB writes first   *)
(* the VLAN rows, then the members, in the order of Go maps.  `oopt reboot` *)
(* boots the working file, after validateFinal, whatever HEAD holds.        *)

SameConnections(c, d) == \A i \in Intf : c[i].conn = d[i].conn

Reboot ==
  /\ AtRest
  /\ \E c \in Drafts \cup {new} :
       /\ ValidateFinal(c)
       /\ vlan' = [v \in Vid |-> Absent]
       /\ member' = {}
       /\ fill' = Rows(c)
       /\ mishap' = IF SameConnections(c, new) THEN "none" ELSE "uncommitted"
  /\ UNCHANGED <<old, new, todo, queue, count>>

Due(r) == r \in fill /\ (r.op = "set_member" => \A x \in fill : x.op # "set_vlan")

Fill ==
  \E r \in fill :
    /\ Due(r)
    /\ Apply(r)
    /\ fill' = fill \ {r}
    /\ UNCHANGED <<old, new, todo, queue, count, mishap>>

(* WriteToConfigDB does not look at the result of SetEntry.                 *)
FillLost ==
  \E r \in fill :
    /\ Due(r)
    /\ fill' = fill \ {r}
    /\ Blame("fault")
    /\ UNCHANGED <<vlan, member, old, new, todo, queue, count>>

(* The command ends early: redis does not answer, or the process is killed. *)
Fail ==
  /\ ~AtRest
  /\ todo' = {}
  /\ queue' = <<>>
  /\ fill' = {}
  /\ Blame("fault")
  /\ UNCHANGED <<vlan, member, old, new, count>>

Next ==
  \/ Commit
  \/ \E i \in Intf : Handle(i)
  \/ Execute \/ IgnoredError \/ HandlerPanics
  \/ Reboot \/ Fill \/ FillLost
  \/ Fail

Spec == Init /\ [][Next]_vars

------------------------------------------------------------------------------
TypeOK ==
  /\ vlan \in [Vid -> Row \cup {Absent}]
  /\ member \subseteq Vid \X Port
  /\ old \in Config /\ new \in Config
  /\ todo \subseteq Intf
  /\ queue \in Seq(SUBSET Command)
  /\ fill \subseteq Command \ {Panic}
  /\ count \in 0..MaxCommits
  /\ mishap \in Mishaps

(* Handing over the changes leaves the tables as a reboot would write them, *)
(* unless since the last reboot a connection was cleared or renumbered, a   *)
(* leaf was deleted, or a command failed, or that reboot took connections   *)
(* nobody had committed.                                                    *)
DiffEqualsReboot == AtRest /\ mishap = "none" => FollowsConfig(new)

(* The handler meets an old VLAN without a row (interface.go:216 converts a *)
(* missing member list) only after something else went wrong, or after a    *)
(* reboot that took connections nobody had committed.                       *)
PanicIsSecond ==
  \A n \in 1..Len(queue) : Panic \in queue[n] => mishap # "none"

(* The calls for one commit never touch the VLAN of an interface that the   *)
(* commit leaves alone, whatever went wrong before: this is what the check  *)
(* of unique ids in validateFinal is for.                                   *)
OthersKept ==
  queue # <<>> =>
    \A i \in Intf :
      Connected(new, i) /\ old[i] = new[i] =>
        /\ vlan'[new[i].conn.id] = vlan[new[i].conn.id]
        /\ \A p \in Port : <<new[i].conn.id, p>> \in member'
                             <=> <<new[i].conn.id, p>> \in member
UnchangedInterfacesKeepTheirVlan == [][OthersKept]_vars

(* interface.go:171: "Interface is currently restricted to belongs to only  *)
(* one VLAN".                                                               *)
OneVlanPerInterface ==
  AtRest =>
    \A i \in Intf, v, w \in Vid :
      i \in Members(v) /\ i \in Members(w) => v = w
==============================================================================
