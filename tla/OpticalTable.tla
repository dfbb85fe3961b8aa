----------------------------- MODULE OpticalTable -----------------------------
(***************************************************************************)
(* MODULE_CONFIG_TABLE: the row of each optical module in redis, from      *)
(* which transyncd programs the module.  Two pieces of code write it:      *)
(*                                                                         *)
(*   HandleOptDiff       a commit: one HMSET per module that has changed,  *)
(*                       with the fields that have changed                 *)
(*   ConfigureTransport  a reboot: redis starts empty, then one SetEntry   *)
(*                       per module of the configuration, with every       *)
(*                       field, those that are not set at their defaults   *)
(*                                                                         *)
(* Each has its own translation from the leaves of the configuration to    *)
(* the fields of the row.  A command may end after any step, and another   *)
(* may run beside it.  An edit and the git half of a commit are one step   *)
(* here: OoptCli.tla has their steps, and what unreadable files do.        *)
(***************************************************************************)
EXTENDS Naturals

CONSTANTS
  Proc,         \* the processes that run commit, rollback or reboot
  Module,       \* the numbers of the optical modules: Opt1, ...
  Operated,     \* the modules that commands are given
  Requested,    \* the modules that gNMI requests are about
  Grids,        \* the grids that commands are given
  Channels,     \* the channels that commands are given
  Intervals,    \* the ber-intervals that commands are given
  Texts,        \* the descriptions that commands are given
  Unset,        \* a leaf, or a previous commit, that is not there
  Absent,       \* a field that the row does not have
  MaxCommands   \* bound: how many commands and requests there are

GridTypes == {"GRID_100GHZ", "GRID_50GHZ", "GRID_33GHZ", "GRID_25GHZ"}
Modulations == {"DP_QPSK", "DP_16QAM"}
Switches == {"prbs", "losi", "enabled"}

ASSUME InventoryAssumption ==
  /\ Module \subseteq 1..8
  /\ Operated \subseteq Module
  /\ Requested \subseteq Module
  /\ Grids \subseteq GridTypes
  /\ Channels \subseteq 1..255
  /\ Intervals \subseteq {n \in Nat : n >= 5}
  /\ MaxCommands \in Nat

(* The configuration of a module: is it in the list, and with which leaves? *)
Settings == [there       : BOOLEAN,
             grid        : GridTypes \cup {Unset},
             channel     : (0..255) \cup {Unset},
             ber         : Nat \cup {Unset},
             prbs        : BOOLEAN \cup {Unset},
             losi        : BOOLEAN \cup {Unset},
             enabled     : BOOLEAN \cup {Unset},
             modulation  : Modulations \cup {Unset},
             allow       : BOOLEAN \cup {Unset},
             description : Texts \cup {Unset}]

Blank == [there |-> TRUE, grid |-> Unset, channel |-> Unset, ber |-> Unset, prbs |-> Unset,
          losi |-> Unset, enabled |-> Unset, modulation |-> Unset,
          allow |-> Unset, description |-> Unset]

NoEntry == [Blank EXCEPT !.there = FALSE]

ASSUME UnsetAssumption ==
  Unset \notin GridTypes \cup Nat \cup BOOLEAN \cup Modulations \cup Texts
                 \cup [Module -> Settings]

OnDevice == {"grid", "channel", "ber", "modulation"} \cup Switches
Leaf == OnDevice \cup {"allow", "description"}

(* A module that is not in the list has no leaves. *)
Config == {c \in [Module -> Settings] :
             \A m \in Module : c[m].there \/ c[m] = NoEntry}
Default == [m \in Module |-> Blank]

(* A row of the table. *)
Row == [index      : (0..7) \cup {Absent},
        grid       : {100, 50, 33, 25} \cup {Absent},
        channel    : (0..255) \cup {Absent},
        ber        : Nat \cup {Absent},
        prbs       : {"on", "off", Absent},
        losi       : {"on", "off", Absent},
        enabled    : {"on", "off", Absent},
        modulation : {"dp-qpsk", "dp-16qam", Absent}]
NoRow == [index |-> Absent, grid |-> Absent, channel |-> Absent, ber |-> Absent,
          prbs |-> Absent, losi |-> Absent, enabled |-> Absent,
          modulation |-> Absent]

ASSUME AbsentAssumption ==
  Absent \notin Nat \cup {"on", "off", "dp-qpsk", "dp-16qam"}

VARIABLES
  file,   \* config.json
  head,   \* the configuration of HEAD
  prev,   \* the configuration of its parent
  row,    \* MODULE_CONFIG_TABLE
  proc,   \* the memory of each process
  count   \* how many commands and requests there were

(* Ghost variables: they remember what the properties are about. *)
VARIABLES
  owed,   \* the leaves of HEAD that nobody has written since they changed, or
          \* over which another value was written
  broken  \* the modules that no solitary reboot has met, and come to its end,
          \* since redis last started

vars == <<file, head, prev, row, proc, count, owed, broken>>

Process == [step   : {"idle", "log", "apply", "wipe", "fill"},
            cur    : Config,          \* `current`
            reboot : BOOLEAN,         \* --reboot
            base   : Config,          \* s, the configuration of HEAD's parent
            target : Config,          \* t, the configuration of HEAD
            left   : SUBSET Module,   \* the modules it has still to write
            alone  : BOOLEAN]         \* ghost: no other ran meanwhile

Idle == [step |-> "idle", cur |-> Default, reboot |-> FALSE, base |-> Default,
         target |-> Default, left |-> {}, alone |-> FALSE]

Running(p) == proc[p].step # "idle"
Others(p) == {q \in Proc \ {p} : Running(q)}

------------------------------------------------------------------------------
(* The two translations *)

OnOff(v) == IF v THEN "on" ELSE "off"

(* HandleOptDiff: the field for the new value of a leaf.                    *)
DiffGridCoarse(v) ==  \* mutant: knows two grids
  IF v = "GRID_100GHZ" THEN 100 ELSE 50
DiffGrid(v) ==
  CASE v = "GRID_100GHZ" -> 100 [] v = "GRID_50GHZ" -> 50
    [] v = "GRID_33GHZ" -> 33 [] v = "GRID_25GHZ" -> 25
DiffModulation(v) ==
  CASE v = "DP_QPSK" -> "dp-qpsk" [] v = "DP_16QAM" -> "dp-16qam"
DiffField(l, v) ==
  CASE l = "grid" -> DiffGrid(v)
    [] l \in Switches -> OnOff(v)
    [] l = "modulation" -> DiffModulation(v)
    [] OTHER -> v

(* FillTransportDefaultConfig.  What it finds out about the occupancy of    *)
(* the channels is a matter of Transponder.tla.                             *)
Defaults == [grid |-> "GRID_50GHZ", channel |-> 1, ber |-> 100, prbs |-> FALSE,
             losi |-> FALSE, enabled |-> TRUE, modulation |-> "DP_16QAM"]
FilledSwitches(c, l) ==  \* mutant: forgets the numbers and the names
  IF c[l] = Unset /\ l \in Switches THEN Defaults[l] ELSE c[l]
Filled(c, l) == IF c[l] = Unset THEN Defaults[l] ELSE c[l]

GridTypeToInt(g) ==
  CASE g = "GRID_100GHZ" -> 100
    [] g = "GRID_33GHZ" -> 33
    [] g = "GRID_25GHZ" -> 25
    [] OTHER -> 50

(* ConfigureTransport: the row of module m.                                 *)
BootRowUnnumbered(m, c) ==  \* mutant: the index of a module is its number
  [index |-> m, grid |-> GridTypeToInt(Filled(c, "grid")),
   channel |-> Filled(c, "channel"), ber |-> Filled(c, "ber"),
   prbs |-> OnOff(Filled(c, "prbs")), losi |-> OnOff(Filled(c, "losi")),
   enabled |-> OnOff(Filled(c, "enabled")),
   modulation |-> IF Filled(c, "modulation") = "DP_QPSK" THEN "dp-qpsk"
                  ELSE "dp-16qam"]
BootRow(m, c) ==
  [index |-> m - 1, grid |-> GridTypeToInt(Filled(c, "grid")),
   channel |-> Filled(c, "channel"), ber |-> Filled(c, "ber"),
   prbs |-> OnOff(Filled(c, "prbs")), losi |-> OnOff(Filled(c, "losi")),
   enabled |-> OnOff(Filled(c, "enabled")),
   modulation |-> IF Filled(c, "modulation") = "DP_QPSK" THEN "dp-qpsk"
                  ELSE "dp-16qam"]

(* What a reboot from configuration c makes of module m. *)
Wanted(m, c) == IF c[m].there THEN BootRow(m, c[m]) ELSE NoRow

(* `oopt init` has booted and committed the default configuration. *)
Init ==
  /\ file = Default
  /\ head = Default
  /\ prev = Unset
  /\ row = [m \in Module |-> BootRow(m, Default[m])]
  /\ proc = [p \in Proc |-> Idle]
  /\ count = 0
  /\ owed = {}
  /\ broken = {}

Count == count < MaxCommands /\ count' = count + 1

------------------------------------------------------------------------------
(* oopt optical-module Opt<m>: each command sets one leaf of a module that  *)
(* is in the list.                                                          *)

Put(m, entry) ==
  /\ Count
  /\ file' = [file EXCEPT ![m] = entry]
  /\ UNCHANGED <<head, prev, row, proc, owed, broken>>

Set(m, l, v) == file[m].there /\ Put(m, [file[m] EXCEPT ![l] = v])

Grid(m) == \E v \in Grids : Set(m, "grid", v)
ChannelCmd(m) == \E v \in Channels : Set(m, "channel", v)
BerInterval(m) == \E v \in Intervals : Set(m, "ber", v)
Enable(m) == Set(m, "enabled", TRUE)
Disable(m) == Set(m, "enabled", FALSE)
Prbs(m) == \E v \in BOOLEAN : Set(m, "prbs", v)
Losi(m) == \E v \in BOOLEAN : Set(m, "losi", v)
ModulationType(m) == \E v \in Modulations : Set(m, "modulation", v)
AllowOversubscription(m) == \E v \in BOOLEAN : Set(m, "allow", v)
ClearAllowOversubscription(m) == Set(m, "allow", Unset)
Description(m) == \E v \in Texts : Set(m, "description", v)
ClearDescription(m) == Set(m, "description", Unset)

(* A request of the gNMI server deletes any leaf or the whole entry, writes *)
(* numbers that the commands refuse, makes the entry it writes a leaf of,   *)
(* or replaces it by one that has only its name.                            *)
GnmiSet(m) ==
  \/ \E l \in Leaf : Set(m, l, Unset)
  \/ \E l \in {"channel", "ber"} : Put(m, [file[m] EXCEPT ![l] = 0, !.there = TRUE])
  \/ \E entry \in {NoEntry, Blank} : Put(m, entry)

Edit(m) ==
  \/ Grid(m) \/ ChannelCmd(m) \/ BerInterval(m) \/ Enable(m) \/ Disable(m)
  \/ Prbs(m) \/ Losi(m) \/ ModulationType(m)
  \/ AllowOversubscription(m) \/ ClearAllowOversubscription(m)
  \/ Description(m) \/ ClearDescription(m)

------------------------------------------------------------------------------
(* A command comes to the point from which it works on the device.          *)
Enter(p, next) ==
  /\ ~Running(p)
  /\ Count
  /\ proc' = [q \in Proc |->
                IF q = p THEN [next EXCEPT !.alone = Others(p) = {}]
                ELSE [proc[q] EXCEPT !.alone = FALSE]]

(* The leaves in which two configurations differ, and those whose module is *)
(* in one of them only.                                                     *)
Differ(s, t) == {x \in Module \X OnDevice : s[x[1]][x[2]] # t[x[1]][x[2]]}
Changed(s, t) ==
  Differ(s, t) \cup {x \in Module \X OnDevice : s[x[1]].there # t[x[1]].there}

(* The file, or what a rollback has written to it, becomes HEAD.            *)
Committed(p, c, reboot) ==
  /\ file' = c
  /\ head' = c
  /\ prev' = head
  /\ owed' = owed \cup Changed(head, c)
  /\ Enter(p, [Idle EXCEPT !.step = "log", !.cur = c, !.reboot = reboot])
  /\ UNCHANGED <<row, broken>>

Commit(p, reboot) == Committed(p, file, reboot)
Rollback(p, reboot) == prev # Unset /\ Committed(p, prev, reboot)

(* With --dry the commit is all there is. *)
CommitDry ==
  /\ Count
  /\ head' = file
  /\ prev' = head
  /\ owed' = owed \cup Changed(head, file)
  /\ UNCHANGED <<file, row, proc, broken>>

(* The reboot command takes the file, committed or not. *)
Reboot(p) ==
  /\ Enter(p, [Idle EXCEPT !.step = "wipe", !.cur = file])
  /\ UNCHANGED <<file, head, prev, row, owed, broken>>

Go(p, next) ==
  /\ proc' = [proc EXCEPT ![p] = next]
  /\ UNCHANGED <<file, head, prev, count>>

(* repo.Log and ygot.Diff: t is HEAD and s its parent, whoever made them.   *)
ReadLog(p) ==
  /\ proc[p].step = "log"
  /\ Go(p, [proc[p] EXCEPT
              !.step = IF proc[p].reboot THEN "wipe" ELSE "apply",
              !.base = prev, !.target = head,
              !.left = {m \in Module : prev[m] # head[m]}])
  /\ UNCHANGED <<row, owed, broken>>

------------------------------------------------------------------------------
(* handleDiff: the modules in the random order of a Go map.                 *)

TasksSet(p, m) ==  \* mutant: passes over deleted leaves
  {l \in OnDevice : /\ proc[p].base[m][l] # proc[p].target[m][l]
                    /\ proc[p].target[m][l] # Unset}
Tasks(p, m) == {l \in OnDevice : proc[p].base[m][l] # proc[p].target[m][l]}

(* A value is written for these leaves.                                     *)
Settle(m, leaves, c) ==
  owed' = {x \in owed : x[1] # m \/ x[2] \notin leaves}
            \cup {<<m, l>> : l \in {k \in leaves : <<m, k>> \in Changed(c, head)}}

(* HandleOptDiff goes through all the changes of the module before it calls *)
(* redis, which it does for a description or an allow-oversubscription      *)
(* only when there is something else.                                       *)
HandleOptDiff(p, m) ==
  /\ proc[p].step = "apply"
  /\ m \in proc[p].left
  /\ \A l \in Tasks(p, m) : proc[p].target[m][l] # Unset
  /\ row' = [row EXCEPT ![m] =
              [f \in DOMAIN row[m] |->
                 IF f \in Tasks(p, m) THEN DiffField(f, proc[p].target[m][f])
                 ELSE row[m][f]]]
  /\ Settle(m, Tasks(p, m), proc[p].target)
  /\ Go(p, [proc[p] EXCEPT !.left = @ \ {m}])
  /\ UNCHANGED broken

(* It dereferences the value of a deleted leaf, which is nil.  The name of  *)
(* an entry that comes or goes is a task it does not know.                  *)
PanicOptDiff(p, m) ==
  /\ proc[p].step = "apply"
  /\ m \in proc[p].left
  /\ \E l \in Tasks(p, m) : proc[p].target[m][l] = Unset
  /\ Go(p, Idle)
  /\ UNCHANGED <<row, owed, broken>>

(* The interfaces and the ports follow; a breakout that has changed asks    *)
(* for a reboot.                                                            *)
ApplyDone(p, breakout) ==
  /\ proc[p].step = "apply"
  /\ proc[p].left = {}
  /\ Go(p, IF breakout THEN [proc[p] EXCEPT !.step = "wipe"] ELSE Idle)
  /\ UNCHANGED <<row, owed, broken>>

------------------------------------------------------------------------------
(* rebootSystem *)

Listed(c) == {m \in Module : c[m].there}

(* RestartRedis; then come the modules of the configuration.                *)
RestartRedisSparse(p) ==  \* mutant: passes over modules that are not set up
  /\ proc[p].step = "wipe"
  /\ row' = [m \in Module |-> NoRow]
  /\ broken' = Module
  /\ Go(p, [proc[p] EXCEPT !.step = "fill",
                           !.left = {m \in Listed(proc[p].cur) : proc[p].cur[m] # Blank}])
  /\ UNCHANGED owed
RestartRedis(p) ==
  /\ proc[p].step = "wipe"
  /\ row' = [m \in Module |-> NoRow]
  /\ broken' = Module
  /\ Go(p, [proc[p] EXCEPT !.step = "fill", !.left = Listed(proc[p].cur)])
  /\ UNCHANGED owed

(* SetEntry: HGETALL, HMSET of every field, HDEL of the fields that are not *)
(* in the new row, of which there are none: one step.                       *)
ConfigureTransport(p, m) ==
  /\ proc[p].step = "fill"
  /\ m \in proc[p].left
  /\ row' = [row EXCEPT ![m] = BootRow(m, proc[p].cur[m])]
  /\ Settle(m, OnDevice, proc[p].cur)
  /\ Go(p, [proc[p] EXCEPT !.left = @ \ {m}])
  /\ UNCHANGED broken

Booted(p) ==
  /\ proc[p].step = "fill"
  /\ proc[p].left = {}
  /\ Go(p, Idle)
  /\ broken' = IF proc[p].alone THEN Module \ Listed(proc[p].cur) ELSE broken
  /\ UNCHANGED <<row, owed>>

------------------------------------------------------------------------------
(* The command ends before its next step: redis does not answer a ping, an  *)
(* error of kubectl or git, a panic, a kill.                                *)
Kill(p) ==
  /\ Running(p)
  /\ Go(p, Idle)
  /\ UNCHANGED <<row, owed, broken>>

Start(p) ==
  \/ \E reboot \in BOOLEAN : Commit(p, reboot) \/ Rollback(p, reboot)
  \/ Reboot(p)

Advance(p) ==
  \/ ReadLog(p)
  \/ \E m \in Module :
       HandleOptDiff(p, m) \/ PanicOptDiff(p, m) \/ ConfigureTransport(p, m)
  \/ \E breakout \in BOOLEAN : ApplyDone(p, breakout)
  \/ RestartRedis(p) \/ Booted(p)

Next ==
  \/ \E m \in Operated : Edit(m)
  \/ \E m \in Requested : GnmiSet(m)
  \/ CommitDry
  \/ \E p \in Proc : Start(p) \/ Advance(p) \/ Kill(p)

Spec == Init /\ [][Next]_vars

------------------------------------------------------------------------------
TypeOK ==
  /\ file \in Config
  /\ head \in Config
  /\ prev \in Config \cup {Unset}
  /\ row \in [Module -> Row]
  /\ proc \in [Proc -> Process]
  /\ count \in Nat
  /\ owed \subseteq Module \X OnDevice
  /\ broken \subseteq Module

(* A field that is in the table holds what a reboot from HEAD would put     *)
(* there, except for the leaves that a commit has changed without coming to *)
(* write them (it ended, panicked, was a dry run, or took the module into   *)
(* the list or out of it) or over which a command that was overtaken, or    *)
(* booted what is not committed, has written another value.  So a half-done *)
(* commit harms nothing but what it was about, and the two translations     *)
(* agree.  (HandleOptDiff, transport.go:36, and ConfigureTransport,         *)
(* transport.go:335.)                                                       *)
StrayFieldsAreOwed ==
  \A m \in Module, l \in OnDevice :
    <<m, l>> \notin owed =>
      row[m][l] \in {Wanted(m, head)[l], Absent}

(* A row is complete and carries the number of its module, unless redis was *)
(* restarted and no reboot that nobody overlapped, with the module in its   *)
(* configuration, has come to its end since: only then a commit may have    *)
(* written some fields of a row that is not there.  (ModEntry, redis.go:146,*)
(* creates the row it writes to.)                                           *)
RowsComplete ==
  \A m \in Module \ broken : /\ \A f \in OnDevice : row[m][f] # Absent
                             /\ row[m]["index"] = m - 1

(* A reboot that comes to its end, and that nobody overlapped, leaves the   *)
(* table of the configuration it was given, whatever was there before.      *)
(* (ConfigureTransport, transport.go:341: the modules in random order.)     *)
Fills ==
  \A p \in Proc :
    Booted(p) /\ proc[p].alone =>
      row' = [m \in Module |-> Wanted(m, proc[p].cur)]
SolitaryRebootFills == [][Fills]_vars

(* A commit that comes to the end of its diff, and that nobody overlapped,  *)
(* has put on the device every leaf in which HEAD and its parent differed.  *)
(* (handleDiff, main.go:256, over HandleOptDiff.)                           *)
Delivers ==
  \A p \in Proc, breakout \in BOOLEAN :
    ApplyDone(p, breakout) /\ proc[p].alone =>
      \A x \in Differ(proc[p].base, proc[p].target) :
        row[x[1]][x[2]] = BootRow(x[1], proc[p].target[x[1]])[x[2]]
CommitDelivers == [][Delivers]_vars
===============================================================================
