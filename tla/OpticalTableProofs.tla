-------------------------- MODULE OpticalTableProofs --------------------------
(***************************************************************************)
(* What StrayFieldsAreOwed, RowsComplete and the two action properties     *)
(* rest on, for any modules, processes and number of commands.  IInv adds  *)
(* to them what a process that fills the table has put there already, and  *)
(* that it goes through modules of its configuration only (Filling), what one that applies a difference has (Applying), that of   *)
(* two running processes neither counts as alone (Exclusive), and that     *)
(* whoever is applying has a parent of HEAD to compare with (HasParent).   *)
(***************************************************************************)
EXTENDS OpticalTable, TLAPS

(* The leaves one by one: what each of them may hold. *)
LeafValues(l) ==
  CASE l = "grid" -> GridTypes
    [] l = "channel" -> 0..255
    [] l = "ber" -> Nat
    [] l = "modulation" -> Modulations
    [] l = "description" -> Texts
    [] OTHER -> BOOLEAN

LEMMA SetLeaf ==
  ASSUME NEW c \in Settings, NEW l \in Leaf,
         NEW v \in LeafValues(l) \cup {Unset}
  PROVE  [c EXCEPT ![l] = v] \in Settings /\ [c EXCEPT ![l] = v].there = c.there
<1>1. CASE l = "grid"
  BY <1>1 DEF LeafValues, Settings
<1>2. CASE l = "channel"
  BY <1>2 DEF LeafValues, Settings
<1>3. CASE l = "ber"
  BY <1>3 DEF LeafValues, Settings
<1>4. CASE l = "prbs"
  BY <1>4 DEF LeafValues, Settings
<1>5. CASE l = "losi"
  BY <1>5 DEF LeafValues, Settings
<1>6. CASE l = "enabled"
  BY <1>6 DEF LeafValues, Settings
<1>7. CASE l = "modulation"
  BY <1>7 DEF LeafValues, Settings
<1>8. CASE l = "allow"
  BY <1>8 DEF LeafValues, Settings
<1>9. CASE l = "description"
  BY <1>9 DEF LeafValues, Settings
<1> QED BY <1>1, <1>2, <1>3, <1>4, <1>5, <1>6, <1>7, <1>8, <1>9 DEF Leaf, OnDevice, Switches

LEMMA SetThere ==
  ASSUME NEW c \in Settings, NEW b \in BOOLEAN
  PROVE  [c EXCEPT !.there = b] \in Settings /\ [c EXCEPT !.there = b].there = b
BY DEF Settings

LEMMA BootRowType ==
  ASSUME NEW m \in Module, NEW c \in Settings
  PROVE  /\ BootRow(m, c) \in Row
         /\ \A l \in OnDevice : BootRow(m, c)[l] # Absent
         /\ BootRow(m, c)["index"] = m - 1
<1>1. Filled(c, "grid") \in GridTypes
  BY UnsetAssumption DEF Filled, Settings, Defaults, GridTypes
<1>2. /\ Filled(c, "channel") \in 0..255
      /\ Filled(c, "ber") \in Nat
  BY UnsetAssumption DEF Filled, Settings, Defaults
<1>3. BootRow(m, c) \in Row
  BY <1>1, <1>2, InventoryAssumption DEF BootRow, Row, GridTypeToInt, OnOff
<1> QED BY <1>1, <1>2, <1>3, AbsentAssumption, InventoryAssumption
        DEF BootRow, OnDevice, Switches, GridTypeToInt, OnOff

(* What a configuration says of a module, and wants of its row. *)
LEMMA ConfigType ==
  ASSUME NEW c \in Config, NEW m \in Module
  PROVE  /\ c[m] \in Settings
         /\ \A l \in OnDevice : c[m][l] # Unset => c[m].there
         /\ c[m].there => Wanted(m, c) = BootRow(m, c[m])
         /\ ~c[m].there => Wanted(m, c) = NoRow
<1>1. c[m] \in Settings /\ (c[m].there \/ c[m] = NoEntry)
  BY DEF Config
<1>2. \A l \in OnDevice : NoEntry[l] = Unset
  BY DEF NoEntry, Blank, OnDevice, Switches
<1> QED BY <1>1, <1>2 DEF Wanted

(* Where two configurations do not differ they want the same. *)
LEMMA SameWanted ==
  ASSUME NEW c, NEW d, NEW m \in Module, NEW l \in OnDevice,
         <<m, l>> \notin Changed(c, d)
  PROVE  /\ c[m][l] = d[m][l] /\ c[m].there = d[m].there
         /\ Wanted(m, c)[l] = Wanted(m, d)[l]
<1>1. c[m][l] = d[m][l] /\ c[m].there = d[m].there
  BY DEF Changed, Differ
<1>2. BootRow(m, c[m])[l] = BootRow(m, d[m])[l]
  BY <1>1 DEF BootRow, Filled, OnDevice, Switches
<1> QED BY <1>1, <1>2 DEF Wanted

LEMMA FieldsAgree ==
  ASSUME NEW m \in Module, NEW c \in Settings, NEW l \in OnDevice,
         c[l] # Unset
  PROVE  DiffField(l, c[l]) = BootRow(m, c)[l]
<1>1. CASE l = "grid"
  <2>1. /\ c["grid"] \in GridTypes
        /\ Filled(c, "grid") = c["grid"]
    BY <1>1 DEF Settings, Filled
  <2>2. DiffGrid(c["grid"]) = GridTypeToInt(c["grid"])
    BY <2>1 DEF DiffGrid, GridTypeToInt, GridTypes
  <2>3. BootRow(m, c)[l] = GridTypeToInt(c["grid"])
    BY <1>1, <2>1 DEF BootRow
  <2>4. DiffField(l, c[l]) = DiffGrid(c["grid"])
    BY <1>1 DEF DiffField, Switches
  <2> QED BY <2>2, <2>3, <2>4
<1>2. CASE l \in Switches
  BY <1>2 DEF Settings, DiffField, BootRow, Filled, Switches
<1>3. CASE l = "modulation"
  <2>1. /\ c["modulation"] \in Modulations
        /\ Filled(c, "modulation") = c["modulation"]
    BY <1>3 DEF Settings, Filled
  <2>2. DiffField(l, c[l]) = DiffModulation(c["modulation"])
    BY <1>3 DEF DiffField, Switches
  <2> QED BY <1>3, <2>1, <2>2 DEF BootRow, DiffModulation, Modulations
<1>4. CASE l \in {"channel", "ber"}
  BY <1>4 DEF Settings, DiffField, BootRow, Filled, Switches
<1> QED BY <1>1, <1>2, <1>3, <1>4 DEF OnDevice

LEMMA PatchType ==
  ASSUME NEW r \in Row, NEW m \in Module, NEW c \in Settings,
         NEW T \in SUBSET OnDevice, \A l \in T : c[l] # Unset
  PROVE  [f \in DOMAIN r |-> IF f \in T THEN DiffField(f, c[f]) ELSE r[f]]
           \in Row
<1> DEFINE s == [f \in DOMAIN r |-> IF f \in T THEN DiffField(f, c[f]) ELSE r[f]]
<1>1. \A f \in T : DiffField(f, c[f]) = BootRow(m, c)[f]
  BY FieldsAgree
<1>2. BootRow(m, c) \in Row
  BY BootRowType
<1>3. \A f \in DOMAIN r : s[f] \in {r[f], BootRow(m, c)[f]}
  BY <1>1
<1> DEFINE b == BootRow(m, c)
<1>4. /\ DOMAIN s = DOMAIN r
      /\ \A f \in DOMAIN r : s[f] \in {r[f], b[f]}
  BY <1>3
<1>5. b \in Row
  BY <1>2
<1> HIDE DEF s, b
<1>6. DOMAIN r = {"index", "grid", "channel", "ber", "prbs", "losi", "enabled", "modulation"}
  BY DEF Row
<1>7. /\ s["index"] \in (0..7) \cup {Absent}
      /\ s["grid"] \in {100, 50, 33, 25} \cup {Absent}
      /\ s["channel"] \in (0..255) \cup {Absent}
      /\ s["ber"] \in Nat \cup {Absent}
  BY <1>4, <1>5, <1>6 DEF Row
<1>8. /\ s["prbs"] \in {"on", "off", Absent}
      /\ s["losi"] \in {"on", "off", Absent}
      /\ s["enabled"] \in {"on", "off", Absent}
      /\ s["modulation"] \in {"dp-qpsk", "dp-16qam", Absent}
  BY <1>4, <1>5, <1>6 DEF Row
<1>9. s = [index |-> s["index"], grid |-> s["grid"], channel |-> s["channel"],
           ber |-> s["ber"], prbs |-> s["prbs"], losi |-> s["losi"],
           enabled |-> s["enabled"], modulation |-> s["modulation"]]
  <2>1. s = [f \in DOMAIN r |-> s[f]]
    BY <1>4 DEF s
  <2> QED BY <1>6, <2>1
<1>10. s \in Row
  BY <1>7, <1>8, <1>9 DEF Row
<1> QED BY <1>10 DEF s

------------------------------------------------------------------------------
(* The inductive invariant *)

(* repo.Log finds a parent. *)
HasParent == (\E p \in Proc : proc[p].step = "log") => prev # Unset

(* A command that nobody overlaps is the only one there is. *)
Exclusive ==
  \A p \in Proc : proc[p].alone => Running(p) /\ \A q \in Proc \ {p} : ~Running(q)

(* What a solitary reboot has come to, what a solitary commit has come to. *)
Filling(p) ==
  proc[p].step = "fill" =>
    /\ proc[p].left \subseteq Listed(proc[p].cur)
    /\ proc[p].alone =>
         \A m \in Module \ proc[p].left : row[m] = Wanted(m, proc[p].cur)
Applying(p) ==
  proc[p].step = "apply" /\ proc[p].alone =>
    \A m \in Module \ proc[p].left : \A l \in Tasks(p, m) :
      row[m][l] = BootRow(m, proc[p].target[m])[l]

IInv ==
  /\ TypeOK
  /\ StrayFieldsAreOwed
  /\ RowsComplete
  /\ HasParent
  /\ Exclusive
  /\ \A p \in Proc : Filling(p) /\ Applying(p)

LEMMA DefaultType ==
  Default \in Config /\ \A m \in Module : Default[m].there
<1>1. Blank \in Settings /\ Blank.there
  BY DEF Blank, Settings
<1> QED BY <1>1 DEF Default, Config

LEMMA IdleType ==
  Idle \in Process /\ Idle.step = "idle" /\ Idle.alone = FALSE
<1>1. Default \in Config
  BY DefaultType
<1> QED BY <1>1 DEF Idle, Process

LEMMA InitIInv == Init => IInv
<1> SUFFICES ASSUME Init PROVE IInv
  OBVIOUS
<1>1. Default \in Config
  BY DefaultType
<1>2. \A m \in Module : /\ Default[m] \in Settings
                        /\ BootRow(m, Default[m]) \in Row
                        /\ \A l \in OnDevice : BootRow(m, Default[m])[l] # Absent
                        /\ BootRow(m, Default[m])["index"] = m - 1
  BY <1>1, ConfigType, BootRowType
<1>8. \A m \in Module : Wanted(m, Default) = BootRow(m, Default[m])
  BY DefaultType DEF Wanted
<1>3. Idle \in Process /\ Idle.step = "idle" /\ Idle.alone = FALSE
  BY IdleType
<1>4. TypeOK
  BY <1>1, <1>2, <1>3 DEF Init, TypeOK
<1>5. StrayFieldsAreOwed
  BY <1>2, <1>8 DEF Init, StrayFieldsAreOwed
<1>6. RowsComplete
  BY <1>2 DEF Init, RowsComplete
<1>7. HasParent /\ Exclusive /\ \A p \in Proc : Filling(p) /\ Applying(p)
  BY <1>3 DEF Init, HasParent, Exclusive, Filling, Applying, Running
<1> QED BY <1>4, <1>5, <1>6, <1>7 DEF IInv

------------------------------------------------------------------------------
(* Edits *)

LEMMA EditSets ==
  ASSUME NEW m \in Module, Edit(m)
  PROVE  \E l \in Leaf : \E v \in LeafValues(l) \cup {Unset} : Set(m, l, v)
<1>1. /\ LeafValues("grid") = GridTypes
      /\ LeafValues("channel") = 0..255
      /\ LeafValues("ber") = Nat
      /\ LeafValues("modulation") = Modulations
      /\ LeafValues("description") = Texts
      /\ \A l \in Switches \cup {"allow"} : LeafValues(l) = BOOLEAN
  BY DEF LeafValues, Switches
<1>2. Switches \cup {"grid", "channel", "ber", "modulation", "description", "allow"}
        \subseteq Leaf
  BY DEF Leaf, OnDevice
<1>3. CASE Grid(m)
  BY <1>1, <1>2, <1>3, InventoryAssumption DEF Grid
<1>4. CASE ChannelCmd(m)
  <2>1. Channels \subseteq 0..255
    BY InventoryAssumption
  <2> QED BY <1>1, <1>2, <1>4, <2>1 DEF ChannelCmd
<1>5. CASE BerInterval(m)
  <2>1. Intervals \subseteq Nat
    BY InventoryAssumption
  <2> QED BY <1>1, <1>2, <1>5, <2>1 DEF BerInterval
<1>6. CASE Enable(m) \/ Disable(m) \/ Prbs(m) \/ Losi(m)
  <2>1. TRUE \in BOOLEAN /\ FALSE \in BOOLEAN
    OBVIOUS
  <2>2. PICK l \in Switches, v \in BOOLEAN : Set(m, l, v)
    BY <1>6, <2>1 DEF Enable, Disable, Prbs, Losi, Switches
  <2>3. l \in Leaf /\ v \in LeafValues(l) \cup {Unset}
    BY <1>1, <1>2, <2>2
  <2> QED BY <2>2, <2>3
<1>7. CASE ModulationType(m)
  BY <1>1, <1>2, <1>7 DEF ModulationType
<1>8. CASE AllowOversubscription(m) \/ ClearAllowOversubscription(m)
  BY <1>1, <1>2, <1>8 DEF AllowOversubscription, ClearAllowOversubscription
<1>9. CASE Description(m) \/ ClearDescription(m)
  BY <1>1, <1>2, <1>9 DEF Description, ClearDescription
<1> QED BY <1>3, <1>4, <1>5, <1>6, <1>7, <1>8, <1>9 DEF Edit

(* What reads neither the file nor the count stays as it is. *)
LEMMA DeviceUnchanged ==
  ASSUME IInv, UNCHANGED <<head, prev, row, proc, owed, broken>>
  PROVE  /\ StrayFieldsAreOwed' /\ RowsComplete' /\ HasParent' /\ Exclusive'
         /\ \A p \in Proc : Filling(p)' /\ Applying(p)'
BY DEF IInv, StrayFieldsAreOwed, RowsComplete, HasParent, Exclusive, Filling,
       Applying, Running, Tasks

LEMMA PutIInv ==
  ASSUME IInv, NEW m \in Module, NEW entry \in Settings,
         entry.there \/ entry = NoEntry, Put(m, entry)
  PROVE  IInv'
<1>1. /\ file' = [file EXCEPT ![m] = entry] /\ file \in Config
      /\ UNCHANGED <<head, prev, row, proc, owed, broken>>
  BY DEF Put, IInv, TypeOK
<1>2. file' \in Config
  <2>1. \A k \in Module : file'[k] = IF k = m THEN entry ELSE file[k]
    BY <1>1 DEF Config
  <2>2. file' \in [Module -> Settings]
    BY <1>1 DEF Config
  <2>3. \A k \in Module : file'[k].there \/ file'[k] = NoEntry
    BY <1>1, <2>1 DEF Config
  <2> QED BY <2>2, <2>3 DEF Config
<1>3. TypeOK'
  BY <1>1, <1>2 DEF Put, Count, IInv, TypeOK
<1> QED BY <1>1, <1>3, DeviceUnchanged DEF IInv

LEMMA EditIInv ==
  ASSUME IInv, NEW m \in Module, Edit(m)
  PROVE  IInv'
<1>0. PICK l \in Leaf : \E v \in LeafValues(l) \cup {Unset} : Set(m, l, v)
  BY EditSets
<1>1. PICK v \in LeafValues(l) \cup {Unset} : Set(m, l, v)
  BY <1>0
<1> DEFINE entry == [file[m] EXCEPT ![l] = v]
<1>2. entry \in Settings /\ entry.there = file[m].there
  BY ConfigType, SetLeaf DEF IInv, TypeOK
<1>3. file[m].there /\ Put(m, entry)
  BY <1>1 DEF Set
<1> HIDE DEF entry
<1> QED BY <1>2, <1>3, PutIInv

LEMMA GnmiSetIInv ==
  ASSUME IInv, NEW m \in Module, GnmiSet(m)
  PROVE  IInv'
<1>0. file[m] \in Settings
  BY ConfigType DEF IInv, TypeOK
<1>1. CASE \E l \in Leaf : Set(m, l, Unset)
  <2>1. PICK l \in Leaf : Set(m, l, Unset)
    BY <1>1
  <2> DEFINE entry == [file[m] EXCEPT ![l] = Unset]
  <2>2. entry \in Settings /\ entry.there = file[m].there
    BY <1>0, SetLeaf
  <2>3. file[m].there /\ Put(m, entry)
    BY <2>1 DEF Set
  <2> HIDE DEF entry
  <2> QED BY <2>2, <2>3, PutIInv
<1>2. CASE \E l \in {"channel", "ber"} : Put(m, [file[m] EXCEPT ![l] = 0, !.there = TRUE])
  <2>1. PICK l \in {"channel", "ber"} : Put(m, [file[m] EXCEPT ![l] = 0, !.there = TRUE])
    BY <1>2
  <2> DEFINE entry == [file[m] EXCEPT ![l] = 0, !.there = TRUE]
  <2>2. entry \in Settings /\ entry.there
    <3> DEFINE c == [file[m] EXCEPT ![l] = 0]
    <3>1. c \in Settings
      <4>1. l \in Leaf
        BY DEF Leaf, OnDevice
      <4>2. LeafValues("channel") = 0..255 /\ LeafValues("ber") = Nat
        BY DEF LeafValues
      <4>3. 0 \in LeafValues(l) \cup {Unset}
        BY <4>2
      <4> HIDE DEF c
      <4> QED BY <1>0, <4>1, <4>3, SetLeaf DEF c
    <3>2. entry = [c EXCEPT !.there = TRUE]
      OBVIOUS
    <3> HIDE DEF c, entry
    <3>3. \A b \in BOOLEAN :
            [c EXCEPT !.there = b] \in Settings /\ [c EXCEPT !.there = b].there = b
      BY <3>1, SetThere
    <3> QED BY <3>2, <3>3, Zenon
  <2>3. Put(m, entry)
    BY <2>1
  <2> HIDE DEF entry
  <2> QED BY <2>2, <2>3, PutIInv
<1>3. CASE \E entry \in {NoEntry, Blank} : Put(m, entry)
  <2>1. NoEntry \in Settings /\ Blank \in Settings /\ Blank.there
    BY DEF NoEntry, Blank, Settings
  <2>2. CASE Put(m, NoEntry)
    BY <2>1, <2>2, PutIInv
  <2>3. CASE Put(m, Blank)
    BY <2>1, <2>3, PutIInv
  <2> QED BY <1>3, <2>2, <2>3
<1> QED BY <1>1, <1>2, <1>3 DEF GnmiSet

------------------------------------------------------------------------------
(* Commands enter *)

LEMMA EnterKeeps ==
  ASSUME IInv, NEW p \in Proc, NEW next \in Process, Enter(p, next),
         next.step \in {"log", "wipe"}, next.step = "log" => prev' # Unset,
         prev' # Unset \/ prev' = prev
  PROVE  /\ proc' \in [Proc -> Process]
         /\ count' \in Nat
         /\ HasParent' /\ Exclusive'
         /\ \A q \in Proc : Filling(q)' /\ Applying(q)'
<1>1. /\ proc \in [Proc -> Process] /\ count \in Nat
      /\ ~Running(p)
      /\ proc' = [q \in Proc |->
                    IF q = p THEN [next EXCEPT !.alone = Others(p) = {}]
                    ELSE [proc[q] EXCEPT !.alone = FALSE]]
      /\ count' = count + 1
  BY DEF IInv, TypeOK, Enter, Count
<1>2. /\ proc'[p] \in Process /\ proc'[p].step = next.step
      /\ proc'[p].alone = (Others(p) = {})
  BY <1>1 DEF Process
<1>3. \A q \in Proc \ {p} : /\ proc'[q] \in Process
                            /\ proc'[q].step = proc[q].step
                            /\ proc'[q].alone = FALSE
                            /\ proc'[q].left = proc[q].left
                            /\ proc'[q].cur = proc[q].cur
  BY <1>1 DEF Process
<1>4. proc' \in [Proc -> Process]
  BY <1>1, <1>2, <1>3
<1>5. HasParent'
  BY <1>2, <1>3 DEF HasParent, IInv
<1>6. Exclusive'
  BY <1>2, <1>3 DEF Exclusive, Running, Others
<1>7. \A q \in Proc : Filling(q)' /\ Applying(q)'
  BY <1>2, <1>3 DEF IInv, Filling, Applying, Listed
<1> QED BY <1>1, <1>4, <1>5, <1>6, <1>7

(* A leaf that changes in HEAD is owed. *)
LEMMA HeadChanges ==
  ASSUME IInv, NEW c \in Config, head' = c, row' = row,
         owed' = owed \cup Changed(head, c)
  PROVE  StrayFieldsAreOwed' /\ owed' \subseteq Module \X OnDevice
<1> SUFFICES ASSUME NEW m \in Module, NEW l \in OnDevice, <<m, l>> \notin owed'
             PROVE  row[m][l] \in {Wanted(m, c)[l], Absent}
  BY DEF StrayFieldsAreOwed, IInv, TypeOK, Changed, Differ
<1>1. <<m, l>> \notin Changed(head, c) /\ <<m, l>> \notin owed
  OBVIOUS
<1>2. Wanted(m, c)[l] = Wanted(m, head)[l]
  BY <1>1, SameWanted
<1> QED BY <1>1, <1>2 DEF IInv, StrayFieldsAreOwed

LEMMA CommittedIInv ==
  ASSUME IInv, NEW p \in Proc, NEW c \in Config, NEW reboot \in BOOLEAN,
         Committed(p, c, reboot)
  PROVE  IInv'
<1> DEFINE next == [Idle EXCEPT !.step = "log", !.cur = c, !.reboot = reboot]
<1>1. next \in Process /\ next.step = "log"
  BY IdleType DEF Process
<1>2. head \in Config /\ head # Unset
  BY UnsetAssumption DEF IInv, TypeOK, Config
<1>3. Enter(p, next) /\ prev' = head /\ head' = c /\ file' = c
  BY DEF Committed
<1> HIDE DEF next
<1>4. /\ proc' \in [Proc -> Process] /\ count' \in Nat
      /\ HasParent' /\ Exclusive' /\ \A q \in Proc : Filling(q)' /\ Applying(q)'
  BY <1>1, <1>2, <1>3, EnterKeeps
<1>5. StrayFieldsAreOwed' /\ owed' \subseteq Module \X OnDevice
  BY HeadChanges DEF Committed
<1>6. TypeOK'
  BY <1>2, <1>3, <1>4, <1>5 DEF Committed, IInv, TypeOK
<1>7. RowsComplete'
  BY DEF Committed, IInv, RowsComplete
<1> QED BY <1>4, <1>5, <1>6, <1>7 DEF IInv

LEMMA CommitDryIInv ==
  ASSUME IInv, CommitDry
  PROVE  IInv'
<1>1. head \in Config /\ file \in Config /\ head # Unset
  BY UnsetAssumption DEF IInv, TypeOK, Config
<1>2. StrayFieldsAreOwed' /\ owed' \subseteq Module \X OnDevice
  BY <1>1, HeadChanges DEF CommitDry
<1>3. TypeOK'
  BY <1>1, <1>2 DEF CommitDry, Count, IInv, TypeOK
<1>4. RowsComplete' /\ HasParent' /\ Exclusive'
  BY <1>1 DEF CommitDry, IInv, RowsComplete, HasParent, Exclusive, Running
<1>5. \A p \in Proc : Filling(p)' /\ Applying(p)'
  BY DEF CommitDry, IInv, Filling, Applying, Tasks
<1> QED BY <1>2, <1>3, <1>4, <1>5 DEF IInv

LEMMA RebootIInv ==
  ASSUME IInv, NEW p \in Proc, Reboot(p)
  PROVE  IInv'
<1> DEFINE next == [Idle EXCEPT !.step = "wipe", !.cur = file]
<1>1. next \in Process /\ next.step = "wipe"
  BY IdleType DEF Process, IInv, TypeOK
<1>2. Enter(p, next) /\ UNCHANGED <<file, head, prev, row, owed, broken>>
  BY DEF Reboot
<1> HIDE DEF next
<1>3. /\ proc' \in [Proc -> Process] /\ count' \in Nat
      /\ HasParent' /\ Exclusive' /\ \A q \in Proc : Filling(q)' /\ Applying(q)'
  BY <1>1, <1>2, EnterKeeps
<1> QED BY <1>2, <1>3 DEF IInv, TypeOK, StrayFieldsAreOwed, RowsComplete

LEMMA StartIInv ==
  ASSUME IInv, NEW p \in Proc, Start(p)
  PROVE  IInv'
<1>1. file \in Config /\ (prev # Unset => prev \in Config)
  BY DEF IInv, TypeOK
<1>2. CASE \E reboot \in BOOLEAN : Commit(p, reboot)
  BY <1>1, <1>2, CommittedIInv DEF Commit
<1>3. CASE \E reboot \in BOOLEAN : Rollback(p, reboot)
  BY <1>1, <1>3, CommittedIInv DEF Rollback
<1>4. CASE Reboot(p)
  BY <1>4, RebootIInv
<1> QED BY <1>2, <1>3, <1>4 DEF Start

------------------------------------------------------------------------------
(* Steps of a command *)

(* A step of one command, as far as the others are concerned. *)
LEMMA GoKeeps ==
  ASSUME IInv, NEW p \in Proc, Running(p), NEW next \in Process, Go(p, next),
         next.step # "log", next.alone => proc[p].alone /\ next.step # "idle"
  PROVE  /\ proc' \in [Proc -> Process] /\ proc'[p] = next
         /\ file' \in Config /\ head' \in Config
         /\ prev' \in Config \cup {Unset} /\ count' \in Nat
         /\ HasParent' /\ Exclusive'
         /\ \A q \in Proc \ {p} : Filling(q)' /\ Applying(q)'
<1>1. /\ proc \in [Proc -> Process]
      /\ proc' = [proc EXCEPT ![p] = next]
      /\ UNCHANGED <<file, head, prev, count>>
  BY DEF IInv, TypeOK, Go
<1>2. \A q \in Proc \ {p} : proc'[q] = proc[q] /\ ~proc[q].alone
  BY <1>1 DEF IInv, Exclusive
<1>3. HasParent'
  BY <1>1, <1>2 DEF IInv, HasParent
<1>4. Exclusive'
  BY <1>1, <1>2 DEF IInv, Exclusive, Running
<1>5. \A q \in Proc \ {p} : Filling(q)' /\ Applying(q)'
  BY <1>2 DEF IInv, Filling, Applying
<1> QED BY <1>1, <1>3, <1>4, <1>5 DEF IInv, TypeOK

LEMMA ReadLogIInv ==
  ASSUME IInv, NEW p \in Proc, ReadLog(p)
  PROVE  IInv'
<1> DEFINE next == [proc[p] EXCEPT
                      !.step = IF proc[p].reboot THEN "wipe" ELSE "apply",
                      !.base = prev, !.target = head,
                      !.left = {m \in Module : prev[m] # head[m]}]
<1>1. /\ proc[p] \in Process /\ proc[p].step = "log"
      /\ head \in Config /\ prev \in Config
  BY DEF ReadLog, IInv, TypeOK, HasParent
<1>2. /\ next \in Process /\ next.step \in {"wipe", "apply"}
      /\ next.alone = proc[p].alone /\ next.base = prev /\ next.target = head
      /\ next.left = {m \in Module : prev[m] # head[m]}
  BY <1>1 DEF Process
<1>3. Running(p) /\ Go(p, next) /\ UNCHANGED <<row, owed, broken>>
  BY <1>1 DEF ReadLog, Running
<1> HIDE DEF next
<1>4. /\ proc' \in [Proc -> Process] /\ proc'[p] = next
      /\ file' \in Config /\ head' \in Config
      /\ prev' \in Config \cup {Unset} /\ count' \in Nat
      /\ HasParent' /\ Exclusive'
      /\ \A q \in Proc \ {p} : Filling(q)' /\ Applying(q)'
  BY <1>2, <1>3, GoKeeps
<1>5. Filling(p)' /\ Applying(p)'
  <2>1. \A m \in Module \ next.left : Tasks(p, m)' = {}
    BY <1>2, <1>4 DEF Tasks
  <2> QED BY <1>2, <1>4, <2>1 DEF Filling, Applying
<1>6. head' = head
  BY <1>3 DEF Go
<1> QED BY <1>3, <1>4, <1>5, <1>6 DEF IInv, TypeOK, StrayFieldsAreOwed, RowsComplete

(* A command that comes to its end, whichever way. *)
LEMMA EndIInv ==
  ASSUME IInv, NEW p \in Proc, Running(p), Go(p, Idle),
         UNCHANGED <<row, owed, broken>>
  PROVE  IInv'
<1>1. Idle \in Process /\ Idle.step = "idle" /\ Idle.alone = FALSE
  BY IdleType
<1>2. /\ proc' \in [Proc -> Process] /\ proc'[p] = Idle
      /\ file' \in Config /\ head' \in Config
      /\ prev' \in Config \cup {Unset} /\ count' \in Nat
      /\ HasParent' /\ Exclusive'
      /\ \A q \in Proc \ {p} : Filling(q)' /\ Applying(q)'
  BY <1>1, GoKeeps
<1>3. Filling(p)' /\ Applying(p)'
  BY <1>1, <1>2 DEF Filling, Applying
<1>4. head' = head
  BY DEF Go
<1> QED BY <1>2, <1>3, <1>4 DEF IInv, TypeOK, StrayFieldsAreOwed, RowsComplete

(* Values of c are written to the leaves T of module m: they agree with     *)
(* HEAD, or they are owed.                                                  *)
LEMMA SettleKeeps ==
  ASSUME IInv, NEW m \in Module, NEW T \in SUBSET OnDevice, NEW c \in Config,
         Settle(m, T, c), head' = head, T = {} \/ c[m].there,
         \A k \in Module \ {m} : row'[k] = row[k],
         \A l \in OnDevice : row'[m][l] = IF l \in T THEN BootRow(m, c[m])[l]
                                          ELSE row[m][l]
  PROVE  StrayFieldsAreOwed' /\ owed' \subseteq Module \X OnDevice
<1>1. owed' \subseteq Module \X OnDevice
  <2>1. owed \subseteq Module \X OnDevice
    BY DEF IInv, TypeOK
  <2> DEFINE S == {l \in T : <<m, l>> \in Changed(c, head)}
  <2>2. owed' = {x \in owed : x[1] # m \/ x[2] \notin T} \cup {<<m, l>> : l \in S}
    BY DEF Settle
  <2>3. S \subseteq OnDevice
    OBVIOUS
  <2> HIDE DEF S
  <2>4. {<<m, l>> : l \in S} \subseteq Module \X OnDevice
    BY <2>3
  <2> QED BY <2>1, <2>2, <2>4
<1>2. ASSUME NEW k \in Module, NEW l \in OnDevice, <<k, l>> \notin owed'
      PROVE  row'[k][l] \in {Wanted(k, head)[l], Absent}
  <2>1. CASE k = m /\ l \in T
    <3>1. <<m, l>> \notin Changed(c, head)
      BY <1>2, <2>1 DEF Settle
    <3>2. Wanted(m, c)[l] = Wanted(m, head)[l]
      BY <3>1, SameWanted
    <3>3. Wanted(m, c) = BootRow(m, c[m])
      BY <2>1 DEF Wanted
    <3> QED BY <2>1, <3>2, <3>3
  <2>2. CASE ~(k = m /\ l \in T)
    <3>1. <<k, l>> \notin owed
      BY <1>2, <2>2 DEF Settle
    <3>2. row'[k][l] = row[k][l]
      BY <2>2
    <3> QED BY <3>1, <3>2 DEF IInv, StrayFieldsAreOwed
  <2> QED BY <2>1, <2>2
<1> QED BY <1>1, <1>2 DEF StrayFieldsAreOwed

LEMMA HandleOptDiffIInv ==
  ASSUME IInv, NEW p \in Proc, NEW m \in Module, HandleOptDiff(p, m)
  PROVE  IInv'
<1> DEFINE next == [proc[p] EXCEPT !.left = @ \ {m}]
           T == Tasks(p, m)
           c == proc[p].target
<1>1. /\ proc[p] \in Process /\ proc[p].step = "apply" /\ m \in proc[p].left
      /\ c \in Config /\ T \in SUBSET OnDevice
      /\ \A l \in T : c[m][l] # Unset
      /\ row \in [Module -> Row]
  BY DEF HandleOptDiff, IInv, TypeOK, Process, Tasks
<1>0. c[m] \in Settings /\ (T = {} \/ c[m].there)
  BY <1>1, ConfigType
<1>2. /\ next \in Process /\ next.step = "apply"
      /\ next.alone = proc[p].alone /\ next.left = proc[p].left \ {m}
      /\ next.base = proc[p].base /\ next.target = c
  BY <1>1 DEF Process
<1> DEFINE r == [f \in DOMAIN row[m] |->
                   IF f \in T THEN DiffField(f, c[m][f]) ELSE row[m][f]]
<1>3. /\ Running(p) /\ Go(p, next) /\ broken' = broken
      /\ row' = [row EXCEPT ![m] = r] /\ Settle(m, T, c) /\ head' = head
  BY <1>1 DEF HandleOptDiff, Running, Go
<1>4. /\ \A l \in T : DiffField(l, c[m][l]) = BootRow(m, c[m])[l]
      /\ BootRow(m, c[m]) \in Row
      /\ \A l \in OnDevice : BootRow(m, c[m])[l] # Absent
  BY <1>0, <1>1, FieldsAgree, BootRowType
<1>5. /\ r \in Row
      /\ \A l \in OnDevice : r[l] = IF l \in T THEN BootRow(m, c[m])[l]
                                    ELSE row[m][l]
      /\ r["index"] = row[m]["index"]
  <2>1. r \in Row
    BY <1>0, <1>1, PatchType
  <2>2. OnDevice \cup {"index"} \subseteq DOMAIN row[m] /\ "index" \notin T
    BY <1>1 DEF Row, OnDevice, Switches
  <2> QED BY <2>1, <2>2, <1>4
<1>6. /\ row' \in [Module -> Row] /\ row'[m] = r
      /\ \A k \in Module \ {m} : row'[k] = row[k]
  BY <1>1, <1>3, <1>5
<1>7. Tasks(p, m) = T /\ \A k \in Module : Tasks(p, k) \subseteq OnDevice
  BY DEF Tasks
<1> HIDE DEF next, r
<1>8. /\ proc' \in [Proc -> Process] /\ proc'[p] = next
      /\ file' \in Config /\ head' \in Config
      /\ prev' \in Config \cup {Unset} /\ count' \in Nat
      /\ HasParent' /\ Exclusive'
      /\ \A q \in Proc \ {p} : Filling(q)' /\ Applying(q)'
  BY <1>2, <1>3, GoKeeps
<1>9. StrayFieldsAreOwed' /\ owed' \subseteq Module \X OnDevice
  <2>1. \A l \in OnDevice : row'[m][l] = IF l \in T THEN BootRow(m, c[m])[l]
                                         ELSE row[m][l]
    BY <1>5, <1>6
  <2>2. c \in Config /\ T \in SUBSET OnDevice
    BY <1>1
  <2> HIDE DEF T, c
  <2> QED BY <1>0, <1>3, <1>6, <2>1, <2>2, SettleKeeps
<1>10. RowsComplete'
  BY <1>3, <1>4, <1>5, <1>6 DEF IInv, RowsComplete
<1>11. Filling(p)' /\ Applying(p)'
  <2>1. \A k \in Module : Tasks(p, k)' = Tasks(p, k)
    BY <1>2, <1>8 DEF Tasks
  <2>2. ASSUME proc[p].alone, NEW k \in Module \ next.left, NEW l \in Tasks(p, k)
        PROVE  row'[k][l] = BootRow(k, c[k])[l]
    <3>1. CASE k = m
      BY <1>5, <1>6, <1>7, <2>2, <3>1
    <3>2. CASE k # m
      BY <1>1, <1>2, <1>6, <2>2, <3>2 DEF IInv, Applying
    <3> QED BY <3>1, <3>2
  <2> QED BY <1>2, <1>8, <2>1, <2>2 DEF Filling, Applying
<1> QED BY <1>3, <1>6, <1>8, <1>9, <1>10, <1>11 DEF IInv, TypeOK

LEMMA WipeNext ==
  ASSUME IInv, NEW p \in Proc, proc[p].step = "apply",
         Go(p, [proc[p] EXCEPT !.step = "wipe"]), UNCHANGED <<row, owed, broken>>
  PROVE  IInv'
<1> DEFINE next == [proc[p] EXCEPT !.step = "wipe"]
<1>1. /\ next \in Process /\ next.step = "wipe" /\ next.alone = proc[p].alone
      /\ Running(p) /\ Go(p, next) /\ head' = head
  BY DEF IInv, TypeOK, Process, Running, Go
<1> HIDE DEF next
<1>2. /\ proc' \in [Proc -> Process] /\ proc'[p] = next
      /\ file' \in Config /\ head' \in Config
      /\ prev' \in Config \cup {Unset} /\ count' \in Nat
      /\ HasParent' /\ Exclusive'
      /\ \A q \in Proc \ {p} : Filling(q)' /\ Applying(q)'
  BY <1>1, GoKeeps
<1>3. Filling(p)' /\ Applying(p)'
  BY <1>1, <1>2 DEF Filling, Applying
<1> QED BY <1>1, <1>2, <1>3 DEF IInv, TypeOK, StrayFieldsAreOwed, RowsComplete

LEMMA ApplyDoneIInv ==
  ASSUME IInv, NEW p \in Proc, NEW breakout \in BOOLEAN, ApplyDone(p, breakout)
  PROVE  IInv'
<1>1. CASE breakout
  BY <1>1, WipeNext DEF ApplyDone
<1>2. CASE ~breakout
  BY <1>2, EndIInv DEF ApplyDone, Running
<1> QED BY <1>1, <1>2

LEMMA RestartRedisIInv ==
  ASSUME IInv, NEW p \in Proc, RestartRedis(p)
  PROVE  IInv'
<1> DEFINE next == [proc[p] EXCEPT !.step = "fill", !.left = Listed(proc[p].cur)]
<1>1. /\ next \in Process /\ next.step = "fill" /\ next.alone = proc[p].alone
      /\ next.left = Listed(next.cur)
      /\ Running(p) /\ Go(p, next) /\ head' = head
      /\ row' = [m \in Module |-> NoRow] /\ broken' = Module /\ owed' = owed
  BY DEF RestartRedis, IInv, TypeOK, Process, Running, Go, Listed
<1> HIDE DEF next
<1>2. /\ proc' \in [Proc -> Process] /\ proc'[p] = next
      /\ file' \in Config /\ head' \in Config
      /\ prev' \in Config \cup {Unset} /\ count' \in Nat
      /\ HasParent' /\ Exclusive'
      /\ \A q \in Proc \ {p} : Filling(q)' /\ Applying(q)'
  BY <1>1, GoKeeps
<1>3. Filling(p)' /\ Applying(p)'
  BY <1>1, <1>2 DEF Filling, Applying, Listed, Wanted
<1>4. NoRow \in Row /\ \A l \in OnDevice : NoRow[l] = Absent
  BY DEF NoRow, Row, OnDevice, Switches
<1> QED BY <1>1, <1>2, <1>3, <1>4 DEF IInv, TypeOK, StrayFieldsAreOwed, RowsComplete

LEMMA ConfigureTransportIInv ==
  ASSUME IInv, NEW p \in Proc, NEW m \in Module, ConfigureTransport(p, m)
  PROVE  IInv'
<1> DEFINE next == [proc[p] EXCEPT !.left = @ \ {m}]
           c == proc[p].cur
<1>1. /\ proc[p] \in Process /\ proc[p].step = "fill" /\ m \in proc[p].left
      /\ c \in Config /\ c[m].there
      /\ row \in [Module -> Row]
  BY DEF ConfigureTransport, IInv, TypeOK, Process, Filling, Listed
<1>0. c[m] \in Settings /\ Wanted(m, c) = BootRow(m, c[m])
  BY <1>1, ConfigType
<1>2. /\ next \in Process /\ next.step = "fill"
      /\ next.alone = proc[p].alone /\ next.left = proc[p].left \ {m}
      /\ next.cur = c
  BY <1>1 DEF Process
<1>3. /\ Running(p) /\ Go(p, next) /\ broken' = broken
      /\ row' = [row EXCEPT ![m] = BootRow(m, c[m])]
      /\ Settle(m, OnDevice, c) /\ head' = head
  BY <1>1 DEF ConfigureTransport, Running, Go
<1>4. /\ BootRow(m, c[m]) \in Row
      /\ \A l \in OnDevice : BootRow(m, c[m])[l] # Absent
      /\ BootRow(m, c[m])["index"] = m - 1
  BY <1>0, BootRowType
<1>5. /\ row' \in [Module -> Row] /\ row'[m] = BootRow(m, c[m])
      /\ \A k \in Module \ {m} : row'[k] = row[k]
  BY <1>1, <1>3, <1>4
<1> HIDE DEF next
<1>6. /\ proc' \in [Proc -> Process] /\ proc'[p] = next
      /\ file' \in Config /\ head' \in Config
      /\ prev' \in Config \cup {Unset} /\ count' \in Nat
      /\ HasParent' /\ Exclusive'
      /\ \A q \in Proc \ {p} : Filling(q)' /\ Applying(q)'
  BY <1>2, <1>3, GoKeeps
<1>7. StrayFieldsAreOwed' /\ owed' \subseteq Module \X OnDevice
  <2>1. \A l \in OnDevice : row'[m][l] = IF l \in OnDevice THEN BootRow(m, c[m])[l]
                                         ELSE row[m][l]
    BY <1>5
  <2> QED BY <1>1, <1>3, <1>5, <2>1, SettleKeeps
<1>8. RowsComplete'
  BY <1>3, <1>4, <1>5 DEF IInv, RowsComplete
<1>9. Filling(p)' /\ Applying(p)'
  BY <1>0, <1>1, <1>2, <1>5, <1>6 DEF IInv, Filling, Applying
<1> QED BY <1>3, <1>5, <1>6, <1>7, <1>8, <1>9 DEF IInv, TypeOK

LEMMA BootedIInv ==
  ASSUME IInv, NEW p \in Proc, Booted(p)
  PROVE  IInv'
<1>1. Idle \in Process /\ Idle.step = "idle" /\ Idle.alone = FALSE
  BY IdleType
<1> DEFINE next == Idle
<1>2. /\ Running(p) /\ Go(p, next) /\ row' = row /\ owed' = owed /\ head' = head
      /\ proc[p].step = "fill" /\ proc[p].left = {}
      /\ broken' = IF proc[p].alone THEN Module \ Listed(proc[p].cur) ELSE broken
  BY DEF Booted, Running, Go
<1> HIDE DEF next
<1>3. /\ proc' \in [Proc -> Process] /\ proc'[p] = next
      /\ file' \in Config /\ head' \in Config
      /\ prev' \in Config \cup {Unset} /\ count' \in Nat
      /\ HasParent' /\ Exclusive'
      /\ \A q \in Proc \ {p} : Filling(q)' /\ Applying(q)'
  BY <1>1, <1>2, GoKeeps DEF next
<1>4. Filling(p)' /\ Applying(p)'
  BY <1>1, <1>3 DEF Filling, Applying, next
<1>5. broken' \subseteq Module
  BY <1>2 DEF IInv, TypeOK
<1>6. RowsComplete'
  <2>1. CASE proc[p].alone
    <3>1. \A m \in Module : row[m] = Wanted(m, proc[p].cur)
      BY <1>2, <2>1 DEF IInv, Filling
    <3>2. proc[p].cur \in Config
      BY DEF IInv, TypeOK, Process
    <3>3. ASSUME NEW m \in Module \ broken'
          PROVE  row'[m] = BootRow(m, proc[p].cur[m]) /\ proc[p].cur[m] \in Settings
      <4>1. proc[p].cur[m].there
        BY <1>2, <2>1, <3>3 DEF Listed
      <4> QED BY <1>2, <3>1, <3>2, <4>1, ConfigType
    <3> QED BY <3>3, BootRowType DEF RowsComplete
  <2>2. CASE ~proc[p].alone
    BY <1>2, <2>2 DEF IInv, RowsComplete, TypeOK
  <2> QED BY <2>1, <2>2
<1> QED BY <1>2, <1>3, <1>4, <1>5, <1>6 DEF IInv, TypeOK, StrayFieldsAreOwed

------------------------------------------------------------------------------
LEMMA NextIInv == IInv /\ [Next]_vars => IInv'
<1> SUFFICES ASSUME IInv, [Next]_vars PROVE IInv'
  OBVIOUS
<1>0. Operated \subseteq Module /\ Requested \subseteq Module
  BY InventoryAssumption
<1>1. CASE \E m \in Operated : Edit(m)
  BY <1>0, <1>1, EditIInv
<1>7. CASE \E m \in Requested : GnmiSet(m)
  BY <1>0, <1>7, GnmiSetIInv
<1>2. CASE CommitDry
  BY <1>2, CommitDryIInv
<1>3. CASE \E p \in Proc : Start(p)
  BY <1>3, StartIInv
<1>4. CASE \E p \in Proc : Advance(p)
  <2> PICK p \in Proc : Advance(p)
    BY <1>4
  <2>1. CASE ReadLog(p)
    BY <2>1, ReadLogIInv
  <2>2. CASE \E m \in Module : HandleOptDiff(p, m)
    BY <2>2, HandleOptDiffIInv
  <2>3. CASE \E m \in Module : PanicOptDiff(p, m)
    BY <2>3, EndIInv DEF PanicOptDiff, Running
  <2>4. CASE \E m \in Module : ConfigureTransport(p, m)
    BY <2>4, ConfigureTransportIInv
  <2>5. CASE \E breakout \in BOOLEAN : ApplyDone(p, breakout)
    BY <2>5, ApplyDoneIInv
  <2>6. CASE RestartRedis(p)
    BY <2>6, RestartRedisIInv
  <2>7. CASE Booted(p)
    BY <2>7, BootedIInv
  <2> QED BY <2>1, <2>2, <2>3, <2>4, <2>5, <2>6, <2>7 DEF Advance
<1>5. CASE \E p \in Proc : Kill(p)
  BY <1>5, EndIInv DEF Kill
<1>6. CASE UNCHANGED vars
  <2>1. TypeOK'
    BY <1>6 DEF vars, IInv, TypeOK
  <2>2. UNCHANGED <<head, prev, row, proc, owed, broken>>
    BY <1>6 DEF vars
  <2> QED BY <2>1, <2>2, DeviceUnchanged DEF IInv
<1> QED BY <1>1, <1>2, <1>3, <1>4, <1>5, <1>6, <1>7 DEF Next

(* The invariants hold in every reachable state, with any number of         *)
(* processes, modules and commands.                                         *)
THEOREM Invariance == Spec => []IInv
<1>1. Init => IInv
  BY InitIInv
<1>2. IInv /\ [Next]_vars => IInv'
  BY NextIInv
<1> QED BY <1>1, <1>2, PTL DEF Spec

(* Whatever commits, reboots and requests do, the table has rows of the     *)
(* right form.                                                              *)
THEOREM TypeCorrect == Spec => []TypeOK
BY Invariance, PTL DEF IInv

(* Only the leaves that a half-done, overtaken or uncommitted change was    *)
(* about may differ from HEAD (HandleOptDiff, ConfigureTransport).          *)
THEOREM StrayFields == Spec => []StrayFieldsAreOwed
BY Invariance, PTL DEF IInv

(* Rows are incomplete only after a reboot that did not come to its end, or *)
(* that was overlapped, or whose configuration did not have the module      *)
(* (ModEntry creates the row it writes to).                                 *)
THEOREM CompleteRows == Spec => []RowsComplete
BY Invariance, PTL DEF IInv

(* A solitary reboot leaves the table of its configuration                  *)
(* (ConfigureTransport).                                                    *)
THEOREM RebootFills == Spec => SolitaryRebootFills
<1>1. IInv => Fills
  <2> SUFFICES ASSUME IInv, NEW p \in Proc, Booted(p), proc[p].alone
               PROVE  row' = [m \in Module |-> Wanted(m, proc[p].cur)]
    BY DEF Fills
  <2>1. /\ row' = row /\ row \in [Module -> Row]
        /\ \A m \in Module : row[m] = Wanted(m, proc[p].cur)
    BY DEF Booted, IInv, TypeOK, Filling
  <2> QED BY <2>1
<1> QED BY <1>1, Invariance, PTL DEF SolitaryRebootFills

(* A solitary commit that comes to its end has delivered every change       *)
(* (handleDiff).                                                            *)
THEOREM Delivery == Spec => CommitDelivers
<1>1. IInv => Delivers
  <2> SUFFICES ASSUME IInv, NEW p \in Proc, NEW breakout \in BOOLEAN,
                      ApplyDone(p, breakout), proc[p].alone,
                      NEW x \in Differ(proc[p].base, proc[p].target)
               PROVE  row[x[1]][x[2]] = BootRow(x[1], proc[p].target[x[1]])[x[2]]
    BY DEF Delivers
  <2>1. x[1] \in Module /\ x[2] \in Tasks(p, x[1])
    BY DEF Differ, Tasks
  <2> QED BY <2>1 DEF ApplyDone, IInv, Applying
<1> QED BY <1>1, Invariance, PTL DEF CommitDelivers
===============================================================================
