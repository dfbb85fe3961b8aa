----------------------------- MODULE RebootProofs -----------------------------
(* What the reboot of the pods does for every number of processes, commands *)
(* and configurations.                                                      *)
EXTENDS Reboot, TLAPS

PodSteps == {"get", "delete", "stat", "open", "write", "create"}

(* Which step a process can be at, and that it has a config map by the time *)
(* it deals with a pod that mounts one.                                     *)
Shape(p) ==
  LET r == proc[p]
  IN /\ r.cmd = "stop" => r.step \in {"idle", "get", "delete"}
     /\ r.step = "tables" => r.at \in {"transyncd", "sonic"}
     /\ r.step \in {"openmap", "writemap", "map"} => r.at \in Mapped
     /\ r.cmd # "stop" /\ r.at \in Mapped /\ r.step \in PodSteps =>
          map[r.at] # Absent
     /\ r.step \in {"wipe", "idle"} => r.at = "redis"
     /\ r.step # "idle" => r.result = "fine"

(* Every configuration that is anywhere was asked for. *)
OnlyAsked ==
  /\ \A p \in Proc : proc[p].cmd # "stop" => proc[p].conf \in asked
  /\ \A x \in Mapped : /\ mapFile[x] \in asked \cup {Absent, Torn}
                       /\ map[x] \in asked \cup {Absent}
                       /\ Up(x) => pod[x].conf \in asked

(* Every image that is in a spec file was asked for. *)
OnlyFlags ==
  /\ \A p \in Proc : Running(p) => proc[p].image \in flags
  /\ \A x \in {"transyncd", "sonic"} : spec[x] \in flags \cup {Absent, Torn}

(* Without a redis pod nothing is in redis. *)
RowsNeedRedis ==
  ~Up("redis") => rows.transport = {} /\ rows.config = {}

Base ==
  /\ TypeOK
  /\ \A p \in Proc : Shape(p)
  /\ OnlyAsked
  /\ OnlyFlags
  /\ RowsNeedRedis

(* A process that nobody overlaps: the pod and the files it is at are as it *)
(* left them, and the pods it has restarted are as they should be.          *)
OwnPod(p) ==
  /\ proc[p].step = "delete" => Up(proc[p].at)
  /\ proc[p].step \in {"stat", "open", "write", "create"} => ~Up(proc[p].at)

OwnFiles(p) ==
  LET r == proc[p]
  IN /\ ~r.torn => \A x \in Pods : spec[x] = Torn => x = r.at /\ r.step = "write"
     /\ r.step = "write" => spec[r.at] = Torn
     /\ r.step = "create" => spec[r.at] # Absent
     /\ r.step = "writemap" => mapFile[r.at] = Torn
     /\ r.step = "map" => mapFile[r.at] = r.conf
     /\ r.cmd # "stop" /\ r.at \in Mapped /\ r.step \in PodSteps =>
          map[r.at] = r.conf

Behind(p) ==
  LET r == proc[p]
      first == r.at = "transyncd" /\ r.step = "tables"
  IN r.cmd # "stop" /\ r.at # "redis" =>
       /\ Up("redis")
       /\ first => rows.transport = {}
       /\ ~first => pod["redis"].ready /\ rows.transport = {r.conf}
       /\ r.at \in Mapped =>
            Up("transyncd")
              /\ (flags = {r.image} => pod["transyncd"].image = r.image)
       /\ r.at = "sonic" /\ r.image = "plain" =>
            Up("ofdpa") /\ pod["ofdpa"].conf = r.conf
       /\ ~r.late => rows.config \subseteq {r.conf}

NotLate(p) == ~proc[p].late => (Up("sonic") => pod["sonic"].ready)

Quiet(p) ==
  proc[p].alone =>
    /\ Running(p)
    /\ \A q \in Proc \ {p} : ~Running(q)
    /\ OwnPod(p) /\ OwnFiles(p) /\ Behind(p) /\ NotLate(p)

(* After it: the pods are as they should be until the next command.         *)
Left ==
  booted # None =>
    /\ \A p \in Proc : ~Running(p)
    /\ UndisturbedRebootTakes /\ ImageFollowsFlag /\ NoRowsOfOthers

IInv == Base /\ (\A p \in Proc : Quiet(p)) /\ Left

------------------------------------------------------------------------------
(* What a step of p does to the memory of p, and that of no other process.  *)

Moves(p, s) ==
  /\ proc' \in [Proc -> Process]
  /\ proc'[p].step = s
  /\ proc'[p].cmd = proc[p].cmd /\ proc'[p].at = proc[p].at
  /\ proc'[p].conf = proc[p].conf /\ proc'[p].image = proc[p].image
  /\ proc'[p].alone = proc[p].alone /\ proc'[p].torn = proc[p].torn
  /\ proc'[p].late = proc[p].late /\ proc'[p].result = proc[p].result
  /\ \A q \in Proc \ {p} : proc'[q] = proc[q]

Ends(p, why) ==
  /\ proc' \in [Proc -> Process]
  /\ proc'[p].step = "idle" /\ proc'[p].cmd = "stop"
  /\ proc'[p].at = "redis" /\ ~proc'[p].alone
  /\ proc'[p].result = why
  /\ \A q \in Proc \ {p} : proc'[q] = proc[q]

LEMMA GoEffect ==
  ASSUME TypeOK, NEW p \in Proc, NEW s \in Steps, Go(p, s)
  PROVE  Moves(p, s)
BY DEF TypeOK, Go, Process, Moves

LEMMA EndEffect ==
  ASSUME TypeOK, NEW p \in Proc, NEW why \in Results, End(p, why)
  PROVE  Ends(p, why)
BY RebootAssumption
   DEF TypeOK, End, Ends, Idle, Process, Steps, Pods, Images, RebootAssumption

LEMMA ProcType ==
  ASSUME TypeOK, NEW p \in Proc
  PROVE  /\ proc[p] \in Process /\ proc[p].at \in Pods /\ proc[p].conf \in Conf
         /\ proc[p].image \in Images
BY DEF TypeOK, Process

(* Only a process that is overlapped, or the one that is not, is running.   *)
LEMMA OneRuns ==
  ASSUME IInv, NEW p \in Proc, Running(p)
  PROVE  booted = None /\ \A q \in Proc \ {p} : ~proc[q].alone
BY DEF IInv, Left, Quiet

(* A command may end anywhere. *)
LEMMA EndKeeps ==
  ASSUME IInv, NEW p \in Proc, Running(p), NEW why \in Results, End(p, why),
         UNCHANGED <<pod, spec, mapFile, map, rows, count, asked, flags, booted>>
  PROVE  IInv'
<1>1. TypeOK /\ Ends(p, why)
  BY EndEffect DEF IInv, Base
<1>2. Base'
  BY <1>1 DEF Ends, IInv, Base, TypeOK, Shape, OnlyAsked, OnlyFlags,
              RowsNeedRedis, Running, Up, PodSteps
<1>3. ASSUME NEW q \in Proc PROVE Quiet(q)'
  BY <1>1, OneRuns DEF Ends, Quiet
<1>4. Left'
  BY OneRuns DEF Left
<1>5. QED
  BY <1>2, <1>3, <1>4 DEF IInv

------------------------------------------------------------------------------
(* The steps that change files and nothing else. *)

LEMMA StatStep ==
  ASSUME IInv, NEW p \in Proc, Stat(p)
  PROVE  IInv'
<1>1. TypeOK /\ Shape(p) /\ proc[p].step = "stat" /\ Running(p)
  BY DEF IInv, Base, Stat, Running
<1>2. PICK s \in {"create", "open"} :
        Go(p, s) /\ (s = "create" => spec[proc[p].at] # Absent)
  BY DEF Stat, SpecExists
<1>3. Moves(p, s)
  BY <1>1, <1>2, GoEffect DEF Steps
<1>4. UNCHANGED <<pod, spec, mapFile, map, rows, count, asked, flags, booted>>
  BY DEF Stat
<1>5. Base'
  BY <1>1, <1>2, <1>3, <1>4 DEF Moves, IInv, Base, TypeOK, Shape, OnlyAsked,
     OnlyFlags, RowsNeedRedis, Running, Up, PodSteps
<1>6. ASSUME NEW q \in Proc PROVE Quiet(q)'
  BY <1>1, <1>2, <1>3, <1>4 DEF Moves, IInv, Quiet, OwnPod, OwnFiles, Behind,
     NotLate, Running, Up, PodSteps
<1>7. Left'
  BY <1>1, <1>4, OneRuns DEF Left
<1>8. QED
  BY <1>5, <1>6, <1>7 DEF IInv

LEMMA OpenStep ==
  ASSUME IInv, NEW p \in Proc, Open(p)
  PROVE  IInv'
<1>1. TypeOK /\ Shape(p) /\ proc[p].step = "open" /\ Running(p)
      /\ proc[p].at \in Pods
  BY ProcType DEF IInv, Base, Open, Running
<1>2. Moves(p, "write") /\ spec' = [spec EXCEPT ![proc[p].at] = Torn]
  BY <1>1, GoEffect DEF Steps, Open
<1>3. UNCHANGED <<pod, mapFile, map, rows, count, asked, flags, booted>>
  BY DEF Open
<1>4. Base'
  BY <1>1, <1>2, <1>3 DEF Moves, IInv, Base, TypeOK, Shape, OnlyAsked,
     OnlyFlags, RowsNeedRedis, Running, Up, PodSteps
<1>5. ASSUME NEW q \in Proc PROVE Quiet(q)'
  BY <1>1, <1>2, <1>3 DEF Moves, IInv, Base, TypeOK, Quiet, OwnPod, OwnFiles,
     Behind, NotLate, Running, Up, PodSteps
<1>6. Left'
  BY <1>1, <1>3, OneRuns DEF Left
<1>7. QED
  BY <1>4, <1>5, <1>6 DEF IInv

LEMMA TextType ==
  ASSUME NEW x \in Pods, NEW image \in Images
  PROVE  /\ Text(x, image) \in Images
         /\ x \in {"transyncd", "sonic"} => Text(x, image) = image
BY DEF Text, Images, Pods

LEMMA WriteStep ==
  ASSUME IInv, NEW p \in Proc, Write(p)
  PROVE  IInv'
<1> DEFINE x == proc[p].at
           t == Text(x, proc[p].image)
<1>1. TypeOK /\ Shape(p) /\ proc[p].step = "write" /\ Running(p)
      /\ x \in Pods /\ proc[p].image \in flags
  BY ProcType DEF IInv, Base, Write, Running, OnlyFlags
<1>2. t \in Images /\ (x \in {"transyncd", "sonic"} => t \in flags)
      /\ t # Absent /\ t # Torn /\ Absent # Torn
  BY <1>1, ProcType, TextType, RebootAssumption
<1>3. Moves(p, "create")
  BY <1>1, GoEffect DEF Steps, Write
<1>4. \/ spec[x] = Absent /\ spec' = spec
      \/ spec[x] = Torn /\ spec' = [spec EXCEPT ![x] = t]
      \/ spec' = [spec EXCEPT ![x] = t]
      \/ spec[x] # Torn /\ spec' = [spec EXCEPT ![x] = Torn]
  BY <1>1 DEF Write, Writes
<1>5. UNCHANGED <<pod, mapFile, map, rows, count, asked, flags, booted>>
  BY DEF Write
<1> HIDE DEF t
<1>6. Base'
  <2>1. /\ spec' \in [Pods -> Images \cup {Absent, Torn}]
        /\ \A y \in {"transyncd", "sonic"} : spec'[y] \in flags \cup {Absent, Torn}
    BY <1>1, <1>2, <1>4 DEF IInv, Base, TypeOK, OnlyFlags, Pods
  <2>2. QED
    BY <1>1, <1>3, <1>5, <2>1 DEF Moves, IInv, Base, TypeOK, Shape,
       OnlyAsked, OnlyFlags, RowsNeedRedis, Running, Up, PodSteps
<1>7. ASSUME NEW q \in Proc PROVE Quiet(q)'
  BY <1>1, <1>2, <1>3, <1>4, <1>5 DEF Moves, IInv, Base, TypeOK, Quiet, OwnPod,
     OwnFiles, Behind, NotLate, Running, Up, PodSteps
<1>8. Left'
  BY <1>1, <1>5, OneRuns DEF Left
<1>9. QED
  BY <1>6, <1>7, <1>8 DEF IInv

LEMMA OpenMapStep ==
  ASSUME IInv, NEW p \in Proc, OpenMap(p)
  PROVE  IInv'
<1>1. TypeOK /\ Shape(p) /\ proc[p].step = "openmap" /\ Running(p)
      /\ proc[p].at \in Mapped /\ proc[p].cmd # "stop"
  BY DEF IInv, Base, OpenMap, Running, Shape
<1>2. Moves(p, "writemap") /\ mapFile' = [mapFile EXCEPT ![proc[p].at] = Torn]
  BY <1>1, GoEffect DEF Steps, OpenMap
<1>3. UNCHANGED <<pod, spec, map, rows, count, asked, flags, booted>>
  BY DEF OpenMap
<1>4. Base'
  BY <1>1, <1>2, <1>3 DEF Moves, IInv, Base, TypeOK, Shape,
     OnlyAsked, OnlyFlags, RowsNeedRedis, Running, Up, PodSteps
<1>5. ASSUME NEW q \in Proc PROVE Quiet(q)'
  BY <1>1, <1>2, <1>3 DEF Moves, IInv, Base, TypeOK, Quiet, OwnPod,
     OwnFiles, Behind, NotLate, Running, Up, PodSteps
<1>6. Left'
  BY <1>1, <1>3, OneRuns DEF Left
<1>7. QED
  BY <1>4, <1>5, <1>6 DEF IInv

LEMMA WriteMapStep ==
  ASSUME IInv, NEW p \in Proc, WriteMap(p)
  PROVE  IInv'
<1> DEFINE x == proc[p].at
           c == proc[p].conf
<1>1. TypeOK /\ Shape(p) /\ proc[p].step = "writemap" /\ Running(p)
      /\ x \in Mapped /\ proc[p].cmd # "stop" /\ c \in Conf /\ c \in asked
  BY ProcType DEF IInv, Base, WriteMap, Running, Shape, OnlyAsked
<1>2. c # Absent /\ c # Torn /\ Absent # Torn
  BY <1>1, RebootAssumption
<1>3. Moves(p, "map")
  BY <1>1, GoEffect DEF Steps, WriteMap
<1>4. \/ mapFile[x] = Absent /\ mapFile' = mapFile
      \/ mapFile' = [mapFile EXCEPT ![x] = c]
      \/ mapFile[x] # Torn /\ mapFile' = [mapFile EXCEPT ![x] = Torn]
  BY <1>1 DEF WriteMap, Writes, Current
<1>5. UNCHANGED <<pod, spec, map, rows, count, asked, flags, booted>>
  BY DEF WriteMap
<1>6. Base'
  <2>1. /\ mapFile' \in [Mapped -> Conf \cup {Absent, Torn}]
        /\ \A y \in Mapped : mapFile'[y] \in asked \cup {Absent, Torn}
    BY <1>1, <1>2, <1>4 DEF IInv, Base, TypeOK, OnlyAsked
  <2>2. QED
    BY <1>1, <1>3, <1>5, <2>1 DEF Moves, IInv, Base, TypeOK, Shape,
     OnlyAsked, OnlyFlags, RowsNeedRedis, Running, Up, PodSteps
<1>7. ASSUME NEW q \in Proc PROVE Quiet(q)'
  BY <1>1, <1>2, <1>3, <1>4, <1>5 DEF Moves, IInv, Base, TypeOK, Quiet, OwnPod,
     OwnFiles, Behind, NotLate, Running, Up, PodSteps
<1>8. Left'
  BY <1>1, <1>5, OneRuns DEF Left
<1>9. QED
  BY <1>6, <1>7, <1>8 DEF IInv

------------------------------------------------------------------------------
(* The steps that hand over the configuration. *)

LEMMA ApplyMapStep ==
  ASSUME IInv, NEW p \in Proc, ApplyMap(p)
  PROVE  IInv'
<1> DEFINE x == proc[p].at
<1>1. TypeOK /\ Shape(p) /\ proc[p].step = "map" /\ Running(p)
      /\ x \in Mapped /\ proc[p].cmd # "stop"
  BY DEF IInv, Base, ApplyMap, Running, Shape
<1>2. UNCHANGED <<pod, spec, mapFile, rows, count, asked, flags, booted>>
  BY DEF ApplyMap
<1>3. CASE mapFile[x] \in Conf
  <2>1. Moves(p, "get") /\ map' = [map EXCEPT ![x] = mapFile[x]]
    BY <1>1, <1>3, GoEffect DEF Steps, ApplyMap
  <2>2. mapFile[x] \in asked /\ mapFile[x] # Absent
    BY <1>1, <1>3, RebootAssumption DEF IInv, Base, OnlyAsked
  <2>3. Base'
    BY <1>1, <1>2, <1>3, <2>1, <2>2 DEF Moves, IInv, Base, TypeOK, Shape,
     OnlyAsked, OnlyFlags, RowsNeedRedis, Running, Up, PodSteps
  <2>4. ASSUME NEW q \in Proc PROVE Quiet(q)'
    BY <1>1, <1>2, <2>1 DEF Moves, IInv, Base, TypeOK, Quiet, OwnPod,
     OwnFiles, Behind, NotLate, Running, Up, PodSteps
  <2>5. Left'
    BY <1>1, <1>2, OneRuns DEF Left
  <2>6. QED
    BY <2>3, <2>4, <2>5 DEF IInv
<1>4. CASE mapFile[x] \notin Conf
  BY <1>1, <1>2, <1>4, EndKeeps DEF ApplyMap, Results
<1>5. QED
  BY <1>3, <1>4

LEMMA TablesStep ==
  ASSUME IInv, NEW p \in Proc, Tables(p)
  PROVE  IInv'
<1> DEFINE x == proc[p].at
           c == proc[p].conf
<1>1. TypeOK /\ Shape(p) /\ proc[p].step = "tables" /\ Running(p)
      /\ x \in {"transyncd", "sonic"} /\ proc[p].cmd # "stop" /\ c \in Conf
  BY ProcType DEF IInv, Base, Tables, Running, Shape
<1>2. UNCHANGED <<pod, spec, mapFile, map, count, asked, flags, booted>>
  BY DEF Tables
<1>3. CASE Answers
  <2>1. PICK s \in {"openmap", "get"} : /\ s = "openmap" <=> x = "sonic"
                                        /\ Moves(p, s)
    BY <1>1, <1>3, GoEffect DEF Steps, Tables
  <2>2. /\ rows' \in [transport : SUBSET Conf, config : SUBSET Conf]
        /\ x = "transyncd" => /\ rows'.transport = rows.transport \cup {c}
                              /\ rows'.config = rows.config
        /\ x = "sonic" => /\ rows'.transport = rows.transport
                          /\ rows'.config \subseteq rows.config \cup {c}
    BY <1>1, <1>3 DEF Tables, Table, Current, TypeOK
  <2>3. Base'
    BY <1>1, <1>2, <1>3, <2>1, <2>2
    DEF Answers, Mapped, Moves, IInv, Base, TypeOK, Shape, OnlyAsked, OnlyFlags,
        RowsNeedRedis, Running, Up, PodSteps
  <2>4. ASSUME NEW q \in Proc PROVE Quiet(q)'
    BY <1>1, <1>2, <1>3, <2>1, <2>2
    DEF Answers, Mapped, Moves, IInv, Base, TypeOK, Quiet, OwnPod, OwnFiles,
        Behind, NotLate, Running, Up, PodSteps
  <2>5. Left'
    BY <1>1, <1>2, OneRuns DEF Left
  <2>6. QED
    BY <2>3, <2>4, <2>5 DEF IInv
<1>4. CASE ~Answers
  BY <1>1, <1>2, <1>4, EndKeeps DEF Tables, Results
<1>5. QED
  BY <1>3, <1>4

------------------------------------------------------------------------------
(* The steps that delete and create pods. *)

(* A process turns to another pod. *)
Turns(p, s, x) ==
  /\ proc' \in [Proc -> Process]
  /\ proc'[p].step = s /\ proc'[p].at = x
  /\ proc'[p].cmd = proc[p].cmd
  /\ proc'[p].conf = proc[p].conf /\ proc'[p].image = proc[p].image
  /\ proc'[p].alone = proc[p].alone /\ proc'[p].torn = proc[p].torn
  /\ proc'[p].late = proc[p].late /\ proc'[p].result = proc[p].result
  /\ \A q \in Proc \ {p} : proc'[q] = proc[q]

LEMMA TurnEffect ==
  ASSUME TypeOK, NEW p \in Proc, NEW s \in Steps, NEW x \in Pods,
         proc' = [proc EXCEPT ![p].step = s, ![p].at = x]
  PROVE  Turns(p, s, x)
<1> DEFINE n == [proc[p] EXCEPT !.step = s, !.at = x]
<1>1. proc \in [Proc -> Process] /\ proc[p] \in Process
  BY DEF TypeOK
<1>2. n \in Process
  BY <1>1 DEF Process
<1>3. /\ n.step = s /\ n.at = x /\ n.cmd = proc[p].cmd
      /\ n.conf = proc[p].conf /\ n.image = proc[p].image
      /\ n.alone = proc[p].alone /\ n.torn = proc[p].torn
      /\ n.late = proc[p].late /\ n.result = proc[p].result
  BY <1>1 DEF Process
<1>4. proc' = [proc EXCEPT ![p] = n]
  BY <1>1
<1> HIDE DEF n
<1>5. /\ proc' \in [Proc -> Process] /\ proc'[p] = n
      /\ \A q \in Proc \ {p} : proc'[q] = proc[q]
  BY <1>1, <1>2, <1>4
<1> QED
  BY <1>3, <1>5 DEF Turns

(* What follows deletePod, once there is no such pod. *)
LEMMA AfterDeleteKeeps ==
  ASSUME IInv, NEW p \in Proc, AfterDelete(p),
         proc[p].step \in {"get", "delete"},
         \/ ~Up(proc[p].at) /\ pod' = pod /\ rows' = rows
         \/ /\ pod' = [pod EXCEPT ![proc[p].at] = Down]
            /\ rows' = RowsWithout(proc[p].at),
         UNCHANGED <<spec, mapFile, map, count, asked, flags>>
  PROVE  IInv'
<1> DEFINE x == proc[p].at
<1>1. TypeOK /\ Shape(p) /\ Running(p) /\ x \in Pods
  BY ProcType DEF IInv, Base, Running
<1>2. /\ pod' = [pod EXCEPT ![x] = Down]
      /\ pod' \in [Pods -> Pod \cup {Down}]
      /\ \A y \in Pods \ {x} : pod'[y] = pod[y]
      /\ pod'[x] = Down
  BY <1>1 DEF TypeOK, Up
<1>3. /\ rows' \in [transport : SUBSET Conf, config : SUBSET Conf]
      /\ x # "redis" => rows' = rows
      /\ x = "redis" => rows'.transport = {} /\ rows'.config = {}
      /\ rows'.transport \subseteq rows.transport
      /\ rows'.config \subseteq rows.config
      /\ RowsNeedRedis'
  <2>1. rows \in [transport : SUBSET Conf, config : SUBSET Conf]
        /\ RowsNeedRedis
    BY <1>1 DEF TypeOK, IInv, Base
  <2>2. CASE x = "redis"
    BY <2>1, <2>2 DEF RowsWithout, RowsNeedRedis
  <2>3. CASE x # "redis"
    BY <1>2, <2>1, <2>3 DEF RowsWithout, RowsNeedRedis, Up, Pods
  <2>4. QED
    BY <2>2, <2>3
<1>4. \A y \in Mapped : pod'[y] # Down => pod'[y].conf \in asked
  BY <1>2 DEF IInv, Base, OnlyAsked, Up, Mapped, Pods
<1>5. CASE proc[p].cmd # "stop"
  <2>1. Moves(p, "stat") /\ booted' = booted
    BY <1>1, <1>5, GoEffect DEF AfterDelete, Steps
  <2>2. Base'
    <3>1. TypeOK'
      BY <1>1, <1>2, <1>3, <2>1 DEF Moves, TypeOK
    <3>2. ASSUME NEW q \in Proc PROVE Shape(q)'
      BY <1>1, <1>5, <2>1 DEF Moves, IInv, Base, Shape, PodSteps
    <3>3. OnlyAsked'
      BY <1>1, <1>4, <2>1 DEF Moves, IInv, Base, OnlyAsked, Up
    <3>4. OnlyFlags'
      BY <1>1, <2>1 DEF Moves, IInv, Base, OnlyFlags, Running
    <3>5. QED
      BY <1>3, <3>1, <3>2, <3>3, <3>4 DEF Base
  <2>3. ASSUME NEW q \in Proc PROVE Quiet(q)'
    BY <1>1, <1>2, <1>3, <1>5, <2>1 DEF Moves, IInv, Base, TypeOK, Quiet, OwnPod,
     OwnFiles, Behind, NotLate, Running, Up, PodSteps, Pods, Mapped
  <2>4. Left'
    BY <1>1, <2>1, OneRuns DEF Left
  <2>5. QED
    BY <2>2, <2>3, <2>4 DEF IInv
<1>6. CASE proc[p].cmd = "stop" /\ x = "redis"
  <2>1. Ends(p, "fine") /\ booted' = booted
    BY <1>1, <1>6, EndEffect DEF AfterDelete, Finish, Results
  <2>2. Base'
    <3>1. TypeOK'
      BY <1>1, <1>2, <1>3, <2>1 DEF Ends, TypeOK
    <3>2. ASSUME NEW q \in Proc PROVE Shape(q)'
      BY <1>1, <2>1 DEF Ends, IInv, Base, Shape, PodSteps
    <3>3. OnlyAsked'
      BY <1>1, <1>4, <2>1 DEF Ends, IInv, Base, OnlyAsked, Up
    <3>4. OnlyFlags'
      BY <1>1, <2>1 DEF Ends, IInv, Base, OnlyFlags, Running
    <3>5. QED
      BY <1>3, <3>1, <3>2, <3>3, <3>4 DEF Base
  <2>3. ASSUME NEW q \in Proc PROVE Quiet(q)'
    BY <1>1, <2>1, OneRuns DEF Ends, Quiet
  <2>4. Left'
    BY <1>1, <2>1, OneRuns DEF Left
  <2>5. QED
    BY <2>2, <2>3, <2>4 DEF IInv
<1>7. CASE proc[p].cmd = "stop" /\ x # "redis"
  <2>1. StopNext(x) \in Pods
    BY DEF StopNext, Pods
  <2>2. Turns(p, "get", StopNext(x)) /\ booted' = booted
    BY <1>1, <1>7, <2>1, TurnEffect DEF AfterDelete, Steps
  <2>3. Base'
    <3>1. TypeOK'
      BY <1>1, <1>2, <1>3, <2>2 DEF Turns, TypeOK
    <3>2. ASSUME NEW q \in Proc PROVE Shape(q)'
      BY <1>1, <1>7, <2>2 DEF Turns, IInv, Base, Shape, PodSteps
    <3>3. OnlyAsked'
      BY <1>1, <1>4, <2>2 DEF Turns, IInv, Base, OnlyAsked, Up
    <3>4. OnlyFlags'
      BY <1>1, <2>2 DEF Turns, IInv, Base, OnlyFlags, Running
    <3>5. QED
      BY <1>3, <3>1, <3>2, <3>3, <3>4 DEF Base
  <2>4. ASSUME NEW q \in Proc PROVE Quiet(q)'
    BY <1>1, <1>2, <1>3, <1>7, <2>2 DEF Turns, IInv, Base, TypeOK, Quiet, OwnPod,
       OwnFiles, Behind, NotLate, Running, Up, PodSteps, Pods
  <2>5. Left'
    BY <1>1, <2>2, OneRuns DEF Left
  <2>6. QED
    BY <2>3, <2>4, <2>5 DEF IInv
<1>8. QED
  BY <1>5, <1>6, <1>7

LEMMA GetStep ==
  ASSUME IInv, NEW p \in Proc, Get(p)
  PROVE  IInv'
<1>1. TypeOK /\ Shape(p) /\ proc[p].step = "get" /\ Running(p)
  BY DEF IInv, Base, Get, Running
<1>2. UNCHANGED <<pod, spec, mapFile, map, rows, count, asked, flags>>
  BY DEF Get
<1>3. CASE Up(proc[p].at)
  <2>1. Moves(p, "delete") /\ booted' = booted
    BY <1>1, <1>3, GoEffect DEF Steps, Get, IsPodRunning
  <2>2. Base'
    BY <1>1, <1>2, <2>1 DEF Moves, IInv, Base, TypeOK, Shape,
     OnlyAsked, OnlyFlags, RowsNeedRedis, Running, Up, PodSteps
  <2>3. ASSUME NEW q \in Proc PROVE Quiet(q)'
    BY <1>1, <1>2, <1>3, <2>1 DEF Moves, IInv, Base, TypeOK, Quiet, OwnPod,
     OwnFiles, Behind, NotLate, Running, Up, PodSteps
  <2>4. Left'
    BY <1>1, <2>1, OneRuns DEF Left
  <2>5. QED
    BY <2>2, <2>3, <2>4 DEF IInv
<1>4. CASE ~Up(proc[p].at)
  BY <1>1, <1>2, <1>4, AfterDeleteKeeps DEF Get, IsPodRunning
<1>5. QED
  BY <1>3, <1>4

LEMMA DeleteStep ==
  ASSUME IInv, NEW p \in Proc, Delete(p)
  PROVE  IInv'
<1>1. proc[p].step = "delete" /\ Running(p)
      /\ UNCHANGED <<spec, mapFile, map, count, asked, flags>>
  BY DEF Delete, Running
<1>2. CASE Up(proc[p].at)
  BY <1>1, <1>2, AfterDeleteKeeps DEF Delete
<1>3. CASE ~Up(proc[p].at)
  BY <1>1, <1>3, EndKeeps DEF Delete, Results
<1>4. QED
  BY <1>2, <1>3

(* The pod that kubectl create adds. *)
LEMMA CreatedType ==
  ASSUME IInv, NEW p \in Proc, proc[p].step = "create", CanCreate(proc[p].at)
  PROVE  LET x == proc[p].at
         IN /\ x \in Pods /\ proc[p].cmd # "stop" /\ Running(p) /\ TypeOK
            /\ Created(x) \in Pod /\ Created(x) # Down
            /\ x \in Mapped => Created(x).conf = map[x] /\ map[x] \in asked
            /\ x = "redis" => ~Created(x).ready
            /\ x \in {"transyncd", "sonic"} =>
                 Created(x).image = spec[x] /\ spec[x] \in flags
<1> DEFINE x == proc[p].at
<1>1. TypeOK /\ Shape(p) /\ x \in Pods /\ Running(p) /\ proc[p].cmd # "stop"
  BY ProcType DEF IInv, Base, Shape, Running
<1>2. x \in Mapped => map[x] \in asked /\ map[x] \in Conf
  BY <1>1 DEF IInv, Base, Shape, OnlyAsked, PodSteps, TypeOK
<1>3. spec[x] \in Images
  BY DEF CanCreate
<1>4. Created(x) \in Pod
  BY <1>1, <1>2, <1>3 DEF Created, Pod
<1>5. x \in {"transyncd", "sonic"} => spec[x] \in flags
  BY <1>3, RebootAssumption DEF IInv, Base, OnlyFlags
<1>6. QED
  BY <1>1, <1>2, <1>4, <1>5, PodAssumption DEF Created, PodAssumption

LEMMA CreateBase ==
  ASSUME IInv, NEW p \in Proc, proc[p].step = "create", CanCreate(proc[p].at),
         pod' = [pod EXCEPT ![proc[p].at] = Created(proc[p].at)],
         UNCHANGED <<spec, mapFile, map, rows, count, asked, flags>>,
         booted' \in Booted \cup {None},
         proc' \in [Proc -> Process],
         Shape(p)',
         proc'[p].cmd # "stop" => proc'[p].conf \in asked,
         Running(p)' => proc'[p].image \in flags,
         \A q \in Proc \ {p} : proc'[q] = proc[q]
  PROVE  Base'
<1>1. TypeOK'
  BY CreatedType DEF TypeOK
<1>2. ASSUME NEW q \in Proc PROVE Shape(q)'
  BY DEF IInv, Base, Shape
<1>3. OnlyAsked'
  BY CreatedType DEF IInv, Base, TypeOK, OnlyAsked, Up, Mapped, Pods
<1>4. OnlyFlags'
  BY DEF IInv, Base, OnlyFlags, Running
<1>5. RowsNeedRedis'
  BY CreatedType DEF IInv, Base, TypeOK, RowsNeedRedis, Up, Pods
<1>6. QED
  BY <1>1, <1>2, <1>3, <1>4, <1>5 DEF Base

LEMMA CreateStep ==
  ASSUME IInv, NEW p \in Proc, Create(p)
  PROVE  IInv'
<1> DEFINE x == proc[p].at
           next == RebootNext(x, proc[p].image)
<1>1. proc[p].step = "create" /\ Running(p)
      /\ UNCHANGED <<spec, mapFile, map, rows, count, asked, flags>>
  BY DEF Create, Running
<1>2. CASE ~CanCreate(x)
  BY <1>1, <1>2, EndKeeps DEF Create, Results
<1>3. CASE CanCreate(x) /\ x # "sonic"
  <2>1. TypeOK /\ x \in Pods /\ proc[p].cmd # "stop" /\ ~Up(x)
        /\ spec[x] \in Images
    BY <1>1, <1>3, CreatedType DEF CanCreate
  <2>2. next \in {"transyncd", "ofdpa", "sonic"} /\ next \in Pods
        /\ FirstStep(next) \in {"tables", "openmap"}
        /\ (FirstStep(next) = "tables" <=> next # "ofdpa")
    BY DEF RebootNext, FirstStep, Pods
  <2>3. Turns(p, FirstStep(next), next) /\ booted' = booted
        /\ pod' = [pod EXCEPT ![x] = Created(x)]
    BY <1>1, <1>3, <2>1, <2>2, TurnEffect DEF Create, Steps
  <2>4. Base'
    <3>1. Shape(p)'
      BY <1>1, <2>1, <2>2, <2>3 DEF Turns, IInv, Base, Shape, PodSteps, Mapped,
         Running
    <3>2. proc[p].conf \in asked /\ proc[p].image \in flags
      BY <1>1, <2>1 DEF IInv, Base, OnlyAsked, OnlyFlags
    <3>3. booted \in Booted \cup {None}
      BY <2>1 DEF TypeOK
    <3>4. QED
      BY <1>1, <1>3, <2>3, <3>1, <3>2, <3>3, CreateBase DEF Turns
  <2>5. ASSUME NEW q \in Proc, proc'[q].alone PROVE Quiet(q)'
    <3>1. q = p /\ proc[p].alone
      BY <1>1, <2>3, <2>5, OneRuns DEF Turns
    <3>2. Quiet(p) /\ OwnPod(p) /\ OwnFiles(p) /\ Behind(p) /\ NotLate(p)
      BY <3>1 DEF IInv, Quiet
    <3>3. Running(p)' /\ \A r \in Proc \ {p} : ~Running(r)'
      BY <2>2, <2>3, <3>1, <3>2 DEF Turns, Running, Quiet
    <3>4. OwnPod(p)'
      BY <2>2, <2>3 DEF Turns, OwnPod
    <3>5. OwnFiles(p)'
      BY <1>1, <2>2, <2>3, <3>2 DEF Turns, OwnFiles, PodSteps
    <3>6. NotLate(p)'
      BY <1>3, <2>1, <2>3, <3>2 DEF Turns, NotLate, Up, TypeOK, Pods
    <3>7. CASE x = "redis"
      <4>1. next = "transyncd" /\ rows.transport = {} /\ rows.config = {}
        BY <2>1, <3>7 DEF RebootNext, IInv, Base, RowsNeedRedis
      <4>2. Up("redis")'
        BY <1>1, <1>3, <2>1, <2>3, <3>7, CreatedType DEF Up, TypeOK
      <4>3. Behind(p)'
        BY <1>1, <2>2, <2>3, <4>1, <4>2 DEF Turns, Behind, Mapped
      <4>4. QED
        BY <3>1, <3>3, <3>4, <3>5, <3>6, <4>3 DEF Quiet
    <3>8. CASE x \in {"transyncd", "ofdpa"}
      <4>1. /\ Up("redis") /\ pod["redis"].ready
            /\ rows.transport = {proc[p].conf}
            /\ ~proc[p].late => rows.config \subseteq {proc[p].conf}
        BY <1>1, <2>1, <3>2, <3>8 DEF Behind
      <4>2. pod'["redis"] = pod["redis"] /\ Up("redis")'
        BY <2>1, <2>3, <3>8, <4>1 DEF Up, TypeOK, Pods
      <4>3. /\ Up("transyncd")'
            /\ flags = {proc[p].image} => pod'["transyncd"].image = proc[p].image
        <5>1. CASE x = "transyncd"
          BY <1>1, <1>3, <2>1, <2>3, <5>1, CreatedType DEF Up, TypeOK
        <5>2. CASE x = "ofdpa"
          BY <2>1, <2>3, <3>2, <5>2 DEF Behind, Mapped, Up, TypeOK, Pods
        <5>3. QED
          BY <3>8, <5>1, <5>2
      <4>4. next = "sonic" /\ proc[p].image = "plain" =>
              Up("ofdpa")' /\ pod'["ofdpa"].conf = proc[p].conf
        <5>1. CASE x = "transyncd"
          BY <5>1 DEF RebootNext
        <5>2. CASE x = "ofdpa"
          <6>1. map[x] = proc[p].conf
            BY <1>1, <2>1, <3>2, <5>2 DEF OwnFiles, Mapped, PodSteps
          <6>2. Created(x).conf = map[x] /\ Created(x) # Down
            BY <1>1, <1>3, <5>2, CreatedType DEF Mapped
          <6>3. QED
            BY <2>1, <2>3, <5>2, <6>1, <6>2 DEF Up, TypeOK
        <5>3. QED
          BY <3>8, <5>1, <5>2
      <4>5. next # "transyncd"
        BY <3>8 DEF RebootNext
      <4>6. Behind(p)'
        BY <1>1, <2>2, <2>3, <4>1, <4>2, <4>3, <4>4, <4>5 DEF Turns, Behind
      <4>7. QED
        BY <3>1, <3>3, <3>4, <3>5, <3>6, <4>6 DEF Quiet
    <3>9. QED
      BY <1>3, <2>1, <3>7, <3>8 DEF Pods
  <2>6. Left'
    BY <1>1, <2>3, OneRuns DEF Left
  <2>7. QED
    BY <2>4, <2>5, <2>6 DEF IInv, Quiet
<1>4. CASE CanCreate(x) /\ x = "sonic"
  <2> DEFINE b == [conf |-> proc[p].conf, image |-> proc[p].image,
                   late |-> proc[p].late]
  <2>1. TypeOK /\ proc[p].cmd # "stop" /\ spec[x] \in Images
    BY <1>1, <1>4, CreatedType DEF CanCreate
  <2>2. Ends(p, "fine") /\ pod' = [pod EXCEPT ![x] = Created(x)]
        /\ booted' = IF proc[p].alone THEN b ELSE booted
    BY <1>1, <1>4, <2>1, EndEffect DEF Create, Finish, Results
  <2>3. b \in Booted /\ booted \in Booted \cup {None}
    BY <2>1 DEF TypeOK, Process, Booted
  <2>4. Base'
    <3>1. Shape(p)'
      BY <2>2 DEF Ends, Shape, PodSteps
    <3>2. QED
      BY <1>1, <1>4, <2>2, <2>3, <3>1, CreateBase DEF Ends, Running
  <2>5. ASSUME NEW q \in Proc PROVE Quiet(q)'
    BY <1>1, <2>2, OneRuns DEF Ends, Quiet
  <2>6. Left'
    <3>1. CASE ~proc[p].alone
      BY <1>1, <2>2, <3>1, OneRuns DEF Left
    <3>2. CASE proc[p].alone
      <4>1. OwnFiles(p) /\ Behind(p) /\ \A r \in Proc \ {p} : ~Running(r)
        BY <3>2 DEF IInv, Quiet
      <4>2. /\ Up("redis") /\ pod["redis"].ready
            /\ rows.transport = {proc[p].conf}
            /\ ~proc[p].late => rows.config \subseteq {proc[p].conf}
            /\ Up("transyncd")
            /\ flags = {proc[p].image} => pod["transyncd"].image = proc[p].image
            /\ proc[p].image = "plain" =>
                 Up("ofdpa") /\ pod["ofdpa"].conf = proc[p].conf
        BY <1>1, <1>4, <2>1, <4>1 DEF Behind, Mapped
      <4>3. map[x] = proc[p].conf
        BY <1>1, <1>4, <2>1, <4>1 DEF OwnFiles, Mapped, PodSteps
      <4>4. /\ \A y \in Pods \ {"sonic"} : pod'[y] = pod[y]
            /\ pod'["sonic"] = Created(x)
            /\ Created(x) # Down /\ Created(x).conf = proc[p].conf
            /\ Created(x).image = spec[x] /\ spec[x] \in flags
        BY <1>1, <1>4, <2>1, <2>2, <4>3, CreatedType DEF TypeOK, Mapped, Pods
      <4>5. booted' = b
        BY <2>2, <3>2
      <4>6. UndisturbedRebootTakes'
        BY <1>1, <4>2, <4>4, <4>5 DEF UndisturbedRebootTakes, Answers, Up, Pods
      <4>7. ImageFollowsFlag'
        BY <1>1, <4>2, <4>4, <4>5 DEF ImageFollowsFlag, Pods
      <4>8. NoRowsOfOthers'
        BY <1>1, <4>2, <4>5 DEF NoRowsOfOthers
      <4>9. \A r \in Proc : ~Running(r)'
        BY <2>2, <4>1 DEF Ends, Running
      <4>10. QED
        BY <4>6, <4>7, <4>8, <4>9 DEF Left
    <3>3. QED
      BY <3>1, <3>2
  <2>7. QED
    BY <2>4, <2>5, <2>6 DEF IInv
<1>5. QED
  BY <1>2, <1>3, <1>4

------------------------------------------------------------------------------
(* The beginning and the end of a command, and what the pods do themselves. *)

LEMMA StartStep ==
  ASSUME IInv, NEW p \in Proc, NEW cmd \in {"init", "reboot", "stop"},
         NEW at \in Pods, NEW step \in Steps, NEW c \in Conf, NEW image \in Images,
         Start(p, cmd, at, step, c, image),
         \/ cmd = "stop" /\ at = "transyncd" /\ step = "get"
         \/ cmd # "stop" /\ at = "redis" /\ step \in {"wipe", "get"}
  PROVE  IInv'
<1>1. TypeOK /\ UNCHANGED <<pod, spec, mapFile, map, rows>>
  BY DEF IInv, Base, Start
<1>2. /\ proc' \in [Proc -> Process]
      /\ proc'[p].step = step /\ proc'[p].cmd = cmd /\ proc'[p].at = at
      /\ proc'[p].conf = c /\ proc'[p].image = image
      /\ proc'[p].alone <=> \A r \in Proc \ {p} : ~Running(r)
      /\ proc'[p].torn <=> \E x \in Pods : spec[x] = Torn
      /\ proc'[p].late <=> Up("sonic") /\ ~pod["sonic"].ready
      /\ proc'[p].result = "fine"
  <2> DEFINE alone == \A r \in Proc \ {p} : ~Running(r)
             torn == \E x \in Pods : spec[x] = Torn
             late == Up("sonic") /\ ~pod["sonic"].ready
             mine == [step |-> step, cmd |-> cmd, at |-> at, conf |-> c,
                      image |-> image, result |-> "fine", alone |-> alone,
                      torn |-> torn, late |-> late]
             other(q) == [proc[q] EXCEPT !.alone = @ /\ ~Running(q)]
  <2>1. proc' = [q \in Proc |-> IF q = p THEN mine ELSE other(q)]
    BY DEF Start
  <2>2. alone \in BOOLEAN /\ torn \in BOOLEAN /\ late \in BOOLEAN
    OBVIOUS
  <2>3. mine \in Process
    <3> HIDE DEF alone, torn, late
    <3>1. QED
      BY <2>2 DEF Process, Results
  <2>4. ASSUME NEW q \in Proc PROVE other(q) \in Process
    <3> DEFINE still == proc[q].alone /\ ~Running(q)
    <3>1. proc[q] \in Process /\ still \in BOOLEAN
      BY <1>1 DEF TypeOK
    <3>2. other(q) = [proc[q] EXCEPT !.alone = still]
      OBVIOUS
    <3> HIDE DEF still, other
    <3>3. [proc[q] EXCEPT !.alone = still] \in Process
      BY <3>1 DEF Process
    <3>4. QED
      BY <3>2, <3>3
  <2> HIDE DEF alone, torn, late, other
  <2>5. proc' \in [Proc -> Process] /\ proc'[p] = mine
    BY <2>1, <2>3, <2>4
  <2>6. /\ proc'[p].step = step /\ proc'[p].cmd = cmd /\ proc'[p].at = at
        /\ proc'[p].conf = c /\ proc'[p].image = image
        /\ proc'[p].alone = alone /\ proc'[p].torn = torn /\ proc'[p].late = late
        /\ proc'[p].result = "fine"
    BY <2>5
  <2> HIDE DEF mine
  <2>7. proc'[p].alone <=> \A r \in Proc \ {p} : ~Running(r)
    BY <2>6, Zenon DEF alone
  <2>8. proc'[p].torn <=> \E x \in Pods : spec[x] = Torn
    BY <2>6, Zenon DEF torn
  <2>9. proc'[p].late <=> Up("sonic") /\ ~pod["sonic"].ready
    BY <2>6, Zenon DEF late
  <2>10. QED
    BY <2>5, <2>6, <2>7, <2>8, <2>9
<1>3. \A q \in Proc \ {p} :
        /\ proc'[q].step = proc[q].step /\ proc'[q].cmd = proc[q].cmd
        /\ proc'[q].at = proc[q].at /\ proc'[q].conf = proc[q].conf
        /\ proc'[q].image = proc[q].image /\ proc'[q].result = proc[q].result
        /\ proc'[q].alone <=> proc[q].alone /\ ~Running(q)
  <2>1. SUFFICES ASSUME NEW q \in Proc, q # p
                 PROVE  /\ proc'[q].step = proc[q].step /\ proc'[q].cmd = proc[q].cmd
                        /\ proc'[q].at = proc[q].at /\ proc'[q].conf = proc[q].conf
                        /\ proc'[q].image = proc[q].image
                        /\ proc'[q].result = proc[q].result
                        /\ proc'[q].alone <=> proc[q].alone /\ ~Running(q)
    OBVIOUS
  <2> DEFINE still == proc[q].alone /\ ~Running(q)
             r == proc[q]
  <2>2. r \in Process /\ proc'[q] = [r EXCEPT !.alone = still]
    BY <1>1, <2>1 DEF Start, TypeOK
  <2> HIDE DEF still, r
  <2>3. /\ proc'[q].step = r.step /\ proc'[q].cmd = r.cmd
        /\ proc'[q].at = r.at /\ proc'[q].conf = r.conf
        /\ proc'[q].image = r.image /\ proc'[q].result = r.result
        /\ proc'[q].alone = still
    BY <2>2 DEF Process
  <2>4. QED
    BY <2>3 DEF r, still
<1>4. /\ count' \in 0..MaxCommands
      /\ asked' = IF cmd = "stop" THEN asked ELSE asked \cup {c}
      /\ flags' = flags \cup {image}
      /\ booted' = None
  BY <1>1, RebootAssumption DEF Start, TypeOK
<1>5. Base'
  <2>1. TypeOK'
    BY <1>1, <1>2, <1>4 DEF TypeOK
  <2>2. ASSUME NEW q \in Proc PROVE Shape(q)'
    BY <1>1, <1>2, <1>3 DEF IInv, Base, Shape, PodSteps, Mapped
  <2>3. OnlyAsked'
    BY <1>1, <1>2, <1>3, <1>4 DEF IInv, Base, OnlyAsked, Up
  <2>4. OnlyFlags'
    BY <1>1, <1>2, <1>3, <1>4 DEF IInv, Base, OnlyFlags, Running
  <2>5. RowsNeedRedis'
    BY <1>1 DEF IInv, Base, RowsNeedRedis, Up
  <2>6. QED
    BY <2>1, <2>2, <2>3, <2>4, <2>5 DEF Base
<1>6. ASSUME NEW q \in Proc PROVE Quiet(q)'
  <2>1. CASE q # p
    BY <1>3, <2>1 DEF IInv, Quiet
  <2>2. CASE q = p
    <3>1. OwnPod(p)' /\ Behind(p)' /\ NotLate(p)'
      BY <1>1, <1>2 DEF OwnPod, Behind, NotLate, Up
    <3>2. OwnFiles(p)'
      BY <1>1, <1>2 DEF OwnFiles, Mapped
    <3>3. proc'[p].alone => \A r \in Proc \ {p} : ~Running(r)'
      BY <1>2, <1>3 DEF Running
    <3>4. Running(p)'
      BY <1>2 DEF Running
    <3>5. QED
      BY <2>2, <3>1, <3>2, <3>3, <3>4 DEF Quiet
  <2>3. QED
    BY <2>1, <2>2
<1>7. Left'
  BY <1>4 DEF Left
<1>8. QED
  BY <1>5, <1>6, <1>7 DEF IInv

LEMMA WipeStep ==
  ASSUME IInv, NEW p \in Proc, Wipe(p)
  PROVE  IInv'
<1>1. TypeOK /\ Shape(p) /\ proc[p].step = "wipe" /\ Running(p)
      /\ proc[p].at = "redis" /\ proc[p].cmd # "stop"
  BY DEF IInv, Base, Wipe, Running, Shape
<1>2. /\ UNCHANGED <<pod, map, rows, count, asked, booted>>
      /\ spec' = [x \in Pods |-> Absent] /\ mapFile' = [x \in Mapped |-> Absent]
      /\ flags' = {proc[q].image : q \in {r \in Proc : Running(r)}}
  BY DEF Wipe
<1>3. /\ proc' \in [Proc -> Process]
      /\ proc'[p].step = "get" /\ ~proc'[p].torn
      /\ proc'[p].cmd = proc[p].cmd /\ proc'[p].at = proc[p].at
      /\ proc'[p].conf = proc[p].conf /\ proc'[p].image = proc[p].image
      /\ proc'[p].alone = proc[p].alone /\ proc'[p].late = proc[p].late
      /\ proc'[p].result = proc[p].result
      /\ \A q \in Proc \ {p} : proc'[q] = proc[q]
  <2>1. proc' = [proc EXCEPT ![p].step = "get", ![p].torn = FALSE]
    BY DEF Wipe, FirstStep
  <2> DEFINE n == [proc[p] EXCEPT !.step = "get", !.torn = FALSE]
  <2>2. proc \in [Proc -> Process] /\ proc[p] \in Process
    BY <1>1 DEF TypeOK
  <2>3. n \in Process
    BY <2>2 DEF Process, Steps
  <2>4. /\ n.step = "get" /\ ~n.torn /\ n.cmd = proc[p].cmd
        /\ n.at = proc[p].at /\ n.conf = proc[p].conf
        /\ n.image = proc[p].image /\ n.alone = proc[p].alone
        /\ n.late = proc[p].late /\ n.result = proc[p].result
    BY <2>2 DEF Process
  <2>5. proc' = [proc EXCEPT ![p] = n]
    BY <2>1, <2>2
  <2> HIDE DEF n
  <2>6. /\ proc' \in [Proc -> Process] /\ proc'[p] = n
        /\ \A q \in Proc \ {p} : proc'[q] = proc[q]
    BY <2>2, <2>3, <2>5
  <2>7. QED
    BY <2>4, <2>6
<1>4. Base'
  <2>1. TypeOK'
    BY <1>1, <1>2, <1>3, ProcType DEF TypeOK
  <2>2. ASSUME NEW q \in Proc PROVE Shape(q)'
    BY <1>1, <1>2, <1>3 DEF IInv, Base, Shape, PodSteps, Mapped
  <2>3. OnlyAsked'
    BY <1>1, <1>2, <1>3 DEF IInv, Base, OnlyAsked, Up
  <2>4. OnlyFlags'
    BY <1>1, <1>2, <1>3 DEF OnlyFlags, Running, Pods
  <2>5. RowsNeedRedis'
    BY <1>2 DEF IInv, Base, RowsNeedRedis, Up
  <2>6. QED
    BY <2>1, <2>2, <2>3, <2>4, <2>5 DEF Base
<1>5. ASSUME NEW q \in Proc PROVE Quiet(q)'
  BY <1>1, <1>2, <1>3, RebootAssumption DEF IInv, Quiet, OwnPod, OwnFiles,
     Behind, NotLate, Running, Up, PodSteps, Mapped
<1>6. Left'
  BY <1>1, <1>2, OneRuns DEF Left
<1>7. QED
  BY <1>4, <1>5, <1>6 DEF IInv

(* A pod that becomes ready stays the pod it is. *)
LEMMA ReadyEffect ==
  ASSUME TypeOK, NEW x \in Pods, Up(x), Ready(x)
  PROVE  /\ pod' \in [Pods -> Pod \cup {Down}]
         /\ \A y \in Pods \ {x} : pod'[y] = pod[y]
         /\ pod'[x] # Down /\ pod'[x].ready
         /\ pod'[x].conf = pod[x].conf /\ pod'[x].image = pod[x].image
<1>1. pod[x] \in Pod /\ pod' = [pod EXCEPT ![x].ready = TRUE]
  BY DEF TypeOK, Up, Ready
<1>2. [pod[x] EXCEPT !.ready = TRUE] \in Pod
  BY <1>1 DEF Pod
<1>3. QED
  BY <1>1, <1>2, PodAssumption DEF TypeOK, Pod, PodAssumption

LEMMA ReadyStep ==
  ASSUME IInv, NEW x \in {"redis", "sonic"}, Up(x), ~pod[x].ready, Ready(x),
         \/ x = "redis" /\ rows' = rows
         \/ /\ x = "sonic" /\ Answers
            /\ rows' = [rows EXCEPT !.config = @ \cup {pod["sonic"].conf}],
         UNCHANGED <<spec, mapFile, map, proc, count, asked, flags, booted>>
  PROVE  IInv'
<1>1. TypeOK /\ x \in Pods
  BY DEF IInv, Base, Pods
<1>2. /\ pod' \in [Pods -> Pod \cup {Down}]
      /\ \A y \in Pods \ {x} : pod'[y] = pod[y]
      /\ pod'[x] # Down /\ pod'[x].ready
      /\ pod'[x].conf = pod[x].conf /\ pod'[x].image = pod[x].image
      /\ \A y \in Pods : Up(y)' <=> Up(y)
  BY <1>1, ReadyEffect DEF Up
<1>3. x = "sonic" => pod[x].conf \in asked /\ pod[x].conf \in Conf
  BY <1>1 DEF IInv, Base, OnlyAsked, Mapped, TypeOK
<1>4. /\ rows' \in [transport : SUBSET Conf, config : SUBSET Conf]
      /\ rows'.transport = rows.transport
      /\ x = "redis" => rows' = rows
      /\ x = "sonic" => rows'.config = rows.config \cup {pod["sonic"].conf}
  BY <1>1, <1>3 DEF TypeOK
<1>5. Base'
  <2>1. TypeOK'
    BY <1>1, <1>2, <1>4 DEF TypeOK
  <2>2. ASSUME NEW q \in Proc PROVE Shape(q)'
    BY DEF IInv, Base, Shape
  <2>3. OnlyAsked'
    BY <1>1, <1>2 DEF IInv, Base, OnlyAsked, Mapped, Pods
  <2>4. OnlyFlags'
    BY DEF IInv, Base, OnlyFlags, Running
  <2>5. RowsNeedRedis'
    BY <1>2 DEF RowsNeedRedis, Answers, Pods, Up
  <2>6. QED
    BY <2>1, <2>2, <2>3, <2>4, <2>5 DEF Base
<1>6. ASSUME NEW q \in Proc, proc[q].alone PROVE Quiet(q)'
  <2>1. Quiet(q) /\ OwnPod(q) /\ OwnFiles(q) /\ Behind(q) /\ NotLate(q)
    BY <1>6 DEF IInv, Quiet
  <2>2. OwnPod(q)' /\ OwnFiles(q)'
    BY <1>1, <1>2, <2>1, ProcType DEF OwnPod, OwnFiles
  <2>3. NotLate(q)'
    BY <1>1, <1>2, <2>1 DEF NotLate, Pods
  <2>4. ~proc[q].late => rows'.config = rows.config
    BY <1>4, <2>1 DEF NotLate
  <2>5. Behind(q)'
    BY <1>1, <1>2, <1>4, <2>1, <2>4 DEF Behind, Pods
  <2>6. QED
    BY <2>1, <2>2, <2>3, <2>5 DEF Quiet, Running
<1>7. Left'
  BY <1>1, <1>2, <1>4 DEF IInv, Left, UndisturbedRebootTakes, ImageFollowsFlag,
     NoRowsOfOthers, Running, Answers, Pods
<1>8. QED
  BY <1>5, <1>6, <1>7 DEF IInv, Quiet

LEMMA NextStep ==
  ASSUME IInv, Next
  PROVE  IInv'
<1>1. ASSUME NEW p \in Proc, StartReboot(p) PROVE IInv'
  <2>1. PICK c \in Conf, image \in Images : Start(p, "reboot", "redis", "get", c, image)
    BY <1>1 DEF StartReboot, FirstStep
  <2>2. QED
    BY <2>1, StartStep DEF Pods, Steps
<1>2. ASSUME NEW p \in Proc, StartInit(p) PROVE IInv'
  <2>1. PICK image \in Images : Start(p, "init", "redis", "wipe", Default, image)
    BY <1>2 DEF StartInit
  <2>2. QED
    BY <2>1, StartStep, RebootAssumption DEF Pods, Steps
<1>3. ASSUME NEW p \in Proc, StartStop(p) PROVE IInv'
  <2>1. Start(p, "stop", "transyncd", "get", Default, "plain")
    BY <1>3 DEF StartStop
  <2>2. QED
    BY <2>1, StartStep, RebootAssumption DEF Pods, Steps, Images
<1>4. ASSUME NEW p \in Proc, Advance(p) PROVE IInv'
  BY <1>4, WipeStep, TablesStep, OpenMapStep, WriteMapStep, ApplyMapStep, GetStep,
     DeleteStep, StatStep, OpenStep, WriteStep, CreateStep DEF Advance
<1>5. ASSUME NEW p \in Proc, Kill(p) PROVE IInv'
  BY <1>5, EndKeeps DEF Kill, Results
<1>6. CASE RedisStarts
  BY <1>6, ReadyStep DEF RedisStarts
<1>7. CASE SonicInit
  BY <1>7, ReadyStep DEF SonicInit
<1>8. QED
  BY <1>1, <1>2, <1>3, <1>4, <1>5, <1>6, <1>7 DEF Next

LEMMA StutterStep ==
  ASSUME IInv, UNCHANGED vars
  PROVE  IInv'
<1>1. Base'
  BY DEF vars, IInv, Base, TypeOK, Shape, OnlyAsked, OnlyFlags, RowsNeedRedis,
         Running, Up
<1>2. (\A p \in Proc : Quiet(p))'
  BY DEF vars, IInv, Quiet, OwnPod, OwnFiles, Behind, NotLate, Running, Up
<1>3. Left'
  BY DEF vars, IInv, Left, UndisturbedRebootTakes, ImageFollowsFlag,
         NoRowsOfOthers, Running, Answers, Up
<1>4. QED
  BY <1>1, <1>2, <1>3 DEF IInv

LEMMA InitHolds == Init => IInv
<1> SUFFICES ASSUME Init PROVE IInv
  OBVIOUS
<1>1. Idle("fine") \in Process
  BY RebootAssumption DEF Idle, Process, Steps, Pods, Images, Results
<1>2. TypeOK
  BY <1>1, RebootAssumption DEF Init, TypeOK
<1>3. Base
  BY <1>2, RebootAssumption DEF Init, Idle, Base, Shape, OnlyAsked, OnlyFlags,
     RowsNeedRedis, Running, Up, Mapped, Pods
<1>4. (\A p \in Proc : Quiet(p)) /\ Left
  BY DEF Init, Idle, Quiet, Left
<1>5. QED
  BY <1>3, <1>4 DEF IInv

THEOREM Invariance == Spec => []IInv
BY InitHolds, NextStep, StutterStep, PTL DEF Spec

------------------------------------------------------------------------------
(* The pods, the files, the config maps and the tables hold what they can   *)
(* hold: TypeOK, about everything that main.go, k8s.go, sonic.go and        *)
(* ofdpa.go write.                                                          *)
THEOREM TypeCorrect == Spec => []TypeOK
<1>1. IInv => TypeOK
  BY DEF IInv, Base
<1>2. QED
  BY <1>1, Invariance, PTL

LEMMA LeftHolds ==
  ASSUME IInv
  PROVE  UndisturbedRebootTakes /\ ImageFollowsFlag /\ NoRowsOfOthers
BY DEF IInv, Left, UndisturbedRebootTakes, ImageFollowsFlag, NoRowsOfOthers

(* rebootSystem that nobody overlaps leaves all pods with its configuration *)
(* whatever it found.                                                       *)
THEOREM RebootTakes == Spec => []UndisturbedRebootTakes
BY LeftHolds, Invariance, PTL

(* The images are those of --virtual unless the spec files of the git       *)
(* directory were written for the other flag.                               *)
THEOREM FlagFollowed == Spec => []ImageFollowsFlag
BY LeftHolds, Invariance, PTL

(* CONFIG_DB is free of the rows of other configurations unless an old      *)
(* sonic pod was late.                                                      *)
THEOREM RowsAreClean == Spec => []NoRowsOfOthers
BY LeftHolds, Invariance, PTL

------------------------------------------------------------------------------
(* Why a command fails. *)

LEMMA AloneAdvances ==
  ASSUME IInv, NEW p \in Proc, Advance(p), proc[p].alone, ~proc[p].torn
  PROVE  proc'[p].result = "fine"
<1>1. /\ TypeOK /\ Shape(p) /\ OwnPod(p) /\ OwnFiles(p)
      /\ proc[p].at \in Pods /\ proc[p].conf \in Conf
  BY ProcType DEF IInv, Base, Quiet
<1>2. Running(p) /\ proc[p].result = "fine"
  BY <1>1 DEF IInv, Quiet, Shape, Running
<1>3. \A s \in Steps : Go(p, s) => proc'[p].result = "fine"
  BY <1>1, <1>2, GoEffect DEF Moves
<1>4. End(p, "fine") => proc'[p].result = "fine"
  BY <1>1, EndEffect DEF Ends, Results
<1>5. \A s \in Steps, x \in Pods :
        proc' = [proc EXCEPT ![p].step = s, ![p].at = x] => proc'[p].result = "fine"
  <2>1. TAKE s \in Steps, x \in Pods
  <2>2. HAVE proc' = [proc EXCEPT ![p].step = s, ![p].at = x]
  <2>3. Turns(p, s, x)
    BY <1>1, <2>2, TurnEffect
  <2>4. QED
    BY <1>2, <2>3 DEF Turns
<1>6. AfterDelete(p) => proc'[p].result = "fine"
  BY <1>1, <1>3, <1>4, <1>5 DEF AfterDelete, Finish, StopNext, Steps, Pods
<1>7. ASSUME Wipe(p) PROVE proc'[p].result = "fine"
  BY <1>1, <1>2, <1>7 DEF Wipe, TypeOK, Process
<1>8. ASSUME Tables(p) PROVE proc'[p].result = "fine"
  BY <1>3, <1>4, <1>8 DEF Tables, Steps
<1>9. ASSUME OpenMap(p) \/ WriteMap(p) PROVE proc'[p].result = "fine"
  BY <1>3, <1>9 DEF OpenMap, WriteMap, Steps
<1>10. ASSUME ApplyMap(p) PROVE proc'[p].result = "fine"
  BY <1>1, <1>3, <1>10 DEF ApplyMap, OwnFiles, Steps
<1>11. ASSUME Get(p) PROVE proc'[p].result = "fine"
  BY <1>3, <1>6, <1>11 DEF Get, Steps
<1>12. ASSUME Delete(p) PROVE proc'[p].result = "fine"
  BY <1>1, <1>6, <1>12 DEF Delete, OwnPod
<1>13. ASSUME Stat(p) \/ Open(p) \/ Write(p) PROVE proc'[p].result = "fine"
  BY <1>3, <1>13 DEF Stat, Open, Write, Steps
<1>14. ASSUME Create(p) PROVE proc'[p].result = "fine"
  <2> DEFINE x == proc[p].at
             next == RebootNext(x, proc[p].image)
  <2>1. proc[p].step = "create"
    BY <1>14 DEF Create
  <2>2. spec[x] \in Images /\ ~Up(x)
    <3>1. spec[x] \in Images \cup {Absent, Torn}
      BY <1>1 DEF TypeOK
    <3>2. spec[x] # Torn /\ spec[x] # Absent /\ ~Up(x)
      BY <1>1, <2>1 DEF OwnFiles, OwnPod
    <3>3. QED
      BY <3>1, <3>2
  <2>3. FirstStep(next) \in Steps /\ next \in Pods
    BY DEF FirstStep, RebootNext, Steps, Pods
  <2>4. QED
    BY <1>4, <1>5, <1>14, <2>2, <2>3 DEF Create, CanCreate, Finish
<1>15. QED
  BY <1>7, <1>8, <1>9, <1>10, <1>11, <1>12, <1>13, <1>14 DEF Advance

LEMMA AloneNext ==
  ASSUME IInv, Next, NEW p \in Proc, proc[p].alone, ~proc[p].torn
  PROVE  proc'[p].result = "fine"
<1>1. TypeOK /\ Running(p) /\ proc[p].result = "fine"
      /\ \A q \in Proc \ {p} : ~Running(q)
  BY DEF IInv, Base, Quiet, Shape, Running
<1>2. ASSUME NEW q \in Proc, StartReboot(q) \/ StartInit(q) \/ StartStop(q)
      PROVE  proc'[p].result = "fine"
  <2>1. PICK cmd, at, step, c, image : Start(q, cmd, at, step, c, image)
    BY <1>2 DEF StartReboot, StartInit, StartStop
  <2>2. q # p
    BY <1>1, <2>1 DEF Start
  <2>3. proc'[p] = [proc[p] EXCEPT !.alone = @ /\ ~Running(p)]
    BY <2>1, <2>2 DEF Start
  <2>4. QED
    BY <1>1, <2>3 DEF TypeOK, Process
<1>3. ASSUME NEW q \in Proc, Advance(q) PROVE proc'[p].result = "fine"
  <2>1. Running(q)
    BY <1>3 DEF Advance, Wipe, Tables, OpenMap, WriteMap, ApplyMap, Get, Delete,
       Stat, Open, Write, Create, Running
  <2>2. QED
    BY <1>1, <1>3, <2>1, AloneAdvances
<1>4. ASSUME NEW q \in Proc, Kill(q) PROVE proc'[p].result = "fine"
  BY <1>1, <1>4, EndEffect DEF Kill, Ends, Results
<1>5. CASE RedisStarts \/ SonicInit
  BY <1>1, <1>5 DEF RedisStarts, SonicInit
<1>6. QED
  BY <1>2, <1>3, <1>4, <1>5 DEF Next

(* deletePod asks before it deletes, the spec files are written once and    *)
(* the maps anew: a command that nobody overlaps repeats what an earlier    *)
(* one left undone, unless that one was killed while it wrote a spec file.  *)
THEOREM CommandsHeal == Spec => RerunHeals
<1>1. ASSUME IInv, [Next]_vars
      PROVE  [\A p \in Proc :
                proc[p].alone /\ ~proc[p].torn => proc'[p].result = "fine"]_vars
  BY <1>1, AloneNext
<1>2. QED
  BY <1>1, Invariance, PTL DEF Spec, RerunHeals

------------------------------------------------------------------------------
(* The commands implement the appliance. *)

LEMMA CarriedAsked ==
  ASSUME IInv
  PROVE  Carried \in asked \cup {None} /\ None \notin asked
BY RebootAssumption DEF IInv, Base, TypeOK, OnlyAsked, Carried, Mapped

(* A step that touches one pod, and that pod only.                          *)
LEMMA OnePodSteps ==
  ASSUME IInv, IInv', NEW x \in Pods, asked' = asked,
         \A y \in Pods \ {x} : pod'[y] = pod[y],
         x = "sonic" => \/ pod[x] = Down \/ pod'[x] = Down
                        \/ pod'[x].conf = pod[x].conf
  PROVE  [A!Ask \/ A!TakeUp \/ A!TakeDown]_<<Carried, asked>>
<1>1. /\ Carried \in asked \cup {None} /\ None \notin asked
      /\ Carried' \in asked \cup {None}
  <2>1. Carried' \in asked' \cup {None}
    BY DEF IInv, Base, OnlyAsked, Carried, Mapped
  <2>2. QED
    BY <2>1, CarriedAsked
<1>2. Carried # None => Up("sonic") /\ Carried = pod["sonic"].conf
  BY DEF Carried
<1>3. Carried' # None => Up("sonic")' /\ Carried' = pod'["sonic"].conf
  BY DEF Carried
<1>4. CASE Carried = None \/ Carried' = None
  BY <1>1, <1>4 DEF A!TakeUp, A!TakeDown
<1>5. CASE Carried # None /\ Carried' # None
  <2>1. pod'["sonic"].conf = pod["sonic"].conf
    BY <1>2, <1>3, <1>5 DEF Up, Pods
  <2>2. QED
    BY <1>2, <1>3, <1>5, <2>1
<1>6. QED
  BY <1>4, <1>5

LEMMA NextImplements ==
  ASSUME IInv, IInv', Next
  PROVE  [A!Ask \/ A!TakeUp \/ A!TakeDown]_<<Carried, asked>>
<1>1. TypeOK
  BY DEF IInv, Base
<1>2. CASE pod' = pod /\ asked' = asked
  BY <1>2 DEF Carried, Up
<1>3. ASSUME NEW p \in Proc, StartReboot(p) \/ StartInit(p) \/ StartStop(p)
      PROVE  [A!Ask \/ A!TakeUp \/ A!TakeDown]_<<Carried, asked>>
  <2>1. PICK c \in Conf : \E cmd, at, step, image : Start(p, cmd, at, step, c, image)
    <3>1. CASE StartReboot(p)
      BY <3>1 DEF StartReboot
    <3>2. CASE StartInit(p)
      BY <3>2, RebootAssumption DEF StartInit
    <3>3. CASE StartStop(p)
      BY <3>3, RebootAssumption DEF StartStop
    <3>4. QED
      BY <1>3, <3>1, <3>2, <3>3
  <2>2. pod' = pod /\ (asked' = asked \/ asked' = asked \cup {c})
    BY <2>1 DEF Start
  <2>3. Carried' = Carried
    BY <2>2 DEF Carried, Up
  <2>4. QED
    BY <2>2, <2>3 DEF A!Ask
<1>4. ASSUME NEW p \in Proc, Delete(p)
      PROVE  [A!Ask \/ A!TakeUp \/ A!TakeDown]_<<Carried, asked>>
  <2>1. proc[p].at \in Pods /\ asked' = asked
    BY <1>1, <1>4, ProcType DEF Delete
  <2>2. CASE Up(proc[p].at)
    <3>1. pod' = [pod EXCEPT ![proc[p].at] = Down]
      BY <1>4, <2>2 DEF Delete
    <3>2. QED
      BY <1>1, <2>1, <3>1, OnePodSteps DEF TypeOK
  <2>3. CASE ~Up(proc[p].at)
    BY <1>2, <1>4, <2>1, <2>3 DEF Delete
  <2>4. QED
    BY <2>2, <2>3
<1>5. ASSUME NEW p \in Proc, Create(p)
      PROVE  [A!Ask \/ A!TakeUp \/ A!TakeDown]_<<Carried, asked>>
  <2>1. proc[p].at \in Pods /\ asked' = asked
    BY <1>1, <1>5, ProcType DEF Create
  <2>2. CASE CanCreate(proc[p].at)
    <3>1. pod' = [pod EXCEPT ![proc[p].at] = Created(proc[p].at)]
          /\ pod[proc[p].at] = Down
      BY <1>5, <2>2 DEF Create, CanCreate, Up
    <3>2. QED
      BY <1>1, <2>1, <3>1, OnePodSteps DEF TypeOK
  <2>3. CASE ~CanCreate(proc[p].at)
    BY <1>2, <1>5, <2>1, <2>3 DEF Create
  <2>4. QED
    BY <2>2, <2>3
<1>6. ASSUME NEW p \in Proc, Advance(p) \/ Kill(p), ~Delete(p), ~Create(p)
      PROVE  [A!Ask \/ A!TakeUp \/ A!TakeDown]_<<Carried, asked>>
  <2>1. asked' = asked /\ pod' = pod
    BY <1>6 DEF Advance, Kill, Wipe, Tables, OpenMap, WriteMap, ApplyMap, Get,
       Stat, Open, Write
  <2>2. QED
    BY <1>2, <2>1
<1>7. ASSUME NEW x \in {"redis", "sonic"}, Up(x), Ready(x), asked' = asked
      PROVE  [A!Ask \/ A!TakeUp \/ A!TakeDown]_<<Carried, asked>>
  <2>1. /\ x \in Pods /\ pod'[x].conf = pod[x].conf
        /\ \A y \in Pods \ {x} : pod'[y] = pod[y]
    BY <1>1, <1>7, ReadyEffect DEF Pods
  <2>2. QED
    BY <1>7, <2>1, OnePodSteps
<1>8. CASE RedisStarts \/ SonicInit
  BY <1>7, <1>8 DEF RedisStarts, SonicInit
<1>9. QED
  BY <1>3, <1>4, <1>5, <1>6, <1>8 DEF Next

(* However commands interleave, fail and are repeated, the appliance        *)
(* carries a configuration somebody asked for or none, and is down between  *)
(* two of them.                                                             *)
THEOREM Implements == Spec => ImplementsAppliance
<1>1. Init => A!Init
  BY DEF Init, A!Init, Carried, Up, Pods
<1>2. ASSUME IInv, IInv', [Next]_vars
      PROVE  [A!Ask \/ A!TakeUp \/ A!TakeDown]_<<Carried, asked>>
  <2>1. CASE Next
    BY <1>2, <2>1, NextImplements
  <2>2. CASE UNCHANGED vars
    BY <2>2 DEF vars, Carried, Up
  <2>3. QED
    BY <1>2, <2>1, <2>2
<1>3. QED
  BY <1>1, <1>2, Invariance, PTL DEF Spec, ImplementsAppliance, A!Spec
==============================================================================
