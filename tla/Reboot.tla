------------------------------- MODULE Reboot -------------------------------
(***************************************************************************)
(* rebootSystem and its neighbours: the four Kubernetes pods of the        *)
(* appliance, the files in the git directory they are created from, and    *)
(* the commands that delete and create them.                               *)
(*                                                                         *)
(*   reboot   `oopt reboot`, or the end of a commit: redis, transyncd,     *)
(*            ofdpa (not with --virtual) and sonic, one after the other    *)
(*   init     `oopt init --force`: empties the git directory, then reboots *)
(*   stop     `oopt stop`: deletes the pods in another order               *)
(*                                                                         *)
(* Every call of kubectl, every file that is opened and every file that is *)
(* written is a step of its own; a command may end after any of them.  The *)
(* tables in redis are seen from afar: which configurations' rows are in   *)
(* them since redis last started (SonicVlan and OpticalTable are about the *)
(* rows).  An error of kubectl that nothing in this state explains is an   *)
(* end of the command like a kill.                                         *)
(***************************************************************************)
EXTENDS Integers

CONSTANTS
  Proc,        \* the processes that run oopt commands
  Conf,        \* the configurations a command may boot
  Default,     \* the configuration `oopt init` boots
  None,        \* no configuration
  Absent,      \* there is no such file or config map
  Torn,        \* a file that was opened, or written by two at once
  Down,        \* there is no such pod
  MaxCommands  \* bound: how many commands are started

Pods == {"redis", "transyncd", "ofdpa", "sonic"}
Mapped == {"ofdpa", "sonic"}  \* the pods that mount a config map
Images == {"plain", "virtual"}

ASSUME RebootAssumption ==
  /\ Default \in Conf
  /\ {None, Absent, Torn} \cap Conf = {}
  /\ {Absent, Torn} \cap Images = {} /\ Absent # Torn
  /\ MaxCommands \in Nat

(* What a pod was created with, and whether it is `ready`: redis answers,   *)
(* the init containers of sonic are through.                                *)
Pod == [image : Images, conf : Conf \cup {None}, ready : BOOLEAN]

ASSUME PodAssumption == Down \notin Pod

VARIABLES
  pod,      \* the pods kubectl knows
  spec,     \* redis.yml, transyncd.yml, ofdpa.yml, sonic.yml
  mapFile,  \* ofdpa-config.yml, sonic-config.yml
  map,      \* the config maps kubectl knows
  rows,     \* the configurations whose rows are in redis
  proc,     \* the memory of each process
  count     \* how many commands were started

(* Ghost variables: they remember what the properties are about. *)
VARIABLES
  asked,    \* the configurations of the commands so far
  flags,    \* the images of the commands since the git directory was empty
  booted    \* what a reboot left that nothing has disturbed since, or None

vars == <<pod, spec, mapFile, map, rows, proc, count, asked, flags, booted>>

Steps == {"idle", "wipe", "tables", "openmap", "writemap", "map",
          "get", "delete", "stat", "open", "write", "create"}
Results == {"fine", "gone", "exists", "unreadable"}

Process == [step   : Steps,
            cmd    : {"init", "reboot", "stop"},
            at     : Pods,                \* the pod it is at
            conf   : Conf,                \* `current`
            image  : Images,              \* --virtual or not
            result : Results,             \* ghost: did the last command end
                                          \* because of what it met?
            alone  : BOOLEAN,             \* ghost: no other ran meanwhile
            torn   : BOOLEAN,             \* ghost: it met a torn spec file
            late   : BOOLEAN]             \* ghost: it met a sonic pod that
                                          \* was not ready

Booted == [conf : Conf, image : Images, late : BOOLEAN]

Running(p) == proc[p].step # "idle"
Up(x) == pod[x] # Down
Answers == Up("redis") /\ pod["redis"].ready

(* rebootSystem's order of the pods; with --virtual there is no ofdpa.      *)
RebootNextShort(x, image) ==  \* mutant: ofdpa left out on hardware too
  IF x = "redis" THEN "transyncd" ELSE "sonic"
RebootNext(x, image) ==
  CASE x = "redis" -> "transyncd"
    [] x = "transyncd" /\ image = "plain" -> "ofdpa"
    [] OTHER -> "sonic"

(* The order of stop. *)
StopNext(x) ==
  CASE x = "transyncd" -> "sonic" [] x = "sonic" -> "ofdpa" [] OTHER -> "redis"

(* The first step of a reboot at pod x, and what follows its tables.        *)
FirstStep(x) ==
  CASE x = "redis" -> "get" [] x = "ofdpa" -> "openmap" [] OTHER -> "tables"

Go(p, step) == proc' = [proc EXCEPT ![p].step = step]

(* A process before it starts a command, and after it exits. *)
IdleEmpty(why) ==  \* mutant: `current` is not there yet
  [step |-> "idle", cmd |-> "stop", at |-> "redis", conf |-> None,
   image |-> "plain", result |-> why, alone |-> FALSE, torn |-> FALSE,
   late |-> FALSE]
Idle(why) ==
  [step |-> "idle", cmd |-> "stop", at |-> "redis", conf |-> Default,
   image |-> "plain", result |-> why, alone |-> FALSE, torn |-> FALSE,
   late |-> FALSE]
End(p, why) == proc' = [proc EXCEPT ![p] = Idle(why)]

(* Two writers of one file that was truncated by both: what the second one  *)
(* leaves is its own text, or its own text and the tail of the other's.     *)
Writes(was, text) == IF was \in {Torn, text} THEN {text} ELSE {text, Torn}

(* The text of a spec file; only two of the templates name an image.        *)
TextPlain(x, image) == "plain"  \* mutant: --virtual does not reach them
Text(x, image) == IF x \in {"transyncd", "sonic"} THEN image ELSE "plain"

(* kubectl create succeeded for the last pod, or stop is through.           *)
Finish(p) ==
  /\ End(p, "fine")
  /\ booted' = IF proc[p].alone /\ proc[p].cmd # "stop"
                 THEN [conf |-> proc[p].conf, image |-> proc[p].image,
                       late |-> proc[p].late]
                 ELSE booted

Init ==
  /\ pod = [x \in Pods |-> Down]
  /\ spec = [x \in Pods |-> Absent]
  /\ mapFile = [x \in Mapped |-> Absent]
  /\ map = [x \in Mapped |-> Absent]
  /\ rows = [transport |-> {}, config |-> {}]
  /\ proc = [p \in Proc |-> Idle("fine")]
  /\ count = 0
  /\ asked = {}
  /\ flags = {}
  /\ booted = None

------------------------------------------------------------------------------
(* A command starts; what is validated and committed before it reboots is   *)
(* a matter of OoptCli.tla.                                                 *)
Start(p, cmd, at, step, c, image) ==
  /\ ~Running(p)
  /\ count < MaxCommands
  /\ count' = count + 1
  /\ proc' = [q \in Proc |->
       IF q = p
         THEN [step |-> step, cmd |-> cmd, at |-> at, conf |-> c,
               image |-> image, result |-> "fine",
               alone |-> \A r \in Proc \ {p} : ~Running(r),
               torn |-> \E x \in Pods : spec[x] = Torn,
               late |-> Up("sonic") /\ ~pod["sonic"].ready]
         ELSE [proc[q] EXCEPT !.alone = @ /\ ~Running(q)]]
  /\ asked' = IF cmd = "stop" THEN asked ELSE asked \cup {c}
  /\ flags' = flags \cup {image}
  /\ booted' = None
  /\ UNCHANGED <<pod, spec, mapFile, map, rows>>

StartReboot(p) ==
  \E c \in Conf, image \in Images :
    Start(p, "reboot", "redis", FirstStep("redis"), c, image)
StartInit(p) ==
  \E image \in Images : Start(p, "init", "redis", "wipe", Default, image)
StartStop(p) == Start(p, "stop", "transyncd", "get", Default, "plain")

(* RemoveContents; the repository and config.json that are created anew are *)
(* not looked at by what follows.                                           *)
Wipe(p) ==
  /\ proc[p].step = "wipe"
  /\ spec' = [x \in Pods |-> Absent]
  /\ mapFile' = [x \in Mapped |-> Absent]
  /\ proc' = [proc EXCEPT ![p].step = FirstStep("redis"),
                         ![p].torn = FALSE]
  /\ flags' = {proc[q].image : q \in {r \in Proc : Running(r)}}
  /\ UNCHANGED <<pod, map, rows, count, asked, booted>>

------------------------------------------------------------------------------
(* The configuration everything is computed from: what the command read     *)
(* before it began.                                                         *)
CurrentDefault(p) == Default  \* mutant: always the one of init
Current(p) == proc[p].conf

(* ConfigureTransport before transyncd, WriteToConfigDB before sonic: both  *)
(* ping redis first.  WriteToConfigDB drops the errors of its writes.       *)
Table(x) == IF x = "transyncd" THEN "transport" ELSE "config"

Tables(p) ==
  LET x == proc[p].at
  IN /\ proc[p].step = "tables"
     /\ IF ~Answers
          THEN End(p, "fine") /\ UNCHANGED rows
          ELSE /\ Go(p, IF x = "sonic" THEN "openmap" ELSE "get")
               /\ \/ rows' = [rows EXCEPT ![Table(x)] = @ \cup {Current(p)}]
                  \/ x = "sonic" /\ UNCHANGED rows
     /\ UNCHANGED <<pod, spec, mapFile, map, count, asked, flags, booted>>

(* createConfigMap: the file is truncated, written, and handed to kubectl.  *)
OpenMap(p) ==
  /\ proc[p].step = "openmap"
  /\ mapFile' = [mapFile EXCEPT ![proc[p].at] = Torn]
  /\ Go(p, "writemap")
  /\ UNCHANGED <<pod, spec, map, rows, count, asked, flags, booted>>

WriteMap(p) ==
  LET x == proc[p].at
  IN /\ proc[p].step = "writemap"
     /\ IF mapFile[x] = Absent  \* removed by init: only p still sees it
          THEN UNCHANGED mapFile
          ELSE \E text \in Writes(mapFile[x], Current(p)) :
                 mapFile' = [mapFile EXCEPT ![x] = text]
     /\ Go(p, "map")
     /\ UNCHANGED <<pod, spec, map, rows, count, asked, flags, booted>>

ApplyMap(p) ==
  LET x == proc[p].at
  IN /\ proc[p].step = "map"
     /\ IF mapFile[x] \in Conf
          THEN map' = [map EXCEPT ![x] = mapFile[x]] /\ Go(p, "get")
          ELSE End(p, "unreadable") /\ UNCHANGED map
     /\ UNCHANGED <<pod, spec, mapFile, rows, count, asked, flags, booted>>

------------------------------------------------------------------------------
(* deletePod: kubectl get, and kubectl delete if there is one.              *)
AfterDelete(p) ==
  LET x == proc[p].at
  IN IF proc[p].cmd # "stop" THEN Go(p, "stat") /\ UNCHANGED booted
     ELSE IF x = "redis" THEN Finish(p)
     ELSE /\ proc' = [proc EXCEPT ![p].step = "get", ![p].at = StopNext(x)]
          /\ UNCHANGED booted

IsPodRunningAlways(x) == x \in Pods  \* mutant: takes every pod for running
IsPodRunning(x) == Up(x)

Get(p) ==
  /\ proc[p].step = "get"
  /\ IF IsPodRunning(proc[p].at) THEN Go(p, "delete") /\ UNCHANGED booted
                                 ELSE AfterDelete(p)
  /\ UNCHANGED <<pod, spec, mapFile, map, rows, count, asked, flags>>

(* What redis held is gone with its pod. *)
RowsWithoutKept(x) == rows  \* mutant: redis finds its rows again
RowsWithout(x) == IF x = "redis" THEN [transport |-> {}, config |-> {}] ELSE rows

Delete(p) ==
  LET x == proc[p].at
  IN /\ proc[p].step = "delete"
     /\ IF Up(x)
          THEN /\ pod' = [pod EXCEPT ![x] = Down]
               /\ rows' = RowsWithout(x)
               /\ AfterDelete(p)
          ELSE End(p, "gone") /\ UNCHANGED <<pod, rows, booted>>
     /\ UNCHANGED <<spec, mapFile, map, count, asked, flags>>

(* create...Pod: a spec file that exists is never written again.            *)
SpecExists(x) == spec[x] # Absent

Stat(p) ==
  /\ proc[p].step = "stat"
  /\ Go(p, IF SpecExists(proc[p].at) THEN "create" ELSE "open")
  /\ UNCHANGED <<pod, spec, mapFile, map, rows, count, asked, flags, booted>>

Open(p) ==
  /\ proc[p].step = "open"
  /\ spec' = [spec EXCEPT ![proc[p].at] = Torn]
  /\ Go(p, "write")
  /\ UNCHANGED <<pod, mapFile, map, rows, count, asked, flags, booted>>

Write(p) ==
  LET x == proc[p].at
  IN /\ proc[p].step = "write"
     /\ IF spec[x] = Absent
          THEN UNCHANGED spec
          ELSE \E text \in Writes(spec[x], Text(x, proc[p].image)) :
                 spec' = [spec EXCEPT ![x] = text]
     /\ Go(p, "create")
     /\ UNCHANGED <<pod, mapFile, map, rows, count, asked, flags, booted>>

(* The pod mounts the config map of the moment it is created.               *)
CreatedReady(x) ==  \* mutant: sonic has no init containers
  [image |-> spec[x], conf |-> IF x \in Mapped THEN map[x] ELSE None,
   ready |-> x # "redis"]
Created(x) == [image |-> spec[x],
               conf |-> IF x \in Mapped THEN map[x] ELSE None,
               ready |-> x \notin {"redis", "sonic"}]

(* kubectl create takes a file it can read, of a pod that does not exist.   *)
CanCreate(x) == spec[x] \in Images /\ ~Up(x)

Create(p) ==
  LET x == proc[p].at
      next == RebootNext(x, proc[p].image)
  IN /\ proc[p].step = "create"
     /\ IF CanCreate(x)
          THEN /\ pod' = [pod EXCEPT ![x] = Created(x)]
               /\ IF x = "sonic" THEN Finish(p)
                  ELSE /\ proc' = [proc EXCEPT ![p].step = FirstStep(next),
                                               ![p].at = next]
                       /\ UNCHANGED booted
          ELSE /\ End(p, IF spec[x] \in Images THEN "exists" ELSE "unreadable")
               /\ UNCHANGED <<pod, booted>>
     /\ UNCHANGED <<spec, mapFile, map, rows, count, asked, flags>>

(* The command is killed, or kubectl or the file system reports an error.   *)
Kill(p) ==
  /\ Running(p)
  /\ End(p, "fine")
  /\ UNCHANGED <<pod, spec, mapFile, map, rows, count, asked, flags, booted>>

------------------------------------------------------------------------------
(* redis begins to answer; the init containers of sonic load the config map *)
(* the pod was created with into redis, as soon as that answers.            *)
Ready(x) == pod' = [pod EXCEPT ![x].ready = TRUE]

RedisStarts ==
  /\ Up("redis") /\ ~pod["redis"].ready
  /\ Ready("redis")
  /\ UNCHANGED <<spec, mapFile, map, rows, proc, count, asked, flags, booted>>

SonicInit ==
  /\ Up("sonic") /\ ~pod["sonic"].ready
  /\ Answers
  /\ Ready("sonic")
  /\ rows' = [rows EXCEPT !.config = @ \cup {pod["sonic"].conf}]
  /\ UNCHANGED <<spec, mapFile, map, proc, count, asked, flags, booted>>

Advance(p) ==
  \/ Wipe(p) \/ Tables(p) \/ OpenMap(p) \/ WriteMap(p) \/ ApplyMap(p)
  \/ Get(p) \/ Delete(p) \/ Stat(p) \/ Open(p) \/ Write(p) \/ Create(p)

Next ==
  \/ \E p \in Proc : StartReboot(p) \/ StartInit(p) \/ StartStop(p)
  \/ \E p \in Proc : Advance(p) \/ Kill(p)
  \/ RedisStarts \/ SonicInit

(* Kubernetes starts what it was asked to start. *)
Spec == Init /\ [][Next]_vars /\ WF_vars(RedisStarts) /\ WF_vars(SonicInit)

------------------------------------------------------------------------------
TypeOK ==
  /\ pod \in [Pods -> Pod \cup {Down}]
  /\ spec \in [Pods -> Images \cup {Absent, Torn}]
  /\ mapFile \in [Mapped -> Conf \cup {Absent, Torn}]
  /\ map \in [Mapped -> Conf \cup {Absent}]
  /\ rows \in [transport : SUBSET Conf, config : SUBSET Conf]
  /\ proc \in [Proc -> Process]
  /\ count \in 0..MaxCommands
  /\ asked \subseteq Conf
  /\ flags \subseteq Images
  /\ booted \in Booted \cup {None}

(* Until the next command starts, a reboot that nobody overlapped leaves    *)
(* all the pods with its configuration, whatever was left by commands that  *)
(* failed before; only an old ofdpa pod survives a reboot with --virtual.   *)
UndisturbedRebootTakes ==
  booted # None =>
    /\ Up("transyncd") /\ Answers /\ rows.transport = {booted.conf}
    /\ Up("sonic") /\ pod["sonic"].conf = booted.conf
    /\ booted.image = "plain" => Up("ofdpa") /\ pod["ofdpa"].conf = booted.conf

(* The pods run the image of the flag, unless the git directory has seen    *)
(* commands with and without it.                                            *)
ImageFollowsFlag ==
  booted # None /\ flags = {booted.image} =>
    \A x \in {"transyncd", "sonic"} : pod[x].image = booted.image

(* Then CONFIG_DB holds the rows of no other configuration, unless a sonic  *)
(* pod of an earlier reboot was still initialising when this one began: it  *)
(* writes the rows of the old configuration into the new redis.             *)
NoRowsOfOthers ==
  booted # None /\ ~booted.late => rows.config \subseteq {booted.conf}

(* A command that nobody overlaps works on whatever an earlier one left: it *)
(* never deletes a pod that is gone, creates one that exists or hands       *)
(* kubectl a file it cannot read, unless a kill left a torn spec file.      *)
RerunHeals ==
  [][\A p \in Proc :
       proc[p].alone /\ ~proc[p].torn => proc'[p].result = "fine"]_vars

(* What the appliance carries traffic under: its pods agree on it.          *)
Carried ==
  IF /\ Up("redis") /\ Up("transyncd") /\ Up("sonic")
     /\ Up("ofdpa") => pod["ofdpa"].conf = pod["sonic"].conf
    THEN pod["sonic"].conf ELSE None

(* The commands implement the appliance, however they interleave or fail.   *)
A == INSTANCE Appliance WITH carries <- Carried
ImplementsAppliance == A!Spec

(* The rows of an undisturbed reboot reach CONFIG_DB in the end, even when  *)
(* WriteToConfigDB wrote none of them.                                      *)
RowsArrive ==
  booted # None ~> booted = None \/ rows.config = {booted.conf} \/ booted.late
==============================================================================
