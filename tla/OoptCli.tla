------------------------------- MODULE OoptCli -------------------------------
(***************************************************************************)
(* The `oopt` command line: every command is an operating-system process   *)
(* of its own that works on the same git directory and the same device.    *)
(*                                                                         *)
(*   edit      PersistentPreRunE, RunE, PersistentPostRunE                 *)
(*   commit    PersistentPreRunE, commit()                                 *)
(*   rollback  read an old commit, PersistentPostRunE, commit()            *)
(*   reboot    PersistentPreRunE, rebootSystem()                           *)
(*                                                                         *)
(* Nothing locks config.json, the git repository or the device, so the     *)
(* steps of two commands interleave, and a command may end after any step  *)
(* (an error return, a panic, a kill).  What a failed write does to        *)
(* config.json goes unnoticed: the command carries on.                     *)
(*                                                                         *)
(* A configuration is a function from the entries of the configuration     *)
(* tree to what they hold.  An entry stands for what the device handlers   *)
(* look at: a setting of an optical module, the channel an interface is    *)
(* connected to, the breakout of a port, and the leaves under the root's   *)
(* own "config" container.  What becomes of a connection that changes its  *)
(* id is a matter of its own: SonicVlan.tla.                               *)
(***************************************************************************)
EXTENDS Integers, Sequences, FiniteSets

CONSTANTS
  Proc,        \* the processes that run oopt commands
  OptEntry,    \* entries under optical-modules
  IntfEntry,   \* entries under interfaces
  PortEntry,   \* entries under ports
  RootEntry,   \* entries under the root's config container
  Value,       \* what an entry can hold
  Unset,       \* the entry holds nothing
  Lost,        \* device only: wiped by a reboot that is not complete
  Empty,       \* config.json just truncated by os.Create
  Mangled,     \* config.json holding part of a document, or one document
               \* and the tail of another
  Options,     \* the flags --dry and --reboot a command may be given
  Edits,       \* what an edit command may do: partial functions on Entry
  Valid,       \* the configurations validateFinal accepts
  Default,     \* the configuration `oopt init` commits
  MaxCommits   \* bound: how many commit objects are created; once there are
               \* as many, no command that commits is started

Entry == OptEntry \cup IntfEntry \cup PortEntry \cup RootEntry
OnDevice == OptEntry \cup IntfEntry \cup PortEntry
Config == [Entry -> Value \cup {Unset}]
Unreadable == {Empty, Mangled}

ASSUME EntryAssumption ==
  /\ OptEntry \cap IntfEntry = {}
  /\ OptEntry \cap PortEntry = {}
  /\ IntfEntry \cap PortEntry = {}
  /\ RootEntry \cap OnDevice = {}

ASSUME ValueAssumption ==
  /\ Unset \notin Value
  /\ Lost \notin Value \cup {Unset}
  /\ Unreadable \cap Config = {}

ASSUME ConfigAssumption ==
  /\ Valid \subseteq Config
  /\ Default \in Valid
  /\ \A e \in Edits : /\ DOMAIN e \subseteq Entry
                      /\ \A x \in DOMAIN e : e[x] \in Value \cup {Unset}
  /\ Options \subseteq [dry : BOOLEAN, reboot : BOOLEAN]
  /\ MaxCommits \in Nat

VARIABLES
  file,     \* config.json
  commits,  \* the commit objects, in the order they are created
  head,     \* the commit HEAD names
  device,   \* what the device was last given for each entry
  proc      \* the memory of each process

(* Ghost variables: they remember what the properties are about. *)
VARIABLES
  lastGood, \* the last readable content of config.json
  cause     \* what first made the device differ from HEAD, or "none"

vars == <<file, commits, head, device, proc, lastGood, cause>>

PCs == {"idle", "edit", "write", "rbread", "rbwrite", "commit", "parent",
        "staged", "log", "apply", "reboot", "booting"}

Causes == {"fault", "panic", "dry", "overlap", "uncommitted", "unreadable"}

Process == [pc      : PCs,
            cur     : Config,       \* the package variable `current`
            dry     : BOOLEAN,      \* --dry
            reboot  : BOOLEAN,      \* --reboot, then the result of handleDiff
            touched : SUBSET Entry, \* what the edit command changes
            source  : Nat,          \* the commit a rollback returns to
            parent  : Nat,          \* HEAD as the commit under way found it
            id      : Nat,          \* the commit object just created
            target  : Config,       \* t, the configuration of HEAD
            tasks   : SUBSET OnDevice, \* what handleDiff has still to hand over
            fresh   : BOOLEAN,      \* ghost: since it read (rollback: created)
                                    \* config.json, nobody else has written it
                                    \* and no write of its own was lost
            alone   : BOOLEAN]      \* ghost: since it entered DevicePhase,
                                    \* nobody else has been in it

Commit == [cfg     : Config \cup Unreadable,
           parent  : Nat,
           checked : BOOLEAN,  \* ghost: config.json was still what p validated
           source  : Nat]      \* ghost: the commit rolled back to, or 0

(* A process before it starts a command, and after it exits. *)
Idle == [pc |-> "idle", cur |-> Default, dry |-> FALSE, reboot |-> FALSE,
         touched |-> {}, source |-> 0, parent |-> 0, id |-> 0,
         target |-> Default, tasks |-> {}, fresh |-> FALSE, alone |-> FALSE]

(* From the look at HEAD for a parent to the last call to the device. *)
DevicePhase == {"parent", "staged", "log", "apply", "reboot", "booting"}
InPhase(p) == proc[p].pc \in DevicePhase
OthersInPhase(p) == \E q \in Proc \ {p} : InPhase(q)

(* The first mishap since the device was last known to follow HEAD.         *)
Blame(what) == cause' = IF cause = "none" THEN what ELSE cause

(* RunE changes its part of the configuration it was given, nothing else.   *)
OverrideDefault(e, c) ==  \* mutant: starts from the default, not from c
  [x \in Entry |-> IF x \in DOMAIN e THEN e[x] ELSE Default[x]]
Override(e, c) == [x \in Entry |-> IF x \in DOMAIN e THEN e[x] ELSE c[x]]

ValidateNothing(c) == c \in Config  \* mutant: the stub at main.go:106
ValidateFinal(c) == c \in Valid

(* getPacketTransport: what the commit named c holds.                       *)
ConfigAtHead(c) == commits[head].cfg  \* mutant: always reads HEAD
ConfigAt(c) == commits[c].cfg

(* ygot.Diff, less the entries of the root's container, which handleDiff    *)
(* skips.                                                                   *)
DiffChanged(s, t) ==  \* mutant: misses what s does not have
  {e \in OnDevice : s[e] # t[e] /\ s[e] # Unset}
DiffAll(s, t) == {e \in Entry : s[e] # t[e]}  \* mutant: skips nothing
Diff(s, t) == {e \in OnDevice : s[e] # t[e]}

(* HandlePortDiff: a change of a breakout asks for a reboot.                *)
PortDiffIgnored(e) == FALSE  \* mutant: never asks
HandlePortDiff(e) == TRUE

(* The commit k steps before HEAD, 0 when the history is shorter. *)
Before(k) ==
  LET back[i \in 0..k] ==
        IF i = 0 THEN head
        ELSE IF back[i - 1] = 0 THEN 0 ELSE commits[back[i - 1]].parent
  IN back[k]

(* `oopt init` has written, committed and booted the default configuration. *)
Init ==
  /\ file = Default
  /\ commits = <<[cfg |-> Default, parent |-> 0, checked |-> TRUE, source |-> 0]>>
  /\ head = 1
  /\ device = [e \in OnDevice |-> Default[e]]
  /\ proc = [p \in Proc |-> Idle]
  /\ lastGood = Default
  /\ cause = "none"

------------------------------------------------------------------------------
(* config.json *)

(* persistentPreRunE: an unreadable file ends the command before RunE.      *)
CanRead(p) == proc[p].pc = "idle" /\ file \in Config
Loaded == [Idle EXCEPT !.cur = file, !.fresh = TRUE]

EditRead(p) ==
  /\ CanRead(p)
  /\ proc' = [proc EXCEPT ![p] = [Loaded EXCEPT !.pc = "edit"]]
  /\ UNCHANGED <<file, commits, head, device, lastGood, cause>>

CommitRead(p) ==
  /\ CanRead(p)
  /\ Len(commits) < MaxCommits
  /\ \E o \in Options :
       proc' = [proc EXCEPT ![p] = [Loaded EXCEPT !.pc = "commit",
                                        !.dry = o.dry, !.reboot = o.reboot]]
  /\ UNCHANGED <<file, commits, head, device, lastGood, cause>>

(* p changes config.json: no other process is fresh any more.               *)
Touch(p, next) ==
  proc' = [q \in Proc |-> IF q = p THEN next
                          ELSE [proc[q] EXCEPT !.fresh = FALSE]]

(* os.Create in persistentPostRunE: the file is truncated before the new    *)
(* document is written.                                                     *)
Truncate(p, next) ==
  /\ file' = Empty
  /\ Touch(p, next)
  /\ UNCHANGED <<commits, head, device, lastGood, cause>>

(* RunE changes `current` in memory, and PostRunE opens the file.           *)
EditCreate(p) ==
  /\ proc[p].pc = "edit"
  /\ \E e \in Edits :
       Truncate(p, [proc[p] EXCEPT !.pc = "write",
                                   !.cur = Override(e, proc[p].cur),
                                   !.touched = DOMAIN e])

(* file.Write at offset 0.  When another process has written since this one *)
(* opened the file, a longer document keeps its tail behind the new one.    *)
Write(p, next) ==
  /\ file' \in {proc[p].cur} \cup (IF file = Empty THEN {} ELSE {Mangled})
  /\ lastGood' = IF file' \in Config THEN file' ELSE lastGood
  /\ Touch(p, next)
  /\ UNCHANGED <<commits, head, device, cause>>

(* Nobody looks at what file.Write returns: a write that fails leaves the   *)
(* file as it is, one that falls short leaves part of the document, and the *)
(* command carries on as after any other.                                   *)
WriteLost(p, next) ==
  /\ file' \in {file, Mangled}
  /\ Touch(p, next)
  /\ UNCHANGED <<commits, head, device, lastGood, cause>>

EditWrite(p) ==
  /\ proc[p].pc = "write"
  /\ Write(p, Idle)

EditWriteLost(p) ==
  /\ proc[p].pc = "write"
  /\ WriteLost(p, Idle)

------------------------------------------------------------------------------
(* rollback *)

(* Walk `2 + number` commits back from HEAD; a shorter history, or a commit *)
(* that cannot be unmarshalled, ends the command.  No PreRunE: config.json  *)
(* is not read, and what it held is discarded.                              *)
RollbackRead(p) ==
  /\ proc[p].pc = "idle"
  /\ Len(commits) < MaxCommits
  /\ \E number \in 0..MaxCommits, o \in Options :
       LET c == Before(1 + number)
       IN /\ c \in 1..Len(commits)
          /\ ConfigAt(c) \in Config
          /\ proc' = [proc EXCEPT ![p] =
                        [Idle EXCEPT !.pc = "rbread", !.cur = ConfigAt(c),
                                     !.source = c,
                                     !.dry = o.dry, !.reboot = o.reboot]]
  /\ UNCHANGED <<file, commits, head, device, lastGood, cause>>

RollbackCreate(p) ==
  /\ proc[p].pc = "rbread"
  /\ Truncate(p, [proc[p] EXCEPT !.pc = "rbwrite", !.fresh = TRUE])

RollbackWrite(p) ==
  /\ proc[p].pc = "rbwrite"
  /\ Write(p, [proc[p] EXCEPT !.pc = "commit"])

(* What is committed next is the file, empty or short as it is by now.      *)
RollbackWriteLost(p) ==
  /\ proc[p].pc = "rbwrite"
  /\ WriteLost(p, [proc[p] EXCEPT !.pc = "commit", !.fresh = FALSE])

------------------------------------------------------------------------------
(* commit() *)

Enter(p, next) ==
  /\ proc' = [q \in Proc |->
                IF q = p THEN [next EXCEPT !.alone = ~OthersInPhase(p)]
                ELSE [proc[q] EXCEPT !.alone = FALSE]]
  /\ IF OthersInPhase(p) THEN Blame("overlap") ELSE UNCHANGED cause

AmendedCommit(p) ==  \* mutant: replaces HEAD instead of following it
  [cfg |-> file, parent |-> commits[proc[p].parent].parent,
   checked |-> proc[p].fresh, source |-> proc[p].source]
NewCommit(p) ==
  [cfg |-> file, parent |-> proc[p].parent,
   checked |-> proc[p].fresh, source |-> proc[p].source]

(* validateFinal(current); then go-git's Commit looks up HEAD, the parent.  *)
ReadParent(p) ==
  /\ proc[p].pc = "commit"
  /\ ValidateFinal(proc[p].cur)
  /\ Enter(p, [proc[p] EXCEPT !.pc = "parent", !.parent = head])
  /\ UNCHANGED <<file, commits, head, device, lastGood>>

(* Commit with All: the file on disk is staged and the object written, here *)
(* in one step: the index between the two is not modelled.                  *)
Stage(p) ==
  /\ proc[p].pc = "parent"
  /\ Len(commits) < MaxCommits
  /\ commits' = Append(commits, NewCommit(p))
  /\ proc' = [proc EXCEPT ![p] = [@ EXCEPT !.pc = "staged",
                                          !.id = Len(commits) + 1,
                                          !.parent = 0, !.source = 0,
                                          !.fresh = FALSE]]
  /\ UNCHANGED <<file, head, device, lastGood, cause>>

(* validateFinal refuses: a rollback has overwritten the file all the same. *)
Refuse(p) ==
  /\ proc[p].pc = "commit"
  /\ ~ValidateFinal(proc[p].cur)
  /\ proc' = [proc EXCEPT ![p] = Idle]
  /\ UNCHANGED <<file, commits, head, device, lastGood, cause>>

(* updateHEAD sets the branch to the new object whatever it names by now.   *)
UpdateHead(p) ==
  /\ proc[p].pc = "staged"
  /\ head' = proc[p].id
  /\ IF proc[p].dry
       THEN /\ proc' = [proc EXCEPT ![p] = Idle]
            /\ Blame("dry")
       ELSE /\ proc' = [proc EXCEPT ![p].pc = "log"]
            /\ UNCHANGED cause
  /\ UNCHANGED <<file, commits, device, lastGood>>

(* repo.Log: t is HEAD and s its parent, whoever made them.                 *)
ReadLog(p) ==
  /\ proc[p].pc = "log"
  /\ LET t == ConfigAt(head)
         s == ConfigAt(commits[head].parent)
     IN IF {s, t} \subseteq Config
          THEN /\ proc' = [proc EXCEPT
                    ![p].target = t,
                    ![p].pc = IF proc[p].reboot THEN "reboot" ELSE "apply",
                    ![p].tasks = IF proc[p].reboot THEN {} ELSE Diff(s, t)]
               /\ UNCHANGED cause
          ELSE /\ proc' = [proc EXCEPT ![p] = Idle]
               /\ Blame("unreadable")
  /\ UNCHANGED <<file, commits, head, device, lastGood>>

------------------------------------------------------------------------------
(* handleDiff: optical modules, then interfaces, then ports; the entries of *)
(* one list in the random order of a Go map.                                *)

Handed(p, e) == [proc EXCEPT ![p].tasks = @ \ {e}]

(* HandleOptDiff writes the new setting to redis.                           *)
ApplyOpt(p, e) ==
  /\ proc[p].pc = "apply"
  /\ e \in proc[p].tasks \cap OptEntry
  /\ proc[p].target[e] # Unset
  /\ device' = [device EXCEPT ![e] = proc[p].target[e]]
  /\ proc' = Handed(p, e)
  /\ UNCHANGED <<file, commits, head, lastGood, cause>>

(* HandleOptDiff dereferences the value of a deleted setting, which is nil. *)
PanicOpt(p, e) ==
  /\ proc[p].pc = "apply"
  /\ e \in proc[p].tasks \cap OptEntry
  /\ proc[p].target[e] = Unset
  /\ proc' = [proc EXCEPT ![p] = Idle]
  /\ Blame("panic")
  /\ UNCHANGED <<file, commits, head, device, lastGood>>

(* HandleInterfaceDiff programs the new connection; when the connection is  *)
(* gone it returns before it reaches the device.                            *)
ApplyIntf(p, e) ==
  /\ proc[p].pc = "apply"
  /\ proc[p].tasks \cap OptEntry = {}
  /\ e \in proc[p].tasks \cap IntfEntry
  /\ device' = IF proc[p].target[e] = Unset THEN device
               ELSE [device EXCEPT ![e] = proc[p].target[e]]
  /\ proc' = Handed(p, e)
  /\ UNCHANGED <<file, commits, head, lastGood, cause>>

(* HandlePortDiff leaves the device alone.                                  *)
ApplyPort(p, e) ==
  /\ proc[p].pc = "apply"
  /\ proc[p].tasks \subseteq PortEntry
  /\ e \in proc[p].tasks
  /\ proc' = [Handed(p, e) EXCEPT ![p].reboot = @ \/ HandlePortDiff(e)]
  /\ UNCHANGED <<file, commits, head, device, lastGood, cause>>

ApplyDone(p) ==
  /\ proc[p].pc = "apply"
  /\ proc[p].tasks = {}
  /\ proc' = IF proc[p].reboot THEN [proc EXCEPT ![p].pc = "reboot"]
             ELSE [proc EXCEPT ![p] = Idle]
  /\ UNCHANGED <<file, commits, head, device, lastGood, cause>>

------------------------------------------------------------------------------
(* reboot *)

(* The reboot command: read config.json, validateFinal, rebootSystem.  It   *)
(* takes the working file, committed or not.                                *)
RebootRead(p) ==
  /\ CanRead(p)
  /\ ValidateFinal(file)
  /\ Enter(p, [Loaded EXCEPT !.pc = "reboot", !.fresh = FALSE])
  /\ UNCHANGED <<file, commits, head, device, lastGood>>

(* RestartRedis wipes the tables the handlers wrote.                        *)
RebootBegin(p) ==
  /\ proc[p].pc = "reboot"
  /\ device' = [e \in OnDevice |-> IF e \in PortEntry THEN device[e] ELSE Lost]
  /\ proc' = [proc EXCEPT ![p].pc = "booting"]
  /\ UNCHANGED <<file, commits, head, lastGood, cause>>

(* The rest of rebootSystem writes `current`, which commit() read before it *)
(* committed, not the configuration of HEAD.  The ghost: a complete reboot  *)
(* from HEAD with nobody else at the device repairs whatever went wrong.    *)
RebootEnd(p) ==
  /\ proc[p].pc = "booting"
  /\ device' = [e \in OnDevice |-> proc[p].cur[e]]
  /\ proc' = [proc EXCEPT ![p] = Idle]
  /\ IF proc[p].cur # commits[head].cfg THEN Blame("uncommitted")
     ELSE cause' = IF OthersInPhase(p) THEN cause ELSE "none"
  /\ UNCHANGED <<file, commits, head, lastGood>>

------------------------------------------------------------------------------
(* The command ends before its next step: an error return (redis, k8s, git, *)
(* a flag that does not parse), a panic or a kill.  Nothing is undone.      *)
Abort(p) ==
  /\ proc[p].pc # "idle"
  /\ proc' = [proc EXCEPT ![p] = Idle]
  /\ IF proc[p].pc \in DevicePhase \ {"parent", "staged"} THEN Blame("fault")
     ELSE UNCHANGED cause
  /\ UNCHANGED <<file, commits, head, device, lastGood>>

Hand(p) ==
  \E e \in OnDevice :
    ApplyOpt(p, e) \/ PanicOpt(p, e) \/ ApplyIntf(p, e) \/ ApplyPort(p, e)

(* The steps of a command that is under way. *)
Advance(p) ==
  \/ EditCreate(p) \/ EditWrite(p) \/ EditWriteLost(p)
  \/ RollbackCreate(p) \/ RollbackWrite(p) \/ RollbackWriteLost(p)
  \/ ReadParent(p) \/ Stage(p) \/ Refuse(p) \/ UpdateHead(p) \/ ReadLog(p)
  \/ Hand(p) \/ ApplyDone(p)
  \/ RebootBegin(p) \/ RebootEnd(p)

Next ==
  \E p \in Proc :
    \/ EditRead(p) \/ CommitRead(p) \/ RollbackRead(p) \/ RebootRead(p)
    \/ Advance(p)
    \/ Abort(p)

Spec == Init /\ [][Next]_vars

(* Nothing in a command waits for another command: a process that is        *)
(* scheduled runs to its end.                                               *)
FairSpec == Spec /\ \A p \in Proc : WF_vars(Advance(p))

------------------------------------------------------------------------------
TypeOK ==
  /\ file \in Config \cup Unreadable
  /\ commits \in Seq(Commit)
  /\ head \in 1..Len(commits)
  /\ device \in [OnDevice -> Value \cup {Unset, Lost}]
  /\ proc \in [Proc -> Process]
  /\ lastGood \in Config
  /\ cause \in Causes \cup {"none"}

HeadCfg == commits[head].cfg

(* The device carries entry e as configuration c has it; the connection of  *)
(* an interface that c does not connect is left on the device as it was.    *)
Agrees(e, c) == device[e] = c[e] \/ (e \in IntfEntry /\ c[e] = Unset)

Synced == HeadCfg \in Config /\ \A e \in OnDevice : Agrees(e, HeadCfg)

(* A commit whose process had, when it staged the file, written it without  *)
(* loss or read it, and nobody had written it since, holds a configuration  *)
(* that validateFinal accepts.                                              *)
(* (commit: main.go:1134 validates memory, main.go:1150 commits the file.)  *)
CommittedAsValidated ==
  \A i \in 1..Len(commits) : commits[i].checked => commits[i].cfg \in Valid

(* `rollback` commits the very configuration it was asked to return to,     *)
(* unless another process wrote config.json meanwhile, or its own write was *)
(* lost (main.go:100: it commits an empty or a short file then).            *)
RollbackRestores ==
  \A i \in 1..Len(commits) :
    commits[i].checked /\ commits[i].source # 0
      => commits[i].cfg = commits[commits[i].source].cfg

(* With no command between commit and device, the device carries what HEAD  *)
(* says, unless since the last solitary reboot from HEAD a command ended    *)
(* half way, panicked on a deleted setting, was a dry run, overlapped       *)
(* another one, booted what was not committed, or met an unreadable commit. *)
DeviceFollowsHead ==
  cause = "none" /\ (\A p \in Proc : ~InPhase(p)) => Synced

(* HEAD moves to a child of the commit it named, unless the process that    *)
(* moves it overlapped another one: nothing committed drops out of history. *)
HeadGrows ==
  head' # head =>
    \/ commits[head'].parent = head
    \/ \E p \in Proc : proc[p].pc = "staged" /\ ~proc[p].alone
HistoryGrows == [][HeadGrows]_vars

(* An edit changes nothing but what it is about, compared with the last     *)
(* readable configuration, unless another process wrote config.json         *)
(* between its read and its write.                                          *)
EditKeeps ==
  \A p \in Proc :
    /\ proc[p].pc = "write" /\ proc'[p].pc = "idle" /\ proc[p].fresh
    /\ file' \in Config /\ file' # file
    => \A x \in Entry \ proc[p].touched : file'[x] = lastGood[x]
EditKeepsTheRest == [][EditKeeps]_vars

(* Once HEAD is moved, the device gets there, or the ghost names what kept  *)
(* it from that.                                                            *)
CommitReachesDevice ==
  \A p \in Proc :
    proc[p].pc = "log" ~> cause # "none" \/ (~InPhase(p) /\ Synced)

(* interface.go:128: "OpticalModuleConnection always exists since we do     *)
(* validation before coming here".                                          *)
HandedConfigIsValid ==
  \A p \in Proc : proc[p].pc = "apply" => proc[p].target \in Valid
==============================================================================
