---------------------------- MODULE OoptCliProofs ----------------------------
(* Proofs about OoptCli, for every set of processes, entries and values.    *)
(*                                                                          *)
(* Section 1 says what each action does to the memory of the processes;     *)
(* sections 2 to 4 each prove a group of invariants from that.              *)
EXTENDS OoptCli, TLAPS

LEMMA IdleType ==
  /\ Idle \in Process
  /\ Idle.pc = "idle" /\ Idle.source = 0 /\ ~Idle.fresh /\ ~Idle.alone
<1>1. Default \in Config
  BY ConfigAssumption
<1>2. "idle" \in PCs
  BY DEF PCs
<1> QED
  BY <1>1, <1>2 DEF Idle, Process

LEMMA OverrideType ==
  ASSUME NEW e \in Edits, NEW c \in Config
  PROVE  /\ Override(e, c) \in Config
         /\ DOMAIN e \subseteq Entry
         /\ \A x \in Entry \ DOMAIN e : Override(e, c)[x] = c[x]
  BY ConfigAssumption DEF Override, Config

(* Appending a commit keeps the others, and gives the new one the last name. *)
LEMMA AppendCommit ==
  ASSUME NEW s \in Seq(Commit), NEW c \in Commit
  PROVE  /\ Append(s, c) \in Seq(Commit)
         /\ Len(Append(s, c)) = Len(s) + 1
         /\ \A i \in 1..Len(s) : Append(s, c)[i] = s[i]
         /\ Append(s, c)[Len(s) + 1] = c
  OBVIOUS

LEMMA BlameType ==
  ASSUME cause \in Causes \cup {"none"}, NEW what \in Causes, Blame(what)
  PROVE  cause' \in Causes
  BY DEF Blame, Causes

------------------------------------------------------------------------------
(* 1. The effect of each action on the memory of the processes              *)

Memory == proc \in [Proc -> Process]

(* What the properties look at in q's memory is as before. *)
Kept(q) ==
  /\ proc'[q].pc = proc[q].pc
  /\ proc'[q].cur = proc[q].cur
  /\ proc'[q].reboot = proc[q].reboot
  /\ proc'[q].touched = proc[q].touched
  /\ proc'[q].source = proc[q].source
  /\ proc'[q].parent = proc[q].parent
  /\ proc'[q].id = proc[q].id
  /\ proc'[q].target = proc[q].target
  /\ proc'[q].tasks = proc[q].tasks

Untouched(p) == \A q \in Proc \ {p} : proc'[q] = proc[q]
StaleOthers(p) ==
  \A q \in Proc \ {p} :
    Kept(q) /\ ~proc'[q].fresh /\ proc'[q].alone = proc[q].alone
CrowdedOthers(p) ==
  \A q \in Proc \ {p} :
    Kept(q) /\ ~proc'[q].alone /\ proc'[q].fresh = proc[q].fresh

LEMMA OwnRecord ==
  ASSUME Memory, NEW p \in Proc, NEW n \in Process,
         proc' = [proc EXCEPT ![p] = n]
  PROVE  Memory' /\ proc'[p] = n /\ Untouched(p)
  BY DEF Memory, Untouched

LEMMA TouchEffect ==
  ASSUME Memory, NEW p \in Proc, NEW n \in Process, Touch(p, n)
  PROVE  Memory' /\ proc'[p] = n /\ StaleOthers(p)
<1>1. ASSUME NEW q \in Proc
      PROVE  proc[q] \in Process /\ [proc[q] EXCEPT !.fresh = FALSE] \in Process
  BY DEF Memory, Process
<1>2. Memory' /\ proc'[p] = n
  BY <1>1 DEF Touch, Memory
<1>3. ASSUME NEW q \in Proc \ {p}
      PROVE  Kept(q) /\ ~proc'[q].fresh /\ proc'[q].alone = proc[q].alone
  <2>1. proc'[q] = [proc[q] EXCEPT !.fresh = FALSE]
    BY DEF Touch
  <2> QED
    BY <1>1, <2>1 DEF Kept, Process
<1> QED
  BY <1>2, <1>3 DEF StaleOthers

LEMMA EnterEffect ==
  ASSUME Memory, NEW p \in Proc, NEW n \in Process, Enter(p, n)
  PROVE  /\ Memory'
         /\ proc'[p] = [n EXCEPT !.alone = ~OthersInPhase(p)]
         /\ CrowdedOthers(p)
<1>0. OthersInPhase(p) \in BOOLEAN
  BY DEF OthersInPhase
<1>1. ASSUME NEW q \in Proc
      PROVE  proc[q] \in Process /\ [proc[q] EXCEPT !.alone = FALSE] \in Process
  BY DEF Memory, Process
<1>2. [n EXCEPT !.alone = ~OthersInPhase(p)] \in Process
  BY <1>0 DEF Process
<1>3. Memory' /\ proc'[p] = [n EXCEPT !.alone = ~OthersInPhase(p)]
  BY <1>1, <1>2 DEF Enter, Memory
<1>4. ASSUME NEW q \in Proc \ {p}
      PROVE  Kept(q) /\ ~proc'[q].alone /\ proc'[q].fresh = proc[q].fresh
  <2>1. proc'[q] = [proc[q] EXCEPT !.alone = FALSE]
    BY DEF Enter
  <2> QED
    BY <1>1, <2>1 DEF Kept, Process
<1> QED
  BY <1>3, <1>4 DEF CrowdedOthers

LEMMA LoadedType ==
  file \in Config => Loaded \in Process /\ Loaded.cur = file /\ Loaded.fresh
                     /\ Loaded.source = 0 /\ ~Loaded.alone
  BY IdleType DEF Loaded, Process

LEMMA EditReadEffect ==
  ASSUME Memory, NEW p \in Proc, EditRead(p)
  PROVE  /\ Memory' /\ Untouched(p)
         /\ proc'[p].pc = "edit" /\ proc'[p].cur = file /\ file \in Config
         /\ proc'[p].source = 0 /\ ~proc'[p].alone
<1>1. /\ [Loaded EXCEPT !.pc = "edit"] \in Process
      /\ [Loaded EXCEPT !.pc = "edit"].pc = "edit"
      /\ [Loaded EXCEPT !.pc = "edit"].cur = file
      /\ [Loaded EXCEPT !.pc = "edit"].source = 0
      /\ ~[Loaded EXCEPT !.pc = "edit"].alone
  <2>1. "edit" \in PCs
    BY DEF PCs
  <2> QED
    BY LoadedType, <2>1 DEF EditRead, CanRead, Process
<1> QED
  BY <1>1, OwnRecord DEF EditRead, CanRead

LEMMA CommitReadEffect ==
  ASSUME Memory, NEW p \in Proc, CommitRead(p)
  PROVE  /\ Memory' /\ Untouched(p)
         /\ proc'[p].pc = "commit" /\ proc'[p].cur = file /\ file \in Config
         /\ proc'[p].source = 0 /\ ~proc'[p].alone
<1>1. PICK o \in Options :
        proc' = [proc EXCEPT ![p] = [Loaded EXCEPT !.pc = "commit",
                                         !.dry = o.dry, !.reboot = o.reboot]]
  BY DEF CommitRead
<1> DEFINE n == [Loaded EXCEPT !.pc = "commit", !.dry = o.dry,
                               !.reboot = o.reboot]
<1>2. /\ n \in Process /\ n.pc = "commit" /\ n.cur = file
      /\ n.source = 0 /\ ~n.alone
  <2>1. "commit" \in PCs /\ o.dry \in BOOLEAN /\ o.reboot \in BOOLEAN
    BY ConfigAssumption DEF PCs
  <2> QED
    BY LoadedType, <2>1 DEF CommitRead, CanRead, Process
<1> HIDE DEF n
<1>3. proc' = [proc EXCEPT ![p] = n]
  BY <1>1 DEF n
<1> QED
  BY <1>2, <1>3, OwnRecord DEF CommitRead, CanRead

LEMMA RollbackReadEffect ==
  ASSUME Memory, commits \in Seq(Commit), NEW p \in Proc, RollbackRead(p)
  PROVE  /\ Memory' /\ Untouched(p)
         /\ proc'[p].pc = "rbread" /\ ~proc'[p].alone
         /\ proc'[p].source \in 1..Len(commits)
         /\ proc'[p].cur = commits[proc'[p].source].cfg
         /\ \E number \in 0..MaxCommits : proc'[p].source = Before(1 + number)
<1>1. PICK number \in 0..MaxCommits, c \in 1..Len(commits), o \in Options :
        /\ c = Before(1 + number)
        /\ commits[c].cfg \in Config
        /\ proc' = [proc EXCEPT ![p] =
                      [Idle EXCEPT !.pc = "rbread", !.cur = commits[c].cfg,
                                   !.source = c,
                                   !.dry = o.dry, !.reboot = o.reboot]]
  BY DEF RollbackRead, ConfigAt
<1> DEFINE n == [Idle EXCEPT !.pc = "rbread", !.cur = commits[c].cfg,
                             !.source = c, !.dry = o.dry, !.reboot = o.reboot]
<1>2. /\ n \in Process /\ n.pc = "rbread" /\ n.cur = commits[c].cfg
      /\ n.source = c /\ ~n.alone
  <2>1. "rbread" \in PCs /\ o.dry \in BOOLEAN /\ o.reboot \in BOOLEAN /\ c \in Nat
    BY ConfigAssumption DEF PCs
  <2> QED
    BY IdleType, <1>1, <2>1 DEF Process
<1> HIDE DEF n
<1>3. proc' = [proc EXCEPT ![p] = n]
  BY <1>1 DEF n
<1> QED
  BY <1>1, <1>2, <1>3, OwnRecord

LEMMA RebootReadEffect ==
  ASSUME Memory, NEW p \in Proc, RebootRead(p)
  PROVE  /\ Memory' /\ CrowdedOthers(p)
         /\ proc'[p].pc = "reboot" /\ proc'[p].cur = file
         /\ proc'[p].alone = ~OthersInPhase(p)
<1> DEFINE n == [Loaded EXCEPT !.pc = "reboot", !.fresh = FALSE]
<1>1. n \in Process /\ n.pc = "reboot" /\ n.cur = file
  <2>1. "reboot" \in PCs
    BY DEF PCs
  <2> QED
    BY LoadedType, <2>1 DEF RebootRead, CanRead, Process
<1>2. Enter(p, n)
  BY DEF RebootRead
<1> HIDE DEF n
<1>3. /\ Memory' /\ CrowdedOthers(p)
      /\ proc'[p] = [n EXCEPT !.alone = ~OthersInPhase(p)]
  BY <1>1, <1>2, EnterEffect
<1> QED
  BY <1>1, <1>3 DEF Process

LEMMA EditCreateEffect ==
  ASSUME Memory, NEW p \in Proc, EditCreate(p)
  PROVE  /\ Memory' /\ StaleOthers(p)
         /\ proc'[p].pc = "write"
         /\ proc'[p].touched \subseteq Entry
         /\ \A x \in Entry \ proc'[p].touched : proc'[p].cur[x] = proc[p].cur[x]
         /\ proc'[p].fresh = proc[p].fresh /\ proc'[p].alone = proc[p].alone
         /\ proc'[p].source = proc[p].source
<1>1. PICK e \in Edits :
        Truncate(p, [proc[p] EXCEPT !.pc = "write",
                                    !.cur = Override(e, proc[p].cur),
                                    !.touched = DOMAIN e])
  BY DEF EditCreate
<1>2. proc[p] \in Process /\ proc[p].cur \in Config /\ "write" \in PCs
  BY DEF Memory, Process, PCs
<1> DEFINE n == [proc[p] EXCEPT !.pc = "write",
                                !.cur = Override(e, proc[p].cur),
                                !.touched = DOMAIN e]
<1>3. /\ Override(e, proc[p].cur) \in Config
      /\ DOMAIN e \subseteq Entry
      /\ \A x \in Entry \ DOMAIN e :
            Override(e, proc[p].cur)[x] = proc[p].cur[x]
  BY <1>2, OverrideType
<1>4. /\ n \in Process /\ n.pc = "write" /\ n.touched = DOMAIN e
      /\ n.cur = Override(e, proc[p].cur)
      /\ n.fresh = proc[p].fresh /\ n.alone = proc[p].alone
      /\ n.source = proc[p].source
  BY <1>2, <1>3 DEF Process
<1> HIDE DEF n
<1>5. Touch(p, n)
  BY <1>1 DEF Truncate, n
<1> QED
  BY <1>3, <1>4, <1>5, TouchEffect

LEMMA RollbackCreateEffect ==
  ASSUME Memory, NEW p \in Proc, RollbackCreate(p)
  PROVE  /\ Memory' /\ StaleOthers(p)
         /\ proc'[p].pc = "rbwrite"
         /\ proc'[p].cur = proc[p].cur /\ proc'[p].source = proc[p].source
         /\ proc'[p].alone = proc[p].alone
<1> DEFINE n == [proc[p] EXCEPT !.pc = "rbwrite", !.fresh = TRUE]
<1>1. proc[p] \in Process /\ "rbwrite" \in PCs
  BY DEF Memory, PCs
<1>2. /\ n \in Process /\ n.pc = "rbwrite" /\ n.cur = proc[p].cur
      /\ n.source = proc[p].source /\ n.alone = proc[p].alone
  BY <1>1 DEF Process
<1>3. Touch(p, n)
  BY DEF RollbackCreate, Truncate
<1> HIDE DEF n
<1> QED
  BY <1>2, <1>3, TouchEffect

LEMMA EditWriteEffect ==
  ASSUME Memory, NEW p \in Proc, EditWrite(p)
  PROVE  Memory' /\ StaleOthers(p) /\ proc'[p] = Idle
  BY IdleType, TouchEffect DEF EditWrite, Write

LEMMA RollbackWriteEffect ==
  ASSUME Memory, NEW p \in Proc, RollbackWrite(p)
  PROVE  /\ Memory' /\ StaleOthers(p)
         /\ proc'[p].pc = "commit"
         /\ proc'[p].cur = proc[p].cur /\ proc'[p].source = proc[p].source
         /\ proc'[p].fresh = proc[p].fresh /\ proc'[p].alone = proc[p].alone
<1> DEFINE n == [proc[p] EXCEPT !.pc = "commit"]
<1>1. proc[p] \in Process /\ "commit" \in PCs
  BY DEF Memory, PCs
<1>2. /\ n \in Process /\ n.pc = "commit" /\ n.cur = proc[p].cur
      /\ n.source = proc[p].source /\ n.fresh = proc[p].fresh
      /\ n.alone = proc[p].alone
  BY <1>1 DEF Process
<1>3. Touch(p, n)
  BY DEF RollbackWrite, Write
<1> HIDE DEF n
<1> QED
  BY <1>2, <1>3, TouchEffect

(* A lost write leaves the file as it was, or part of a document.           *)
LEMMA LostEffect ==
  ASSUME NEW p \in Proc, NEW n, WriteLost(p, n), file \in Config => lastGood = file
  PROVE  /\ file' \in {file, Mangled} /\ Touch(p, n)
         /\ file' \in Config => lastGood' = file'
         /\ UNCHANGED <<commits, head, device, lastGood, cause>>
  BY ValueAssumption DEF WriteLost, Unreadable

LEMMA EditWriteLostEffect ==
  ASSUME Memory, NEW p \in Proc, EditWriteLost(p)
  PROVE  Memory' /\ StaleOthers(p) /\ proc'[p] = Idle
  BY IdleType, TouchEffect DEF EditWriteLost, WriteLost

LEMMA RollbackWriteLostEffect ==
  ASSUME Memory, NEW p \in Proc, RollbackWriteLost(p)
  PROVE  /\ Memory' /\ StaleOthers(p)
         /\ proc'[p].pc = "commit" /\ ~proc'[p].fresh
         /\ proc'[p].cur = proc[p].cur /\ proc'[p].source = proc[p].source
         /\ proc'[p].alone = proc[p].alone
<1> DEFINE n == [proc[p] EXCEPT !.pc = "commit", !.fresh = FALSE]
<1>1. proc[p] \in Process /\ "commit" \in PCs
  BY DEF Memory, PCs
<1>2. /\ n \in Process /\ n.pc = "commit" /\ n.cur = proc[p].cur
      /\ n.source = proc[p].source /\ ~n.fresh /\ n.alone = proc[p].alone
  BY <1>1 DEF Process
<1>3. Touch(p, n)
  BY DEF RollbackWriteLost, WriteLost
<1> HIDE DEF n
<1> QED
  BY <1>2, <1>3, TouchEffect

LEMMA ReadParentEffect ==
  ASSUME Memory, commits \in Seq(Commit), head \in 1..Len(commits),
         NEW p \in Proc, ReadParent(p)
  PROVE  /\ Memory' /\ CrowdedOthers(p)
         /\ proc'[p].pc = "parent" /\ proc'[p].parent = head
         /\ proc'[p].cur = proc[p].cur /\ proc'[p].source = proc[p].source
         /\ proc'[p].fresh = proc[p].fresh
         /\ proc'[p].alone = ~OthersInPhase(p)
<1> DEFINE n == [proc[p] EXCEPT !.pc = "parent", !.parent = head]
<1>1. proc[p] \in Process /\ "parent" \in PCs /\ head \in Nat
  BY DEF Memory, PCs
<1>2. /\ n \in Process /\ n.pc = "parent" /\ n.parent = head
      /\ n.cur = proc[p].cur /\ n.source = proc[p].source
      /\ n.fresh = proc[p].fresh
  BY <1>1 DEF Process
<1>3. Enter(p, n)
  BY DEF ReadParent
<1> HIDE DEF n
<1>4. /\ Memory' /\ CrowdedOthers(p)
      /\ proc'[p] = [n EXCEPT !.alone = ~OthersInPhase(p)]
  BY <1>2, <1>3, EnterEffect
<1> QED
  BY <1>2, <1>4 DEF Process

LEMMA StageEffect ==
  ASSUME Memory, commits \in Seq(Commit), NEW p \in Proc, Stage(p)
  PROVE  /\ Memory' /\ Untouched(p)
         /\ proc'[p].pc = "staged" /\ proc'[p].id = Len(commits) + 1
         /\ proc'[p].cur = proc[p].cur
         /\ proc'[p].alone = proc[p].alone
<1> DEFINE n == [proc[p] EXCEPT !.pc = "staged", !.id = Len(commits) + 1,
                                !.parent = 0, !.source = 0, !.fresh = FALSE]
<1>1. proc[p] \in Process /\ "staged" \in PCs /\ Len(commits) + 1 \in Nat
  BY DEF Memory, PCs
<1>2. /\ n \in Process /\ n.pc = "staged" /\ n.id = Len(commits) + 1
      /\ n.cur = proc[p].cur /\ n.alone = proc[p].alone
  BY <1>1 DEF Process
<1>3. proc' = [proc EXCEPT ![p] = n]
  BY DEF Stage
<1> HIDE DEF n
<1> QED
  BY <1>2, <1>3, OwnRecord

LEMMA ExitEffect ==
  ASSUME Memory, NEW p \in Proc, proc' = [proc EXCEPT ![p] = Idle]
  PROVE  Memory' /\ Untouched(p) /\ proc'[p] = Idle
  BY IdleType, OwnRecord

(* A step from one program counter to another that changes nothing else. *)
LEMMA MoveEffect ==
  ASSUME Memory, NEW p \in Proc, NEW l \in PCs,
         proc' = [proc EXCEPT ![p].pc = l]
  PROVE  /\ Memory' /\ Untouched(p) /\ proc'[p].pc = l
         /\ proc'[p].alone = proc[p].alone /\ proc'[p].id = proc[p].id
         /\ proc'[p].cur = proc[p].cur
<1> DEFINE n == [proc[p] EXCEPT !.pc = l]
<1>1. proc[p] \in Process
  BY DEF Memory
<1>2. /\ n \in Process /\ n.pc = l /\ n.alone = proc[p].alone
      /\ n.id = proc[p].id /\ n.cur = proc[p].cur
  BY <1>1 DEF Process
<1>3. proc' = [proc EXCEPT ![p] = n]
  OBVIOUS
<1> HIDE DEF n
<1> QED
  BY <1>2, <1>3, OwnRecord

LEMMA ReadLogEffect ==
  ASSUME Memory, NEW p \in Proc, ReadLog(p), {commits[head].cfg,
         commits[commits[head].parent].cfg} \subseteq Config
  PROVE  /\ Memory' /\ Untouched(p)
         /\ proc'[p].pc = IF proc[p].reboot THEN "reboot" ELSE "apply"
         /\ proc'[p].target = commits[head].cfg
         /\ ~proc[p].reboot =>
              proc'[p].tasks =
                {e \in OnDevice :
                   commits[commits[head].parent].cfg[e] # commits[head].cfg[e]}
         /\ proc'[p].reboot = proc[p].reboot
         /\ proc'[p].alone = proc[p].alone /\ proc'[p].cur = proc[p].cur
<1> DEFINE t == commits[head].cfg
           s == commits[commits[head].parent].cfg
           d == IF proc[p].reboot THEN {} ELSE Diff(s, t)
           l == IF proc[p].reboot THEN "reboot" ELSE "apply"
           n == [proc[p] EXCEPT !.target = t, !.pc = l, !.tasks = d]
<1>1. proc[p] \in Process
  BY DEF Memory
<1>2. t \in Config /\ d \in SUBSET OnDevice /\ l \in PCs
  BY DEF PCs, Diff
<1>3. proc' = [proc EXCEPT ![p] = n]
  BY DEF ReadLog, ConfigAt
<1>4. ~proc[p].reboot => d = {e \in OnDevice : s[e] # t[e]}
  BY DEF Diff
<1>5. l = IF proc[p].reboot THEN "reboot" ELSE "apply"
  OBVIOUS
<1> HIDE DEF d, l, t
<1>6. /\ n \in Process /\ n.pc = l /\ n.target = t /\ n.tasks = d
      /\ n.reboot = proc[p].reboot /\ n.alone = proc[p].alone
      /\ n.cur = proc[p].cur
  BY <1>1, <1>2 DEF Process
<1> HIDE DEF n
<1>7. Memory' /\ Untouched(p) /\ proc'[p] = n
  BY <1>3, <1>6, OwnRecord
<1> QED
  BY <1>4, <1>5, <1>6, <1>7 DEF t

LEMMA HandedEffect ==
  ASSUME Memory, NEW p \in Proc, NEW e, proc' = Handed(p, e)
  PROVE  /\ Memory' /\ Untouched(p)
         /\ proc'[p].pc = proc[p].pc /\ proc'[p].target = proc[p].target
         /\ proc'[p].tasks = proc[p].tasks \ {e}
         /\ proc'[p].reboot = proc[p].reboot
         /\ proc'[p].alone = proc[p].alone /\ proc'[p].id = proc[p].id
         /\ proc'[p].cur = proc[p].cur
<1> DEFINE n == [proc[p] EXCEPT !.tasks = @ \ {e}]
<1>1. proc[p] \in Process
  BY DEF Memory
<1>2. /\ n \in Process /\ n.pc = proc[p].pc /\ n.target = proc[p].target
      /\ n.tasks = proc[p].tasks \ {e} /\ n.reboot = proc[p].reboot
      /\ n.alone = proc[p].alone /\ n.id = proc[p].id /\ n.cur = proc[p].cur
  BY <1>1 DEF Process
<1>3. proc' = [proc EXCEPT ![p] = n]
  BY DEF Handed
<1> HIDE DEF n
<1> QED
  BY <1>2, <1>3, OwnRecord

LEMMA ApplyPortEffect ==
  ASSUME Memory, NEW p \in Proc, NEW e, ApplyPort(p, e)
  PROVE  /\ Memory' /\ Untouched(p)
         /\ proc'[p].pc = proc[p].pc /\ proc'[p].target = proc[p].target
         /\ proc'[p].tasks = proc[p].tasks \ {e}
         /\ proc'[p].reboot
         /\ proc'[p].alone = proc[p].alone /\ proc'[p].id = proc[p].id
         /\ proc'[p].cur = proc[p].cur
<1> DEFINE n == [proc[p] EXCEPT !.tasks = @ \ {e},
                                !.reboot = @ \/ HandlePortDiff(e)]
<1>1. proc[p] \in Process
  BY DEF Memory
<1>2. /\ n \in Process /\ n.pc = proc[p].pc /\ n.target = proc[p].target
      /\ n.tasks = proc[p].tasks \ {e} /\ n.reboot
      /\ n.alone = proc[p].alone /\ n.id = proc[p].id /\ n.cur = proc[p].cur
  BY <1>1 DEF Process, HandlePortDiff
<1>3. proc' = [proc EXCEPT ![p] = n]
  BY DEF ApplyPort, Handed, Memory
<1> HIDE DEF n
<1> QED
  BY <1>2, <1>3, OwnRecord

------------------------------------------------------------------------------
(* 2. Types                                                                 *)

(* A process about to move HEAD holds the name of an existing commit. *)
StagedExists ==
  \A p \in Proc : proc[p].pc = "staged" => proc[p].id \in 1..Len(commits)

TInv == TypeOK /\ StagedExists

LEMMA TypeInit == Init => TInv
<1> SUFFICES ASSUME Init PROVE TInv
  OBVIOUS
<1> USE DEF Init
<1>1. Default \in Config
  BY ConfigAssumption
<1>2. commits \in Seq(Commit) /\ Len(commits) = 1
  BY <1>1 DEF Commit
<1>3. device \in [OnDevice -> Value \cup {Unset, Lost}]
  BY <1>1 DEF Config, Entry, OnDevice
<1>4. proc \in [Proc -> Process] /\ StagedExists
  BY IdleType DEF StagedExists
<1>5. file \in Config \cup Unreadable /\ lastGood \in Config
  BY <1>1
<1>6. head \in 1..Len(commits) /\ cause \in Causes \cup {"none"}
  BY <1>2
<1> QED
  BY <1>2, <1>3, <1>4, <1>5, <1>6 DEF TInv, TypeOK

LEMMA TypeStep == TInv /\ [Next]_vars => TInv'
<1> SUFFICES ASSUME TInv, [Next]_vars PROVE TInv'
  OBVIOUS
<1>0. /\ Memory /\ commits \in Seq(Commit) /\ head \in 1..Len(commits)
      /\ file \in Config \cup Unreadable /\ lastGood \in Config
      /\ device \in [OnDevice -> Value \cup {Unset, Lost}]
      /\ cause \in Causes \cup {"none"}
  BY DEF TInv, TypeOK, Memory
<1>a. ASSUME NEW p \in Proc
      PROVE  proc[p] \in Process /\ proc[p].cur \in Config
             /\ proc[p].target \in Config
  BY <1>0 DEF Memory, Process
<1>b. ASSUME NEW p \in Proc, Memory',
             proc'[p].pc = "staged" => proc'[p].id \in 1..Len(commits'),
             Untouched(p) \/ StaleOthers(p) \/ CrowdedOthers(p),
             1..Len(commits) \subseteq 1..Len(commits'),
             commits' \in Seq(Commit), head' \in 1..Len(commits'),
             file' \in Config \cup Unreadable, lastGood' \in Config,
             device' \in [OnDevice -> Value \cup {Unset, Lost}],
             cause' \in Causes \cup {"none"}
      PROVE  TInv'
  <2>1. ASSUME NEW q \in Proc \ {p}
        PROVE  proc'[q].pc = proc[q].pc /\ proc'[q].id = proc[q].id
    BY <1>b DEF Untouched, StaleOthers, CrowdedOthers, Kept
  <2>2. StagedExists'
    <3> SUFFICES ASSUME NEW q \in Proc, proc'[q].pc = "staged"
                 PROVE  proc'[q].id \in 1..Len(commits')
      BY DEF StagedExists
    <3>1. CASE q = p
      BY <1>b, <3>1
    <3>2. CASE q # p
      BY <1>b, <2>1, <3>2 DEF TInv, StagedExists
    <3> QED
      BY <3>1, <3>2
  <2> QED
    BY <1>b, <2>2 DEF TInv, TypeOK, Memory
<1>1. CASE UNCHANGED vars
  BY <1>1 DEF vars, TInv, TypeOK, StagedExists
<1>2. ASSUME NEW p \in Proc, EditRead(p) PROVE TInv'
  BY <1>0, <1>b, <1>2, EditReadEffect DEF EditRead
<1>3. ASSUME NEW p \in Proc, CommitRead(p) PROVE TInv'
  BY <1>0, <1>b, <1>3, CommitReadEffect DEF CommitRead
<1>4. ASSUME NEW p \in Proc, RollbackRead(p) PROVE TInv'
  BY <1>0, <1>b, <1>4, RollbackReadEffect DEF RollbackRead
<1>5. ASSUME NEW p \in Proc, RebootRead(p) PROVE TInv'
  <2>1. cause' \in Causes \cup {"none"}
    BY <1>0, <1>5, BlameType DEF RebootRead, Enter, Causes
  <2> QED
    BY <1>0, <1>b, <1>5, <2>1, RebootReadEffect DEF RebootRead
<1>6. ASSUME NEW p \in Proc, EditCreate(p) PROVE TInv'
  <2>1. Memory' /\ StaleOthers(p) /\ proc'[p].pc = "write"
    BY <1>0, <1>6, EditCreateEffect
  <2> QED
    BY <1>0, <1>b, <1>6, <2>1 DEF EditCreate, Truncate, Unreadable
<1>7. ASSUME NEW p \in Proc, RollbackCreate(p) PROVE TInv'
  <2>1. Memory' /\ StaleOthers(p) /\ proc'[p].pc = "rbwrite"
    BY <1>0, <1>7, RollbackCreateEffect
  <2> QED
    BY <1>0, <1>b, <1>7, <2>1 DEF RollbackCreate, Truncate, Unreadable
<1>8. ASSUME NEW p \in Proc, NEW n, Write(p, n)
      PROVE  /\ file' \in Config \cup Unreadable /\ lastGood' \in Config
             /\ UNCHANGED <<commits, head, device, cause>>
  BY <1>0, <1>a, <1>8 DEF Write, Unreadable
<1>9. ASSUME NEW p \in Proc, EditWrite(p) PROVE TInv'
  <2>1. Memory' /\ StaleOthers(p) /\ proc'[p].pc = "idle"
    BY <1>0, <1>9, EditWriteEffect, IdleType
  <2> QED
    BY <1>0, <1>b, <1>8, <1>9, <2>1 DEF EditWrite
<1>10. ASSUME NEW p \in Proc, RollbackWrite(p) PROVE TInv'
  <2>1. Memory' /\ StaleOthers(p) /\ proc'[p].pc = "commit"
    BY <1>0, <1>10, RollbackWriteEffect
  <2> QED
    BY <1>0, <1>b, <1>8, <1>10, <2>1 DEF RollbackWrite
<1>26. ASSUME NEW p \in Proc, NEW n, WriteLost(p, n)
      PROVE  /\ file' \in Config \cup Unreadable
             /\ UNCHANGED <<commits, head, device, lastGood, cause>>
  BY <1>0, <1>26 DEF WriteLost, Unreadable
<1>27. ASSUME NEW p \in Proc, EditWriteLost(p) PROVE TInv'
  <2>1. Memory' /\ StaleOthers(p) /\ proc'[p].pc = "idle"
    BY <1>0, <1>27, EditWriteLostEffect, IdleType
  <2> QED
    BY <1>0, <1>b, <1>26, <1>27, <2>1 DEF EditWriteLost
<1>28. ASSUME NEW p \in Proc, RollbackWriteLost(p) PROVE TInv'
  <2>1. Memory' /\ StaleOthers(p) /\ proc'[p].pc = "commit"
    BY <1>0, <1>28, RollbackWriteLostEffect
  <2> QED
    BY <1>0, <1>b, <1>26, <1>28, <2>1 DEF RollbackWriteLost
<1>29. ASSUME NEW p \in Proc, ReadParent(p) PROVE TInv'
  <2>1. Memory' /\ CrowdedOthers(p) /\ proc'[p].pc = "parent"
    BY <1>0, <1>29, ReadParentEffect
  <2>2. cause' \in Causes \cup {"none"}
    BY <1>0, <1>29, BlameType DEF ReadParent, Enter, Causes
  <2> QED
    BY <1>0, <1>b, <1>29, <2>1, <2>2 DEF ReadParent
<1>11. ASSUME NEW p \in Proc, Stage(p) PROVE TInv'
  <2> DEFINE c == NewCommit(p)
  <2>1. c \in Commit
    BY <1>0, <1>a DEF NewCommit, Commit, Process
  <2>2. /\ commits' \in Seq(Commit)
        /\ Len(commits') = Len(commits) + 1
    BY <1>0, <1>11, <2>1, AppendCommit DEF Stage
  <2>3. /\ Memory' /\ Untouched(p)
        /\ proc'[p].id = Len(commits) + 1
    BY <1>0, <1>11, StageEffect
  <2>4. Len(commits) \in Nat
    BY <1>0
  <2> HIDE DEF c
  <2> QED
    BY <1>0, <1>b, <1>11, <2>2, <2>3, <2>4 DEF Stage
<1>12. ASSUME NEW p \in Proc, proc' = [proc EXCEPT ![p] = Idle],
              UNCHANGED <<file, commits, lastGood>>,
              head' \in 1..Len(commits),
              device' \in [OnDevice -> Value \cup {Unset, Lost}],
              cause' \in Causes \cup {"none"}
       PROVE  TInv'
  <2>1. Memory' /\ Untouched(p) /\ proc'[p].pc = "idle"
    BY <1>0, <1>12, ExitEffect, IdleType
  <2> QED
    BY <1>0, <1>b, <1>12, <2>1
<1>13. ASSUME NEW p \in Proc, Refuse(p) PROVE TInv'
  BY <1>0, <1>12, <1>13 DEF Refuse
<1>14. ASSUME NEW p \in Proc, UpdateHead(p) PROVE TInv'
  <2>1. head' \in 1..Len(commits)
    BY <1>14 DEF UpdateHead, TInv, StagedExists
  <2>2. CASE proc[p].dry
    <3>1. cause' \in Causes
      BY <1>0, <1>14, <2>2, BlameType DEF UpdateHead, Causes
    <3> QED
      BY <1>0, <1>12, <1>14, <2>1, <2>2, <3>1 DEF UpdateHead
  <2>3. CASE ~proc[p].dry
    <3>1. proc' = [proc EXCEPT ![p].pc = "log"] /\ "log" \in PCs
      BY <1>14, <2>3 DEF UpdateHead, PCs
    <3>2. Memory' /\ Untouched(p) /\ proc'[p].pc = "log"
      BY <1>0, <3>1, MoveEffect
    <3> QED
      BY <1>0, <1>b, <1>14, <2>1, <2>3, <3>2 DEF UpdateHead
  <2> QED
    BY <2>2, <2>3
<1>15. ASSUME NEW p \in Proc, ReadLog(p) PROVE TInv'
  <2> DEFINE ok == {commits[head].cfg, commits[commits[head].parent].cfg}
                      \subseteq Config
  <2>1. CASE ok
    <3>1. Memory' /\ Untouched(p) /\ proc'[p].pc # "staged"
      BY <1>0, <1>15, <2>1, ReadLogEffect
    <3>2. UNCHANGED <<file, commits, head, device, lastGood, cause>>
      BY <1>15, <2>1 DEF ReadLog, ConfigAt
    <3> QED
      BY <1>0, <1>b, <3>1, <3>2
  <2>2. CASE ~ok
    <3>1. /\ proc' = [proc EXCEPT ![p] = Idle]
          /\ Blame("unreadable")
          /\ UNCHANGED <<file, commits, head, device, lastGood>>
      BY <1>15, <2>2 DEF ReadLog, ConfigAt
    <3>2. cause' \in Causes
      BY <1>0, <3>1, BlameType DEF Causes
    <3> QED
      BY <1>0, <1>12, <3>1, <3>2
  <2> QED
    BY <2>1, <2>2
<1>16. ASSUME NEW p \in Proc, NEW e \in OnDevice
       PROVE  proc[p].target[e] \in Value \cup {Unset, Lost}
  BY <1>a DEF Config, Entry, OnDevice
<1>17. ASSUME NEW p \in Proc, NEW e, proc' = Handed(p, e), proc[p].pc = "apply"
       PROVE  Memory' /\ Untouched(p) /\ proc'[p].pc = "apply"
  BY <1>0, <1>17, HandedEffect
<1>18. ASSUME NEW p \in Proc, NEW e \in OnDevice, ApplyOpt(p, e) PROVE TInv'
  BY <1>0, <1>b, <1>16, <1>17, <1>18 DEF ApplyOpt
<1>19. ASSUME NEW p \in Proc, NEW e \in OnDevice, PanicOpt(p, e) PROVE TInv'
  <2>1. cause' \in Causes
    BY <1>0, <1>19, BlameType DEF PanicOpt, Causes
  <2> QED
    BY <1>0, <1>12, <1>19, <2>1 DEF PanicOpt
<1>20. ASSUME NEW p \in Proc, NEW e \in OnDevice, ApplyIntf(p, e) PROVE TInv'
  BY <1>0, <1>b, <1>16, <1>17, <1>20 DEF ApplyIntf
<1>21. ASSUME NEW p \in Proc, NEW e \in OnDevice, ApplyPort(p, e) PROVE TInv'
  <2>1. Memory' /\ Untouched(p) /\ proc'[p].pc = "apply"
    BY <1>0, <1>21, ApplyPortEffect DEF ApplyPort
  <2> QED
    BY <1>0, <1>b, <1>21, <2>1 DEF ApplyPort
<1>22. ASSUME NEW p \in Proc, ApplyDone(p) PROVE TInv'
  <2>1. CASE proc[p].reboot
    <3>1. proc' = [proc EXCEPT ![p].pc = "reboot"] /\ "reboot" \in PCs
      BY <1>22, <2>1 DEF ApplyDone, PCs
    <3>2. Memory' /\ Untouched(p) /\ proc'[p].pc = "reboot"
      BY <1>0, <3>1, MoveEffect
    <3> QED
      BY <1>0, <1>b, <1>22, <3>2 DEF ApplyDone
  <2>2. CASE ~proc[p].reboot
    BY <1>0, <1>12, <1>22, <2>2 DEF ApplyDone
  <2> QED
    BY <2>1, <2>2
<1>23. ASSUME NEW p \in Proc, RebootBegin(p) PROVE TInv'
  <2>1. proc' = [proc EXCEPT ![p].pc = "booting"] /\ "booting" \in PCs
    BY <1>23 DEF RebootBegin, PCs
  <2>2. Memory' /\ Untouched(p) /\ proc'[p].pc = "booting"
    BY <1>0, <2>1, MoveEffect
  <2>3. device' \in [OnDevice -> Value \cup {Unset, Lost}]
    BY <1>0, <1>23 DEF RebootBegin
  <2> QED
    BY <1>0, <1>b, <1>23, <2>2, <2>3 DEF RebootBegin
<1>24. ASSUME NEW p \in Proc, RebootEnd(p) PROVE TInv'
  <2>1. device' \in [OnDevice -> Value \cup {Unset, Lost}]
    BY <1>a, <1>24 DEF RebootEnd, Config, Entry, OnDevice
  <2>2. cause' \in Causes \cup {"none"}
    BY <1>0, <1>24, BlameType DEF RebootEnd, Causes
  <2> QED
    BY <1>0, <1>12, <1>24, <2>1, <2>2 DEF RebootEnd
<1>25. ASSUME NEW p \in Proc, Abort(p) PROVE TInv'
  <2>1. cause' \in Causes \cup {"none"}
    BY <1>0, <1>25, BlameType DEF Abort, Causes
  <2> QED
    BY <1>0, <1>12, <1>25, <2>1 DEF Abort
<1> QED
  BY <1>1, <1>2, <1>3, <1>4, <1>5, <1>6, <1>7, <1>9, <1>10, <1>11, <1>13,
     <1>14, <1>15, <1>18, <1>19, <1>20, <1>21, <1>22, <1>23, <1>24, <1>25,
     <1>27, <1>28, <1>29
     DEF Next, Advance, Hand

(* Type correctness of every process's memory, of the repository and of the *)
(* device (the package variables of main.go and the types behind them).     *)
THEOREM TypeCorrect == Spec => []TypeOK
<1>1. TInv => TypeOK
  BY DEF TInv
<1> QED
  BY <1>1, TypeInit, TypeStep, PTL DEF Spec

------------------------------------------------------------------------------
(* 3. config.json and what is committed of it                               *)

(* What p knows of config.json as long as nobody else has changed it.       *)
FileKnown(p) ==
  /\ proc[p].pc \in {"commit", "parent"} /\ proc[p].fresh => file = proc[p].cur
  /\ proc[p].pc \in {"write", "rbwrite"} /\ proc[p].fresh => file = Empty
  /\ proc[p].pc = "edit" /\ proc[p].fresh => proc[p].cur = lastGood
  /\ proc[p].pc = "write" /\ proc[p].fresh =>
       \A x \in Entry \ proc[p].touched : proc[p].cur[x] = lastGood[x]
  /\ proc[p].pc = "parent" => proc[p].cur \in Valid

(* A rollback carries the configuration of an existing commit.              *)
SourceKnown(p) ==
  proc[p].pc \in {"rbread", "rbwrite", "commit", "parent"} /\ proc[p].source # 0 =>
    /\ proc[p].source \in 1..Len(commits)
    /\ proc[p].cur = commits[proc[p].source].cfg

CommitSound(i) ==
  commits[i].checked =>
    /\ commits[i].cfg \in Valid
    /\ commits[i].source # 0 =>
         /\ commits[i].source \in 1..Len(commits)
         /\ commits[i].cfg = commits[commits[i].source].cfg

FInv ==
  /\ \A p \in Proc : FileKnown(p) /\ SourceKnown(p)
  /\ \A i \in 1..Len(commits) : CommitSound(i)
  /\ file \in Config => lastGood = file

LEMMA FileInit == Init => FInv
<1> SUFFICES ASSUME Init PROVE FInv
  OBVIOUS
<1>1. \A p \in Proc : FileKnown(p) /\ SourceKnown(p)
  BY IdleType DEF Init, FileKnown, SourceKnown
<1>2. \A i \in 1..Len(commits) : CommitSound(i)
  BY ConfigAssumption DEF Init, CommitSound
<1> QED
  BY <1>1, <1>2 DEF Init, FInv

LEMMA FileStep == TInv /\ FInv /\ [Next]_vars => FInv'
<1> SUFFICES ASSUME TInv, FInv, [Next]_vars PROVE FInv'
  OBVIOUS
<1>0. /\ Memory /\ commits \in Seq(Commit) /\ Len(commits) \in Nat
      /\ file \in Config \cup Unreadable /\ Empty \notin Config
  BY ValueAssumption DEF TInv, TypeOK, Memory, Unreadable
<1>a. ASSUME NEW p \in Proc
      PROVE  /\ proc[p] \in Process /\ proc[p].cur \in Config
             /\ FileKnown(p) /\ SourceKnown(p)
  BY <1>0 DEF Memory, Process, FInv
(* A process whose memory is kept keeps what it knows.                      *)
<1>b. ASSUME NEW p \in Proc, NEW q \in Proc \ {p},
             \/ Untouched(p) /\ UNCHANGED <<file, lastGood>>
             \/ CrowdedOthers(p) /\ UNCHANGED <<file, lastGood>>
             \/ StaleOthers(p)
      PROVE  FileKnown(q)'
  BY <1>a, <1>b DEF Untouched, CrowdedOthers, StaleOthers, Kept, FileKnown
<1>c. ASSUME NEW p \in Proc, NEW q \in Proc \ {p},
             Untouched(p) \/ CrowdedOthers(p) \/ StaleOthers(p),
             Len(commits') \in Nat, Len(commits) <= Len(commits'),
             \A i \in 1..Len(commits) : commits'[i] = commits[i]
      PROVE  SourceKnown(q)'
  <2>1. /\ proc'[q].pc = proc[q].pc /\ proc'[q].source = proc[q].source
        /\ proc'[q].cur = proc[q].cur
    BY <1>c DEF Untouched, CrowdedOthers, StaleOthers, Kept
  <2> QED
    BY <1>0, <1>a, <1>c, <2>1 DEF SourceKnown
(* The steps that create no commit.                                         *)
<1>d. ASSUME NEW p \in Proc, commits' = commits,
             Untouched(p) \/ CrowdedOthers(p) \/ StaleOthers(p),
             StaleOthers(p) \/ UNCHANGED <<file, lastGood>>,
             FileKnown(p)', SourceKnown(p)',
             file' \in Config => lastGood' = file'
      PROVE  FInv'
  <2>1. \A q \in Proc : FileKnown(q)' /\ SourceKnown(q)'
    <3> SUFFICES ASSUME NEW q \in Proc PROVE FileKnown(q)' /\ SourceKnown(q)'
      OBVIOUS
    <3>1. CASE q = p
      BY <1>d, <3>1
    <3>2. CASE q # p
      BY <1>0, <1>b, <1>c, <1>d, <3>2
    <3> QED
      BY <3>1, <3>2
  <2>2. \A i \in 1..Len(commits') : CommitSound(i)'
    BY <1>d DEF FInv, CommitSound
  <2> QED
    BY <1>d, <2>1, <2>2 DEF FInv
(* A process that is past its commit, or idle, knows nothing.               *)
<1>e. ASSUME NEW p \in Proc, commits' = commits,
             Untouched(p) \/ CrowdedOthers(p), UNCHANGED <<file, lastGood>>,
             proc'[p].pc \in {"idle", "log", "apply", "reboot", "booting"}
      PROVE  FInv'
  BY <1>d, <1>e DEF FInv, FileKnown, SourceKnown
<1>f. ASSUME NEW p \in Proc, proc' = [proc EXCEPT ![p] = Idle],
             UNCHANGED <<file, commits, lastGood>>
      PROVE  FInv'
  <2>1. Untouched(p) /\ proc'[p].pc = "idle"
    BY <1>0, <1>f, ExitEffect, IdleType
  <2> QED
    BY <1>e, <1>f, <2>1
<1>g. ASSUME NEW p \in Proc, NEW l \in {"log", "reboot", "booting"},
             proc' = [proc EXCEPT ![p].pc = l],
             UNCHANGED <<file, commits, lastGood>>
      PROVE  FInv'
  <2>1. l \in PCs
    BY DEF PCs
  <2>2. Untouched(p) /\ proc'[p].pc = l
    BY <1>0, <1>g, <2>1, MoveEffect
  <2> QED
    BY <1>e, <1>g, <2>2
<1>1. CASE UNCHANGED vars
  BY <1>1 DEF vars, FInv, FileKnown, SourceKnown, CommitSound
<1>2. ASSUME NEW p \in Proc, EditRead(p) PROVE FInv'
  <2>1. /\ Untouched(p) /\ proc'[p].pc = "edit" /\ proc'[p].cur = file
        /\ file \in Config /\ proc'[p].source = 0
    BY <1>0, <1>2, EditReadEffect
  <2>2. UNCHANGED <<file, commits, lastGood>>
    BY <1>2 DEF EditRead
  <2>3. FileKnown(p)' /\ SourceKnown(p)'
    BY <2>1, <2>2 DEF FileKnown, SourceKnown, FInv
  <2> QED
    BY <1>d, <2>1, <2>2, <2>3 DEF FInv
<1>3. ASSUME NEW p \in Proc, CommitRead(p) PROVE FInv'
  <2>1. /\ Untouched(p) /\ proc'[p].pc = "commit" /\ proc'[p].cur = file
        /\ proc'[p].source = 0
    BY <1>0, <1>3, CommitReadEffect
  <2>2. UNCHANGED <<file, commits, lastGood>>
    BY <1>3 DEF CommitRead
  <2>3. FileKnown(p)' /\ SourceKnown(p)'
    BY <2>1, <2>2 DEF FileKnown, SourceKnown
  <2> QED
    BY <1>d, <2>1, <2>2, <2>3 DEF FInv
<1>4. ASSUME NEW p \in Proc, RollbackRead(p) PROVE FInv'
  <2>1. /\ Untouched(p) /\ proc'[p].pc = "rbread"
        /\ proc'[p].source \in 1..Len(commits)
        /\ proc'[p].cur = commits[proc'[p].source].cfg
    BY <1>0, <1>4, RollbackReadEffect
  <2>2. UNCHANGED <<file, commits, lastGood>>
    BY <1>4 DEF RollbackRead
  <2>3. FileKnown(p)' /\ SourceKnown(p)'
    BY <2>1, <2>2 DEF FileKnown, SourceKnown
  <2> QED
    BY <1>d, <2>1, <2>2, <2>3 DEF FInv
<1>5. ASSUME NEW p \in Proc, RebootRead(p) PROVE FInv'
  <2>1. CrowdedOthers(p) /\ proc'[p].pc = "reboot"
    BY <1>0, <1>5, RebootReadEffect
  <2> QED
    BY <1>5, <1>e, <2>1 DEF RebootRead
<1>6. ASSUME NEW p \in Proc, EditCreate(p) PROVE FInv'
  <2>1. /\ StaleOthers(p) /\ proc'[p].pc = "write"
        /\ proc'[p].touched \subseteq Entry
        /\ \A x \in Entry \ proc'[p].touched : proc'[p].cur[x] = proc[p].cur[x]
        /\ proc'[p].fresh = proc[p].fresh
    BY <1>0, <1>6, EditCreateEffect
  <2>2. file' = Empty /\ UNCHANGED <<commits, lastGood>>
    BY <1>6 DEF EditCreate, Truncate
  <2>3. FileKnown(p)' /\ SourceKnown(p)'
    BY <1>6, <1>a, <2>1, <2>2 DEF EditCreate, FileKnown, SourceKnown
  <2> QED
    BY <1>0, <1>d, <2>1, <2>2, <2>3
<1>7. ASSUME NEW p \in Proc, RollbackCreate(p) PROVE FInv'
  <2>1. /\ StaleOthers(p) /\ proc'[p].pc = "rbwrite"
        /\ proc'[p].cur = proc[p].cur /\ proc'[p].source = proc[p].source
    BY <1>0, <1>7, RollbackCreateEffect
  <2>2. file' = Empty /\ UNCHANGED <<commits, lastGood>>
    BY <1>7 DEF RollbackCreate, Truncate
  <2>3. FileKnown(p)' /\ SourceKnown(p)'
    BY <1>7, <1>a, <2>1, <2>2 DEF RollbackCreate, FileKnown, SourceKnown
  <2> QED
    BY <1>0, <1>d, <2>1, <2>2, <2>3
<1>8. ASSUME NEW p \in Proc, NEW n, Write(p, n)
      PROVE  /\ file' \in Config => lastGood' = file'
             /\ file = Empty => file' = proc[p].cur
             /\ commits' = commits
  BY <1>8 DEF Write
<1>9. ASSUME NEW p \in Proc, EditWrite(p) PROVE FInv'
  <2>1. StaleOthers(p) /\ proc'[p].pc = "idle"
    BY <1>0, <1>9, EditWriteEffect, IdleType
  <2>2. FileKnown(p)' /\ SourceKnown(p)'
    BY <2>1 DEF FileKnown, SourceKnown
  <2>3. /\ file' \in Config => lastGood' = file'
        /\ commits' = commits
    BY <1>8, <1>9 DEF EditWrite
  <2> QED
    BY <1>d, <2>1, <2>2, <2>3
<1>10. ASSUME NEW p \in Proc, RollbackWrite(p) PROVE FInv'
  <2>1. /\ StaleOthers(p) /\ proc'[p].pc = "commit"
        /\ proc'[p].cur = proc[p].cur /\ proc'[p].source = proc[p].source
        /\ proc'[p].fresh = proc[p].fresh
    BY <1>0, <1>10, RollbackWriteEffect
  <2>2. /\ file' \in Config => lastGood' = file'
        /\ file = Empty => file' = proc[p].cur
        /\ commits' = commits
    BY <1>8, <1>10 DEF RollbackWrite
  <2>3. FileKnown(p)' /\ SourceKnown(p)'
    BY <1>10, <1>a, <2>1, <2>2 DEF RollbackWrite, FileKnown, SourceKnown
  <2> QED
    BY <1>d, <2>1, <2>2, <2>3
<1>22. ASSUME NEW p \in Proc, NEW n, WriteLost(p, n)
      PROVE  /\ file' \in Config => lastGood' = file'
             /\ commits' = commits
  BY <1>22, LostEffect DEF WriteLost, FInv
<1>23. ASSUME NEW p \in Proc, EditWriteLost(p) PROVE FInv'
  <2>1. StaleOthers(p) /\ proc'[p].pc = "idle"
    BY <1>0, <1>23, EditWriteLostEffect, IdleType
  <2>2. FileKnown(p)' /\ SourceKnown(p)'
    BY <2>1 DEF FileKnown, SourceKnown
  <2>3. /\ file' \in Config => lastGood' = file'
        /\ commits' = commits
    BY <1>22, <1>23 DEF EditWriteLost
  <2> QED
    BY <1>d, <2>1, <2>2, <2>3
<1>24. ASSUME NEW p \in Proc, RollbackWriteLost(p) PROVE FInv'
  <2>1. /\ StaleOthers(p) /\ proc'[p].pc = "commit" /\ ~proc'[p].fresh
        /\ proc'[p].cur = proc[p].cur /\ proc'[p].source = proc[p].source
    BY <1>0, <1>24, RollbackWriteLostEffect
  <2>2. /\ file' \in Config => lastGood' = file'
        /\ commits' = commits
    BY <1>22, <1>24 DEF RollbackWriteLost
  <2>3. FileKnown(p)' /\ SourceKnown(p)'
    BY <1>24, <1>a, <2>1, <2>2 DEF RollbackWriteLost, FileKnown, SourceKnown
  <2> QED
    BY <1>d, <2>1, <2>2, <2>3
<1>25. ASSUME NEW p \in Proc, ReadParent(p) PROVE FInv'
  <2>1. /\ CrowdedOthers(p) /\ proc'[p].pc = "parent"
        /\ proc'[p].cur = proc[p].cur /\ proc'[p].source = proc[p].source
        /\ proc'[p].fresh = proc[p].fresh
    BY <1>0, <1>25, ReadParentEffect DEF TInv, TypeOK
  <2>2. /\ proc[p].pc = "commit" /\ proc[p].cur \in Valid
        /\ UNCHANGED <<file, commits, lastGood>>
    BY <1>25 DEF ReadParent, ValidateFinal
  <2>3. FileKnown(p)' /\ SourceKnown(p)'
    BY <1>a, <2>1, <2>2 DEF FileKnown, SourceKnown
  <2> QED
    BY <1>d, <2>1, <2>2, <2>3 DEF FInv
<1>11. ASSUME NEW p \in Proc, Stage(p) PROVE FInv'
  <2> DEFINE c == NewCommit(p)
  <2>1. c \in Commit
    BY <1>0, <1>a DEF NewCommit, Commit, Process, TInv, TypeOK
  <2>2. /\ c.cfg = file /\ c.checked = proc[p].fresh
        /\ c.source = proc[p].source
    BY DEF NewCommit
  <2> HIDE DEF c
  <2>3. /\ commits' \in Seq(Commit)
        /\ Len(commits') = Len(commits) + 1
        /\ \A i \in 1..Len(commits) : commits'[i] = commits[i]
        /\ commits'[Len(commits) + 1] = c
    BY <1>0, <1>11, <2>1, AppendCommit DEF Stage, c
  <2>4. Untouched(p) /\ proc'[p].pc = "staged" /\ UNCHANGED <<file, lastGood>>
    BY <1>0, <1>11, StageEffect DEF Stage
  <2>5. \A q \in Proc : FileKnown(q)' /\ SourceKnown(q)'
    <3> SUFFICES ASSUME NEW q \in Proc PROVE FileKnown(q)' /\ SourceKnown(q)'
      OBVIOUS
    <3>1. CASE q = p
      BY <2>4, <3>1 DEF FileKnown, SourceKnown
    <3>2. CASE q # p
      <4>1. FileKnown(q)'
        BY <1>b, <2>4, <3>2
      <4>2. SourceKnown(q)'
        BY <1>0, <1>c, <2>3, <2>4, <3>2
      <4> QED
        BY <4>1, <4>2
    <3> QED
      BY <3>1, <3>2
  <2>6. \A i \in 1..Len(commits') : CommitSound(i)'
    <3> SUFFICES ASSUME NEW i \in 1..Len(commits') PROVE CommitSound(i)'
      OBVIOUS
    <3>1. CASE i \in 1..Len(commits)
      <4>1. CommitSound(i) /\ commits'[i] = commits[i]
        BY <2>3, <3>1 DEF FInv
      <4> QED
        BY <1>0, <2>3, <4>1 DEF CommitSound
    <3>2. CASE i = Len(commits) + 1
      <4>1. /\ proc[p].fresh => file = proc[p].cur
            /\ proc[p].cur \in Valid
            /\ proc[p].source # 0 =>
                  /\ proc[p].source \in 1..Len(commits)
                  /\ proc[p].cur = commits[proc[p].source].cfg
        BY <1>11, <1>a DEF Stage, FileKnown, SourceKnown
      <4> QED
        BY <1>0, <2>2, <2>3, <3>2, <4>1 DEF CommitSound
    <3> QED
      BY <1>0, <2>3, <3>1, <3>2
  <2> QED
    BY <2>4, <2>5, <2>6 DEF FInv
<1>12. ASSUME NEW p \in Proc, Refuse(p) PROVE FInv'
  BY <1>12, <1>f DEF Refuse
<1>13. ASSUME NEW p \in Proc, UpdateHead(p) PROVE FInv'
  BY <1>13, <1>f, <1>g DEF UpdateHead
<1>14. ASSUME NEW p \in Proc, ReadLog(p) PROVE FInv'
  <2> DEFINE ok == {commits[head].cfg, commits[commits[head].parent].cfg}
                      \subseteq Config
  <2>1. CASE ok
    <3>1. Untouched(p) /\ proc'[p].pc \in {"apply", "reboot"}
      BY <1>0, <1>14, <2>1, ReadLogEffect
    <3>2. UNCHANGED <<file, commits, lastGood>>
      BY <1>14 DEF ReadLog
    <3> QED
      BY <1>e, <3>1, <3>2
  <2>2. CASE ~ok
    <3>1. /\ proc' = [proc EXCEPT ![p] = Idle]
          /\ UNCHANGED <<file, commits, lastGood>>
      BY <1>14, <2>2 DEF ReadLog, ConfigAt
    <3> QED
      BY <1>f, <3>1
  <2> QED
    BY <2>1, <2>2
<1>15. ASSUME NEW p \in Proc, NEW e \in OnDevice,
              ApplyOpt(p, e) \/ ApplyIntf(p, e)
       PROVE FInv'
  <2>1. Untouched(p) /\ proc'[p].pc = "apply"
    BY <1>0, <1>15, HandedEffect DEF ApplyOpt, ApplyIntf
  <2> QED
    BY <1>15, <1>e, <2>1 DEF ApplyOpt, ApplyIntf
<1>16. ASSUME NEW p \in Proc, NEW e \in OnDevice, PanicOpt(p, e) PROVE FInv'
  BY <1>16, <1>f DEF PanicOpt
<1>17. ASSUME NEW p \in Proc, NEW e \in OnDevice, ApplyPort(p, e) PROVE FInv'
  <2>1. Untouched(p) /\ proc'[p].pc = "apply"
    BY <1>0, <1>17, ApplyPortEffect DEF ApplyPort
  <2> QED
    BY <1>17, <1>e, <2>1 DEF ApplyPort
<1>18. ASSUME NEW p \in Proc, ApplyDone(p) PROVE FInv'
  BY <1>18, <1>f, <1>g DEF ApplyDone
<1>19. ASSUME NEW p \in Proc, RebootBegin(p) PROVE FInv'
  BY <1>19, <1>g DEF RebootBegin
<1>20. ASSUME NEW p \in Proc, RebootEnd(p) PROVE FInv'
  BY <1>20, <1>f DEF RebootEnd
<1>21. ASSUME NEW p \in Proc, Abort(p) PROVE FInv'
  BY <1>21, <1>f DEF Abort
<1> QED
  BY <1>1, <1>2, <1>3, <1>4, <1>5, <1>6, <1>7, <1>9, <1>10, <1>11, <1>12,
     <1>13, <1>14, <1>15, <1>16, <1>17, <1>18, <1>19, <1>20, <1>21, <1>23,
     <1>24, <1>25
     DEF Next, Advance, Hand

LEMMA FileInvariant == Spec => [](TInv /\ FInv)
  BY TypeInit, FileInit, TypeStep, FileStep, PTL DEF Spec

(* What validateFinal accepted is what the history holds, as long as nobody *)
(* wrote config.json between the read (main.go:80) and the tree.Commit      *)
(* (main.go:1150) of the process that committed, and its own write          *)
(* (main.go:100) was not lost.                                              *)
THEOREM Validated == Spec => []CommittedAsValidated
<1>1. FInv => CommittedAsValidated
  BY DEF FInv, CommitSound, CommittedAsValidated
<1> QED
  BY <1>1, FileInvariant, PTL

(* rollback (main.go:1218) commits the configuration it went back to,       *)
(* unless config.json was written in between or its own write was lost.     *)
THEOREM Restored == Spec => []RollbackRestores
<1>1. FInv => RollbackRestores
  BY DEF FInv, CommitSound, RollbackRestores
<1> QED
  BY <1>1, FileInvariant, PTL

(* An edit that nobody disturbed changes only what it is about.             *)
THEOREM RestKept == Spec => EditKeepsTheRest
<1>1. TInv /\ FInv /\ [Next]_vars => [EditKeeps]_vars
  <2> DEFINE Q(p) == \A x \in Entry \ proc[p].touched : file'[x] = lastGood[x]
  <2> SUFFICES ASSUME TInv, FInv, Next, NEW p \in Proc,
                      proc[p].pc = "write", proc'[p].pc = "idle",
                      proc[p].fresh, file' \in Config, file' # file
               PROVE  Q(p)
    BY DEF EditKeeps
  <2>0. Memory /\ FileKnown(p) /\ Empty \notin Config
    BY ValueAssumption DEF TInv, TypeOK, Memory, FInv, Unreadable
  <2>1. ASSUME NEW q \in Proc, EditWrite(q) \/ RollbackWrite(q) PROVE Q(p)
    <3>1. StaleOthers(q)
      BY <2>0, <2>1, EditWriteEffect, RollbackWriteEffect
    <3>2. q = p
      BY <3>1 DEF StaleOthers, Kept
    <3>3. file = Empty /\ EditWrite(p)
      BY <2>0, <2>1, <3>2 DEF FileKnown, RollbackWrite
    <3>4. file' = proc[p].cur
      BY <3>3 DEF EditWrite, Write
    <3> QED
      BY <2>0, <3>4 DEF FileKnown
  <2>2. ASSUME NEW q \in Proc, EditCreate(q) \/ RollbackCreate(q) PROVE FALSE
    BY <2>0, <2>2 DEF EditCreate, RollbackCreate, Truncate
  <2>4. ASSUME NEW q \in Proc, EditWriteLost(q) \/ RollbackWriteLost(q) PROVE FALSE
    BY <2>4, ValueAssumption
       DEF EditWriteLost, RollbackWriteLost, WriteLost, Unreadable
  <2>3. ASSUME NEW q \in Proc,
               \/ EditRead(q) \/ CommitRead(q) \/ RollbackRead(q)
               \/ RebootRead(q) \/ ReadParent(q) \/ Stage(q) \/ Refuse(q)
               \/ UpdateHead(q) \/ ReadLog(q) \/ Hand(q) \/ ApplyDone(q)
               \/ RebootBegin(q) \/ RebootEnd(q) \/ Abort(q)
        PROVE  file' = file
    BY <2>3 DEF EditRead, CommitRead, RollbackRead, RebootRead, ReadParent,
                Stage, Refuse, UpdateHead, ReadLog, Hand, ApplyOpt, PanicOpt, ApplyIntf,
                ApplyPort, ApplyDone, RebootBegin, RebootEnd, Abort
  <2> QED
    BY <2>1, <2>2, <2>3, <2>4 DEF Next, Advance
<1> QED
  BY <1>1, FileInvariant, PTL DEF Spec, EditKeepsTheRest

------------------------------------------------------------------------------
(* 4. From the commit to the device                                         *)

(* A process that has always been alone in DevicePhase still is.            *)
AloneSound(p) ==
  /\ proc[p].alone => InPhase(p) /\ \A q \in Proc \ {p} : ~InPhase(q)
  /\ cause = "none" /\ InPhase(p) => proc[p].alone
  /\ proc[p].pc = "parent" /\ proc[p].alone => proc[p].parent = head
  /\ proc[p].pc = "staged" /\ proc[p].alone =>
       commits[proc[p].id].parent = head

(* How far the device is while p carries HEAD to it.                        *)
OnTheWay(p) ==
  /\ proc[p].pc \in {"parent", "staged"} => Synced
  /\ proc[p].pc = "log" =>
       LET s == commits[commits[head].parent].cfg
       IN s \in Config /\ \A e \in OnDevice : Agrees(e, s)
  /\ proc[p].pc = "apply" =>
       /\ HeadCfg \in Config /\ proc[p].target = HeadCfg
       /\ \A e \in OnDevice \ proc[p].tasks :
            \/ Agrees(e, HeadCfg)
            \/ e \in PortEntry /\ proc[p].reboot

DInv ==
  /\ \A p \in Proc : AloneSound(p)
  /\ cause = "none" => \A p \in Proc : OnTheWay(p)
  /\ DeviceFollowsHead

LEMMA DeviceInit == Init => DInv
<1> SUFFICES ASSUME Init PROVE DInv
  OBVIOUS
<1>1. \A p \in Proc : AloneSound(p) /\ OnTheWay(p)
  BY IdleType DEF Init, AloneSound, OnTheWay, InPhase, DevicePhase
<1>2. DeviceFollowsHead
  BY ConfigAssumption DEF Init, DeviceFollowsHead, Synced, HeadCfg, Agrees
<1> QED
  BY <1>1, <1>2 DEF DInv

LEMMA DeviceStep == TInv /\ DInv /\ [Next]_vars => DInv'
<1> SUFFICES ASSUME TInv, DInv, [Next]_vars PROVE DInv'
  OBVIOUS
<1>0. /\ Memory /\ commits \in Seq(Commit) /\ Len(commits) \in Nat
      /\ head \in 1..Len(commits) /\ StagedExists
      /\ cause \in Causes \cup {"none"}
      /\ device \in [OnDevice -> Value \cup {Unset, Lost}]
  BY DEF TInv, TypeOK, Memory
<1>a. ASSUME NEW p \in Proc
      PROVE  proc[p] \in Process /\ AloneSound(p) /\ (cause = "none" => OnTheWay(p))
  BY <1>0 DEF Memory, DInv
<1>b. "none" \notin Causes
  BY DEF Causes
<1>c. ASSUME NEW p \in Proc, InPhase(p), cause = "none"
      PROVE  proc[p].alone /\ \A q \in Proc \ {p} : ~InPhase(q)
  BY <1>a, <1>c DEF AloneSound
(* Steps outside DevicePhase.                                               *)
<1>d. ASSUME NEW p \in Proc, Untouched(p) \/ StaleOthers(p),
             ~InPhase(p), ~InPhase(p)', ~proc'[p].alone,
             UNCHANGED <<commits, head, device, cause>>
      PROVE  DInv'
  <2>1. ASSUME NEW q \in Proc \ {p}
        PROVE  /\ proc'[q].pc = proc[q].pc /\ proc'[q].alone = proc[q].alone
               /\ proc'[q].parent = proc[q].parent
               /\ proc'[q].id = proc[q].id /\ proc'[q].tasks = proc[q].tasks
               /\ proc'[q].target = proc[q].target
               /\ proc'[q].reboot = proc[q].reboot
    BY <1>d DEF Untouched, StaleOthers, Kept
  <2>2. \A q \in Proc : InPhase(q)' <=> InPhase(q)
    BY <1>d, <2>1 DEF InPhase
  <2>3. Synced' <=> Synced
    BY <1>d DEF Synced, HeadCfg, Agrees
  <2>4. ASSUME NEW q \in Proc
        PROVE  AloneSound(q)' /\ (cause' = "none" => OnTheWay(q)')
    <3>1. CASE q = p
      BY <1>d, <3>1 DEF AloneSound, OnTheWay, InPhase, DevicePhase
    <3>2. CASE q # p
      <4>1. AloneSound(q)'
        BY <1>a, <1>d, <2>1, <2>2, <3>2 DEF AloneSound
      <4>2. cause' = "none" => OnTheWay(q)'
        BY <1>a, <1>d, <2>1, <2>3, <3>2 DEF OnTheWay, HeadCfg, Agrees
      <4> QED
        BY <4>1, <4>2
    <3> QED
      BY <3>1, <3>2
  <2>5. DeviceFollowsHead'
    BY <1>d, <2>2, <2>3 DEF DInv, DeviceFollowsHead
  <2> QED
    BY <2>4, <2>5 DEF DInv
(* p enters DevicePhase.                                                    *)
<1>e. ASSUME NEW p \in Proc, CrowdedOthers(p), ~InPhase(p), InPhase(p)',
             proc'[p].alone = ~OthersInPhase(p),
             OthersInPhase(p) => cause' # "none",
             ~OthersInPhase(p) => cause' = cause,
             proc'[p].pc = "parent" => proc'[p].parent = head,
             proc'[p].pc \in {"parent", "reboot"},
             commits' = commits, head' = head, device' = device
      PROVE  DInv'
  <2>1. ASSUME NEW q \in Proc \ {p}
        PROVE  proc'[q].pc = proc[q].pc /\ ~proc'[q].alone
    BY <1>e DEF CrowdedOthers, Kept
  <2>2. \A q \in Proc \ {p} : InPhase(q)' <=> InPhase(q)
    BY <2>1 DEF InPhase
  <2>3. Synced' <=> Synced
    BY <1>e DEF Synced, HeadCfg, Agrees
  <2>4. cause' = "none" => cause = "none" /\ ~OthersInPhase(p) /\ Synced
    BY <1>e DEF DInv, DeviceFollowsHead, OthersInPhase
  <2>5. ASSUME NEW q \in Proc
        PROVE  AloneSound(q)' /\ (cause' = "none" => OnTheWay(q)')
    <3>1. CASE q = p
      <4>1. AloneSound(p)'
        BY <1>e, <2>2 DEF AloneSound, OthersInPhase
      <4>2. cause' = "none" => OnTheWay(p)'
        BY <1>e, <2>3, <2>4 DEF OnTheWay
      <4> QED
        BY <3>1, <4>1, <4>2
    <3>2. CASE q # p
      <4>1. InPhase(q)' => cause' # "none"
        BY <1>e, <2>2, <3>2 DEF OthersInPhase
      <4>2. AloneSound(q)'
        BY <2>1, <3>2, <4>1 DEF AloneSound
      <4>3. cause' = "none" => OnTheWay(q)'
        BY <4>1 DEF OnTheWay, InPhase, DevicePhase
      <4> QED
        BY <4>2, <4>3
    <3> QED
      BY <3>1, <3>2
  <2>6. DeviceFollowsHead'
    BY <1>e DEF DeviceFollowsHead
  <2> QED
    BY <2>5, <2>6 DEF DInv
(* p takes a step inside DevicePhase, and keeps the ghost `alone`; or       *)
(* leaves it.                                                               *)
<1>f. ASSUME NEW p \in Proc, Untouched(p), InPhase(p),
             \/ InPhase(p)' /\ proc'[p].alone = proc[p].alone
                /\ proc'[p].pc # "parent" /\ cause' = cause
             \/ ~InPhase(p)' /\ ~proc'[p].alone,
             proc'[p].pc = "staged" /\ proc'[p].alone =>
               commits'[proc'[p].id].parent = head',
             head' = head \/ proc[p].pc = "staged",
             cause' = "none" => cause = "none" \/ ~OthersInPhase(p),
             cause' = "none" /\ InPhase(p)' => OnTheWay(p)',
             cause' = "none" /\ ~InPhase(p)' => Synced'
      PROVE  DInv'
  <2>1. ASSUME NEW q \in Proc \ {p} PROVE proc'[q] = proc[q]
    BY <1>f DEF Untouched
  <2>2. \A q \in Proc \ {p} : InPhase(q)' <=> InPhase(q)
    BY <2>1 DEF InPhase
  <2>3. cause' = "none" => \A q \in Proc \ {p} : ~InPhase(q)
    BY <1>c, <1>f DEF OthersInPhase
  <2>4. ASSUME NEW q \in Proc
        PROVE  AloneSound(q)' /\ (cause' = "none" => OnTheWay(q)')
    <3>1. CASE q = p
      <4>1. AloneSound(p)'
        BY <1>a, <1>f, <2>2 DEF AloneSound, InPhase, DevicePhase
      <4>2. cause' = "none" => OnTheWay(p)'
        BY <1>f DEF OnTheWay, InPhase, DevicePhase
      <4> QED
        BY <3>1, <4>1, <4>2
    <3>2. CASE q # p
      <4>1. ~proc'[q].alone
        BY <1>a, <1>f, <2>1, <3>2 DEF AloneSound
      <4>2. cause' = "none" => ~InPhase(q)'
        BY <2>2, <2>3, <3>2
      <4> QED
        BY <4>1, <4>2 DEF AloneSound, OnTheWay, InPhase, DevicePhase
    <3> QED
      BY <3>1, <3>2
  <2>5. DeviceFollowsHead'
    BY <1>f DEF DeviceFollowsHead
  <2> QED
    BY <2>4, <2>5 DEF DInv
<1>g. ASSUME NEW p \in Proc, proc' = [proc EXCEPT ![p] = Idle]
      PROVE  /\ Untouched(p) /\ ~InPhase(p)' /\ ~proc'[p].alone
  BY <1>0, <1>g, ExitEffect, IdleType DEF InPhase, DevicePhase
<1>h. ASSUME NEW p \in Proc, ~InPhase(p) PROVE ~proc[p].alone
  BY <1>a, <1>h DEF AloneSound
<1>1. CASE UNCHANGED vars
  BY <1>1 DEF vars, DInv, AloneSound, OnTheWay, DeviceFollowsHead, Synced,
              HeadCfg, Agrees, InPhase
<1>2. ASSUME NEW p \in Proc, EditRead(p) PROVE DInv'
  <2>1. Untouched(p) /\ ~InPhase(p) /\ ~InPhase(p)' /\ ~proc'[p].alone
    BY <1>0, <1>2, EditReadEffect DEF EditRead, CanRead, InPhase, DevicePhase
  <2> QED
    BY <1>2, <1>d, <2>1 DEF EditRead
<1>3. ASSUME NEW p \in Proc, CommitRead(p) PROVE DInv'
  <2>1. Untouched(p) /\ ~InPhase(p) /\ ~InPhase(p)' /\ ~proc'[p].alone
    BY <1>0, <1>3, CommitReadEffect
       DEF CommitRead, CanRead, InPhase, DevicePhase
  <2> QED
    BY <1>3, <1>d, <2>1 DEF CommitRead
<1>4. ASSUME NEW p \in Proc, RollbackRead(p) PROVE DInv'
  <2>1. Untouched(p) /\ ~InPhase(p) /\ ~InPhase(p)' /\ ~proc'[p].alone
    BY <1>0, <1>4, RollbackReadEffect DEF RollbackRead, InPhase, DevicePhase
  <2> QED
    BY <1>4, <1>d, <2>1 DEF RollbackRead
<1>5. ASSUME NEW p \in Proc, RebootRead(p) PROVE DInv'
  <2>1. /\ CrowdedOthers(p) /\ proc'[p].pc = "reboot"
        /\ proc'[p].alone = ~OthersInPhase(p)
    BY <1>0, <1>5, RebootReadEffect
  <2>2. ~InPhase(p) /\ InPhase(p)'
    BY <1>5, <2>1 DEF RebootRead, CanRead, InPhase, DevicePhase
  <2>3. /\ OthersInPhase(p) => cause' # "none"
        /\ ~OthersInPhase(p) => cause' = cause
    BY <1>5 DEF RebootRead, Enter, Blame
  <2> QED
    BY <1>5, <1>e, <2>1, <2>2, <2>3 DEF RebootRead
<1>6. ASSUME NEW p \in Proc, EditCreate(p) PROVE DInv'
  <2>1. /\ StaleOthers(p) /\ proc'[p].pc = "write" /\ proc[p].pc = "edit"
        /\ proc'[p].alone = proc[p].alone
    BY <1>0, <1>6, EditCreateEffect DEF EditCreate
  <2>2. ~InPhase(p) /\ ~InPhase(p)'
    BY <2>1 DEF InPhase, DevicePhase
  <2> QED
    BY <1>6, <1>d, <1>h, <2>1, <2>2 DEF EditCreate, Truncate
<1>7. ASSUME NEW p \in Proc, RollbackCreate(p) PROVE DInv'
  <2>1. /\ StaleOthers(p) /\ proc'[p].pc = "rbwrite" /\ proc[p].pc = "rbread"
        /\ proc'[p].alone = proc[p].alone
    BY <1>0, <1>7, RollbackCreateEffect DEF RollbackCreate
  <2>2. ~InPhase(p) /\ ~InPhase(p)'
    BY <2>1 DEF InPhase, DevicePhase
  <2> QED
    BY <1>7, <1>d, <1>h, <2>1, <2>2 DEF RollbackCreate, Truncate
<1>8. ASSUME NEW p \in Proc, EditWrite(p) PROVE DInv'
  <2>1. StaleOthers(p) /\ proc'[p] = Idle /\ proc[p].pc = "write"
    BY <1>0, <1>8, EditWriteEffect DEF EditWrite
  <2>2. ~InPhase(p) /\ ~InPhase(p)' /\ ~proc'[p].alone
    BY <2>1, IdleType DEF InPhase, DevicePhase
  <2> QED
    BY <1>8, <1>d, <2>1, <2>2 DEF EditWrite, Write
<1>9. ASSUME NEW p \in Proc, RollbackWrite(p) PROVE DInv'
  <2>1. /\ StaleOthers(p) /\ proc'[p].pc = "commit" /\ proc[p].pc = "rbwrite"
        /\ proc'[p].alone = proc[p].alone
    BY <1>0, <1>9, RollbackWriteEffect DEF RollbackWrite
  <2>2. ~InPhase(p) /\ ~InPhase(p)'
    BY <2>1 DEF InPhase, DevicePhase
  <2> QED
    BY <1>9, <1>d, <1>h, <2>1, <2>2 DEF RollbackWrite, Write
<1>21. ASSUME NEW p \in Proc, EditWriteLost(p) PROVE DInv'
  <2>1. StaleOthers(p) /\ proc'[p] = Idle /\ proc[p].pc = "write"
    BY <1>0, <1>21, EditWriteLostEffect DEF EditWriteLost
  <2>2. ~InPhase(p) /\ ~InPhase(p)' /\ ~proc'[p].alone
    BY <2>1, IdleType DEF InPhase, DevicePhase
  <2> QED
    BY <1>21, <1>d, <2>1, <2>2 DEF EditWriteLost, WriteLost
<1>22. ASSUME NEW p \in Proc, RollbackWriteLost(p) PROVE DInv'
  <2>1. /\ StaleOthers(p) /\ proc'[p].pc = "commit" /\ proc[p].pc = "rbwrite"
        /\ proc'[p].alone = proc[p].alone
    BY <1>0, <1>22, RollbackWriteLostEffect DEF RollbackWriteLost
  <2>2. ~InPhase(p) /\ ~InPhase(p)'
    BY <2>1 DEF InPhase, DevicePhase
  <2> QED
    BY <1>22, <1>d, <1>h, <2>1, <2>2 DEF RollbackWriteLost, WriteLost
<1>23. ASSUME NEW p \in Proc, ReadParent(p) PROVE DInv'
  <2>1. /\ CrowdedOthers(p) /\ proc'[p].pc = "parent"
        /\ proc'[p].parent = head
        /\ proc'[p].alone = ~OthersInPhase(p)
    BY <1>0, <1>23, ReadParentEffect
  <2>2. ~InPhase(p) /\ InPhase(p)'
    BY <1>23, <2>1 DEF ReadParent, InPhase, DevicePhase
  <2>3. /\ OthersInPhase(p) => cause' # "none"
        /\ ~OthersInPhase(p) => cause' = cause
    BY <1>23 DEF ReadParent, Enter, Blame
  <2> QED
    BY <1>23, <1>e, <2>1, <2>2, <2>3 DEF ReadParent
<1>10. ASSUME NEW p \in Proc, Stage(p) PROVE DInv'
  <2> DEFINE c == NewCommit(p)
  <2>1. c \in Commit /\ c.parent = proc[p].parent
    BY <1>0, <1>a DEF NewCommit, Commit, Process, TInv, TypeOK
  <2> HIDE DEF c
  <2>2. /\ Len(commits') = Len(commits) + 1
        /\ \A i \in 1..Len(commits) : commits'[i] = commits[i]
        /\ commits'[Len(commits) + 1] = c
    BY <1>0, <1>10, <2>1, AppendCommit DEF Stage, c
  <2>3. /\ Untouched(p) /\ proc'[p].pc = "staged"
        /\ proc'[p].id = Len(commits) + 1
        /\ proc'[p].alone = proc[p].alone
    BY <1>0, <1>10, StageEffect
  <2>4. /\ proc[p].pc = "parent" /\ InPhase(p) /\ InPhase(p)'
        /\ UNCHANGED <<head, device, cause>>
    BY <1>10, <2>3 DEF Stage, InPhase, DevicePhase
  <2>5. proc'[p].alone => commits'[proc'[p].id].parent = head'
    BY <1>a, <2>1, <2>2, <2>3, <2>4 DEF AloneSound
  <2>6. HeadCfg' = HeadCfg
    BY <1>0, <2>2, <2>4 DEF HeadCfg
  <2>7. cause' = "none" => OnTheWay(p)'
    BY <1>a, <2>3, <2>4, <2>6 DEF OnTheWay, Synced, Agrees
  <2> QED
    BY <1>f, <2>3, <2>4, <2>5, <2>7
<1>11. ASSUME NEW p \in Proc, Refuse(p) PROVE DInv'
  <2>1. ~InPhase(p)
    BY <1>11 DEF Refuse, InPhase, DevicePhase
  <2> QED
    BY <1>11, <1>d, <1>g, <2>1 DEF Refuse
<1>12. ASSUME NEW p \in Proc, UpdateHead(p) PROVE DInv'
  <2>1. InPhase(p)
    BY <1>12 DEF UpdateHead, InPhase, DevicePhase
  <2>2. CASE proc[p].dry
    <3>1. proc' = [proc EXCEPT ![p] = Idle] /\ cause' # "none"
      BY <1>12, <1>b, <2>2 DEF UpdateHead, Blame
    <3> QED
      BY <1>12, <1>f, <1>g, <2>1, <3>1 DEF UpdateHead
  <2>3. CASE ~proc[p].dry
    <3>1. proc' = [proc EXCEPT ![p].pc = "log"] /\ "log" \in PCs
      BY <1>12, <2>3 DEF UpdateHead, PCs
    <3>2. /\ Untouched(p) /\ proc'[p].pc = "log"
          /\ proc'[p].alone = proc[p].alone
      BY <1>0, <3>1, MoveEffect
    <3>3. InPhase(p)' /\ cause' = cause
      BY <1>12, <2>3, <3>2 DEF UpdateHead, InPhase, DevicePhase
    <3>4. cause' = "none" => OnTheWay(p)'
      <4> SUFFICES ASSUME cause = "none" PROVE OnTheWay(p)'
        BY <3>3
      <4>1. Synced /\ commits[proc[p].id].parent = head
        BY <1>12, <1>a, <1>c, <2>1 DEF UpdateHead, OnTheWay, AloneSound
      <4>2. /\ head' = proc[p].id /\ commits' = commits /\ device' = device
        BY <1>12 DEF UpdateHead
      <4>3. commits'[commits'[head'].parent].cfg = HeadCfg
        BY <4>1, <4>2 DEF HeadCfg
      <4> QED
        BY <3>2, <4>1, <4>2, <4>3 DEF OnTheWay, Synced, Agrees
    <3> QED
      BY <1>12, <1>f, <2>1, <3>2, <3>3, <3>4 DEF UpdateHead
  <2> QED
    BY <2>2, <2>3
<1>13. ASSUME NEW p \in Proc, ReadLog(p) PROVE DInv'
  <2> DEFINE t == commits[head].cfg
             s == commits[commits[head].parent].cfg
             ok == {t, s} \subseteq Config
  <2>1. InPhase(p) /\ UNCHANGED <<file, commits, head, device, lastGood>>
    BY <1>13 DEF ReadLog, InPhase, DevicePhase
  <2>2. CASE ok
    <3>1. /\ Untouched(p)
          /\ proc'[p].pc = IF proc[p].reboot THEN "reboot" ELSE "apply"
          /\ proc'[p].target = t
          /\ ~proc[p].reboot =>
               proc'[p].tasks = {e \in OnDevice : s[e] # t[e]}
          /\ proc'[p].alone = proc[p].alone
      BY <1>0, <1>13, <2>2, ReadLogEffect
    <3>2. InPhase(p)' /\ cause' = cause /\ proc'[p].pc # "staged"
      BY <1>13, <2>2, <3>1 DEF ReadLog, ConfigAt, InPhase, DevicePhase
    <3>3. cause' = "none" => OnTheWay(p)'
      <4> SUFFICES ASSUME cause = "none" PROVE OnTheWay(p)'
        BY <3>2
      <4>1. s \in Config /\ \A e \in OnDevice : Agrees(e, s)
        BY <1>13, <1>a DEF ReadLog, OnTheWay
      <4>2. ASSUME ~proc[p].reboot, NEW e \in OnDevice \ proc'[p].tasks
            PROVE  Agrees(e, t)
        BY <3>1, <4>1, <4>2 DEF Agrees
      <4>3. HeadCfg' = t /\ \A e : Agrees(e, t)' <=> Agrees(e, t)
        BY <2>1 DEF HeadCfg, Agrees
      <4>4. t \in Config
        BY <2>2
      <4> HIDE DEF t, s
      <4> QED
        BY <3>1, <4>2, <4>3, <4>4, <2>1 DEF OnTheWay, HeadCfg, Agrees
    <3> QED
      BY <1>f, <2>1, <3>1, <3>2, <3>3
  <2>3. CASE ~ok
    <3>1. proc' = [proc EXCEPT ![p] = Idle] /\ cause' # "none"
      BY <1>13, <1>b, <2>3 DEF ReadLog, ConfigAt, Blame
    <3> QED
      BY <1>f, <1>g, <2>1, <3>1
  <2> QED
    BY <2>2, <2>3
<1>14. ASSUME NEW p \in Proc, NEW e \in OnDevice,
              ApplyOpt(p, e) \/ ApplyIntf(p, e)
       PROVE  DInv'
  <2>1. /\ Untouched(p) /\ proc'[p].pc = "apply" /\ proc[p].pc = "apply"
        /\ proc'[p].target = proc[p].target
        /\ proc'[p].tasks = proc[p].tasks \ {e}
        /\ proc'[p].reboot = proc[p].reboot
        /\ proc'[p].alone = proc[p].alone
    BY <1>0, <1>14, HandedEffect DEF ApplyOpt, ApplyIntf
  <2>2. InPhase(p) /\ InPhase(p)'
    BY <2>1 DEF InPhase, DevicePhase
  <2>3. UNCHANGED <<commits, head, cause>> /\ HeadCfg' = HeadCfg
    BY <1>14 DEF ApplyOpt, ApplyIntf, HeadCfg
  <2>4. cause' = "none" => OnTheWay(p)'
    <3> SUFFICES ASSUME cause = "none" PROVE OnTheWay(p)'
      BY <2>3
    <3>1. /\ HeadCfg \in Config /\ proc[p].target = HeadCfg
          /\ \A x \in OnDevice \ proc[p].tasks :
               Agrees(x, HeadCfg) \/ (x \in PortEntry /\ proc[p].reboot)
      BY <1>a, <2>1 DEF OnTheWay
    <3>2. Agrees(e, HeadCfg)'
      BY <1>0, <1>14, <2>3, <3>1 DEF ApplyOpt, ApplyIntf, Agrees
    <3>3. ASSUME NEW x \in OnDevice \ {e}, Agrees(x, HeadCfg)
          PROVE  Agrees(x, HeadCfg)'
      BY <1>0, <1>14, <2>3, <3>3 DEF ApplyOpt, ApplyIntf, Agrees
    <3>4. ASSUME NEW x \in OnDevice \ proc'[p].tasks
          PROVE  Agrees(x, HeadCfg)' \/ (x \in PortEntry /\ proc'[p].reboot)
      BY <2>1, <3>1, <3>2, <3>3
    <3>5. HeadCfg' \in Config /\ proc'[p].target = HeadCfg'
      BY <2>1, <2>3, <3>1
    <3> QED
      BY <2>1, <3>4, <3>5 DEF OnTheWay
  <2> QED
    BY <1>f, <2>1, <2>2, <2>3, <2>4
<1>15. ASSUME NEW p \in Proc, NEW e \in OnDevice, PanicOpt(p, e) PROVE DInv'
  <2>1. InPhase(p) /\ cause' # "none"
    BY <1>15, <1>b DEF PanicOpt, Blame, InPhase, DevicePhase
  <2> QED
    BY <1>15, <1>f, <1>g, <2>1 DEF PanicOpt
<1>16. ASSUME NEW p \in Proc, NEW e \in OnDevice, ApplyPort(p, e) PROVE DInv'
  <2>1. /\ Untouched(p) /\ proc'[p].pc = "apply" /\ proc[p].pc = "apply"
        /\ proc'[p].target = proc[p].target
        /\ proc'[p].tasks = proc[p].tasks \ {e}
        /\ proc'[p].reboot
        /\ proc'[p].alone = proc[p].alone
    BY <1>0, <1>16, ApplyPortEffect DEF ApplyPort
  <2>2. InPhase(p) /\ InPhase(p)'
    BY <2>1 DEF InPhase, DevicePhase
  <2>3. /\ UNCHANGED <<commits, head, cause>> /\ HeadCfg' = HeadCfg
        /\ device' = device /\ e \in PortEntry
    BY <1>16 DEF ApplyPort, HeadCfg
  <2>4. cause' = "none" => OnTheWay(p)'
    <3> SUFFICES ASSUME cause = "none" PROVE OnTheWay(p)'
      BY <2>3
    <3>1. /\ HeadCfg \in Config /\ proc[p].target = HeadCfg
          /\ \A x \in OnDevice \ proc[p].tasks :
               Agrees(x, HeadCfg) \/ (x \in PortEntry /\ proc[p].reboot)
      BY <1>a, <2>1 DEF OnTheWay
    <3>2. \A x : Agrees(x, HeadCfg)' <=> Agrees(x, HeadCfg)
      BY <2>3 DEF Agrees
    <3> QED
      BY <2>1, <2>3, <3>1, <3>2 DEF OnTheWay
  <2> QED
    BY <1>f, <2>1, <2>2, <2>3, <2>4
<1>17. ASSUME NEW p \in Proc, ApplyDone(p) PROVE DInv'
  <2>1. InPhase(p) /\ UNCHANGED <<commits, head, device, cause>>
    BY <1>17 DEF ApplyDone, InPhase, DevicePhase
  <2>2. CASE proc[p].reboot
    <3>1. proc' = [proc EXCEPT ![p].pc = "reboot"] /\ "reboot" \in PCs
      BY <1>17, <2>2 DEF ApplyDone, PCs
    <3>2. /\ Untouched(p) /\ proc'[p].pc = "reboot"
          /\ proc'[p].alone = proc[p].alone
      BY <1>0, <3>1, MoveEffect
    <3>3. InPhase(p)' /\ OnTheWay(p)'
      BY <3>2 DEF InPhase, DevicePhase, OnTheWay
    <3> QED
      BY <1>f, <2>1, <3>2, <3>3
  <2>3. CASE ~proc[p].reboot
    <3>1. proc' = [proc EXCEPT ![p] = Idle]
      BY <1>17, <2>3 DEF ApplyDone
    <3>2. cause' = "none" => Synced'
      BY <1>17, <1>a, <2>1, <2>3
         DEF ApplyDone, OnTheWay, Synced, HeadCfg, Agrees
    <3> QED
      BY <1>f, <1>g, <2>1, <3>1, <3>2
  <2> QED
    BY <2>2, <2>3
<1>18. ASSUME NEW p \in Proc, RebootBegin(p) PROVE DInv'
  <2>1. proc' = [proc EXCEPT ![p].pc = "booting"] /\ "booting" \in PCs
    BY <1>18 DEF RebootBegin, PCs
  <2>2. /\ Untouched(p) /\ proc'[p].pc = "booting"
        /\ proc'[p].alone = proc[p].alone
    BY <1>0, <2>1, MoveEffect
  <2>3. InPhase(p) /\ InPhase(p)' /\ OnTheWay(p)'
    BY <1>18, <2>2 DEF RebootBegin, InPhase, DevicePhase, OnTheWay
  <2> QED
    BY <1>18, <1>f, <2>2, <2>3 DEF RebootBegin
<1>19. ASSUME NEW p \in Proc, RebootEnd(p) PROVE DInv'
  <2>1. /\ InPhase(p) /\ commits' = commits /\ head' = head
        /\ device' = [e \in OnDevice |-> proc[p].cur[e]]
        /\ proc' = [proc EXCEPT ![p] = Idle]
    BY <1>19 DEF RebootEnd, InPhase, DevicePhase
  <2>2. cause' = "none" =>
          proc[p].cur = HeadCfg /\ (cause = "none" \/ ~OthersInPhase(p))
    BY <1>19, <1>b DEF RebootEnd, Blame, HeadCfg
  <2>3. cause' = "none" => Synced'
    BY <1>a, <2>1, <2>2 DEF Synced, HeadCfg, Agrees, Process
  <2> QED
    BY <1>f, <1>g, <2>1, <2>2, <2>3
<1>20. ASSUME NEW p \in Proc, Abort(p) PROVE DInv'
  <2>1. proc' = [proc EXCEPT ![p] = Idle] /\ UNCHANGED <<commits, head, device>>
    BY <1>20 DEF Abort
  <2>2. CASE ~InPhase(p)
    BY <1>20, <1>d, <1>g, <2>1, <2>2 DEF Abort, InPhase
  <2>3. CASE proc[p].pc \in {"parent", "staged"}
    <3>1. InPhase(p) /\ cause' = cause
      BY <1>20, <2>3 DEF Abort, InPhase, DevicePhase
    <3>2. cause' = "none" => Synced'
      BY <1>a, <2>1, <2>3, <3>1 DEF OnTheWay, Synced, HeadCfg, Agrees
    <3> QED
      BY <1>f, <1>g, <2>1, <3>1, <3>2
  <2>4. CASE InPhase(p) /\ proc[p].pc \notin {"parent", "staged"}
    <3>1. cause' # "none"
      BY <1>20, <1>b, <2>4 DEF Abort, InPhase, Blame
    <3> QED
      BY <1>f, <1>g, <2>1, <2>4, <3>1
  <2> QED
    BY <2>2, <2>3, <2>4
<1> QED
  BY <1>1, <1>2, <1>3, <1>4, <1>5, <1>6, <1>7, <1>8, <1>9, <1>10, <1>11,
     <1>12, <1>13, <1>14, <1>15, <1>16, <1>17, <1>18, <1>19, <1>20, <1>21,
     <1>22, <1>23
     DEF Next, Advance, Hand

LEMMA DeviceInvariant == Spec => [](TInv /\ DInv)
  BY TypeInit, DeviceInit, TypeStep, DeviceStep, PTL DEF Spec

(* The device carries what HEAD says whenever no command is under way       *)
(* between the two and nothing on the list of causes has happened.          *)
THEOREM Followed == Spec => []DeviceFollowsHead
<1>1. DInv => DeviceFollowsHead
  BY DEF DInv
<1> QED
  BY <1>1, DeviceInvariant, PTL

(* Only overlapping commits drop a commit from the history (updateHEAD of   *)
(* go-git sets the branch without comparing).                               *)
THEOREM Grown == Spec => HistoryGrows
<1>1. TInv /\ DInv /\ [Next]_vars => [HeadGrows]_vars
  <2> SUFFICES ASSUME TInv, DInv, Next, head' # head
               PROVE  \/ commits[head'].parent = head
                      \/ \E p \in Proc : proc[p].pc = "staged" /\ ~proc[p].alone
    BY DEF HeadGrows
  <2>1. PICK q \in Proc : UpdateHead(q)
    <3>1. PICK q \in Proc : \/ EditRead(q) \/ CommitRead(q) \/ RollbackRead(q)
                            \/ RebootRead(q) \/ Advance(q) \/ Abort(q)
      BY DEF Next
    <3>2. ~(EditRead(q) \/ CommitRead(q) \/ RollbackRead(q) \/ RebootRead(q) \/ Abort(q))
      BY DEF EditRead, CommitRead, RollbackRead, RebootRead, Abort
    <3>3. ~(EditCreate(q) \/ EditWrite(q) \/ EditWriteLost(q))
      BY DEF EditCreate, EditWrite, EditWriteLost, Truncate, Write, WriteLost
    <3>6. ~(RollbackCreate(q) \/ RollbackWrite(q) \/ RollbackWriteLost(q))
      BY DEF RollbackCreate, RollbackWrite, RollbackWriteLost, Truncate, Write,
             WriteLost
    <3>4. ~(ReadParent(q) \/ Stage(q) \/ Refuse(q) \/ ReadLog(q) \/ ApplyDone(q))
      BY DEF ReadParent, Stage, Refuse, ReadLog, ApplyDone
    <3>5. ~(Hand(q) \/ RebootBegin(q) \/ RebootEnd(q))
      BY DEF Hand, ApplyOpt, PanicOpt, ApplyIntf, ApplyPort, RebootBegin, RebootEnd
    <3> QED
      BY <3>1, <3>2, <3>3, <3>4, <3>5, <3>6 DEF Advance
  <2>2. AloneSound(q) /\ head' = proc[q].id /\ proc[q].pc = "staged"
    BY <2>1 DEF DInv, UpdateHead
  <2> QED
    BY <2>2 DEF AloneSound
<1> QED
  BY <1>1, DeviceInvariant, PTL DEF Spec, HistoryGrows
==============================================================================
