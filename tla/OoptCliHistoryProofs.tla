------------------------- MODULE OoptCliHistoryProofs -------------------------
(* OoptCli, with the commits HEAD has named remembered, implements          *)
(* VersionedConfig for every set of processes, entries and values.          *)
(*                                                                          *)
(* Section 1 follows the parents of the commits back from HEAD; section 2   *)
(* proves what the processes know of the commits HEAD has named; section 3  *)
(* maps every step of a command to a step of VersionedConfig or to none.    *)
EXTENDS OoptCliHistory, OoptCliProofs, WellFoundedInduction

(* Induction on a set of numbers: the least number it lacks would be one    *)
(* that it has.                                                             *)
LEMMA AllNumbers ==
  ASSUME NEW G, 0 \in G, \A n \in Nat : n \in G => n + 1 \in G
  PROVE  Nat \subseteq G
<1> DEFINE R == OpToRel(<, Nat)
           lacks == Nat \ G
<1>1. \A x \in Nat, y \in Nat : <<x, y>> \in R <=> x < y
  BY DEF OpToRel
<1>2. IsWellFoundedOn(R, Nat)
  BY NatLessThanWellFounded, Zenon
<1> HIDE DEF R
<1>3. SUFFICES ASSUME lacks # {} PROVE FALSE
  OBVIOUS
<1>4. lacks \subseteq Nat
  OBVIOUS
<1>5. PICK m \in lacks : \A k \in lacks : ~(<<k, m>> \in R)
  <2> HIDE DEF lacks
  <2> QED BY <1>2, <1>3, <1>4, WFMin
<1>6. m \in Nat /\ m \notin G /\ m # 0
  OBVIOUS
<1>7. m - 1 \in Nat /\ m - 1 < m /\ (m - 1) + 1 = m
  BY <1>6
<1>8. m - 1 \in G
  BY <1>1, <1>5, <1>6, <1>7
<1> QED BY <1>6, <1>7, <1>8

------------------------------------------------------------------------------
(* 1. The way back from HEAD                                                *)

(* The i-th commit on the way back, when f has those before it.             *)
Passed(f, i) ==
  IF i = 0 THEN head
  ELSE IF f[i - 1] = 0 THEN 0 ELSE commits[f[i - 1]].parent

IsWay(f, k) == f = [i \in 0..k |-> Passed(f, i)]

LEMMA BeforeUnfolds ==
  ASSUME NEW k \in Nat
  PROVE  Before(k) = (CHOOSE f : IsWay(f, k))[k]
BY DEF Before, IsWay, Passed

LEMMA WayExists == \A k \in Nat : \E f : IsWay(f, k)
<1> DEFINE G == {k \in Nat : \E f : IsWay(f, k)}
<1>1. 0 \in G
  <2> DEFINE f == [i \in 0..0 |-> head]
  <2>1. IsWay(f, 0)
    BY DEF IsWay, Passed
  <2> QED BY <2>1
<1>2. ASSUME NEW k \in Nat, k \in G PROVE k + 1 \in G
  <2>1. PICK f : IsWay(f, k)
    BY <1>2
  <2> DEFINE g == [i \in 0..(k + 1) |-> Passed(f, i)]
  <2>2. \A i \in 0..k : f[i] = Passed(f, i)
    BY <2>1 DEF IsWay
  <2>3. \A i \in 0..k : g[i] = f[i]
    BY <2>2
  <2>4. \A i \in 0..(k + 1) : i # 0 => i - 1 \in 0..k
    OBVIOUS
  <2>5. \A i \in 0..(k + 1) : g[i] = Passed(f, i)
    OBVIOUS
  <2>6. DOMAIN g = 0..(k + 1) /\ g = [i \in 0..(k + 1) |-> g[i]]
    OBVIOUS
  <2> HIDE DEF g
  <2>7. \A i \in 0..(k + 1) : Passed(g, i) = Passed(f, i)
    BY <2>3, <2>4 DEF Passed
  <2>8. IsWay(g, k + 1)
    BY <2>5, <2>6, <2>7 DEF IsWay
  <2> QED BY <2>8
<1>3. Nat \subseteq G
  <2> HIDE DEF G
  <2> QED BY <1>1, <1>2, AllNumbers
<1> QED BY <1>3

(* Whatever has HEAD and, of every commit in it, the parent has all commits *)
(* on the way back.                                                         *)
LEMMA BeforeStays ==
  ASSUME NEW P, head \in P, NEW k \in Nat,
         \A i \in P : i # 0 => commits[i].parent \in P \cup {0}
  PROVE  Before(k) \in P \cup {0}
<1> DEFINE f == CHOOSE f : IsWay(f, k)
           G == {n \in Nat : n <= k => f[n] \in P \cup {0}}
<1>1. Before(k) = f[k]
  BY BeforeUnfolds
<1>2. IsWay(f, k)
  BY WayExists
<1> HIDE DEF f
<1>3. \A i \in 0..k : f[i] = Passed(f, i)
  BY <1>2 DEF IsWay
<1>4. 0 \in G
  BY <1>3 DEF Passed
<1>5. ASSUME NEW n \in Nat, n \in G PROVE n + 1 \in G
  <2> SUFFICES ASSUME n + 1 <= k PROVE f[n + 1] \in P \cup {0}
    OBVIOUS
  <2>1. f[n] \in P \cup {0}
    BY <1>5
  <2>2. f[n + 1] = IF f[n] = 0 THEN 0 ELSE commits[f[n]].parent
    BY <1>3 DEF Passed
  <2> QED BY <2>1, <2>2
<1>6. Nat \subseteq G
  <2> HIDE DEF G
  <2> QED BY <1>4, <1>5, AllNumbers
<1> QED BY <1>1, <1>6

------------------------------------------------------------------------------
(* 2. What the processes know of the commits that HEAD has named            *)

(* HEAD has named every parent.                                             *)
HistoryKnown ==
  /\ head \in published /\ published \subseteq 1..Len(commits)
  /\ \A i \in 1..Len(commits) : commits[i].parent \in published \cup {0}

(* What p still has to name has not been named; what p goes back to, takes  *)
(* for a parent or hands to the device, has been; and p accepted what it    *)
(* may boot.                                                                *)
Holds(p) ==
  /\ proc[p].pc = "staged" => proc[p].id \in 1..Len(commits) \ published
  /\ proc[p].pc \in {"rbread", "rbwrite", "commit", "parent"} =>
       proc[p].source \in published \cup {0}
  /\ proc[p].pc = "parent" => proc[p].parent \in published
  /\ proc[p].pc = "apply" =>
       \E i \in published : proc[p].target = commits[i].cfg
  /\ InPhase(p) => proc[p].cur \in Valid

(* Nobody else has created the commit that p will name.                     *)
Apart(p, q) ==
  p # q /\ proc[p].pc = "staged" /\ proc[q].pc = "staged" =>
    proc[p].id # proc[q].id

HInv ==
  /\ HistoryKnown
  /\ \A p \in Proc : Holds(p)
  /\ \A p, q \in Proc : Apart(p, q)

LEMMA HistoryStart == HistoryInit => HInv
<1> SUFFICES ASSUME HistoryInit PROVE HInv
  OBVIOUS
<1>1. HistoryKnown
  BY DEF HistoryInit, Init, HistoryKnown
<1>2. ASSUME NEW p \in Proc PROVE proc[p].pc = "idle"
  BY IdleType DEF HistoryInit, Init
<1> QED
  BY <1>1, <1>2 DEF HInv, Holds, Apart, InPhase, DevicePhase

LEMMA HistoryStep ==
  TInv /\ FInv /\ HInv /\ [HistoryNext]_historyVars => HInv'
<1> SUFFICES ASSUME TInv, FInv, HInv, [HistoryNext]_historyVars PROVE HInv'
  OBVIOUS
<1>0. /\ Memory /\ commits \in Seq(Commit) /\ Len(commits) \in Nat
      /\ head \in 1..Len(commits) /\ StagedExists /\ HistoryKnown
  BY DEF TInv, TypeOK, Memory, HInv
<1>a. ASSUME NEW p \in Proc
      PROVE  proc[p] \in Process /\ Holds(p) /\ \A q \in Proc : Apart(p, q)
  BY <1>0 DEF Memory, HInv
(* Another process keeps what it holds, unless its commit is named.         *)
<1>b. ASSUME NEW p \in Proc, NEW q \in Proc \ {p},
             Untouched(p) \/ StaleOthers(p) \/ CrowdedOthers(p),
             Len(commits') \in Nat, Len(commits) <= Len(commits'),
             \A i \in 1..Len(commits) : commits'[i] = commits[i],
             published \subseteq published',
             proc[q].pc = "staged" => proc[q].id \notin published'
      PROVE  Holds(q)' /\ proc'[q].pc = proc[q].pc /\ proc'[q].id = proc[q].id
  <2>1. /\ proc'[q].pc = proc[q].pc /\ proc'[q].id = proc[q].id
        /\ proc'[q].source = proc[q].source
        /\ proc'[q].parent = proc[q].parent
        /\ proc'[q].target = proc[q].target
        /\ proc'[q].cur = proc[q].cur
    BY <1>b DEF Untouched, StaleOthers, CrowdedOthers, Kept
  <2>2. proc[q].pc = "staged" => proc[q].id \in 1..Len(commits') \ published'
    BY <1>0, <1>a, <1>b DEF Holds
  <2>3. proc[q].pc = "apply" =>
          \E i \in published' : proc[q].target = commits'[i].cfg
    <3> SUFFICES ASSUME proc[q].pc = "apply"
                 PROVE  \E i \in published' : proc[q].target = commits'[i].cfg
      OBVIOUS
    <3>1. PICK i \in published : proc[q].target = commits[i].cfg
      BY <1>a DEF Holds
    <3> QED
      BY <1>0, <1>b, <3>1 DEF HistoryKnown
  <2>4. /\ proc[q].pc \in {"rbread", "rbwrite", "commit", "parent"} =>
             proc[q].source \in published' \cup {0}
        /\ proc[q].pc = "parent" => proc[q].parent \in published'
    BY <1>a, <1>b DEF Holds
  <2>5. InPhase(q) => proc[q].cur \in Valid
    BY <1>a DEF Holds
  <2> QED
    BY <2>1, <2>2, <2>3, <2>4, <2>5 DEF Holds, InPhase
(* The steps that neither create a commit nor move HEAD.                    *)
<1>c. ASSUME NEW p \in Proc, UNCHANGED <<commits, head, published>>,
             Untouched(p) \/ StaleOthers(p) \/ CrowdedOthers(p),
             Holds(p)', proc'[p].pc # "staged"
      PROVE  HInv'
  <2>1. ASSUME NEW q \in Proc \ {p}
        PROVE  Holds(q)' /\ proc'[q].pc = proc[q].pc /\ proc'[q].id = proc[q].id
    <3>1. proc[q].pc = "staged" => proc[q].id \notin published'
      BY <1>a, <1>c DEF Holds
    <3> QED
      BY <1>0, <1>b, <1>c, <3>1
  <2>2. HistoryKnown'
    BY <1>0, <1>c DEF HistoryKnown
  <2>3. ASSUME NEW q \in Proc, NEW r \in Proc PROVE Apart(q, r)'
    BY <1>a, <1>c, <2>1 DEF Apart
  <2>4. \A q \in Proc : Holds(q)'
    BY <1>c, <2>1
  <2> QED
    BY <2>2, <2>3, <2>4 DEF HInv
<1>d. ASSUME NEW p \in Proc, proc' = [proc EXCEPT ![p] = Idle],
             UNCHANGED <<commits, head, published>>
      PROVE  HInv'
  <2>1. Untouched(p) /\ proc'[p].pc = "idle"
    BY <1>0, <1>d, ExitEffect, IdleType
  <2> QED
    BY <1>c, <1>d, <2>1 DEF Holds, InPhase, DevicePhase
<1>e. HistoryNext /\ head' = head => published' = published
  BY <1>0 DEF HistoryNext, Remembers, HistoryKnown
<1>1. CASE UNCHANGED historyVars
  BY <1>1 DEF historyVars, vars, HInv, HistoryKnown, Holds, Apart, InPhase
<1> SUFFICES ASSUME HistoryNext PROVE HInv'
  BY <1>1
<1>2. ASSUME NEW p \in Proc, EditRead(p) PROVE HInv'
  <2>1. Untouched(p) /\ proc'[p].pc = "edit"
    BY <1>0, <1>2, EditReadEffect
  <2> QED
    BY <1>2, <1>c, <1>e, <2>1 DEF EditRead, Holds, InPhase, DevicePhase
<1>3. ASSUME NEW p \in Proc, CommitRead(p) PROVE HInv'
  <2>1. Untouched(p) /\ proc'[p].pc = "commit" /\ proc'[p].source = 0
    BY <1>0, <1>3, CommitReadEffect
  <2> QED
    BY <1>3, <1>c, <1>e, <2>1 DEF CommitRead, Holds, InPhase, DevicePhase
<1>4. ASSUME NEW p \in Proc, RollbackRead(p) PROVE HInv'
  <2>1. /\ Untouched(p) /\ proc'[p].pc = "rbread"
        /\ \E number \in 0..MaxCommits : proc'[p].source = Before(1 + number)
    BY <1>0, <1>4, RollbackReadEffect
  <2>2. PICK number \in 0..MaxCommits : proc'[p].source = Before(1 + number)
    BY <2>1
  <2>3. 1 + number \in Nat
    BY ConfigAssumption
  <2>4. \A i \in published : commits[i].parent \in published \cup {0}
    BY <1>0 DEF HistoryKnown
  <2>5. Before(1 + number) \in published \cup {0}
    BY <1>0, <2>3, <2>4, BeforeStays DEF HistoryKnown
  <2>6. UNCHANGED <<commits, head, published>>
    BY <1>4, <1>e DEF RollbackRead
  <2>7. Holds(p)'
    BY <2>1, <2>2, <2>5, <2>6 DEF Holds, InPhase, DevicePhase
  <2> QED
    BY <1>c, <2>1, <2>6, <2>7
<1>5. ASSUME NEW p \in Proc, RebootRead(p) PROVE HInv'
  <2>1. CrowdedOthers(p) /\ proc'[p].pc = "reboot" /\ proc'[p].cur = file
    BY <1>0, <1>5, RebootReadEffect
  <2>2. file \in Valid /\ UNCHANGED <<commits, head, published>>
    BY <1>5, <1>e DEF RebootRead, ValidateFinal
  <2> QED
    BY <1>c, <2>1, <2>2 DEF Holds
<1>6. ASSUME NEW p \in Proc, EditCreate(p) PROVE HInv'
  <2>1. StaleOthers(p) /\ proc'[p].pc = "write"
    BY <1>0, <1>6, EditCreateEffect
  <2>2. UNCHANGED <<commits, head, published>>
    BY <1>6, <1>e DEF EditCreate, Truncate
  <2> QED
    BY <1>c, <2>1, <2>2 DEF Holds, InPhase, DevicePhase
<1>7. ASSUME NEW p \in Proc, RollbackCreate(p) PROVE HInv'
  <2>1. /\ StaleOthers(p) /\ proc'[p].pc = "rbwrite"
        /\ proc'[p].source = proc[p].source
    BY <1>0, <1>7, RollbackCreateEffect
  <2>2. UNCHANGED <<commits, head, published>> /\ proc[p].pc = "rbread"
    BY <1>7, <1>e DEF RollbackCreate, Truncate
  <2> QED
    BY <1>a, <1>c, <2>1, <2>2 DEF Holds, InPhase, DevicePhase
<1>8. ASSUME NEW p \in Proc, EditWrite(p) PROVE HInv'
  <2>1. StaleOthers(p) /\ proc'[p].pc = "idle"
    BY <1>0, <1>8, EditWriteEffect, IdleType
  <2>2. UNCHANGED <<commits, head, published>>
    BY <1>8, <1>e DEF EditWrite, Write
  <2> QED
    BY <1>c, <2>1, <2>2 DEF Holds, InPhase, DevicePhase
<1>9. ASSUME NEW p \in Proc, RollbackWrite(p) PROVE HInv'
  <2>1. /\ StaleOthers(p) /\ proc'[p].pc = "commit"
        /\ proc'[p].source = proc[p].source
    BY <1>0, <1>9, RollbackWriteEffect
  <2>2. UNCHANGED <<commits, head, published>> /\ proc[p].pc = "rbwrite"
    BY <1>9, <1>e DEF RollbackWrite, Write
  <2> QED
    BY <1>a, <1>c, <2>1, <2>2 DEF Holds, InPhase, DevicePhase
<1>23. ASSUME NEW p \in Proc, EditWriteLost(p) PROVE HInv'
  <2>1. StaleOthers(p) /\ proc'[p].pc = "idle"
    BY <1>0, <1>23, EditWriteLostEffect, IdleType
  <2>2. UNCHANGED <<commits, head, published>>
    BY <1>23, <1>e DEF EditWriteLost, WriteLost
  <2> QED
    BY <1>c, <2>1, <2>2 DEF Holds, InPhase, DevicePhase
<1>24. ASSUME NEW p \in Proc, RollbackWriteLost(p) PROVE HInv'
  <2>1. /\ StaleOthers(p) /\ proc'[p].pc = "commit"
        /\ proc'[p].source = proc[p].source
    BY <1>0, <1>24, RollbackWriteLostEffect
  <2>2. UNCHANGED <<commits, head, published>> /\ proc[p].pc = "rbwrite"
    BY <1>24, <1>e DEF RollbackWriteLost, WriteLost
  <2> QED
    BY <1>a, <1>c, <2>1, <2>2 DEF Holds, InPhase, DevicePhase
<1>25. ASSUME NEW p \in Proc, ReadParent(p) PROVE HInv'
  <2>1. /\ CrowdedOthers(p) /\ proc'[p].pc = "parent"
        /\ proc'[p].parent = head
        /\ proc'[p].cur = proc[p].cur /\ proc'[p].source = proc[p].source
    BY <1>0, <1>25, ReadParentEffect
  <2>2. /\ UNCHANGED <<commits, head, published>>
        /\ proc[p].pc = "commit" /\ proc[p].cur \in Valid
    BY <1>25, <1>e DEF ReadParent, ValidateFinal
  <2>3. Holds(p)'
    BY <1>0, <1>a, <2>1, <2>2 DEF Holds, HistoryKnown
  <2> QED
    BY <1>c, <2>1, <2>2, <2>3
(* The parent of the new commit was HEAD, and nobody else has its name.     *)
<1>10. ASSUME NEW p \in Proc, Stage(p) PROVE HInv'
  <2> DEFINE c == NewCommit(p)
  <2>1. c \in Commit /\ c.parent \in published
    BY <1>0, <1>10, <1>a DEF Stage, Holds, NewCommit, Commit, Process, TInv, TypeOK
  <2> HIDE DEF c
  <2>2. /\ Len(commits') = Len(commits) + 1
        /\ \A i \in 1..Len(commits) : commits'[i] = commits[i]
        /\ commits'[Len(commits) + 1] = c
    BY <1>0, <1>10, <2>1, AppendCommit DEF Stage, c
  <2>3. /\ Untouched(p) /\ proc'[p].pc = "staged"
        /\ proc'[p].id = Len(commits) + 1
        /\ proc'[p].cur = proc[p].cur
    BY <1>0, <1>10, StageEffect
  <2>4. UNCHANGED <<head, published>> /\ proc[p].cur \in Valid
    BY <1>10, <1>a, <1>e DEF Stage, Holds, InPhase, DevicePhase
  <2>5. HistoryKnown'
    BY <1>0, <2>1, <2>2, <2>4 DEF HistoryKnown
  <2>6. Holds(p)'
    BY <1>0, <2>2, <2>3, <2>4 DEF Holds, HistoryKnown
  <2>7. ASSUME NEW q \in Proc \ {p}
        PROVE  Holds(q)' /\ proc'[q].pc = proc[q].pc /\ proc'[q].id = proc[q].id
    <3>1. proc[q].pc = "staged" => proc[q].id \notin published'
      BY <1>a, <2>4 DEF Holds
    <3> QED
      BY <1>0, <1>b, <2>2, <2>3, <2>4, <3>1
  <2>8. ASSUME NEW q \in Proc \ {p}, proc[q].pc = "staged"
        PROVE  proc[q].id # Len(commits) + 1
    BY <1>0, <2>8 DEF StagedExists
  <2>9. ASSUME NEW q \in Proc, NEW r \in Proc PROVE Apart(q, r)'
    BY <1>a, <2>3, <2>7, <2>8 DEF Apart
  <2>10. \A q \in Proc : Holds(q)'
    BY <2>6, <2>7
  <2> QED
    BY <2>5, <2>9, <2>10 DEF HInv
<1>11. ASSUME NEW p \in Proc, Refuse(p) PROVE HInv'
  BY <1>11, <1>d, <1>e DEF Refuse
(* HEAD names the commit of p; those of the others have other names.        *)
<1>12. ASSUME NEW p \in Proc, UpdateHead(p) PROVE HInv'
  <2>1. /\ proc[p].pc = "staged" /\ head' = proc[p].id /\ commits' = commits
        /\ published' = published \cup {proc[p].id}
    BY <1>12 DEF UpdateHead, HistoryNext, Remembers
  <2>2. InPhase(p) /\ proc[p].cur \in Valid /\ proc[p].id \in 1..Len(commits)
    BY <1>a, <2>1 DEF Holds, InPhase, DevicePhase
  <2>3. Untouched(p) /\ proc'[p].pc \in {"idle", "log"} /\ Holds(p)'
    <3>1. CASE proc[p].dry
      <4>1. Untouched(p) /\ proc'[p].pc = "idle"
        BY <1>0, <1>12, <3>1, ExitEffect, IdleType DEF UpdateHead
      <4> QED
        BY <4>1 DEF Holds, InPhase, DevicePhase
    <3>2. CASE ~proc[p].dry
      <4>1. proc' = [proc EXCEPT ![p].pc = "log"] /\ "log" \in PCs
        BY <1>12, <3>2 DEF UpdateHead, PCs
      <4>2. Untouched(p) /\ proc'[p].pc = "log" /\ proc'[p].cur = proc[p].cur
        BY <1>0, <4>1, MoveEffect
      <4> QED
        BY <2>2, <4>2 DEF Holds
    <3> QED
      BY <3>1, <3>2
  <2>4. HistoryKnown'
    BY <1>0, <2>1, <2>2 DEF HistoryKnown
  <2>5. ASSUME NEW q \in Proc \ {p}
        PROVE  Holds(q)' /\ proc'[q].pc = proc[q].pc /\ proc'[q].id = proc[q].id
    <3>1. proc[q].pc = "staged" => proc[q].id \notin published'
      BY <1>a, <2>1 DEF Holds, Apart
    <3> QED
      BY <1>0, <1>b, <2>1, <2>3, <3>1
  <2>6. ASSUME NEW q \in Proc, NEW r \in Proc PROVE Apart(q, r)'
    BY <1>a, <2>3, <2>5 DEF Apart
  <2>7. \A q \in Proc : Holds(q)'
    BY <2>3, <2>5
  <2> QED
    BY <2>4, <2>6, <2>7 DEF HInv
<1>13. ASSUME NEW p \in Proc, ReadLog(p) PROVE HInv'
  <2> DEFINE ok == {commits[head].cfg, commits[commits[head].parent].cfg}
                      \subseteq Config
  <2>1. UNCHANGED <<commits, head, published>>
    BY <1>13, <1>e DEF ReadLog
  <2>2. CASE ok
    <3>1. /\ Untouched(p) /\ proc'[p].pc \in {"apply", "reboot"}
          /\ proc'[p].target = commits[head].cfg
          /\ proc'[p].cur = proc[p].cur
      BY <1>0, <1>13, <2>2, ReadLogEffect
    <3>2. proc[p].cur \in Valid
      BY <1>13, <1>a DEF ReadLog, Holds, InPhase, DevicePhase
    <3>3. \E i \in published' : proc'[p].target = commits'[i].cfg
      BY <1>0, <2>1, <3>1 DEF HistoryKnown
    <3>4. Holds(p)'
      BY <3>1, <3>2, <3>3 DEF Holds
    <3> QED
      BY <1>c, <2>1, <3>1, <3>4
  <2>3. CASE ~ok
    <3>1. proc' = [proc EXCEPT ![p] = Idle]
      BY <1>13, <2>3 DEF ReadLog, ConfigAt
    <3> QED
      BY <1>d, <2>1, <3>1
  <2> QED
    BY <2>2, <2>3
<1>14. ASSUME NEW p \in Proc, proc[p].pc = "apply",
              UNCHANGED <<commits, head, published>>, Untouched(p),
              proc'[p].pc = proc[p].pc, proc'[p].target = proc[p].target,
              proc'[p].cur = proc[p].cur
       PROVE  HInv'
  <2>1. Holds(p)'
    BY <1>14, <1>a DEF Holds, InPhase, DevicePhase
  <2> QED
    BY <1>14, <1>c, <2>1
<1>15. ASSUME NEW p \in Proc, NEW e \in OnDevice,
              ApplyOpt(p, e) \/ ApplyIntf(p, e)
       PROVE  HInv'
  <2>1. /\ Untouched(p) /\ proc'[p].pc = proc[p].pc
        /\ proc'[p].target = proc[p].target /\ proc'[p].cur = proc[p].cur
    BY <1>0, <1>15, HandedEffect DEF ApplyOpt, ApplyIntf
  <2> QED
    BY <1>14, <1>15, <1>e, <2>1 DEF ApplyOpt, ApplyIntf
<1>16. ASSUME NEW p \in Proc, NEW e \in OnDevice, PanicOpt(p, e) PROVE HInv'
  BY <1>16, <1>d, <1>e DEF PanicOpt
<1>17. ASSUME NEW p \in Proc, NEW e \in OnDevice, ApplyPort(p, e) PROVE HInv'
  <2>1. /\ Untouched(p) /\ proc'[p].pc = proc[p].pc
        /\ proc'[p].target = proc[p].target /\ proc'[p].cur = proc[p].cur
    BY <1>0, <1>17, ApplyPortEffect
  <2> QED
    BY <1>14, <1>17, <1>e, <2>1 DEF ApplyPort
<1>18. ASSUME NEW p \in Proc, NEW l \in {"reboot", "booting"}, InPhase(p),
              proc' = [proc EXCEPT ![p].pc = l],
              UNCHANGED <<commits, head, published>>
       PROVE  HInv'
  <2>1. l \in PCs
    BY DEF PCs
  <2>2. Untouched(p) /\ proc'[p].pc = l /\ proc'[p].cur = proc[p].cur
    BY <1>0, <1>18, <2>1, MoveEffect
  <2>3. Holds(p)'
    BY <1>18, <1>a, <2>2 DEF Holds
  <2> QED
    BY <1>18, <1>c, <2>2, <2>3
<1>19. ASSUME NEW p \in Proc, ApplyDone(p) PROVE HInv'
  <2>1. InPhase(p) /\ UNCHANGED <<commits, head, published>>
    BY <1>19, <1>e DEF ApplyDone, InPhase, DevicePhase
  <2> QED
    BY <1>19, <1>18, <1>d, <2>1 DEF ApplyDone
<1>20. ASSUME NEW p \in Proc, RebootBegin(p) PROVE HInv'
  <2>1. InPhase(p) /\ UNCHANGED <<commits, head, published>>
    BY <1>20, <1>e DEF RebootBegin, InPhase, DevicePhase
  <2> QED
    BY <1>20, <1>18, <2>1 DEF RebootBegin
<1>21. ASSUME NEW p \in Proc, RebootEnd(p) PROVE HInv'
  BY <1>21, <1>d, <1>e DEF RebootEnd
<1>22. ASSUME NEW p \in Proc, Abort(p) PROVE HInv'
  BY <1>22, <1>d, <1>e DEF Abort
<1> QED
  BY <1>2, <1>3, <1>4, <1>5, <1>6, <1>7, <1>8, <1>9, <1>10, <1>11, <1>12,
     <1>13, <1>15, <1>16, <1>17, <1>19, <1>20, <1>21, <1>22, <1>23, <1>24,
     <1>25
     DEF HistoryNext, Next, Advance, Hand

(* The commands and their memory keep all three invariants.                 *)
LEMMA HistoryInvariant == HistorySpec => [](TInv /\ FInv /\ HInv)
<1>1. HistoryInit => TInv /\ FInv /\ HInv
  BY TypeInit, FileInit, HistoryStart DEF HistoryInit
<1>2. [HistoryNext]_historyVars => [Next]_vars
  BY DEF HistoryNext, historyVars
<1> QED
  BY <1>1, <1>2, TypeStep, FileStep, HistoryStep, PTL DEF HistorySpec

------------------------------------------------------------------------------
(* 3. The commands implement VersionedConfig                                *)

LEMMA OnDeviceSplit == OnDevice = (OptEntry \cup IntfEntry) \cup PortEntry
  BY DEF OnDevice

LEMMA StartImplements == HistoryInit => V!Init
  BY OnDeviceSplit DEF HistoryInit, Init, V!Init

(* The new commit follows one that was HEAD; it holds what its process       *)
(* accepted, and what the commit it goes back to holds, unless config.json  *)
(* was changed or a write of it lost.                                       *)
LEMMA StageImplements ==
  ASSUME TInv, FInv, HInv, NEW p \in Proc, Stage(p), published' = published
  PROVE  V!Create
<1> DEFINE c == NewCommit(p)
<1>0. /\ Memory /\ commits \in Seq(Commit) /\ head \in 1..Len(commits)
      /\ file \in Config \cup Unreadable
      /\ proc[p] \in Process /\ FileKnown(p) /\ SourceKnown(p) /\ Holds(p)
  BY DEF TInv, TypeOK, Memory, FInv, HInv
<1>1. /\ proc[p].pc = "parent" /\ proc[p].cur \in Valid
      /\ commits' = Append(commits, c) /\ head' = head /\ device' = device
  BY <1>0 DEF Stage, FileKnown
<1>2. /\ c \in Commit /\ c.cfg = file /\ c.parent \in published
      /\ c.checked = proc[p].fresh /\ c.source = proc[p].source
  BY <1>0, <1>1 DEF Holds, NewCommit, Commit, Process
<1>3. /\ proc[p].fresh => file = proc[p].cur
      /\ proc[p].source # 0 => proc[p].cur = commits[proc[p].source].cfg
      /\ proc[p].source \in published \cup {0}
  BY <1>0, <1>1 DEF FileKnown, SourceKnown, Holds
<1> HIDE DEF c
<1>4. Len(commits') = Len(commits) + 1 /\ commits'[Len(commits) + 1] = c
  BY <1>0, <1>1, <1>2, AppendCommit
<1>5. c.checked => /\ c.cfg \in Valid
                   /\ c.source # 0 => c.cfg = commits[c.source].cfg
  BY <1>1, <1>2, <1>3
<1>6. c.cfg \in Config \cup Unreadable /\ c.source \in published \cup {0}
  BY <1>0, <1>2, <1>3
<1> QED
  BY <1>1, <1>2, <1>4, <1>5, <1>6 DEF V!Create

LEMMA UpdateHeadImplements ==
  ASSUME TInv, HInv, NEW p \in Proc, UpdateHead(p), Remembers
  PROVE  V!Publish
<1>1. Holds(p) /\ proc[p].pc = "staged"
  BY DEF HInv, UpdateHead
<1> QED
  BY <1>1 DEF UpdateHead, Remembers, Holds, V!Publish

LEMMA ApplyImplements ==
  ASSUME TInv, HInv, NEW p \in Proc, NEW e \in OnDevice,
         ApplyOpt(p, e) \/ (ApplyIntf(p, e) /\ proc[p].target[e] # Unset),
         published' = published
  PROVE  V!Give
<1>1. Holds(p) /\ proc[p].pc = "apply"
  BY DEF HInv, ApplyOpt, ApplyIntf
<1>2. PICK i \in published : proc[p].target = commits[i].cfg
  BY <1>1 DEF Holds
<1>3. proc[p].target \in Config
  BY DEF TInv, TypeOK, Process
<1>4. /\ e \in OptEntry \cup IntfEntry /\ proc[p].target[e] # Unset
      /\ device' = [device EXCEPT ![e] = proc[p].target[e]]
      /\ UNCHANGED <<commits, head, published>>
  BY DEF ApplyOpt, ApplyIntf
<1> QED
  BY <1>2, <1>3, <1>4 DEF V!Give

LEMMA RebootBeginImplements ==
  ASSUME NEW p \in Proc, RebootBegin(p), published' = published
  PROVE  V!Wipe
  BY OnDeviceSplit DEF RebootBegin, V!Wipe

LEMMA RebootEndImplements ==
  ASSUME HInv, NEW p \in Proc, RebootEnd(p), published' = published
  PROVE  V!Boot
<1>1. proc[p].cur \in Valid
  BY DEF HInv, Holds, RebootEnd, InPhase, DevicePhase
<1> QED
  BY <1>1, OnDeviceSplit DEF RebootEnd, V!Boot

abstractVars == <<commits, head, published, device>>

LEMMA StepImplements ==
  TInv /\ FInv /\ HInv /\ [HistoryNext]_historyVars => [V!Next]_abstractVars
<1> SUFFICES ASSUME TInv, FInv, HInv, HistoryNext
             PROVE  V!Next \/ UNCHANGED abstractVars
  BY DEF historyVars, vars, abstractVars
<1>1. Remembers /\ (head' = head => published' = published)
  BY DEF HistoryNext, Remembers, HInv, HistoryKnown
<1>2. PICK p \in Proc :
        \/ EditRead(p) \/ CommitRead(p) \/ RollbackRead(p) \/ RebootRead(p)
        \/ Advance(p) \/ Abort(p)
  BY DEF HistoryNext, Next
<1>3. CASE \/ EditRead(p) \/ CommitRead(p) \/ RollbackRead(p) \/ RebootRead(p)
           \/ Abort(p)
  BY <1>1, <1>3 DEF EditRead, CommitRead, RollbackRead, RebootRead, Abort,
                    abstractVars
<1>4. CASE \/ EditCreate(p) \/ EditWrite(p) \/ RollbackCreate(p)
           \/ RollbackWrite(p) \/ EditWriteLost(p) \/ RollbackWriteLost(p)
  BY <1>1, <1>4 DEF EditCreate, EditWrite, EditWriteLost, RollbackCreate,
                    RollbackWrite, RollbackWriteLost, Truncate, Write,
                    WriteLost, abstractVars
<1>5. CASE ReadParent(p) \/ Refuse(p) \/ ReadLog(p) \/ ApplyDone(p)
  BY <1>1, <1>5 DEF ReadParent, Refuse, ReadLog, ApplyDone, abstractVars
<1>6. CASE Stage(p)
  BY <1>1, <1>6, StageImplements DEF Stage, V!Next
<1>7. CASE UpdateHead(p)
  BY <1>1, <1>7, UpdateHeadImplements DEF V!Next
<1>8. CASE Hand(p)
  <2>1. PICK e \in OnDevice : \/ ApplyOpt(p, e) \/ PanicOpt(p, e)
                              \/ ApplyIntf(p, e) \/ ApplyPort(p, e)
    BY <1>8 DEF Hand
  <2>2. UNCHANGED <<commits, head, published>>
    BY <1>1, <2>1 DEF ApplyOpt, PanicOpt, ApplyIntf, ApplyPort
  <2>3. CASE ApplyOpt(p, e) \/ (ApplyIntf(p, e) /\ proc[p].target[e] # Unset)
    BY <2>2, <2>3, ApplyImplements DEF V!Next
  <2>4. CASE ApplyIntf(p, e) /\ proc[p].target[e] = Unset
    BY <2>2, <2>4 DEF ApplyIntf, abstractVars
  <2>5. CASE PanicOpt(p, e) \/ ApplyPort(p, e)
    BY <2>2, <2>5 DEF PanicOpt, ApplyPort, abstractVars
  <2> QED
    BY <2>1, <2>3, <2>4, <2>5
<1>9. CASE RebootBegin(p)
  BY <1>1, <1>9, RebootBeginImplements DEF RebootBegin, V!Next
<1>10. CASE RebootEnd(p)
  BY <1>1, <1>10, RebootEndImplements DEF RebootEnd, V!Next
<1> QED
  BY <1>2, <1>3, <1>4, <1>5, <1>6, <1>7, <1>8, <1>9, <1>10 DEF Advance

(* Whatever commands overlap, fail or are killed: commits stay as they are, *)
(* each becomes HEAD at most once, and the device gets nothing but entries  *)
(* of what was HEAD and whole configurations that validateFinal accepted    *)
(* (commit, rollback and rebootSystem of main.go, updateHEAD of go-git).    *)
THEOREM HistoryImplements == HistorySpec => ImplementsVersionedConfig
<1>1. HistoryInit => V!Init
  BY StartImplements
<1>2. TInv /\ FInv /\ HInv /\ [HistoryNext]_historyVars
        => [V!Next]_<<commits, head, published, device>>
  BY StepImplements DEF abstractVars
<1>3. HistorySpec => V!Spec
  BY <1>1, <1>2, HistoryInvariant, PTL DEF HistorySpec, V!Spec
<1> QED
  BY <1>3 DEF ImplementsVersionedConfig
==============================================================================
