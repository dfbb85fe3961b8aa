-------------------------- MODULE GnmiServerProofs ---------------------------
(* The gNMI server for any number of goroutines, any requests and any       *)
(* schema: when the file and srv.config agree, what is in the file when     *)
(* they do not, what a Get answers, and that an acknowledged Set does what  *)
(* its request says.                                                        *)
EXTENDS GnmiServer, SequenceTheorems, WellFoundedInduction, TLAPS

(* Only Sets that failed or did not call back may have gone wrong. *)
Sound == mishap \subseteq {"partial", "root"}

(* What a Set that nobody has disturbed knows about the file.               *)
Alone(h) ==
  /\ \A g \in Handler \ {h} : ~Active(g)
  /\ set[h].base = config
  /\ set[h].pc \in {"write", "rewrite"} => file = Empty
  /\ set[h].pc = "rewrite" => set[h].tree = config
  /\ set[h].pc = "op" /\ set[h].wrote = "latest" => file = set[h].tree
  /\ set[h].pc \in {"op", "create", "undo"} =>
       /\ set[h].wrote = "no" /\ mishap = {} => file = config
       /\ Sound => file \in Valid

HandlerInv(h) ==
  /\ set[h].pc \in {"create", "write", "rewrite"} => set[h].tree \in Valid
  /\ set[h].pc = "write" => set[h].wrote = "older"
  /\ Active(h) /\ ~set[h].solo => mishap \cap {"overlap", "cli"} # {}
  /\ Active(h) /\ set[h].solo => Alone(h)

RestInv == AtRest => /\ mishap = {} => file = config
                     /\ Sound => file \in Valid

GInv == TypeOK /\ (\A h \in Handler : HandlerInv(h)) /\ RestInv

Untouched(h) == \A g \in Handler \ {h} : set'[g] = set[g]

------------------------------------------------------------------------------
(* 1. Types *)

LEMMA ServedType ==
  ASSUME NEW reply \in {"none", "ok", "error"}
  PROVE  /\ Served(reply) \in SetCall
         /\ Served(reply).pc = "idle" /\ Served(reply).reply = reply
  BY DEF Served, SetCall, PCs, NoLeaves, Tree

LEMMA AnsweredType ==
  /\ Answered \in GetCall
  /\ Answered.left = <<>> /\ Answered.held = {}
  /\ \A l \in Leaf : Answered.got[l] = Empty
  BY DEF Answered, GetCall

LEMMA OrderedType ==
  ASSUME NEW r \in Requests
  PROVE  Ordered(r) \in Seq(Op)
<1>1. r.delete \in Seq(OpsNamed("delete")) /\ r.replace \in Seq(OpsNamed("replace"))
      /\ r.update \in Seq(OpsNamed("update"))
  BY RequestAssumption
<1>2. \A name : OpsNamed(name) \subseteq Op
  BY DEF OpsNamed
<1>3. r.delete \in Seq(Op) /\ r.replace \in Seq(Op) /\ r.update \in Seq(Op)
  BY <1>1, <1>2
<1> HIDE DEF Op
<1> QED
  BY <1>3 DEF Ordered

LEMMA AfterType ==
  ASSUME NEW o \in Op, NEW t \in Tree
  PROVE  After(o, t) \in Tree
  BY DEF After, Op, Tree

LEMMA OwnStep ==
  ASSUME set \in [Handler -> SetCall], NEW h \in Handler, NEW n \in SetCall,
         set' = [set EXCEPT ![h] = n]
  PROVE  set' \in [Handler -> SetCall] /\ set'[h] = n /\ Untouched(h)
  BY DEF Untouched

LEMMA ExitEffect ==
  ASSUME TypeOK, NEW h \in Handler, NEW reply \in {"none", "ok", "error"},
         set' = [set EXCEPT ![h] = Served(reply)]
  PROVE  /\ set' \in [Handler -> SetCall] /\ Untouched(h)
         /\ set'[h].pc = "idle"
  BY ServedType, OwnStep DEF TypeOK

(* The operation at hand and what it makes of the tree. *)
LEMMA AtOpType ==
  ASSUME TypeOK, NEW h \in Handler, AtOp(h)
  PROVE  /\ set[h].ops \in Seq(Op) /\ Head(set[h].ops) \in Op
         /\ Tail(set[h].ops) \in Seq(Op)
         /\ NextTree(h) \in Tree
<1>1. set[h].ops \in Seq(Op) /\ set[h].tree \in Tree /\ set[h].ops # <<>>
  BY DEF TypeOK, SetCall, AtOp
<1>2. Head(set[h].ops) \in Op /\ Tail(set[h].ops) \in Seq(Op)
  <2> HIDE DEF Op
  <2> QED
    BY <1>1
<1> QED
  BY <1>1, <1>2, AfterType DEF NextTree

(* A step of h that keeps the request, its ghosts and the reply.            *)
Same(h) ==
  set'[h].solo = set[h].solo /\ set'[h].base = set[h].base

LEMMA SetBeginEffect ==
  ASSUME TypeOK, NEW h \in Handler, SetBegin(h)
  PROVE  /\ set' \in [Handler -> SetCall]
         /\ set'[h].pc = "op" /\ set'[h].wrote = "no"
         /\ set'[h].base = config
         /\ set'[h].solo = (Others(h) = {})
         /\ \A g \in Handler \ {h} :
              /\ set'[g].pc = set[g].pc /\ set'[g].tree = set[g].tree
              /\ set'[g].wrote = set[g].wrote /\ ~set'[g].solo
<1> DEFINE others == Others(h) = {}
<1>0. others \in BOOLEAN
  OBVIOUS
<1>1. PICK r \in Requests :
        set' = [g \in Handler |-> IF g = h THEN Begun(r, others)
                                 ELSE [set[g] EXCEPT !.solo = FALSE]]
  BY DEF SetBegin
<1> HIDE DEF others
<1> DEFINE n == Begun(r, others)
<1>2. config \in Tree /\ Ordered(r) \in Seq(Op)
  BY TreeAssumption, OrderedType DEF TypeOK
<1>3. n.pc = "op" /\ n.wrote = "no" /\ n.base = config /\ n.solo = others
  BY DEF Begun
<1>4. n \in SetCall
  BY <1>0, <1>2 DEF SetCall, PCs, Begun
<1> HIDE DEF n
<1>5. ASSUME NEW g \in Handler
      PROVE  /\ set[g] \in SetCall
             /\ [set[g] EXCEPT !.solo = FALSE] \in SetCall
  <2>1. set[g] \in SetCall
    BY DEF TypeOK
  <2> DEFINE call == set[g]
  <2>2. call \in SetCall
    BY <2>1
  <2> HIDE DEF call
  <2>3. [call EXCEPT !.solo = FALSE] \in SetCall
    BY <2>2 DEF SetCall
  <2> QED
    BY <2>1, <2>3 DEF call
<1>6. set'[h] = n /\ \A g \in Handler \ {h} : set'[g] = [set[g] EXCEPT !.solo = FALSE]
  BY <1>1 DEF n
<1>7. set' \in [Handler -> SetCall]
  BY <1>1, <1>4, <1>5 DEF n
<1>8. ASSUME NEW g \in Handler \ {h}
      PROVE  /\ set'[g].pc = set[g].pc /\ set'[g].tree = set[g].tree
             /\ set'[g].wrote = set[g].wrote /\ ~set'[g].solo
  <2> DEFINE call == set[g]
  <2>1. call \in SetCall /\ set'[g] = [call EXCEPT !.solo = FALSE]
    BY <1>5, <1>6
  <2> HIDE DEF call
  <2>2. /\ set'[g].pc = call.pc /\ set'[g].tree = call.tree
        /\ set'[g].wrote = call.wrote /\ ~set'[g].solo
    BY <2>1 DEF SetCall
  <2> QED
    BY <2>2 DEF call
<1> QED
  BY <1>3, <1>6, <1>7, <1>8 DEF others

LEMMA OpAppliedEffect ==
  ASSUME TypeOK, NEW h \in Handler, OpApplied(h)
  PROVE  /\ set' \in [Handler -> SetCall] /\ Untouched(h) /\ Same(h)
         /\ set'[h].pc = "create" /\ set'[h].tree = NextTree(h)
         /\ set'[h].wrote = set[h].wrote
<1> DEFINE n == [set[h] EXCEPT !.pc = "create", !.tree = NextTree(h),
                               !.ops = Tail(set[h].ops)]
<1>1. AtOp(h)
  BY DEF OpApplied
<1>2. set[h] \in SetCall
  BY DEF TypeOK
<1>3. /\ n \in SetCall /\ n.pc = "create" /\ n.tree = NextTree(h)
      /\ n.wrote = set[h].wrote /\ n.solo = set[h].solo /\ n.base = set[h].base
  BY <1>1, <1>2, AtOpType DEF SetCall, PCs
<1>4. set' = [set EXCEPT ![h] = n]
  BY DEF OpApplied
<1> HIDE DEF n
<1> QED
  BY <1>3, <1>4, OwnStep DEF TypeOK, Same

LEMMA DeletedQuietlyEffect ==
  ASSUME TypeOK, NEW h \in Handler, DeletedQuietly(h)
  PROVE  /\ set' \in [Handler -> SetCall] /\ Untouched(h) /\ Same(h)
         /\ set'[h].pc = "op" /\ set'[h].tree = NextTree(h)
         /\ set'[h].wrote = "no" => set[h].wrote = "no"
         /\ set'[h].wrote = "latest" =>
              set[h].wrote = "latest" /\ NextTree(h) = set[h].tree
<1> DEFINE w == IF set[h].wrote = "latest" /\ NextTree(h) # set[h].tree
                  THEN "older" ELSE set[h].wrote
           n == [set[h] EXCEPT !.tree = NextTree(h),
                               !.ops = Tail(set[h].ops), !.wrote = w]
<1>1. AtOp(h) /\ set[h].pc = "op"
  BY DEF DeletedQuietly, AtOp
<1>2. set[h] \in SetCall
  BY DEF TypeOK
<1>3. /\ n \in SetCall /\ n.pc = set[h].pc /\ n.tree = NextTree(h)
      /\ n.wrote = w /\ n.solo = set[h].solo /\ n.base = set[h].base
  BY <1>1, <1>2, AtOpType DEF SetCall, PCs
<1>4. set' = [set EXCEPT ![h] = n]
  BY DEF DeletedQuietly
<1>5. w = "no" => set[h].wrote = "no"
  OBVIOUS
<1>6. w = "latest" => set[h].wrote = "latest" /\ NextTree(h) = set[h].tree
  OBVIOUS
<1> HIDE DEF n, w
<1> QED
  BY <1>1, <1>3, <1>4, <1>5, <1>6, OwnStep DEF TypeOK, Same

(* A step that moves the program counter to l and sets `wrote` to w.        *)
LEMMA MoveEffect ==
  ASSUME TypeOK, NEW h \in Handler, NEW l \in PCs,
         NEW w \in {"no", "latest", "older"},
         set' = [set EXCEPT ![h].pc = l, ![h].wrote = w]
  PROVE  /\ set' \in [Handler -> SetCall] /\ Untouched(h) /\ Same(h)
         /\ set'[h].pc = l /\ set'[h].wrote = w /\ set'[h].tree = set[h].tree
<1> DEFINE n == [set[h] EXCEPT !.pc = l, !.wrote = w]
<1>1. set[h] \in SetCall
  BY DEF TypeOK
<1>2. /\ n \in SetCall /\ n.pc = l /\ n.wrote = w
      /\ n.solo = set[h].solo /\ n.base = set[h].base /\ n.tree = set[h].tree
  BY <1>1 DEF SetCall
<1>3. set' = [set EXCEPT ![h] = n]
  OBVIOUS
<1> HIDE DEF n
<1> QED
  BY <1>2, <1>3, OwnStep DEF TypeOK, Same

LEMMA UndoCreateEffect ==
  ASSUME TypeOK, NEW h \in Handler, UndoCreate(h)
  PROVE  /\ set' \in [Handler -> SetCall] /\ Untouched(h) /\ Same(h)
         /\ set'[h].pc = "rewrite" /\ set'[h].tree = config
<1> DEFINE n == [set[h] EXCEPT !.pc = "rewrite", !.tree = config]
<1>1. set[h] \in SetCall /\ config \in Tree
  BY TreeAssumption DEF TypeOK
<1>2. /\ n \in SetCall /\ n.pc = "rewrite" /\ n.tree = config
      /\ n.solo = set[h].solo /\ n.base = set[h].base
  BY <1>1 DEF SetCall, PCs
<1>3. set' = [set EXCEPT ![h] = n]
  BY DEF UndoCreate
<1> HIDE DEF n
<1> QED
  BY <1>2, <1>3, OwnStep DEF TypeOK, Same

------------------------------------------------------------------------------
(* 2. The invariant *)

LEMMA GInit == Init => GInv
<1> SUFFICES ASSUME Init PROVE GInv
  OBVIOUS
<1>1. TypeOK
  BY TreeAssumption, ServedType, AnsweredType DEF Init, TypeOK
<1>2. \A h \in Handler : HandlerInv(h)
  BY ServedType DEF Init, HandlerInv, Active
<1>3. RestInv
  BY TreeAssumption DEF Init, RestInv
<1> QED
  BY <1>1, <1>2, <1>3 DEF GInv

(* While h is under way, what the others know does not depend on the file.  *)
LEMMA OthersInv ==
  ASSUME GInv, NEW h \in Handler, Active(h), Untouched(h),
         mishap \subseteq mishap' \/ set[h].solo
  PROVE  \A g \in Handler \ {h} : HandlerInv(g)'
<1> SUFFICES ASSUME NEW g \in Handler \ {h} PROVE HandlerInv(g)'
  OBVIOUS
<1>1. HandlerInv(g) /\ HandlerInv(h) /\ set'[g] = set[g]
  BY DEF GInv, Untouched
<1>2. ~(Active(g) /\ set[g].solo)
  BY <1>1 DEF HandlerInv, Alone
<1>3. set[h].solo => ~Active(g)
  BY <1>1 DEF HandlerInv, Alone
<1>4. CASE ~Active(g)
  BY <1>1, <1>4 DEF HandlerInv, Active
<1>5. CASE Active(g)
  BY <1>1, <1>2, <1>3, <1>5 DEF HandlerInv, Active
<1> QED
  BY <1>4, <1>5

(* A step of h after which h is still under way. *)
LEMMA GoesOn ==
  ASSUME GInv, NEW h \in Handler, Active(h), Untouched(h), Same(h),
         TypeOK', set'[h].pc # "idle",
         config' = config, mishap \subseteq mishap',
         set'[h].pc \in {"create", "write", "rewrite"} => set'[h].tree \in Valid,
         set'[h].pc = "write" => set'[h].wrote = "older",
         Alone(h) /\ set[h].solo =>
           /\ set'[h].pc \in {"write", "rewrite"} => file' = Empty
           /\ set'[h].pc = "rewrite" => set'[h].tree = config
           /\ set'[h].pc = "op" /\ set'[h].wrote = "latest" => file' = set'[h].tree
           /\ set'[h].pc \in {"op", "create", "undo"} =>
                /\ set'[h].wrote = "no" /\ mishap' = {} => file' = config
                /\ Sound' => file' \in Valid
  PROVE  GInv'
<1>1. \A g \in Handler \ {h} : HandlerInv(g)'
  BY OthersInv
<1>2. HandlerInv(h)
  BY DEF GInv
<1>3. set[h].solo => Alone(h)'
  <2> SUFFICES ASSUME set[h].solo PROVE Alone(h)'
    OBVIOUS
  <2>1. Alone(h)
    BY <1>2 DEF HandlerInv
  <2>2. \A g \in Handler \ {h} : ~Active(g)'
    BY <2>1 DEF Alone, Active, Untouched
  <2>3. set'[h].base = config'
    BY <2>1 DEF Alone, Same
  <2> QED
    BY <2>1, <2>2, <2>3 DEF Alone
<1>4. HandlerInv(h)'
  BY <1>2, <1>3 DEF HandlerInv, Same, Active
<1>5. RestInv'
  BY DEF RestInv, AtRest, Active
<1>6. \A g \in Handler : HandlerInv(g)'
  BY <1>1, <1>4
<1> QED
  BY <1>5, <1>6 DEF GInv

(* A step of h after which h is idle. *)
LEMMA ComesToAnEnd ==
  ASSUME GInv, NEW h \in Handler, Active(h), Untouched(h),
         TypeOK', set'[h].pc = "idle",
         mishap \subseteq mishap' \/ set[h].solo,
         Alone(h) /\ set[h].solo =>
           /\ mishap' = {} => file' = config'
           /\ Sound' => file' \in Valid
  PROVE  GInv'
<1>1. \A g \in Handler \ {h} : HandlerInv(g)'
  BY OthersInv
<1>2. HandlerInv(h)
  BY DEF GInv
<1>3. HandlerInv(h)'
  BY DEF HandlerInv, Active
<1>4. RestInv'
  <2>1. CASE set[h].solo
    <3>1. Alone(h)
      BY <1>2, <2>1 DEF HandlerInv
    <3> QED
      BY <2>1, <3>1 DEF RestInv
  <2>2. CASE ~set[h].solo
    <3>1. mishap' \cap {"overlap", "cli"} # {}
      BY <1>2, <2>2 DEF HandlerInv
    <3> QED
      BY <3>1 DEF RestInv, Sound
  <2> QED
    BY <2>1, <2>2
<1>5. \A g \in Handler : HandlerInv(g)'
  BY <1>1, <1>3
<1> QED
  BY <1>4, <1>5 DEF GInv

LEMMA TypeKept ==
  ASSUME TypeOK, set' \in [Handler -> SetCall], config' = config,
         file' \in Tree \cup Unreadable, UNCHANGED get, mishap' \subseteq Mishaps
  PROVE  TypeOK'
  BY DEF TypeOK

LEMMA UntypedFiles == Empty \notin Valid /\ Mangled \notin Valid /\ Valid \subseteq Tree
  BY TreeAssumption DEF Unreadable

LEMMA SetStepInv ==
  ASSUME GInv, NEW h \in Handler, SetStep(h)
  PROVE  GInv'
<1>0. TypeOK /\ HandlerInv(h) /\ set[h] \in SetCall
  BY DEF GInv, TypeOK
<1>1. Active(h)
  BY DEF SetStep, OpRefused, OpApplied, DeletedQuietly, CreateFile, CreateFails,
         WriteFile, WriteLost, UndoCreate, UndoFails, UndoWrite, Publish,
         AtOp, Active
<1> USE <1>0, <1>1
<1>2. CASE OpRefused(h)
  <2>1. set' \in [Handler -> SetCall] /\ Untouched(h) /\ set'[h].pc = "idle"
    BY <1>2, ExitEffect DEF OpRefused, Fails
  <2>2. /\ set[h].pc = "op" /\ UNCHANGED <<config, file, get>>
        /\ mishap' = IF set[h].wrote = "no" THEN mishap ELSE mishap \cup {"partial"}
    BY <1>2 DEF OpRefused, Fails, AtOp
  <2>3. TypeOK'
    BY <2>1, <2>2, TypeKept DEF TypeOK, Mishaps
  <2> QED
    BY <2>1, <2>2, <2>3, ComesToAnEnd DEF Alone, Sound
<1>3. CASE OpApplied(h)
  <2>1. /\ UNCHANGED <<config, file, get, mishap>> /\ set[h].pc = "op"
        /\ NextTree(h) \in Valid
    BY <1>3 DEF OpApplied, AtOp, ToGoStruct
  <2>2. /\ set' \in [Handler -> SetCall] /\ Untouched(h) /\ Same(h)
        /\ set'[h].pc = "create" /\ set'[h].tree = NextTree(h)
        /\ set'[h].wrote = set[h].wrote
    BY <1>3, OpAppliedEffect
  <2>3. TypeOK'
    BY <2>1, <2>2, TypeKept DEF TypeOK
  <2> QED
    BY <2>1, <2>2, <2>3, GoesOn DEF Alone, Sound
<1>4. CASE DeletedQuietly(h)
  <2>1. UNCHANGED <<config, file, get, mishap>> /\ set[h].pc = "op"
    BY <1>4 DEF DeletedQuietly, AtOp
  <2>2. /\ set' \in [Handler -> SetCall] /\ Untouched(h) /\ Same(h)
        /\ set'[h].pc = "op" /\ set'[h].tree = NextTree(h)
        /\ set'[h].wrote = "no" => set[h].wrote = "no"
        /\ set'[h].wrote = "latest" =>
             set[h].wrote = "latest" /\ NextTree(h) = set[h].tree
    BY <1>4, DeletedQuietlyEffect
  <2>3. TypeOK'
    BY <2>1, <2>2, TypeKept DEF TypeOK
  <2> QED
    BY <2>1, <2>2, <2>3, GoesOn DEF Alone, Sound
<1>5. CASE CreateFile(h)
  <2>1. /\ UNCHANGED <<config, get, mishap>> /\ set[h].pc = "create" /\ file' = Empty
        /\ set' = [set EXCEPT ![h].pc = "write", ![h].wrote = "older"]
    BY <1>5 DEF CreateFile
  <2>2. /\ set' \in [Handler -> SetCall] /\ Untouched(h) /\ Same(h)
        /\ set'[h].pc = "write" /\ set'[h].wrote = "older"
        /\ set'[h].tree = set[h].tree
    BY <2>1, MoveEffect DEF PCs
  <2>3. TypeOK'
    BY <2>1, <2>2, TypeKept DEF TypeOK, Unreadable
  <2>4. set[h].tree \in Valid
    BY <2>1 DEF HandlerInv
  <2> QED
    BY <2>1, <2>2, <2>3, <2>4, GoesOn
<1>6. CASE CreateFails(h)
  <2>1. /\ UNCHANGED <<config, file, get, mishap>> /\ set[h].pc = "create"
        /\ set' = [set EXCEPT ![h].pc = "undo", ![h].wrote = set[h].wrote]
    BY <1>6 DEF CreateFails, SetCall
  <2>2. /\ set' \in [Handler -> SetCall] /\ Untouched(h) /\ Same(h)
        /\ set'[h].pc = "undo" /\ set'[h].wrote = set[h].wrote
    BY <2>1, MoveEffect DEF PCs, SetCall
  <2>3. TypeOK'
    BY <2>1, <2>2, TypeKept DEF TypeOK
  <2> QED
    BY <2>1, <2>2, <2>3, GoesOn DEF Alone, Sound
<1>7. CASE WriteFile(h)
  <2>1. /\ UNCHANGED <<config, get, mishap>> /\ set[h].pc = "write"
        /\ Write(set[h].tree)
        /\ set' = [set EXCEPT ![h].pc = "op", ![h].wrote = "latest"]
    BY <1>7 DEF WriteFile
  <2>2. /\ set' \in [Handler -> SetCall] /\ Untouched(h) /\ Same(h)
        /\ set'[h].pc = "op" /\ set'[h].wrote = "latest"
        /\ set'[h].tree = set[h].tree
    BY <2>1, MoveEffect DEF PCs
  <2>3. set[h].tree \in Valid
    BY <2>1 DEF HandlerInv
  <2>4. file' \in {set[h].tree, Mangled} /\ (file = Empty => file' = set[h].tree)
    BY <2>1 DEF Write
  <2>5. TypeOK'
    BY <2>1, <2>2, <2>3, <2>4, TypeKept, UntypedFiles DEF TypeOK, Unreadable
  <2> QED
    BY <2>1, <2>2, <2>3, <2>4, <2>5, GoesOn DEF Alone
<1>8. CASE WriteLost(h)
  <2>1. /\ UNCHANGED <<config, get>> /\ mishap' = mishap \cup {"fault"}
        /\ file' \in {file, Mangled}
    BY <1>8 DEF WriteLost
  <2>2. ~Sound' /\ mishap' # {} /\ mishap' \subseteq Mishaps
    BY <2>1 DEF Sound, Mishaps, TypeOK
  <2>3. file' \in Tree \cup Unreadable
    BY <2>1 DEF TypeOK, Unreadable
  <2>4. CASE set[h].pc = "write"
    <3>1. set' = [set EXCEPT ![h].pc = "op", ![h].wrote = set[h].wrote]
      BY <1>8, <2>4 DEF WriteLost, SetCall
    <3>2. /\ set' \in [Handler -> SetCall] /\ Untouched(h) /\ Same(h)
          /\ set'[h].pc = "op" /\ set'[h].wrote = set[h].wrote
      BY <3>1, MoveEffect DEF PCs, SetCall
    <3>3. set[h].wrote = "older"
      BY <2>4 DEF HandlerInv
    <3>4. TypeOK'
      BY <2>1, <2>2, <2>3, <3>2, TypeKept
    <3> QED
      BY <2>1, <2>2, <3>2, <3>3, <3>4, GoesOn
  <2>5. CASE set[h].pc = "rewrite"
    <3>1. set' = [set EXCEPT ![h] = Served("error")]
      BY <1>8, <2>5 DEF WriteLost
    <3>2. set' \in [Handler -> SetCall] /\ Untouched(h) /\ set'[h].pc = "idle"
      BY <3>1, ExitEffect
    <3>3. TypeOK'
      BY <2>1, <2>2, <2>3, <3>2, TypeKept
    <3> QED
      BY <2>1, <2>2, <3>2, <3>3, ComesToAnEnd
  <2> QED
    BY <1>8, <2>4, <2>5 DEF WriteLost
<1>9. CASE UndoCreate(h)
  <2>1. UNCHANGED <<config, get, mishap>> /\ set[h].pc = "undo" /\ file' = Empty
    BY <1>9 DEF UndoCreate
  <2>2. /\ set' \in [Handler -> SetCall] /\ Untouched(h) /\ Same(h)
        /\ set'[h].pc = "rewrite" /\ set'[h].tree = config
    BY <1>9, UndoCreateEffect
  <2>3. TypeOK'
    BY <2>1, <2>2, TypeKept DEF TypeOK, Unreadable
  <2>4. config \in Valid
    BY DEF TypeOK
  <2> QED
    BY <2>1, <2>2, <2>3, <2>4, GoesOn
<1>10. CASE UndoFails(h)
  <2>1. set' \in [Handler -> SetCall] /\ Untouched(h) /\ set'[h].pc = "idle"
    BY <1>10, ExitEffect DEF UndoFails, Fails
  <2>2. /\ set[h].pc = "undo" /\ UNCHANGED <<config, file, get>>
        /\ mishap' = IF set[h].wrote = "no" THEN mishap ELSE mishap \cup {"partial"}
    BY <1>10 DEF UndoFails, Fails
  <2>3. TypeOK'
    BY <2>1, <2>2, TypeKept DEF TypeOK, Mishaps
  <2> QED
    BY <2>1, <2>2, <2>3, ComesToAnEnd DEF Alone, Sound
<1>11. CASE UndoWrite(h)
  <2>1. /\ set[h].pc = "rewrite" /\ UNCHANGED <<config, get, mishap>>
        /\ Write(set[h].tree)
    BY <1>11 DEF UndoWrite
  <2>2. set' \in [Handler -> SetCall] /\ Untouched(h) /\ set'[h].pc = "idle"
    BY <1>11, ExitEffect DEF UndoWrite
  <2>3. set[h].tree \in Valid
    BY <2>1 DEF HandlerInv
  <2>4. file' \in {set[h].tree, Mangled} /\ (file = Empty => file' = set[h].tree)
    BY <2>1 DEF Write
  <2>5. TypeOK'
    BY <2>1, <2>2, <2>3, <2>4, TypeKept, UntypedFiles DEF TypeOK, Unreadable
  <2> QED
    BY <2>1, <2>2, <2>3, <2>4, <2>5, ComesToAnEnd DEF Alone
<1>12. CASE Publish(h)
  <2>1. /\ set[h].pc = "op" /\ set[h].tree \in Valid /\ UNCHANGED file
        /\ config' = set[h].tree
    BY <1>12 DEF Publish, ToGoStruct, Replaced, Published
  <2>2. set' \in [Handler -> SetCall] /\ Untouched(h) /\ set'[h].pc = "idle"
    BY <1>12, ExitEffect DEF Publish
  <2>3. get' \in [Reader -> GetCall]
    <3>1. get' = [r \in Reader |-> IF get[r].left = <<>> THEN get[r]
                  ELSE [get[r] EXCEPT !.held = @ \cup {set[h].tree}]]
      BY <1>12 DEF Publish, Replaced, Published
    <3>2. ASSUME NEW r \in Reader
          PROVE  /\ get[r] \in GetCall
                 /\ [get[r] EXCEPT !.held = @ \cup {set[h].tree}] \in GetCall
      BY <2>1, UntypedFiles DEF TypeOK, GetCall
    <3> QED
      BY <3>1, <3>2
  <2>4. CASE set[h].wrote = "latest" /\ set[h].solo
    <3>1. mishap' = {}
      BY <1>12, <2>4 DEF Publish
    <3>2. TypeOK'
      BY <2>1, <2>2, <2>3, <3>1 DEF TypeOK
    <3>3. Alone(h) => file' = config'
      BY <2>1, <2>4 DEF Alone
    <3> QED
      BY <2>1, <2>2, <2>4, <3>1, <3>2, <3>3, ComesToAnEnd
  <2>5. CASE ~(set[h].wrote = "latest" /\ set[h].solo)
            /\ (set[h].wrote = "older"
                 \/ (set[h].wrote = "no" /\ set[h].tree # set[h].base))
    <3>1. mishap' = mishap \cup {"root"}
      BY <1>12, <2>5 DEF Publish
    <3>2. TypeOK'
      BY <2>1, <2>2, <2>3, <3>1 DEF TypeOK, Mishaps
    <3>3. Alone(h) /\ Sound' => file' \in Valid
      BY <2>1, <3>1 DEF Alone, Sound
    <3> QED
      BY <2>2, <3>1, <3>2, <3>3, ComesToAnEnd
  <2>6. CASE ~(set[h].wrote = "latest" /\ set[h].solo)
            /\ ~(set[h].wrote = "older"
                 \/ (set[h].wrote = "no" /\ set[h].tree # set[h].base))
    <3>1. mishap' = mishap
      BY <1>12, <2>6 DEF Publish
    <3>2. TypeOK'
      BY <2>1, <2>2, <2>3, <3>1 DEF TypeOK
    <3>3. set[h].wrote \in {"no", "latest", "older"}
      BY DEF SetCall
    <3>4. set[h].solo => set[h].wrote = "no" /\ set[h].tree = set[h].base
      BY <2>6, <3>3
    <3>5. Alone(h) /\ set[h].solo =>
            /\ mishap' = {} => file' = config'
            /\ Sound' => file' \in Valid
      BY <2>1, <3>1, <3>4 DEF Alone, Sound
    <3> QED
      BY <2>2, <3>1, <3>2, <3>5, ComesToAnEnd
  <2> QED
    BY <2>4, <2>5, <2>6
<1> QED
  BY <1>2, <1>3, <1>4, <1>5, <1>6, <1>7, <1>8, <1>9, <1>10, <1>11, <1>12
     DEF SetStep

LEMMA BeginInv ==
  ASSUME GInv, NEW h \in Handler, SetBegin(h)
  PROVE  GInv'
<1>1. /\ ~Active(h) /\ UNCHANGED <<config, file, get>>
      /\ mishap' = IF Others(h) = {} THEN mishap ELSE mishap \cup {"overlap"}
  BY DEF SetBegin
<1>2. /\ set' \in [Handler -> SetCall]
      /\ set'[h].pc = "op" /\ set'[h].wrote = "no" /\ set'[h].base = config
      /\ set'[h].solo = (Others(h) = {})
      /\ \A g \in Handler \ {h} :
           /\ set'[g].pc = set[g].pc /\ set'[g].tree = set[g].tree
           /\ set'[g].wrote = set[g].wrote /\ ~set'[g].solo
  BY SetBeginEffect DEF GInv
<1>3. TypeOK'
  BY <1>1, <1>2 DEF GInv, TypeOK, Mishaps
<1>4. ASSUME NEW g \in Handler \ {h} PROVE HandlerInv(g)'
  <2>1. Active(g) => mishap' \cap {"overlap", "cli"} # {}
    BY <1>1 DEF Others
  <2> QED
    BY <1>1, <1>2, <2>1 DEF GInv, HandlerInv, Active
<1>5. HandlerInv(h)'
  <2>1. CASE Others(h) = {}
    <3>1. AtRest
      BY <1>1, <2>1 DEF Others, AtRest
    <3>2. \A g \in Handler \ {h} : ~Active(g)'
      BY <1>2, <3>1 DEF AtRest, Active
    <3> QED
      BY <1>1, <1>2, <2>1, <3>1, <3>2 DEF GInv, RestInv, HandlerInv, Alone, Sound
  <2>2. CASE Others(h) # {}
    BY <1>1, <1>2, <2>2 DEF HandlerInv
  <2> QED
    BY <2>1, <2>2
<1>6. RestInv'
  BY <1>2 DEF RestInv, AtRest, Active
<1>7. \A g \in Handler : HandlerInv(g)'
  BY <1>4, <1>5
<1> QED
  BY <1>3, <1>6, <1>7 DEF GInv

(* Steps of the readers leave all of it alone. *)
LEMMA GetTypes ==
  ASSUME TypeOK, NEW r \in Reader, GetBegin(r) \/ GetPath(r)
  PROVE  get' \in [Reader -> GetCall]
<1>0. config \in Tree /\ get[r] \in GetCall
  BY UntypedFiles DEF TypeOK
<1>1. CASE GetBegin(r)
  <2>1. PICK q \in Queries :
          get' = [get EXCEPT ![r] = [Answered EXCEPT !.left = q, !.held = {config}]]
    BY <1>1 DEF GetBegin
  <2>2. [Answered EXCEPT !.left = q, !.held = {config}] \in GetCall
    BY <1>0, AnsweredType, RequestAssumption DEF GetCall
  <2> QED
    BY <2>1, <2>2 DEF TypeOK
<1>2. CASE GetPath(r)
  <2> DEFINE new == [l \in Leaf |-> IF l \in UNION Head(get[r].left) THEN Source[l]
                                   ELSE get[r].got[l]]
             n == [get[r] EXCEPT !.left = Tail(get[r].left), !.got = new]
  <2>1. new \in [Leaf -> Value \cup {Unset, Empty}]
    BY <1>0 DEF GetCall, Source, Tree
  <2>2. Tail(get[r].left) \in Seq(Path)
    BY <1>0, <1>2 DEF GetCall, GetPath
  <2>3. get' = [get EXCEPT ![r] = n]
    BY <1>2 DEF GetPath
  <2> HIDE DEF new
  <2>4. n \in GetCall
    BY <1>0, <2>1, <2>2 DEF GetCall
  <2> HIDE DEF n
  <2> QED
    BY <2>3, <2>4 DEF TypeOK
<1> QED
  BY <1>1, <1>2

LEMMA GetInv ==
  ASSUME GInv, NEW r \in Reader, GetBegin(r) \/ GetPath(r)
  PROVE  GInv'
<1>1. UNCHANGED <<config, file, set, mishap>>
  BY DEF GetBegin, GetPath
<1>2. TypeOK'
  BY <1>1, GetTypes DEF GInv, TypeOK
<1> QED
  BY <1>1, <1>2 DEF GInv, HandlerInv, RestInv, AtRest, Active, Alone, Sound

LEMMA CliInv ==
  ASSUME GInv, CliEdit
  PROVE  GInv'
<1>0. TypeOK
  BY DEF GInv
<1>1. /\ UNCHANGED <<config, get>> /\ mishap' = mishap \cup {"cli"}
      /\ set' = Disturbed /\ file' \in Tree
  <2>1. file \in Tree
    BY DEF CliEdit
  <2>2. PICK e \in CliEdits :
          file' = [l \in Leaf |-> IF l \in DOMAIN e THEN e[l] ELSE file[l]]
    BY DEF CliEdit
  <2>3. file' \in Tree
    BY <2>1, <2>2, RequestAssumption DEF Tree
  <2> QED
    BY <2>3 DEF CliEdit
<1>2. ASSUME NEW g \in Handler
      PROVE  /\ set'[g] = [set[g] EXCEPT !.solo = FALSE]
             /\ set'[g] \in SetCall
             /\ set'[g].pc = set[g].pc /\ set'[g].tree = set[g].tree
             /\ set'[g].wrote = set[g].wrote /\ ~set'[g].solo
  <2>1. set[g] \in SetCall
    BY <1>0 DEF TypeOK
  <2>2. set'[g] = [set[g] EXCEPT !.solo = FALSE]
    BY <1>1 DEF Disturbed
  <2> QED
    BY <2>1, <2>2 DEF SetCall
<1>3. TypeOK'
  BY <1>0, <1>1, <1>2 DEF TypeOK, Mishaps, Disturbed
<1>4. mishap' # {} /\ ~Sound' /\ mishap' \cap {"overlap", "cli"} # {}
  BY <1>1 DEF Sound
<1>5. ASSUME NEW g \in Handler PROVE HandlerInv(g)'
  BY <1>2, <1>4 DEF GInv, HandlerInv, Active
<1>6. RestInv'
  BY <1>4 DEF RestInv
<1> QED
  BY <1>3, <1>5, <1>6 DEF GInv

LEMMA RestartInv ==
  ASSUME GInv, Restart
  PROVE  GInv'
<1>1. \A h \in Handler : set'[h] = Served("none")
  BY DEF Restart
<1>2. TypeOK'
  BY TreeAssumption, ServedType, AnsweredType DEF GInv, TypeOK, Restart, Mishaps
<1>3. \A h \in Handler : HandlerInv(h)'
  BY <1>1, ServedType DEF HandlerInv, Active
<1>4. RestInv'
  BY DEF Restart, RestInv, Sound
<1> QED
  BY <1>2, <1>3, <1>4 DEF GInv

LEMMA GStep == GInv /\ [Next]_vars => GInv'
<1> SUFFICES ASSUME GInv, [Next]_vars PROVE GInv'
  OBVIOUS
<1>1. CASE UNCHANGED vars
  BY <1>1 DEF GInv, TypeOK, HandlerInv, RestInv, AtRest, Active, Alone, Sound, vars
<1> QED
  BY <1>1, BeginInv, SetStepInv, GetInv, CliInv, RestartInv DEF Next

LEMMA GInvariant == Spec => []GInv
  BY GInit, GStep, PTL DEF Spec

------------------------------------------------------------------------------
(* 3. The theorems *)

(* The state of any number of concurrent requests is well formed, and       *)
(* srv.config always passes Validate (server.go:608).                       *)
THEOREM TypeCorrect == Spec => []TypeOK
<1>1. GInv => TypeOK
  BY DEF GInv
<1> QED
  BY <1>1, GInvariant, PTL

(* config.json follows srv.config between requests, unless one of the named *)
(* mishaps (run.go:25, server.go:566) kept it from that.                    *)
THEOREM FileFollows == Spec => []FileFollowsServer
<1>1. GInv => FileFollowsServer
  BY DEF GInv, RestInv, FileFollowsServer
<1> QED
  BY <1>1, GInvariant, PTL

(* What failed Sets leave in config.json is a configuration that main       *)
(* (run.go:67) accepts.                                                     *)
THEOREM Restartable == Spec => []ServerCanRestart
<1>1. GInv => ServerCanRestart
  BY DEF GInv, RestInv, ServerCanRestart, Sound
<1> QED
  BY <1>1, GInvariant, PTL

(* A Get that is under way knows the current tree, and every answer it has  *)
(* collected is of a tree it has lived through.                             *)
ReaderInv(r) ==
  /\ get[r].left # <<>> => config \in get[r].held
  /\ \A l \in Leaf :
       get[r].got[l] # Empty => \E c \in get[r].held : c[l] = get[r].got[l]
ReadersInv == \A r \in Reader : ReaderInv(r)

LEMMA ReadersStep == TypeOK /\ ReadersInv /\ [Next]_vars => ReadersInv'
<1> SUFFICES ASSUME TypeOK, ReadersInv, [Next]_vars, NEW r \in Reader
             PROVE  ReaderInv(r)'
  BY DEF ReadersInv
<1>0. ReaderInv(r) /\ get[r] \in GetCall
  BY DEF ReadersInv, TypeOK
<1>1. ASSUME UNCHANGED <<get, config>> PROVE ReaderInv(r)'
  BY <1>0, <1>1 DEF ReaderInv
<1>2. ASSUME NEW h \in Handler, Publish(h) PROVE ReaderInv(r)'
  <2>1. config' = set[h].tree
    BY <1>2 DEF Publish, Replaced, Published
  <2>2. get'[r] = IF get[r].left = <<>> THEN get[r]
                  ELSE [get[r] EXCEPT !.held = @ \cup {set[h].tree}]
    BY <1>2 DEF Publish, Replaced, Published
  <2>3. CASE get[r].left = <<>>
    BY <1>0, <2>2, <2>3 DEF ReaderInv
  <2>4. CASE get[r].left # <<>>
    <3>1. /\ get'[r].left = get[r].left /\ get'[r].got = get[r].got
          /\ get'[r].held = get[r].held \cup {set[h].tree}
      BY <1>0, <2>2, <2>4 DEF GetCall
    <3> QED
      BY <1>0, <2>1, <3>1 DEF ReaderInv
  <2> QED
    BY <2>3, <2>4
<1>3. ASSUME NEW s \in Reader, GetBegin(s) PROVE ReaderInv(r)'
  <2>1. PICK q \in Queries :
          get' = [get EXCEPT ![s] = [Answered EXCEPT !.left = q, !.held = {config}]]
    BY <1>3 DEF GetBegin
  <2>2. UNCHANGED config
    BY <1>3 DEF GetBegin
  <2>3. CASE r = s
    <3>1. get'[r] = [Answered EXCEPT !.left = q, !.held = {config}]
      BY <2>1, <2>3 DEF TypeOK
    <3>2. get'[r].held = {config} /\ get'[r].got = Answered.got
      BY <3>1 DEF Answered
    <3> QED
      BY <2>2, <3>2, AnsweredType DEF ReaderInv
  <2>4. CASE r # s
    BY <1>0, <2>1, <2>2, <2>4 DEF ReaderInv, TypeOK
  <2> QED
    BY <2>3, <2>4
<1>4. ASSUME NEW s \in Reader, GetPath(s) PROVE ReaderInv(r)'
  <2> DEFINE new == [l \in Leaf |-> IF l \in UNION Head(get[s].left) THEN Source[l]
                                   ELSE get[s].got[l]]
             n == [get[s] EXCEPT !.left = Tail(get[s].left), !.got = new]
  <2>1. UNCHANGED config /\ get[s].left # <<>> /\ get' = [get EXCEPT ![s] = n]
    BY <1>4 DEF GetPath
  <2>2. CASE r = s
    <3>1. get'[r].held = get[r].held /\ get'[r].got = new
      BY <1>0, <2>1, <2>2 DEF GetCall, TypeOK
    <3>2. config \in get[r].held
      BY <1>0, <2>1, <2>2 DEF ReaderInv
    <3>3. \A l \in Leaf : new[l] \in {config[l], get[r].got[l]}
      BY <2>2 DEF Source
    <3> HIDE DEF new
    <3> QED
      BY <1>0, <2>1, <3>1, <3>2, <3>3 DEF ReaderInv
  <2>3. CASE r # s
    BY <1>0, <2>1, <2>3 DEF ReaderInv, TypeOK
  <2> QED
    BY <2>2, <2>3
<1>5. ASSUME Restart PROVE ReaderInv(r)'
  <2>1. get'[r] = Answered
    BY <1>5 DEF Restart
  <2> QED
    BY <2>1, AnsweredType DEF ReaderInv
<1>6. CASE UNCHANGED vars
  BY <1>1, <1>6 DEF vars
<1>7. ASSUME NEW h \in Handler, SetBegin(h) PROVE ReaderInv(r)'
  BY <1>1, <1>7 DEF SetBegin
<1>8. ASSUME NEW h \in Handler, SetStep(h) PROVE ReaderInv(r)'
  BY <1>1, <1>2, <1>8 DEF SetStep, OpRefused, OpApplied, DeletedQuietly,
     CreateFile, CreateFails, WriteFile, WriteLost, UndoCreate, UndoFails,
     UndoWrite, Fails
<1>9. ASSUME CliEdit PROVE ReaderInv(r)'
  BY <1>1, <1>9 DEF CliEdit
<1> QED
  BY <1>3, <1>4, <1>5, <1>6, <1>7, <1>8, <1>9 DEF Next

(* A Get (server.go:447) answers from trees that were srv.config while it   *)
(* ran.                                                                     *)
THEOREM GetPublished == Spec => []GetReturnsPublished
<1>1. Init => ReadersInv
  BY AnsweredType DEF Init, ReadersInv, ReaderInv
<1>2. ReadersInv => GetReturnsPublished
  BY DEF ReadersInv, ReaderInv, GetReturnsPublished
<1> QED
  BY <1>1, <1>2, ReadersStep, TypeCorrect, PTL DEF Spec

------------------------------------------------------------------------------
(* What an acknowledged Set does                                            *)
(*                                                                          *)
(* SetTakesEffect speaks of the last operation about a leaf, the server     *)
(* applies one operation after the other.  The invariant joins them: what   *)
(* the operations that are left make of the copy is what the whole request  *)
(* makes of the tree that the Set began with.                               *)

(* What operation o makes of a leaf it is about. *)
Word(o, l) == IF o.op = "delete" THEN Unset ELSE o.val[l]

------------------------------------------------------------------------------
(* The last word of a sequence of operations *)

LEMMA LessWellFounded ==
  IsWellFoundedOn({ss \in Nat \X Nat : ss[1] < ss[2]}, Nat)
BY NatLessThanWellFounded DEF OpToRel

LEMMA LargestOf ==
  ASSUME NEW n \in Nat, NEW S \in SUBSET (1..n), S # {}
  PROVE  \E m \in S : \A k \in S : k <= m
<1> DEFINE T == {n - k : k \in S}
           R == {ss \in Nat \X Nat : ss[1] < ss[2]}
<1>1. T \subseteq Nat /\ T # {}
  <2>1. \A k \in 1..n : n - k \in Nat
    OBVIOUS
  <2>2. \A k \in S : n - k \in Nat
    BY <2>1
  <2>3. PICK k \in S : TRUE
    OBVIOUS
  <2> QED
    BY <2>2, <2>3, Zenon
<1>2. IsWellFoundedOn(R, Nat)
  BY LessWellFounded
<1>3. PICK x \in T : \A y \in T : <<y, x>> \notin R
  <2> HIDE DEF T, R
  <2> QED
    BY <1>1, <1>2, WFMin
<1>4. PICK m \in S : x = n - m
  BY <1>3
<1>5. ASSUME NEW k \in S PROVE k <= m
  <2>1. n - k \in T /\ n - k \in Nat /\ x \in Nat
    BY <1>1
  <2>2. ~(n - k < x)
    BY <1>3, <2>1
  <2> QED
    BY <1>4, <2>2
<1> QED
  BY <1>5

LEMMA Decides ==
  ASSUME NEW ops, NEW l, NEW x, NEW m \in 1..Len(ops), Len(ops) \in Nat,
         l \in Written(ops[m]),
         \A k \in 1..Len(ops) : l \in Written(ops[k]) => k <= m
  PROVE  LastWord(ops, l, x) = Word(ops[m], l)
<1> DEFINE about == {n \in 1..Len(ops) : l \in Written(ops[n])}
           last == CHOOSE n \in about : \A k \in about : k <= n
<1>1. m \in about /\ \A k \in about : k <= m
  OBVIOUS
<1>2. last \in about /\ \A k \in about : k <= last
  <2> HIDE DEF about
  <2> QED
    BY <1>1
<1>3. last = m
  <2>1. last \in Int /\ m \in Int
    BY <1>2
  <2>2. last <= m /\ m <= last
    <3> HIDE DEF about, last
    <3> QED
      BY <1>1, <1>2
  <2> HIDE DEF last
  <2> QED
    BY <2>1, <2>2
<1>4. LastWord(ops, l, x) = IF about = {} THEN x
                            ELSE IF ops[last].op = "delete" THEN Unset ELSE ops[last].val[l]
  BY DEF LastWord
<1>5. about # {}
  BY <1>1
<1> HIDE DEF about, last
<1> QED
  BY <1>3, <1>4, <1>5 DEF Word

LEMMA Silent ==
  ASSUME NEW ops, NEW l, NEW x,
         \A k \in 1..Len(ops) : l \notin Written(ops[k])
  PROVE  LastWord(ops, l, x) = x
BY DEF LastWord

(* Either no operation is about the leaf, or one is the last that is. *)
LEMMA Last ==
  ASSUME NEW ops \in Seq(Op), NEW l,
         ~\A k \in 1..Len(ops) : l \notin Written(ops[k])
  PROVE  \E m \in 1..Len(ops) :
           /\ l \in Written(ops[m])
           /\ \A k \in 1..Len(ops) : l \in Written(ops[k]) => k <= m
<1> DEFINE about == {n \in 1..Len(ops) : l \in Written(ops[n])}
<1>1. Len(ops) \in Nat
  OBVIOUS
<1>2. about \in SUBSET (1..Len(ops)) /\ about # {}
  OBVIOUS
<1>3. PICK m \in about : \A k \in about : k <= m
  <2> HIDE DEF about
  <2> QED
    BY <1>1, <1>2, LargestOf
<1> QED
  BY <1>3

LEMMA LastWordJoined ==
  ASSUME NEW s \in Seq(Op), NEW t \in Seq(Op), NEW l, NEW x
  PROVE  LastWord(s \o t, l, x) = LastWord(t, l, LastWord(s, l, x))
<1> DEFINE q == s \o t
<1>1. /\ Len(s) \in Nat /\ Len(t) \in Nat
      /\ q \in Seq(Op) /\ Len(q) = Len(s) + Len(t)
      /\ \A n \in 1..Len(s) + Len(t) : q[n] = IF n <= Len(s) THEN s[n] ELSE t[n - Len(s)]
  <2> HIDE DEF Op
  <2> QED
    BY ConcatProperties
<1> HIDE DEF q
<1>2. CASE ~\A k \in 1..Len(t) : l \notin Written(t[k])
  <2>1. PICK m \in 1..Len(t) : /\ l \in Written(t[m])
                              /\ \A k \in 1..Len(t) : l \in Written(t[k]) => k <= m
    BY <1>2, Last
  <2> DEFINE i == Len(s) + m
  <2>2. /\ i \in 1..Len(q) /\ q[i] = t[m]
    <3>1. i \in 1..Len(s) + Len(t) /\ ~(i <= Len(s)) /\ i - Len(s) = m
      BY <1>1
    <3> HIDE DEF i
    <3> QED
      BY <1>1, <3>1
  <2>3. ASSUME NEW k \in 1..Len(q), l \in Written(q[k]) PROVE k <= i
    <3>1. CASE k <= Len(s)
      BY <1>1, <3>1
    <3>2. CASE k > Len(s)
      <4>1. k - Len(s) \in 1..Len(t) /\ q[k] = t[k - Len(s)]
        BY <1>1, <3>2
      <4>2. k - Len(s) <= m
        BY <2>1, <2>3, <4>1
      <4> QED
        BY <1>1, <4>2
    <3> QED
      BY <1>1, <3>1, <3>2
  <2>4. LastWord(q, l, x) = Word(t[m], l)
    <3> HIDE DEF i
    <3>1. Len(q) \in Nat /\ l \in Written(q[i])
      BY <1>1, <2>1, <2>2
    <3> QED
      BY <2>2, <2>3, <3>1, Decides
  <2>5. LastWord(t, l, LastWord(s, l, x)) = Word(t[m], l)
    BY <1>1, <2>1, Decides
  <2> QED
    BY <2>4, <2>5 DEF q
<1>3. CASE /\ \A k \in 1..Len(t) : l \notin Written(t[k])
           /\ ~\A k \in 1..Len(s) : l \notin Written(s[k])
  <2>1. PICK m \in 1..Len(s) : /\ l \in Written(s[m])
                              /\ \A k \in 1..Len(s) : l \in Written(s[k]) => k <= m
    BY <1>3, Last
  <2>2. /\ m \in 1..Len(q) /\ q[m] = s[m]
    BY <1>1
  <2>3. ASSUME NEW k \in 1..Len(q), l \in Written(q[k]) PROVE k <= m
    <3>1. CASE k <= Len(s)
      BY <1>1, <2>1, <2>3, <3>1
    <3>2. CASE k > Len(s)
      <4>1. k - Len(s) \in 1..Len(t) /\ q[k] = t[k - Len(s)]
        BY <1>1, <3>2
      <4> QED
        BY <1>3, <2>3, <4>1
    <3> QED
      BY <1>1, <3>1, <3>2
  <2>4. LastWord(q, l, x) = Word(s[m], l)
    <3> HIDE DEF q
    <3>1. l \in Written(q[m])
      BY <2>1, <2>2
    <3>2. \A k \in 1..Len(q) : l \in Written(q[k]) => k <= m
      BY <2>3
    <3>3. LastWord(q, l, x) = Word(q[m], l)
      BY <1>1, <2>2, <3>1, <3>2, Decides
    <3> QED
      BY <2>2, <3>3
  <2>5. LastWord(s, l, x) = Word(s[m], l)
    BY <1>1, <2>1, Decides
  <2>6. LastWord(t, l, LastWord(s, l, x)) = LastWord(s, l, x)
    BY <1>3, Silent
  <2> QED
    BY <2>4, <2>5, <2>6 DEF q
<1>4. CASE /\ \A k \in 1..Len(t) : l \notin Written(t[k])
           /\ \A k \in 1..Len(s) : l \notin Written(s[k])
  <2>1. ASSUME NEW k \in 1..Len(q) PROVE l \notin Written(q[k])
    <3>1. CASE k <= Len(s)
      BY <1>1, <1>4, <3>1
    <3>2. CASE k > Len(s)
      <4>1. k - Len(s) \in 1..Len(t) /\ q[k] = t[k - Len(s)]
        BY <1>1, <3>2
      <4> QED
        BY <1>4, <4>1
    <3> QED
      BY <1>1, <3>1, <3>2
  <2> QED
    BY <1>4, <2>1, Silent DEF q
<1> QED
  BY <1>2, <1>3, <1>4

(* What one operation makes of a leaf is the first word. *)
LEMMA LastWordTail ==
  ASSUME NEW s \in Seq(Op), s # <<>>, NEW t \in Tree, NEW l \in Leaf
  PROVE  LastWord(s, l, t[l]) = LastWord(Tail(s), l, After(Head(s), t)[l])
<1> DEFINE o == Head(s)
           u == <<o>>
<1>1. o \in Op /\ Tail(s) \in Seq(Op) /\ u \in Seq(Op) /\ s = u \o Tail(s)
  <2> HIDE DEF Op
  <2> QED
    BY HeadTailAppend
<1>2. Len(u) = 1 /\ u[1] = o
  OBVIOUS
<1>3. LastWord(u, l, t[l]) = After(o, t)[l]
  <2>1. After(o, t)[l] = IF l \in Written(o) THEN Word(o, l) ELSE t[l]
    BY DEF After, Word
  <2> HIDE DEF o, u
  <2>2. CASE l \in Written(o)
    BY <1>2, <2>1, <2>2, Decides
  <2>3. CASE l \notin Written(o)
    BY <1>2, <2>1, <2>3, Silent
  <2> QED
    BY <2>2, <2>3
<1> HIDE DEF o, u
<1> DEFINE r == Tail(s)
           y == t[l]
<1>4. u \in Seq(Op) /\ r \in Seq(Op) /\ s = u \o r
  BY <1>1
<1>5. LastWord(u, l, y) = After(o, t)[l]
  BY <1>3
<1> HIDE DEF r, y
<1>6. \A a \in Seq(Op) : \A b \in Seq(Op) : \A x :
        LastWord(a \o b, l, x) = LastWord(b, l, LastWord(a, l, x))
  BY LastWordJoined
<1>7. LastWord(u \o r, l, y) = LastWord(r, l, LastWord(u, l, y))
  BY <1>4, <1>6, Zenon
<1>8. LastWord(s, l, y) = LastWord(r, l, After(o, t)[l])
  BY <1>4, <1>5, <1>7, Zenon
<1> QED
  BY <1>8, Zenon DEF o, r, y

------------------------------------------------------------------------------
(* The invariant *)

Applying(h) == set[h].pc \in {"op", "create", "write"}

(* What is left to do makes of the copy what the request makes of the tree  *)
(* that the Set began with.                                                 *)
Progress(h) ==
  /\ Active(h) => set[h].reply = "none"
  /\ Applying(h) =>
       /\ set[h].req \in Requests
       /\ \A l \in Leaf : LastWord(set[h].ops, l, set[h].tree[l]) =
                         LastWord(Ordered(set[h].req), l, set[h].base[l])
ProgressInv == \A h \in Handler : Progress(h)

(* A step that leaves the Set of g where it is. *)
Carries(g) ==
  /\ Active(g)' => Active(g)
  /\ Applying(g)' => Applying(g) /\ set'[g].tree = set[g].tree
  /\ set'[g].ops = set[g].ops /\ set'[g].req = set[g].req
  /\ set'[g].base = set[g].base /\ set'[g].reply = set[g].reply

LEMMA Carried ==
  ASSUME NEW g \in Handler, Progress(g), Carries(g)
  PROVE  Progress(g)'
BY Zenon DEF Progress, Carries

LEMMA Ended ==
  ASSUME NEW g \in Handler, NEW reply, set'[g] = Served(reply)
  PROVE  Progress(g)'
BY DEF Progress, Active, Applying, Served

(* The handlers that a step of h does not touch. *)
LEMMA OthersCarried ==
  ASSUME NEW h \in Handler, Untouched(h), ProgressInv, Progress(h)'
  PROVE  ProgressInv'
<1>1. ASSUME NEW g \in Handler \ {h} PROVE Progress(g)'
  <2>1. set'[g] = set[g] /\ Progress(g)
    BY DEF Untouched, ProgressInv
  <2>2. Carries(g)
    BY <2>1 DEF Carries, Active, Applying
  <2> QED
    BY <2>1, <2>2, Carried
<1> QED
  BY <1>1 DEF ProgressInv

(* One operation less to do, and the copy is as the operation leaves it. *)
LEMMA OpDone ==
  ASSUME TypeOK, NEW h \in Handler, AtOp(h), Progress(h), NEW w, NEW p,
         set' = [set EXCEPT ![h].pc = p, ![h].tree = NextTree(h),
                            ![h].ops = Tail(@), ![h].wrote = w]
  PROVE  Progress(h)' /\ Untouched(h)
<1>1. set[h] \in SetCall /\ set[h].pc = "op" /\ set[h].ops # <<>>
  BY DEF TypeOK, AtOp
<1>2. /\ set'[h].ops = Tail(set[h].ops) /\ set'[h].tree = NextTree(h)
      /\ set'[h].req = set[h].req /\ set'[h].base = set[h].base
      /\ set'[h].reply = set[h].reply
  BY <1>1 DEF TypeOK, SetCall
<1>3. ASSUME NEW l \in Leaf
      PROVE  LastWord(set'[h].ops, l, set'[h].tree[l]) =
             LastWord(set[h].ops, l, set[h].tree[l])
  <2>1. set[h].ops \in Seq(Op) /\ set[h].tree \in Tree
    BY <1>1 DEF SetCall
  <2>2. LastWord(set[h].ops, l, set[h].tree[l]) =
        LastWord(Tail(set[h].ops), l, NextTree(h)[l])
    BY <1>1, <2>1, LastWordTail DEF NextTree
  <2> QED
    BY <1>2, <2>2, Zenon
<1>4. Active(h) /\ Applying(h)
  BY <1>1 DEF Active, Applying
<1>5. Progress(h)'
  <2>1. set[h].reply = "none" /\ set[h].req \in Requests
    BY <1>4 DEF Progress
  <2>2. \A l \in Leaf : LastWord(set'[h].ops, l, set'[h].tree[l]) =
                      LastWord(Ordered(set'[h].req), l, set'[h].base[l])
    BY <1>2, <1>3, <1>4, Zenon DEF Progress
  <2> QED
    BY <1>2, <2>1, <2>2, Zenon DEF Progress
<1> QED
  BY <1>5 DEF Untouched, TypeOK

LEMMA SetStepProgress ==
  ASSUME TypeOK, ProgressInv, NEW h \in Handler, SetStep(h)
  PROVE  ProgressInv'
<1>0. Progress(h) /\ set[h] \in SetCall
  BY DEF ProgressInv, TypeOK
<1>1. ASSUME NEW reply, set' = [set EXCEPT ![h] = Served(reply)]
      PROVE  ProgressInv'
  <2>1. set'[h] = Served(reply) /\ Untouched(h)
    BY <1>1 DEF TypeOK, Untouched
  <2> QED
    BY <2>1, Ended, OthersCarried
<1>2. ASSUME NEW p \in {"op", "write", "undo"},
             NEW w \in {"no", "latest", "older"}, Applying(h),
             set' = [set EXCEPT ![h].pc = p, ![h].wrote = w]
      PROVE  ProgressInv'
  <2>1. /\ set'[h].ops = set[h].ops /\ set'[h].req = set[h].req
        /\ set'[h].base = set[h].base /\ set'[h].reply = set[h].reply
        /\ set'[h].tree = set[h].tree /\ Untouched(h)
    BY <1>0, <1>2 DEF TypeOK, SetCall, Untouched
  <2>2. Carries(h)
    BY <1>2, <2>1 DEF Carries, Active, Applying
  <2> QED
    BY <1>0, <2>1, <2>2, Carried, OthersCarried
<1>3. CASE OpRefused(h) \/ UndoFails(h)
  BY <1>1, <1>3 DEF OpRefused, UndoFails, Fails
<1>4. CASE OpApplied(h)
  <2>1. set' = [set EXCEPT ![h].pc = "create", ![h].tree = NextTree(h),
                           ![h].ops = Tail(@), ![h].wrote = set[h].wrote]
    BY <1>0, <1>4 DEF OpApplied, SetCall, TypeOK
  <2>2. AtOp(h)
    BY <1>4 DEF OpApplied
  <2> QED
    BY <1>0, <2>1, <2>2, OpDone, OthersCarried
<1>5. CASE DeletedQuietly(h)
  <2>1. AtOp(h) /\ set[h].pc = "op"
    BY <1>5 DEF DeletedQuietly, AtOp
  <2>2. PICK w : set' = [set EXCEPT ![h].pc = "op", ![h].tree = NextTree(h),
                           ![h].ops = Tail(@), ![h].wrote = w]
    <3> DEFINE w == IF set[h].wrote = "latest" /\ NextTree(h) # set[h].tree
                      THEN "older" ELSE set[h].wrote
    <3>1. set' = [set EXCEPT ![h].tree = NextTree(h), ![h].ops = Tail(@),
                             ![h].wrote = w]
      BY <1>5 DEF DeletedQuietly
    <3> HIDE DEF w
    <3>2. set' = [set EXCEPT ![h].pc = "op", ![h].tree = NextTree(h),
                             ![h].ops = Tail(@), ![h].wrote = w]
      <4> DEFINE n == [set[h] EXCEPT !.tree = NextTree(h), !.ops = Tail(@),
                                     !.wrote = w]
                 o == [set[h] EXCEPT !.pc = "op", !.tree = NextTree(h),
                                     !.ops = Tail(@), !.wrote = w]
      <4>1. set \in [Handler -> SetCall] /\ set[h] \in SetCall
        BY <1>0 DEF TypeOK
      <4>2. n = o
        BY <2>1, <4>1 DEF SetCall
      <4>3. set' = [set EXCEPT ![h] = n]
        BY <3>1, <4>1
      <4>4. set' = [set EXCEPT ![h] = o]
        BY <4>2, <4>3, Zenon
      <4> QED
        BY <4>1, <4>4
    <3> QED
      BY <3>2
  <2> QED
    BY <1>0, <2>1, <2>2, OpDone, OthersCarried
<1>6. CASE CreateFile(h)
  <2>1. Applying(h) /\ set' = [set EXCEPT ![h].pc = "write", ![h].wrote = "older"]
    BY <1>6 DEF CreateFile, Applying
  <2> QED
    BY <1>2, <2>1
<1>7. CASE CreateFails(h)
  <2>1. set' = [set EXCEPT ![h].pc = "undo", ![h].wrote = set[h].wrote]
    BY <1>0, <1>7 DEF CreateFails, SetCall, TypeOK
  <2>2. Applying(h) /\ set[h].wrote \in {"no", "latest", "older"}
    BY <1>0, <1>7 DEF CreateFails, Applying, SetCall
  <2> QED
    BY <1>2, <2>1, <2>2
<1>8. CASE WriteFile(h)
  <2>1. Applying(h) /\ set' = [set EXCEPT ![h].pc = "op", ![h].wrote = "latest"]
    BY <1>8 DEF WriteFile, Applying
  <2> QED
    BY <1>2, <2>1
<1>9. CASE WriteLost(h)
  <2>1. CASE set[h].pc = "write"
    <3>1. set' = [set EXCEPT ![h].pc = "op", ![h].wrote = set[h].wrote]
      BY <1>0, <1>9, <2>1 DEF WriteLost, SetCall, TypeOK
    <3>2. Applying(h) /\ set[h].wrote \in {"no", "latest", "older"}
      BY <1>0, <2>1 DEF Applying, SetCall
    <3> QED
      BY <1>2, <3>1, <3>2
  <2>2. CASE set[h].pc = "rewrite"
    BY <1>1, <1>9, <2>2 DEF WriteLost
  <2> QED
    BY <1>9, <2>1, <2>2 DEF WriteLost
<1>10. CASE UndoCreate(h)
  <2>1. /\ set[h].pc = "undo" /\ set'[h].pc = "rewrite" /\ Untouched(h)
        /\ set'[h].ops = set[h].ops /\ set'[h].req = set[h].req
        /\ set'[h].base = set[h].base /\ set'[h].reply = set[h].reply
    BY <1>0, <1>10 DEF UndoCreate, TypeOK, SetCall, Untouched
  <2>2. Carries(h)
    BY <2>1 DEF Carries, Active, Applying
  <2> QED
    BY <1>0, <2>1, <2>2, Carried, OthersCarried
<1>11. CASE UndoWrite(h) \/ Publish(h)
  BY <1>1, <1>11 DEF UndoWrite, Publish
<1> QED
  BY <1>3, <1>4, <1>5, <1>6, <1>7, <1>8, <1>9, <1>10, <1>11 DEF SetStep

(* What another Set or a command that begins does to a Set: it is no longer *)
(* alone.                                                                   *)
LEMMA DisturbedCarried ==
  ASSUME TypeOK, ProgressInv, NEW g \in Handler,
         set'[g] = [set[g] EXCEPT !.solo = FALSE]
  PROVE  Progress(g)'
<1>1. set[g] \in SetCall /\ Progress(g)
  BY DEF TypeOK, ProgressInv
<1>2. Carries(g)
  BY <1>1 DEF Carries, Active, Applying, SetCall
<1> QED
  BY <1>1, <1>2, Carried

LEMMA BeginProgress ==
  ASSUME TypeOK, ProgressInv, NEW h \in Handler, SetBegin(h)
  PROVE  ProgressInv'
<1>1. PICK r \in Requests :
        set' = [g \in Handler |-> IF g = h THEN Begun(r, Others(h) = {})
                                 ELSE [set[g] EXCEPT !.solo = FALSE]]
  BY DEF SetBegin
<1>2. Progress(h)'
  <2>1. /\ set'[h].pc = "op" /\ set'[h].reply = "none" /\ set'[h].req = r
        /\ set'[h].ops = Ordered(r) /\ set'[h].tree = config
        /\ set'[h].base = config
    BY <1>1 DEF Begun
  <2> QED
    BY <2>1, Zenon DEF Progress
<1>3. ASSUME NEW g \in Handler \ {h} PROVE Progress(g)'
  BY <1>1, DisturbedCarried
<1> QED
  BY <1>2, <1>3 DEF ProgressInv

LEMMA ProgressStep == TypeOK /\ ProgressInv /\ [Next]_vars => ProgressInv'
<1> SUFFICES ASSUME TypeOK, ProgressInv, [Next]_vars PROVE ProgressInv'
  OBVIOUS
<1>1. ASSUME UNCHANGED set PROVE ProgressInv'
  <2>1. \A g \in Handler : Carries(g) /\ Progress(g)
    BY <1>1 DEF Carries, Active, Applying, ProgressInv
  <2> QED
    BY <2>1, Carried DEF ProgressInv
<1>2. CASE UNCHANGED vars
  BY <1>1, <1>2 DEF vars
<1>3. ASSUME NEW r \in Reader, GetBegin(r) \/ GetPath(r) PROVE ProgressInv'
  BY <1>1, <1>3 DEF GetBegin, GetPath
<1>4. CASE CliEdit
  <2>1. \A g \in Handler : set'[g] = [set[g] EXCEPT !.solo = FALSE]
    BY <1>4 DEF CliEdit, Disturbed
  <2> QED
    BY <2>1, DisturbedCarried DEF ProgressInv
<1>5. CASE Restart
  <2>1. \A g \in Handler : set'[g] = Served("none")
    BY <1>5 DEF Restart
  <2> QED
    BY <2>1, Ended DEF ProgressInv
<1> QED
  BY <1>2, <1>3, <1>4, <1>5, BeginProgress, SetStepProgress DEF Next

------------------------------------------------------------------------------
(* The theorem *)

LEMMA OrderedWords ==
  ASSUME NEW r \in Requests, NEW l, NEW x
  PROVE  LastWord(Ordered(r), l, x) =
         LastWord(r.update, l, LastWord(r.replace, l, LastWord(r.delete, l, x)))
<1>1. r.delete \in Seq(OpsNamed("delete")) /\ r.replace \in Seq(OpsNamed("replace"))
      /\ r.update \in Seq(OpsNamed("update"))
  BY RequestAssumption
<1>2. \A name : OpsNamed(name) \subseteq Op
  BY DEF OpsNamed
<1> DEFINE d == r.delete
           p == r.replace
           u == r.update
<1>3. d \in Seq(Op) /\ p \in Seq(Op) /\ u \in Seq(Op)
  BY <1>1, <1>2
<1>4. Ordered(r) = (d \o p) \o u
  BY DEF Ordered
<1>5. LastWord(Ordered(r), l, x) = LastWord(u, l, LastWord(p, l, LastWord(d, l, x)))
  <2> HIDE DEF d, p, u, Op
  <2>1. d \o p \in Seq(Op)
    BY <1>3
  <2>2. \A a \in Seq(Op) : \A b \in Seq(Op) :
          LastWord(a \o b, l, x) = LastWord(b, l, LastWord(a, l, x))
    BY LastWordJoined
  <2>3. LastWord((d \o p) \o u, l, x) = LastWord(u, l, LastWord(d \o p, l, x))
    BY <1>3, <2>1, <2>2, Zenon
  <2>4. LastWord(d \o p, l, x) = LastWord(p, l, LastWord(d, l, x))
    BY <1>3, <2>2, Zenon
  <2> QED
    BY <1>4, <2>3, <2>4, Zenon
<1> QED
  BY <1>5

(* Only Publish acknowledges. *)
LEMMA OnlyPublish ==
  ASSUME TypeOK, ProgressInv, [Next]_vars, NEW h \in Handler, Acknowledged(h)
  PROVE  Publish(h)
<1>1. /\ Active(h) /\ set[h].reply = "none" /\ set'[h].reply = "ok"
      /\ set[h] \in SetCall
  BY DEF Acknowledged, ProgressInv, Progress, TypeOK
<1>2. ASSUME UNCHANGED set PROVE FALSE
  BY <1>1, <1>2
<1>3. CASE UNCHANGED vars
  BY <1>2, <1>3 DEF vars
<1>4. ASSUME NEW r \in Reader, GetBegin(r) \/ GetPath(r) PROVE FALSE
  BY <1>2, <1>4 DEF GetBegin, GetPath
<1>5. CASE CliEdit
  BY <1>1, <1>5 DEF CliEdit, Disturbed, SetCall
<1>6. CASE Restart
  BY <1>1, <1>6 DEF Restart, Served
<1>7. ASSUME NEW g \in Handler, SetBegin(g) PROVE FALSE
  <2>1. g # h
    BY <1>1, <1>7 DEF SetBegin
  <2>2. set'[h] = [set[h] EXCEPT !.solo = FALSE]
    BY <1>7, <2>1 DEF SetBegin
  <2> QED
    BY <1>1, <2>2 DEF SetCall
<1>8. ASSUME NEW g \in Handler, SetStep(g), g # h PROVE FALSE
  <2>1. set'[h] = set[h]
    BY <1>8 DEF SetStep, OpRefused, OpApplied, DeletedQuietly, CreateFile,
       CreateFails, WriteFile, WriteLost, UndoCreate, UndoFails, UndoWrite,
       Publish, Fails, TypeOK
  <2> QED
    BY <1>1, <2>1
<1>9. ASSUME SetStep(h), ~Publish(h) PROVE FALSE
  <2>1. CASE OpRefused(h) \/ UndoFails(h) \/ UndoWrite(h)
    BY <1>1, <2>1 DEF OpRefused, UndoFails, UndoWrite, Fails, Served, TypeOK
  <2>2. CASE WriteLost(h)
    BY <1>1, <2>2 DEF WriteLost, Served, TypeOK, SetCall
  <2>3. CASE OpApplied(h) \/ DeletedQuietly(h) \/ CreateFile(h)
             \/ CreateFails(h) \/ WriteFile(h) \/ UndoCreate(h)
    BY <1>1, <2>3 DEF OpApplied, DeletedQuietly, CreateFile, CreateFails,
       WriteFile, UndoCreate, TypeOK, SetCall
  <2> QED
    BY <1>9, <2>1, <2>2, <2>3 DEF SetStep
<1> QED
  BY <1>3, <1>4, <1>5, <1>6, <1>7, <1>8, <1>9 DEF Next

(* What is published is what the whole request makes of the copied tree. *)
LEMMA PublishedOutcome ==
  ASSUME TypeOK, ProgressInv, NEW h \in Handler, Publish(h)
  PROVE  config' = Outcome(set[h].req, set[h].base)
<1>1. /\ set[h].pc = "op" /\ set[h].ops = <<>>
      /\ config' = set[h].tree /\ set[h] \in SetCall
  BY DEF Publish, Replaced, Published, TypeOK
<1>2. /\ set[h].req \in Requests
      /\ \A l \in Leaf : LastWord(set[h].ops, l, set[h].tree[l]) =
                        LastWord(Ordered(set[h].req), l, set[h].base[l])
  BY <1>1 DEF ProgressInv, Progress, Applying
<1>3. ASSUME NEW l \in Leaf
      PROVE  config'[l] = Outcome(set[h].req, set[h].base)[l]
  <2>1. \A k \in 1..Len(set[h].ops) : l \notin Written(set[h].ops[k])
    BY <1>1
  <2>2. set[h].tree[l] = LastWord(Ordered(set[h].req), l, set[h].base[l])
    BY <1>2, <2>1, Silent
  <2> QED
    BY <1>1, <1>2, <2>2, OrderedWords DEF Outcome
<1> QED
  BY <1>1, <1>3 DEF SetCall, Tree, Outcome

LEMMA EffectStep == GInv /\ ProgressInv /\ [Next]_vars => TakesEffect
<1> SUFFICES ASSUME GInv, ProgressInv, [Next]_vars,
                    NEW h \in Handler, Acknowledged(h), set[h].solo
             PROVE  config' = Outcome(set[h].req, config)
  BY DEF TakesEffect
<1>1. TypeOK /\ Publish(h)
  BY OnlyPublish DEF GInv
<1>2. set[h].base = config
  BY DEF GInv, HandlerInv, Alone, Acknowledged
<1> QED
  BY <1>1, <1>2, PublishedOutcome

(* A Set that is acknowledged and that nobody disturbed leaves the tree as  *)
(* its deletes, replaces and updates say, in this order (server.go:537).    *)
THEOREM EffectTaken == Spec => SetTakesEffect
<1>1. Init => ProgressInv
  BY Ended, ServedType DEF Init, ProgressInv, Progress, Active, Applying
<1>2. GInv => TypeOK
  BY DEF GInv
<1> QED
  BY <1>1, <1>2, GInit, GStep, ProgressStep, EffectStep, PTL
     DEF Spec, SetTakesEffect

------------------------------------------------------------------------------
(* The abstract datastore                                                   *)
(*                                                                          *)
(* A Set begins, replaces the tree when it is published, and is refused     *)
(* wherever it ends otherwise; all that it does to its copy and to the file *)
(* between is invisible.  That what it publishes is the outcome of its      *)
(* request is what ProgressInv says of a Set with nothing left to do.       *)

abstractVars == <<config, Calls, Replies, Answers>>

(* A step that neither begins nor ends the Set of g. *)
Keeps(g) ==
  /\ Active(g)' = Active(g) /\ set'[g].req = set[g].req
  /\ set'[g].base = set[g].base /\ set'[g].reply = set[g].reply

LEMMA Kept ==
  ASSUME \A g \in Handler : Keeps(g)
  PROVE  Calls' = Calls /\ Replies' = Replies
BY DEF Calls, Replies, Keeps

LEMMA EndedAt ==
  ASSUME TypeOK, NEW h \in Handler, Active(h), NEW reply \in {"none", "ok", "error"},
         set' = [set EXCEPT ![h] = Served(reply)]
  PROVE  /\ Calls[h] = {[req |-> set[h].req, from |-> set[h].base]}
         /\ Calls' = [Calls EXCEPT ![h] = {}]
         /\ Replies' = [Replies EXCEPT ![h] = reply]
<1>1. /\ \A g \in Handler \ {h} : set'[g] = set[g]
      /\ ~Active(h)' /\ set'[h].reply = reply
  BY ExitEffect, ServedType DEF TypeOK, Untouched, Active
<1>2. ASSUME NEW g \in Handler
      PROVE  Calls'[g] = [Calls EXCEPT ![h] = {}][g]
  <2>1. CASE g = h
    BY <1>1, <2>1 DEF Calls
  <2>2. CASE g # h
    BY <1>1, <2>2 DEF Calls, Active
  <2> QED
    BY <2>1, <2>2
<1>3. Calls' = [Calls EXCEPT ![h] = {}]
  BY <1>2 DEF Calls
<1>4. Calls[h] = {[req |-> set[h].req, from |-> set[h].base]}
  BY DEF Calls
<1>5. Replies' = [Replies EXCEPT ![h] = reply]
  <2>1. ASSUME NEW g \in Handler
        PROVE  Replies'[g] = [Replies EXCEPT ![h] = reply][g]
    BY <1>1 DEF Replies
  <2> QED
    BY <2>1 DEF Replies
<1> QED
  BY <1>3, <1>4, <1>5

LEMMA RefusedImplements ==
  ASSUME TypeOK, NEW h \in Handler, Active(h), UNCHANGED <<config, get>>,
         set' = [set EXCEPT ![h] = Served("error")]
  PROVE  D!Refuse(h)
<1>1. /\ Calls[h] # {} /\ Calls' = [Calls EXCEPT ![h] = {}]
      /\ Replies' = [Replies EXCEPT ![h] = "error"]
  BY EndedAt
<1>2. Answers' = Answers
  BY DEF Answers
<1> QED
  BY <1>1, <1>2 DEF D!Refuse

LEMMA PublishImplements ==
  ASSUME TypeOK, ProgressInv, NEW h \in Handler, Publish(h)
  PROVE  D!Replace(h)
<1>1. /\ Active(h) /\ config' \in Valid
      /\ set' = [set EXCEPT ![h] = Served("ok")]
  BY DEF Publish, Replaced, Published, ToGoStruct, Active
<1>2. /\ Calls[h] = {[req |-> set[h].req, from |-> set[h].base]}
      /\ Calls' = [Calls EXCEPT ![h] = {}]
      /\ Replies' = [Replies EXCEPT ![h] = "ok"]
  BY <1>1, EndedAt
<1>3. \E c \in Calls[h] : config' = Outcome(c.req, c.from)
  BY <1>2, PublishedOutcome
<1>4. Answers' = Answers
  BY DEF Publish, Replaced, Answers, TypeOK, GetCall
<1> QED
  BY <1>1, <1>2, <1>3, <1>4 DEF D!Replace

LEMMA BeginImplements ==
  ASSUME TypeOK, NEW h \in Handler, SetBegin(h)
  PROVE  D!Begin(h)
<1> DEFINE others == Others(h) = {}
<1>1. PICK q \in Requests :
        set' = [g \in Handler |-> IF g = h THEN Begun(q, others)
                                 ELSE [set[g] EXCEPT !.solo = FALSE]]
  BY DEF SetBegin
<1> HIDE DEF others
<1>2. ~Active(h) /\ UNCHANGED <<config, get>>
  BY DEF SetBegin
<1>3. /\ set'[h].pc = "op" /\ set'[h].req = q /\ set'[h].base = config
      /\ set'[h].reply = "none"
  BY <1>1 DEF Begun
<1>4. ASSUME NEW g \in Handler \ {h} PROVE Keeps(g)
  BY <1>1 DEF TypeOK, SetCall, Keeps, Active
<1>5. Calls[h] = {} /\ Calls' = [Calls EXCEPT ![h] = {[req |-> q, from |-> config]}]
  BY <1>2, <1>3, <1>4 DEF Calls, Active, Keeps
<1>6. Replies' = [Replies EXCEPT ![h] = "none"]
  BY <1>3, <1>4 DEF Replies, Keeps
<1>7. Answers' = Answers
  BY <1>2 DEF Answers
<1> QED
  BY <1>2, <1>5, <1>6, <1>7 DEF D!Begin

LEMMA SetStepImplements ==
  ASSUME TypeOK, ProgressInv, NEW h \in Handler, SetStep(h)
  PROVE  [D!Replace(h) \/ D!Refuse(h)]_abstractVars
<1>0. set[h] \in SetCall
  BY DEF TypeOK
<1>1. ASSUME Untouched(h), Keeps(h), UNCHANGED <<config, get>>
      PROVE  UNCHANGED abstractVars
  <2>1. \A g \in Handler : Keeps(g)
    BY <1>1 DEF Untouched, Keeps, Active
  <2> QED
    BY <1>1, <2>1, Kept DEF abstractVars, Answers
<1>2. CASE OpRefused(h) \/ UndoFails(h) \/ UndoWrite(h)
  BY <1>2, RefusedImplements DEF OpRefused, UndoFails, UndoWrite, Fails, AtOp, Active
<1>3. CASE WriteLost(h)
  <2>1. CASE set[h].pc = "rewrite"
    BY <1>3, <2>1, RefusedImplements DEF WriteLost, Active
  <2>2. CASE set[h].pc = "write"
    <3>1. Untouched(h) /\ Keeps(h) /\ UNCHANGED <<config, get>>
      BY <1>0, <1>3, <2>2 DEF WriteLost, Untouched, Keeps, Active, TypeOK, SetCall
    <3> QED
      BY <1>1, <3>1
  <2> QED
    BY <1>3, <2>1, <2>2 DEF WriteLost
<1>4. CASE OpApplied(h) \/ DeletedQuietly(h)
  <2>1. set[h].pc = "op" /\ UNCHANGED <<config, get>>
    BY <1>4 DEF OpApplied, DeletedQuietly, AtOp
  <2>2. Untouched(h) /\ Keeps(h)
    BY <1>0, <1>4, <2>1 DEF OpApplied, DeletedQuietly, Untouched, Keeps, Active,
       TypeOK, SetCall
  <2> QED
    BY <1>1, <2>1, <2>2
<1>5. CASE CreateFile(h) \/ CreateFails(h) \/ WriteFile(h) \/ UndoCreate(h)
  <2>1. Untouched(h) /\ Keeps(h) /\ UNCHANGED <<config, get>>
    BY <1>0, <1>5 DEF CreateFile, CreateFails, WriteFile, UndoCreate, Untouched,
       Keeps, Active, TypeOK, SetCall
  <2> QED
    BY <1>1, <2>1
<1> QED
  BY <1>2, <1>3, <1>4, <1>5, PublishImplements DEF SetStep

LEMMA GetImplements ==
  ASSUME TypeOK, NEW r \in Reader, GetBegin(r) \/ GetPath(r)
  PROVE  D!Ask(r) \/ D!Answer(r)
<1>1. UNCHANGED <<config, Calls, Replies>>
  BY DEF GetBegin, GetPath, Calls, Replies, Active
<1>2. CASE GetBegin(r)
  <2>1. PICK q \in Queries :
          get' = [get EXCEPT ![r] = [Answered EXCEPT !.left = q, !.held = {config}]]
    BY <1>2 DEF GetBegin
  <2>2. get'[r].got = D!NoAnswer /\ \A s \in Reader \ {r} : get'[s] = get[s]
    BY <2>1 DEF TypeOK, Answered, D!NoAnswer
  <2>3. Answers' = [Answers EXCEPT ![r] = D!NoAnswer]
    BY <2>2 DEF Answers
  <2> QED
    BY <1>1, <2>3 DEF D!Ask
<1>3. CASE GetPath(r)
  <2> DEFINE s == UNION Head(get[r].left)
             now == [l \in Leaf |-> IF l \in s THEN config[l] ELSE get[r].got[l]]
  <2>1. s \in SUBSET Leaf
    <3>1. get[r].left \in Seq(Path) /\ get[r].left # <<>>
      BY <1>3 DEF GetPath, TypeOK, GetCall
    <3>2. Head(get[r].left) \in Path
      BY <3>1
    <3> QED
      BY <3>2, PathAssumption
  <2>2. get'[r].got = now /\ \A u \in Reader \ {r} : get'[u] = get[u]
    BY <1>3 DEF GetPath, TypeOK, GetCall, Source
  <2>3. Answers[r] = get[r].got /\ Answers' = [Answers EXCEPT ![r] = now]
    <3> HIDE DEF now
    <3> QED
      BY <2>2 DEF Answers
  <2>4. Answers' = [Answers EXCEPT ![r] =
                      [l \in Leaf |-> IF l \in s THEN config[l] ELSE @[l]]]
    <3> HIDE DEF s
    <3> QED
      BY <2>3
  <2> QED
    BY <1>1, <2>1, <2>4 DEF D!Answer
<1> QED
  BY <1>2, <1>3

LEMMA RestartImplements ==
  ASSUME TypeOK, Restart
  PROVE  D!Restart
<1>1. config' \in Valid
  BY TreeAssumption DEF Restart
<1>2. \A h \in Handler : set'[h] = Served("none")
  BY DEF Restart
<1>3. \A r \in Reader : get'[r] = Answered
  BY DEF Restart
<1>4. Calls' = [h \in Handler |-> {}] /\ Replies' = [h \in Handler |-> "none"]
  BY <1>2, ServedType DEF Calls, Replies, Active
<1>5. Answers' = [r \in Reader |-> D!NoAnswer]
  BY <1>3 DEF Answers, Answered, D!NoAnswer
<1> QED
  BY <1>1, <1>4, <1>5 DEF D!Restart

LEMMA DatastoreStep ==
  TypeOK /\ ProgressInv /\ [Next]_vars => [D!Next]_abstractVars
<1> SUFFICES ASSUME TypeOK, ProgressInv, [Next]_vars
             PROVE  D!Next \/ UNCHANGED abstractVars
  OBVIOUS
<1>1. CASE UNCHANGED vars
  BY <1>1 DEF vars, abstractVars, Calls, Replies, Answers, Active
<1>2. ASSUME NEW h \in Handler, SetBegin(h) PROVE D!Next
  BY <1>2, BeginImplements DEF D!Next
<1>3. ASSUME NEW h \in Handler, SetStep(h) PROVE D!Next \/ UNCHANGED abstractVars
  BY <1>3, SetStepImplements DEF D!Next
<1>4. ASSUME NEW r \in Reader, GetBegin(r) \/ GetPath(r) PROVE D!Next
  BY <1>4, GetImplements DEF D!Next
<1>5. CASE CliEdit
  <2>1. \A g \in Handler : Keeps(g)
    BY <1>5 DEF CliEdit, Disturbed, TypeOK, SetCall, Keeps, Active
  <2> QED
    BY <1>5, <2>1, Kept DEF CliEdit, abstractVars, Answers
<1>6. CASE Restart
  BY <1>6, RestartImplements DEF D!Next
<1> QED
  BY <1>1, <1>2, <1>3, <1>4, <1>5, <1>6 DEF Next

(* However Sets overlap, fail and race with Gets, the oopt command line and *)
(* restarts: srv.config goes in one step from an accepted tree to what a    *)
(* whole request makes of the one that its Set copied (server.go:566-618).  *)
THEOREM ServesDatastore == Spec => ImplementsDatastore
<1>1. Init => ProgressInv
  BY Ended, ServedType DEF Init, ProgressInv, Progress, Active, Applying
<1>2. GInv => TypeOK
  BY DEF GInv
<1>3. Init => D!Init
  BY ServedType DEF Init, D!Init, D!NoAnswer, Calls, Replies, Answers, Active, Answered
<1>4. TypeOK /\ ProgressInv /\ [Next]_vars
        => [D!Next]_<<config, Calls, Replies, Answers>>
  BY DatastoreStep DEF abstractVars
<1>5. Spec => D!Spec
  BY <1>1, <1>2, <1>3, <1>4, GInit, GStep, ProgressStep, PTL DEF Spec, D!Spec
<1> QED
  BY <1>5 DEF ImplementsDatastore
==============================================================================
