------------------------------ MODULE Datastore ------------------------------
(***************************************************************************)
(* What a gNMI target promises its clients about the data, however many of *)
(* them there are, wherever their requests fail and whatever becomes of    *)
(* the file:                                                               *)
(*                                                                         *)
(*   - a Set that is acknowledged replaces, in one step, the whole tree by *)
(*     what its request makes of the tree that it found when it began; one *)
(*     that is refused changes nothing;                                    *)
(*   - a Get answers from the tree, for several leaves at a time, and      *)
(*     never from a tree that no Set has put in place;                     *)
(*   - the tree is always an accepted one, after a restart too.            *)
(*                                                                         *)
(* That the tree is still the one the Set began with is not promised: of   *)
(* two Sets that overlap the later undoes the earlier.                     *)
(***************************************************************************)
CONSTANTS
  Handler,        \* clients that send Sets
  Reader,         \* clients that send Gets
  Leaf,           \* the leaves of a tree
  Requests,       \* the Sets
  Outcome(_, _),  \* what a Set makes of a tree
  Valid,          \* the trees that are accepted
  Initial,        \* the first of them
  Unanswered      \* a leaf that a Get has not answered

VARIABLES
  tree,   \* the tree in force
  call,   \* of each Handler: {} or its request and the tree it began with
  reply,  \* of each Handler: the answer to its last Set
  seen    \* of each Reader: what its last Get has answered so far

NoAnswer == [l \in Leaf |-> Unanswered]

Init ==
  /\ tree = Initial
  /\ call = [h \in Handler |-> {}] /\ reply = [h \in Handler |-> "none"]
  /\ seen = [r \in Reader |-> NoAnswer]

Begin(h) ==
  /\ call[h] = {}
  /\ \E q \in Requests : call' = [call EXCEPT ![h] = {[req |-> q, from |-> tree]}]
  /\ reply' = [reply EXCEPT ![h] = "none"]
  /\ UNCHANGED <<tree, seen>>

Replace(h) ==
  /\ \E c \in call[h] : tree' = Outcome(c.req, c.from)
  /\ tree' \in Valid
  /\ call' = [call EXCEPT ![h] = {}] /\ reply' = [reply EXCEPT ![h] = "ok"]
  /\ UNCHANGED seen

Refuse(h) ==
  /\ call[h] # {}
  /\ call' = [call EXCEPT ![h] = {}] /\ reply' = [reply EXCEPT ![h] = "error"]
  /\ UNCHANGED <<tree, seen>>

Ask(r) ==
  /\ seen' = [seen EXCEPT ![r] = NoAnswer]
  /\ UNCHANGED <<tree, call, reply>>

Answer(r) ==
  /\ \E s \in SUBSET Leaf :
       seen' = [seen EXCEPT ![r] = [l \in Leaf |-> IF l \in s THEN tree[l] ELSE @[l]]]
  /\ UNCHANGED <<tree, call, reply>>

Restart ==
  /\ tree' \in Valid
  /\ call' = [h \in Handler |-> {}] /\ reply' = [h \in Handler |-> "none"]
  /\ seen' = [r \in Reader |-> NoAnswer]

Next ==
  \/ \E h \in Handler : Begin(h) \/ Replace(h) \/ Refuse(h)
  \/ \E r \in Reader : Ask(r) \/ Answer(r)
  \/ Restart

Spec == Init /\ [][Next]_<<tree, call, reply, seen>>
==============================================================================
