----------------------------- MODULE GnmiServer ------------------------------
(***************************************************************************)
(* The gNMI server: the configuration tree in memory, srv.config, and the  *)
(* file config.json that it shares with the oopt command line.             *)
(*                                                                         *)
(* Every request is served by a goroutine of its own and nothing is        *)
(* locked.  A Set copies the tree, applies its operations to the copy one  *)
(* after the other, and at the end makes the copy the tree.  After every   *)
(* operation the whole copy is written to the file by the callback, so     *)
(* the file runs ahead of the tree.  A Get reads srv.config once for every *)
(* path it was asked for.                                                  *)
(*                                                                         *)
(* A tree is what its leaves hold.  A path is the set of the children of   *)
(* the node it names, a child the set of the leaves below it; the path of  *)
(* a leaf has one child with that leaf.  {} is a path that the schema does *)
(* not know.                                                               *)
(***************************************************************************)
EXTENDS Integers, Sequences, FiniteSets

CONSTANTS
  Handler,  \* goroutines that serve Set
  Reader,   \* goroutines that serve Get
  Leaf,     \* the leaves of the schema
  Value,    \* what a leaf can hold
  Unset,    \* a leaf that is not there
  Path,     \* the paths that requests name
  Root,     \* the path with no elements
  Requests, \* the Set requests: [delete, replace, update]
  Queries,  \* the Get requests: sequences of paths
  CliEdits, \* what oopt commands do to config.json: partial functions on Leaf
  Valid,    \* the trees that Validate accepts
  Initial,  \* the configuration when the server is first started
  Empty,    \* config.json just truncated by os.Create
  Mangled   \* config.json that is not a document

Tree == [Leaf -> Value \cup {Unset}]
NoLeaves == [l \in Leaf |-> Unset]
Unreadable == {Empty, Mangled}

(* One operation.  `bare`: the request has the whole path in its prefix and *)
(* none in the operation.                                                   *)
Op == [op : {"delete", "replace", "update"}, path : Path, bare : BOOLEAN,
       val : Tree]
OpsNamed(name) == {o \in Op : o.op = name}

ASSUME TreeAssumption ==
  /\ Unset \notin Value
  /\ Unreadable \cap Tree = {}
  /\ Valid \subseteq Tree
  /\ Initial \in Valid /\ NoLeaves \in Valid

ASSUME PathAssumption ==
  /\ \A p \in Path : UNION p \subseteq Leaf
  /\ Root \in Path /\ UNION Root = Leaf

ASSUME RequestAssumption ==
  /\ \A r \in Requests : /\ r.delete \in Seq(OpsNamed("delete"))
                         /\ r.replace \in Seq(OpsNamed("replace"))
                         /\ r.update \in Seq(OpsNamed("update"))
  /\ \A q \in Queries : q \in Seq(Path)
  /\ \A e \in CliEdits : /\ DOMAIN e \subseteq Leaf
                         /\ \A l \in DOMAIN e : e[l] \in Value \cup {Unset}

VARIABLES
  config, \* srv.config
  file,   \* config.json
  set,    \* the Set each handler serves
  get,    \* the Get each reader serves
  mishap  \* ghost: what has made the file differ from srv.config

vars == <<config, file, set, get, mishap>>

PCs == {"idle", "op", "create", "write", "undo", "rewrite"}

SetCall == [pc    : PCs,
            ops   : Seq(Op),      \* the operations that are left
            tree  : Tree,         \* jsonTree
            req   : Requests \cup {Unset},  \* ghost: the request
            base  : Tree,         \* ghost: srv.config when the Set began
            wrote : {"no", "latest", "older"}, \* ghost: has this Set written
                                  \* the file, and is that its latest tree?
            solo  : BOOLEAN,      \* ghost: no other Set, no oopt command so far
            reply : {"none", "ok", "error"}]

Served(reply) == [pc |-> "idle", ops |-> <<>>, tree |-> NoLeaves, req |-> Unset,
                  base |-> NoLeaves, wrote |-> "no", solo |-> FALSE,
                  reply |-> reply]

GetCall == [left : Seq(Path), got : [Leaf -> Value \cup {Unset, Empty}],
            held : SUBSET Tree]
Answered == [left |-> <<>>, got |-> [l \in Leaf |-> Empty], held |-> {}]

Mishaps == {"overlap", "partial", "root", "fault", "cli", "torn"}

Active(h) == set[h].pc # "idle"
Others(h) == {g \in Handler \ {h} : Active(g)}

(* NewConfigStruct *)
ToGoStructUnchecked(t) == t \in Tree  \* mutant: unmarshals, does not validate
ToGoStruct(t) == t \in Valid

(* The order in which Set goes through its request. *)
OrderedAsListed(r) == r.update \o r.replace \o r.delete  \* mutant: last first
Ordered(r) == r.delete \o r.replace \o r.update

(* gnmiFullPath: without path elements the prefix is forgotten. *)
FullPath(o) == IF o.bare THEN Root ELSE o.path

(* Delete and replace are about everything below the path; update puts the  *)
(* children it is given in the place of the ones that are there.            *)
Written(o) ==
  IF o.op = "update"
    THEN UNION {c \in FullPath(o) : \E l \in c : o.val[l] # Unset}
    ELSE UNION FullPath(o)

AfterDropping(o, t) ==  \* mutant: a deleted leaf leaves the tree altogether
  [l \in IF o.op = "delete" THEN Leaf \ Written(o) ELSE Leaf |->
     IF l \notin Written(o) THEN t[l] ELSE o.val[l]]
After(o, t) ==
  [l \in Leaf |-> IF l \notin Written(o) THEN t[l]
                  ELSE IF o.op = "delete" THEN Unset ELSE o.val[l]]

(* The paths that NewNode does not find, and what is not implemented. *)
Unsupported(o) ==
  \/ o.op # "delete" /\ FullPath(o) = {}
  \/ o.op = "update" /\ FullPath(o) = Root

Init ==
  /\ config = Initial
  /\ file = Initial
  /\ set = [h \in Handler |-> Served("none")]
  /\ get = [r \in Reader |-> Answered]
  /\ mishap = {}

------------------------------------------------------------------------------
(* Set *)

Begun(r, solo) ==
  [pc |-> "op", ops |-> Ordered(r), tree |-> config, req |-> r,
   base |-> config, wrote |-> "no", solo |-> solo, reply |-> "none"]

SetBegin(h) ==
  /\ ~Active(h)
  /\ \E r \in Requests :
       set' = [g \in Handler |-> IF g = h THEN Begun(r, Others(h) = {})
                                ELSE [set[g] EXCEPT !.solo = FALSE]]
  /\ mishap' = IF Others(h) = {} THEN mishap ELSE mishap \cup {"overlap"}
  /\ UNCHANGED <<config, file, get>>

AtOp(h) == set[h].pc = "op" /\ set[h].ops # <<>>
NextTree(h) == After(Head(set[h].ops), set[h].tree)

(* The Set ends with an error; what it has written stays in the file. *)
Fails(h) ==
  /\ set' = [set EXCEPT ![h] = Served("error")]
  /\ mishap' = IF set[h].wrote = "no" THEN mishap ELSE mishap \cup {"partial"}
  /\ UNCHANGED <<config, get>>

OpRefused(h) ==
  /\ AtOp(h)
  /\ Unsupported(Head(set[h].ops)) \/ ~ToGoStruct(NextTree(h))
  /\ Fails(h)
  /\ UNCHANGED file

(* The operation goes through and the callback is due. *)
OpApplied(h) ==
  /\ AtOp(h)
  /\ ~Unsupported(Head(set[h].ops))
  /\ Head(set[h].ops).op = "delete" => FullPath(Head(set[h].ops)) # Root
  /\ ToGoStruct(NextTree(h))
  /\ set' = [set EXCEPT ![h].pc = "create", ![h].tree = NextTree(h),
                        ![h].ops = Tail(@)]
  /\ UNCHANGED <<config, file, get, mishap>>

(* A delete without callback: of the root, or of something below a node     *)
(* that is not there.  (A leaf that is not there is deleted all the same.)  *)
DeletedQuietly(h) ==
  /\ AtOp(h)
  /\ Head(set[h].ops).op = "delete"
  /\ FullPath(Head(set[h].ops)) = Root \/ NextTree(h) = set[h].tree
  /\ set' = [set EXCEPT ![h].tree = NextTree(h), ![h].ops = Tail(@),
                        ![h].wrote = IF @ = "latest" /\ NextTree(h) # set[h].tree
                                       THEN "older" ELSE @]
  /\ UNCHANGED <<config, file, get, mishap>>

(* callback: os.Create truncates the file. *)
CreateFile(h) ==
  /\ set[h].pc = "create"
  /\ file' = Empty
  /\ set' = [set EXCEPT ![h].pc = "write", ![h].wrote = "older"]
  /\ UNCHANGED <<config, get, mishap>>

(* os.Create fails: the callback is tried again with srv.config. *)
CreateFails(h) ==
  /\ set[h].pc = "create"
  /\ set' = [set EXCEPT ![h].pc = "undo"]
  /\ UNCHANGED <<config, file, get, mishap>>

(* file.Write from offset 0: over the document of another writer that is    *)
(* longer, the tail of that document stays.                                 *)
Write(t) == file' \in {t} \cup (IF file = Empty THEN {} ELSE {Mangled})

WriteFile(h) ==
  /\ set[h].pc = "write"
  /\ Write(set[h].tree)
  /\ set' = [set EXCEPT ![h].pc = "op", ![h].wrote = "latest"]
  /\ UNCHANGED <<config, get, mishap>>

(* Nobody looks at the result of file.Write. *)
WriteLost(h) ==
  /\ set[h].pc \in {"write", "rewrite"}
  /\ file' \in {file, Mangled}
  /\ set' = [set EXCEPT ![h] = IF @.pc = "write" THEN [@ EXCEPT !.pc = "op"]
                               ELSE Served("error")]
  /\ mishap' = mishap \cup {"fault"}
  /\ UNCHANGED <<config, get>>

UndoCreate(h) ==
  /\ set[h].pc = "undo"
  /\ file' = Empty
  /\ set' = [set EXCEPT ![h].pc = "rewrite", ![h].tree = config]
  /\ UNCHANGED <<config, get, mishap>>

UndoFails(h) ==
  /\ set[h].pc = "undo"
  /\ Fails(h)
  /\ UNCHANGED file

UndoWrite(h) ==
  /\ set[h].pc = "rewrite"
  /\ Write(set[h].tree)
  /\ set' = [set EXCEPT ![h] = Served("error")]
  /\ UNCHANGED <<config, get, mishap>>

(* The readers that are under way live through another tree. *)
Replaced(t) ==
  /\ config' = t
  /\ get' = [r \in Reader |-> IF get[r].left = <<>> THEN get[r]
                              ELSE [get[r] EXCEPT !.held = @ \cup {t}]]

(* All operations are done: the copy becomes the tree.  The ghost: a Set    *)
(* that nobody disturbed and that wrote its last tree repairs the file.     *)
PublishedBase(h) == set[h].base  \* mutant: forgets to install the copy
Published(h) == set[h].tree
Publish(h) ==
  /\ set[h].pc = "op" /\ set[h].ops = <<>>
  /\ ToGoStruct(set[h].tree)
  /\ Replaced(Published(h))
  /\ set' = [set EXCEPT ![h] = Served("ok")]
  /\ mishap' = CASE set[h].wrote = "latest" /\ set[h].solo -> {}
                 [] \/ set[h].wrote = "older"
                    \/ set[h].wrote = "no" /\ set[h].tree # set[h].base
                      -> mishap \cup {"root"}
                 [] OTHER -> mishap
  /\ UNCHANGED file

------------------------------------------------------------------------------
(* Get *)

GetBegin(r) ==
  /\ get[r].left = <<>>
  /\ \E q \in Queries :
       get' = [get EXCEPT ![r] = [Answered EXCEPT !.left = q, !.held = {config}]]
  /\ UNCHANGED <<config, file, set, mishap>>

(* What one path is answered from. *)
SourceFile == IF file \in Tree THEN file ELSE config  \* mutant: the file
Source == config

GetPath(r) ==
  /\ get[r].left # <<>>
  /\ get' = [get EXCEPT ![r].left = Tail(@),
                        ![r].got = [l \in Leaf |->
                           IF l \in UNION Head(get[r].left) THEN Source[l] ELSE @[l]]]
  /\ UNCHANGED <<config, file, set, mishap>>

------------------------------------------------------------------------------
(* The other users of the file, and the end of the server. *)

Disturbed == [h \in Handler |-> [set[h] EXCEPT !.solo = FALSE]]

(* An oopt command reads config.json and writes it back (OoptCli.tla). *)
CliEdit ==
  /\ file \in Tree
  /\ \E e \in CliEdits :
       file' = [l \in Leaf |-> IF l \in DOMAIN e THEN e[l] ELSE file[l]]
  /\ set' = Disturbed
  /\ mishap' = mishap \cup {"cli"}
  /\ UNCHANGED <<config, get>>

(* The server is killed and started again: an unreadable file is taken for  *)
(* an empty configuration, an invalid one keeps it from starting.           *)
Restart ==
  /\ \/ file \in Valid /\ config' = file /\ mishap' = {}
     \/ file \in Unreadable /\ config' = NoLeaves /\ mishap' = mishap \cup {"torn"}
  /\ set' = [h \in Handler |-> Served("none")]
  /\ get' = [r \in Reader |-> Answered]
  /\ UNCHANGED file

SetStep(h) ==
  \/ OpRefused(h) \/ OpApplied(h) \/ DeletedQuietly(h)
  \/ CreateFile(h) \/ CreateFails(h) \/ WriteFile(h) \/ WriteLost(h)
  \/ UndoCreate(h) \/ UndoFails(h) \/ UndoWrite(h)
  \/ Publish(h)

Next ==
  \/ \E h \in Handler : SetBegin(h) \/ SetStep(h)
  \/ \E r \in Reader : GetBegin(r) \/ GetPath(r)
  \/ CliEdit
  \/ Restart

Spec == Init /\ [][Next]_vars
------------------------------------------------------------------------------
TypeOK ==
  /\ config \in Valid
  /\ file \in Tree \cup Unreadable
  /\ set \in [Handler -> SetCall]
  /\ get \in [Reader -> GetCall]
  /\ mishap \subseteq Mishaps

AtRest == \A h \in Handler : ~Active(h)

(* With no Set under way the file holds srv.config, unless since the last   *)
(* undisturbed Set or start a Set failed half way, a root delete was not    *)
(* written, Sets overlapped, a write was lost, the command line edited the  *)
(* file, or the server started from an unreadable one.                      *)
FileFollowsServer == AtRest /\ mishap = {} => file = config

(* Whatever else goes wrong in a Set, what it leaves in the file is a       *)
(* configuration that the server starts from.                               *)
ServerCanRestart ==
  AtRest /\ mishap \subseteq {"partial", "root"} => file \in Valid

(* What the last operation of the sequence ops that is about leaf l makes   *)
(* of it.                                                                   *)
LastWord(ops, l, otherwise) ==
  LET about == {n \in 1..Len(ops) : l \in Written(ops[n])}
      last == CHOOSE n \in about : \A m \in about : m <= n
  IN IF about = {} THEN otherwise
     ELSE IF ops[last].op = "delete" THEN Unset ELSE ops[last].val[l]

(* What request r is to make of tree t: every leaf as the updates say,      *)
(* failing these the replaces, then the deletes, and otherwise as it was.   *)
Outcome(r, t) ==
  [l \in Leaf |-> LastWord(r.update, l,
                   LastWord(r.replace, l, LastWord(r.delete, l, t[l])))]

Acknowledged(h) == Active(h) /\ set'[h].reply = "ok"

(* A Set that is acknowledged and that no other Set overlapped leaves every *)
(* leaf as its updates say, failing these its replaces, then its deletes,   *)
(* and otherwise as it was: deletes go first and updates last.              *)
TakesEffect ==
  \A h \in Handler :
    Acknowledged(h) /\ set[h].solo => config' = Outcome(set[h].req, config)
SetTakesEffect == [][TakesEffect]_vars

(* A Get returns only what srv.config held while it was served, never what  *)
(* a Set wrote to the file before it failed.                                *)
GetReturnsPublished ==
  \A r \in Reader, l \in Leaf :
    get[r].got[l] # Empty => \E c \in get[r].held : c[l] = get[r].got[l]

(* The Sets that are under way, with the trees they copied, and what the    *)
(* clients have been told.                                                  *)
Calls == [h \in Handler |->
            IF Active(h) THEN {[req |-> set[h].req, from |-> set[h].base]} ELSE {}]
Replies == [h \in Handler |-> set[h].reply]
Answers == [r \in Reader |-> get[r].got]

D == INSTANCE Datastore WITH tree <- config, call <- Calls, reply <- Replies,
                             seen <- Answers, Unanswered <- Empty

(* Also when Sets overlap: an acknowledged one replaces srv.config in one   *)
(* step by what its whole request makes of the tree it copied, a refused    *)
(* one leaves no trace in it, and Gets and restarts see nothing between.    *)
ImplementsDatastore == D!Spec

------------------------------------------------------------------------------
(* What the protocol definition promises and the server does not keep.      *)

(* gnmi.proto:334: the changes of a SetRequest "are considered to be a      *)
(* transaction": one that fails changes nothing.                            *)
FailedSetChangesNothing ==
  AtRest /\ mishap \subseteq {"partial"} => file = config
==============================================================================
