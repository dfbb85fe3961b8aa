---------------------------- MODULE MCGnmiServer -----------------------------
(* Three leaves: x and y are in one entry of a list, z is a leaf beside the *)
(* list; z does not take the value w.                                       *)
EXTENDS GnmiServer, TLC

CONSTANTS x, y, z, v, w

MCSymmetry == Permutations(Handler)

LeafX == {{x}}
LeafZ == {{z}}
Container == {{x, y}, {z}}
RootPath == {{x, y, z}}
Unknown == {}
Paths == {LeafX, LeafZ, Container, RootPath, Unknown}

Only(f) == [l \in Leaf |-> IF l \in DOMAIN f THEN f[l] ELSE Unset]
Delete(p) == [op |-> "delete", path |-> p, bare |-> FALSE, val |-> Only(<<>>)]
Replace(p, f) == [op |-> "replace", path |-> p, bare |-> FALSE, val |-> Only(f)]
Update(p, f) == [op |-> "update", path |-> p, bare |-> FALSE, val |-> Only(f)]
Bare(o) == [o EXCEPT !.bare = TRUE]
Request(d, r, u) == [delete |-> d, replace |-> r, update |-> u]

MCValid == {t \in Tree : t[z] # w}
MCInitial == Only(x :> v @@ y :> v)
MCQueries == {<<LeafX, LeafZ>>}
MCCliEdits == {z :> v, z :> w}
NoEdits == {}

(* Every kind of operation, an invalid value and an unknown path among them. *)
AllRequests ==
  {Request(<<Delete(LeafX)>>, <<>>, <<Update(LeafX, x :> w)>>),
   Request(<<>>, <<Replace(Container, x :> v @@ y :> v)>>,
           <<Update(Container, y :> w @@ z :> v)>>),
   Request(<<>>, <<Replace(LeafX, x :> w)>>, <<Update(LeafZ, z :> w)>>),
   Request(<<Delete(RootPath)>>, <<>>, <<>>),
   Request(<<Bare(Delete(LeafX))>>, <<Replace(RootPath, z :> v)>>, <<>>),
   Request(<<Delete(Unknown)>>, <<>>, <<Update(RootPath, x :> v)>>),
   Request(<<Delete(LeafX)>>, <<>>, <<Update(Unknown, x :> v)>>)}

(* Two requests that each write two leaves, one with an invalid value.      *)
TwoRequests ==
  {Request(<<Delete(LeafX)>>, <<>>, <<Update(LeafZ, z :> v)>>),
   Request(<<>>, <<Replace(LeafX, x :> w)>>, <<Update(LeafZ, z :> w)>>)}

PartialRequests == {Request(<<>>, <<Replace(LeafX, x :> w)>>, <<Update(LeafZ, z :> w)>>)}
==============================================================================
