------------------------------- MODULE RBTree -------------------------------
(***************************************************************************)
(* The red-black tree of tree.c, pointer by pointer: insertion, removal by *)
(* swapping a node with its predecessor, and the removal of all nodes: by  *)
(* tree_empty, and in the middle of a TREE_WALK, as sector_cache_destroy   *)
(* does it.                                                                *)
(*                                                                         *)
(* A node is its key.  What comes in two mirrored versions in the code has *)
(* a side here.                                                            *)
(***************************************************************************)
EXTENDS Integers, FiniteSets

CONSTANT Nodes

ASSUME NodesAssumption == Nodes \subseteq Nat \ {0}

VARIABLES
  tree,     \* root->node and the fields of the nodes
  present,  \* history: what should be in the tree
  at,       \* the node that an operation is about
  up,       \* where insertion descends and rebalancing climbs
  child,    \* of the node that is removed
  sweep,    \* "none", "walk" in sector_cache_destroy, "empty" in tree_empty
  pc        \* "idle", "insert", "balance", "remove", "rebalance", "replace", "next"

vars == <<tree, present, at, up, child, sweep, pc>>

Nil == 0
Pointers == Nodes \cup {Nil}
Sides == {"left", "right"}
Other(side) == IF side = "left" THEN "right" ELSE "left"

\* The side of a node for keys that are less than its own, or greater.
Towards(n, k) == IF k < n THEN "left" ELSE "right"

Empty ==
  [root |-> Nil,
   kids |-> [side \in Sides |-> [n \in Nodes |-> Nil]],
   parent |-> [n \in Nodes |-> Nil],
   color |-> [n \in Nodes |-> "red"]]

Color(t, n) == IF n = Nil THEN "black" ELSE t.color[n]

SideOf(t, n) == IF t.kids["left"][t.parent[n]] = n THEN "left" ELSE "right"
Sibling(t, n) == t.kids[Other(SideOf(t, n))][t.parent[n]]
Grandparent(t, n) == t.parent[t.parent[n]]

----------------------------------------------------------------------------
(* Finding.                                                                *)

\* tree_first, tree_last.
Outermost(t, side, n) ==
  LET f[top \in Pointers] ==
        IF top = Nil THEN Nil
        ELSE IF t.kids[side][top] = Nil THEN top ELSE f[t.kids[side][top]]
  IN  f[n]

Find(t, k) ==
  LET f[top \in Pointers] ==
        IF top = Nil THEN Nil
        ELSE IF top = k THEN top ELSE f[t.kids[Towards(top, k)][top]]
  IN  f[t.root]

\* tree_get_next, also of a key that is no longer in the tree.
GetNext(t, k) ==
  LET f[top \in Pointers] ==
        IF top = Nil THEN Nil
        ELSE IF top = k THEN Outermost(t, "left", t.kids["right"][top])
        ELSE IF top < k THEN f[t.kids["right"][top]]
        ELSE LET subtree == f[t.kids["left"][top]]
             IN  IF subtree # Nil THEN subtree ELSE top
  IN  f[t.root]

----------------------------------------------------------------------------
(* Changing pointers and colors.                                           *)

Paint(t, n, c) == [t EXCEPT !.color[n] = c]

\* tree_replace_node.
ReplaceNode(t, old, new) ==
  LET p == t.parent[old]
      linked == IF p = Nil THEN [t EXCEPT !.root = new]
                ELSE [t EXCEPT !.kids[SideOf(t, old)][p] = new]
  IN  IF new = Nil THEN linked ELSE [linked EXCEPT !.parent[new] = p]

\* A slip: the inner child of the node that goes up is lost.
RotateLosing(t, side, n) ==
  LET succ == t.kids[Other(side)][n]
      u == [ReplaceNode(t, n, succ) EXCEPT !.kids[Other(side)][n] = Nil]
  IN  [u EXCEPT !.kids[side][succ] = n, !.parent[n] = succ]

\* tree_rotate_left, tree_rotate_right: n goes down on that side.
Rotate(t, side, n) ==
  LET succ == t.kids[Other(side)][n]
      inner == t.kids[side][succ]
      u == [ReplaceNode(t, n, succ) EXCEPT !.kids[Other(side)][n] = inner]
      v == IF inner = Nil THEN u ELSE [u EXCEPT !.parent[inner] = n]
  IN  [v EXCEPT !.kids[side][succ] = n, !.parent[n] = succ]

\* A slip: neighbours are not told apart from others.
FixupNot(p, self, other) == p

\* A node that would point to itself, as neighbours do after their structures
\* were swapped.
Fixup(p, self, other) == IF p = self THEN other ELSE p

\* tree_swap_nodes: whoever points to one then points to the other, and the two
\* exchange their own pointers and colors.
SwapNodes(t, a, b) ==
  LET Redirected(p) == CASE p = a -> b [] p = b -> a [] OTHER -> p
      Swapped(f) == [n \in Nodes |->
                       CASE n = a -> Fixup(f[b], a, b)
                         [] n = b -> Fixup(f[a], b, a)
                         [] OTHER -> Redirected(f[n])]
  IN  [root |-> Redirected(t.root),
       kids |-> [side \in Sides |-> Swapped(t.kids[side])],
       parent |-> Swapped(t.parent),
       color |-> [t.color EXCEPT ![a] = t.color[b], ![b] = t.color[a]]]

----------------------------------------------------------------------------
(* Insertion.                                                              *)

Init ==
  /\ tree = Empty
  /\ present = {}
  /\ at = Nil /\ up = Nil /\ child = Nil
  /\ sweep = "none"
  /\ pc = "idle"

\* Locals of functions that have returned are forgotten.
Return(to) ==
  /\ up' = Nil /\ child' = Nil
  /\ pc' = to
  /\ at' = IF to = "idle" THEN Nil ELSE at

\* tree_insert_internal, in an empty tree or from its root.  The code finds out on
\* its way down that a key is there already, and then changes nothing.
InsertStart(k) ==
  /\ pc = "idle"
  /\ Find(tree, k) = Nil
  /\ at' = k
  /\ present' = present \cup {k}
  /\ tree' = Paint(IF tree.root = Nil THEN [tree EXCEPT !.root = k] ELSE tree, k, "red")
  /\ up' = IF tree.root = Nil THEN k ELSE tree.root
  /\ pc' = IF tree.root = Nil THEN "balance" ELSE "insert"
  /\ UNCHANGED <<child, sweep>>

Descend ==
  LET next == tree.kids[Towards(up, at)][up]
  IN  /\ pc = "insert"
      /\ next # Nil
      /\ up' = next
      /\ UNCHANGED <<tree, present, at, child, sweep, pc>>

Attach ==
  LET side == Towards(up, at)
  IN  /\ pc = "insert"
      /\ tree.kids[side][up] = Nil
      /\ tree' = [tree EXCEPT !.kids[side][up] = at, !.parent[at] = up]
      /\ up' = at
      /\ pc' = "balance"
      /\ UNCHANGED <<present, at, child, sweep>>

\* tree_balance of `up`: it is the root, or its parent is black.
Balanced ==
  /\ pc = "balance"
  /\ Color(tree, tree.parent[up]) = "black"
  /\ tree' = IF tree.parent[up] = Nil THEN Paint(tree, up, "black") ELSE tree
  /\ Return("idle")
  /\ UNCHANGED <<present, sweep>>

Uncle == Sibling(tree, tree.parent[up])

\* A red uncle: move the red up.
Recolor ==
  /\ pc = "balance"
  /\ Color(tree, tree.parent[up]) = "red"
  /\ Color(tree, Uncle) = "red"
  /\ tree' = Paint(Paint(Paint(tree, tree.parent[up], "black"), Uncle, "black"),
                   Grandparent(tree, up), "red")
  /\ up' = Grandparent(tree, up)
  /\ UNCHANGED <<present, at, child, sweep, pc>>

\* Make an inner grandchild an outer one: its parent takes its place.
Straightened(t, n) ==
  LET p == t.parent[n]
      side == SideOf(t, p)
  IN  IF SideOf(t, n) = side THEN [tree |-> t, node |-> n]
      ELSE [tree |-> Rotate(t, side, p), node |-> p]

RotatedUp(t, n) ==
  LET p == t.parent[n]
      g == t.parent[p]
  IN  Rotate(Paint(Paint(t, p, "black"), g, "red"), Other(SideOf(t, n)), g)

\* A black uncle: one or two rotations, and all is well.
RotateUp ==
  /\ pc = "balance"
  /\ Color(tree, tree.parent[up]) = "red"
  /\ Color(tree, Uncle) = "black"
  /\ tree' = LET s == Straightened(tree, up) IN RotatedUp(s.tree, s.node)
  /\ Return("idle")
  /\ UNCHANGED <<present, sweep>>

----------------------------------------------------------------------------
(* Removal.                                                                *)

\* tree_remove finds it by its key.
RemoveStart(k) ==
  /\ pc = "idle"
  /\ Find(tree, k) # Nil
  /\ at' = k
  /\ pc' = "remove"
  /\ UNCHANGED <<tree, present, up, child, sweep>>

\* A black node takes the color of its child.
Recolored(t, c) == Paint(t, at, Color(t, c))

\* tree_remove_found_node up to the rebalancing.
RemoveFound ==
  LET both == tree.kids["left"][at] # Nil /\ tree.kids["right"][at] # Nil
      t == IF both THEN SwapNodes(tree, at, Outermost(tree, "right", tree.kids["left"][at]))
           ELSE tree
      c == IF t.kids["right"][at] # Nil THEN t.kids["right"][at] ELSE t.kids["left"][at]
  IN  /\ pc = "remove"
      /\ child' = c
      /\ IF Color(t, at) = "black"
         THEN /\ tree' = Recolored(t, c)
              /\ up' = at
              /\ pc' = "rebalance"
         ELSE /\ tree' = t
              /\ up' = Nil
              /\ pc' = "replace"
      /\ UNCHANGED <<present, at, sweep>>

\* tree_black_node_removed: a red sibling becomes the grandparent.
Simplified(t, n) ==
  LET p == t.parent[n]
      s == Sibling(t, n)
  IN  IF Color(t, s) = "red"
      THEN Rotate(Paint(Paint(t, p, "red"), s, "black"), SideOf(t, n), p)
      ELSE t

\* The sibling and its children are black.
BlackFamily(t, n) ==
  LET s == Sibling(t, n)
  IN  /\ Color(t, s) = "black"
      /\ \A side \in Sides : Color(t, t.kids[side][s]) = "black"

\* A slip: a red child on the near side stays there.
FarRedNot(t, n) == t

\* The red child of the sibling is moved to the far side.
FarRed(t, n) ==
  LET s == Sibling(t, n)
      side == SideOf(t, n)
      near == t.kids[side][s]
      far == t.kids[Other(side)][s]
  IN  IF /\ Color(t, s) = "black"
         /\ Color(t, near) = "red" /\ Color(t, far) = "black"
      THEN Rotate(Paint(Paint(t, s, "red"), near, "black"), Other(side), s)
      ELSE t

RebalanceRoot ==
  /\ pc = "rebalance"
  /\ tree.parent[up] = Nil
  /\ up' = Nil
  /\ pc' = "replace"
  /\ UNCHANGED <<tree, present, at, child, sweep>>

\* Take one black out of the sibling's side, and go on with the parent.
RebalanceUp ==
  /\ pc = "rebalance"
  /\ tree.parent[up] # Nil
  /\ LET t == Simplified(tree, up)
     IN  Color(t, t.parent[up]) = "black" /\ BlackFamily(t, up)
  /\ tree' = LET t == Simplified(tree, up) IN Paint(t, Sibling(t, up), "red")
  /\ up' = Simplified(tree, up).parent[up]
  /\ UNCHANGED <<present, at, child, sweep, pc>>

RebalanceSwapColors ==
  /\ pc = "rebalance"
  /\ tree.parent[up] # Nil
  /\ LET t == Simplified(tree, up)
     IN  Color(t, t.parent[up]) = "red" /\ BlackFamily(t, up)
  /\ tree' = LET t == Simplified(tree, up)
             IN  Paint(Paint(t, Sibling(t, up), "red"), t.parent[up], "black")
  /\ up' = Nil
  /\ pc' = "replace"
  /\ UNCHANGED <<present, at, child, sweep>>

\* The sibling with its red far child takes the place of the parent.
RotatedDown(t, n) ==
  LET p == t.parent[n]
      s == Sibling(t, n)
      far == t.kids[Other(SideOf(t, n))][s]
      painted == Paint(Paint(t, s, Color(t, p)), p, "black")
  IN  Rotate(Paint(painted, far, "black"), SideOf(t, n), p)

RebalanceRotate ==
  /\ pc = "rebalance"
  /\ tree.parent[up] # Nil
  /\ ~BlackFamily(Simplified(tree, up), up)
  /\ tree' = RotatedDown(FarRed(Simplified(tree, up), up), up)
  /\ up' = Nil
  /\ pc' = "replace"
  /\ UNCHANGED <<present, at, child, sweep>>

\* The node is unlinked and the root made black; the caller frees the node.
Replace ==
  LET t == ReplaceNode(tree, at, child)
      u == IF t.root = Nil THEN t ELSE Paint(t, t.root, "black")
  IN  /\ pc = "replace"
      /\ tree' = [u EXCEPT !.kids["left"][at] = Nil, !.kids["right"][at] = Nil,
                           !.parent[at] = Nil, !.color[at] = "red"]
      /\ present' = present \ {at}
      /\ Return(IF sweep = "none" THEN "idle" ELSE "next")
      /\ UNCHANGED sweep

----------------------------------------------------------------------------
(* Removal of all.                                                         *)

SweepStart(how) ==
  /\ pc = "idle"
  /\ tree.root # Nil
  /\ sweep' = how
  /\ at' = Outermost(tree, "left", tree.root)
  /\ pc' = "remove"
  /\ UNCHANGED <<tree, present, up, child>>

\* A slip: the walk goes on from the node behind the next one.
NextAfter(k) == GetNext(tree, GetNext(tree, k))

\* A slip: the walk does not go on.
NextSame(k) == k

\* TREE_WALK has saved the key of the node that is gone; tree_empty starts again.
NextOf(k) ==
  IF sweep = "walk" THEN GetNext(tree, k) ELSE Outermost(tree, "left", tree.root)

SweepNext ==
  LET n == NextOf(at)
  IN  /\ pc = "next"
      /\ at' = n
      /\ pc' = IF n = Nil THEN "idle" ELSE "remove"
      /\ sweep' = IF n = Nil THEN "none" ELSE sweep
      /\ UNCHANGED <<tree, present, up, child>>

Step ==
  \/ Descend \/ Attach \/ Balanced \/ Recolor \/ RotateUp
  \/ RemoveFound \/ RebalanceRoot \/ RebalanceUp \/ RebalanceSwapColors
  \/ RebalanceRotate \/ Replace \/ SweepNext

Next ==
  \/ \E k \in Nodes : InsertStart(k) \/ RemoveStart(k)
  \/ \E how \in {"walk", "empty"} : SweepStart(how)
  \/ Step

Spec == Init /\ [][Next]_vars

\* An operation runs until it returns.  This is WF_vars(Step) with "pc is not
\* idle" for ENABLED Step, which is the same: nothing but Step happens then, and
\* there is no deadlock.
FairSpec == Spec /\ ([]<>(pc = "idle") \/ []<><<Step>>_vars)

----------------------------------------------------------------------------
(* Properties.                                                             *)

\* Whenever no operation runs, a key is found exactly if it was inserted and not
\* removed, and tree_get_next of any key is the next one that is there.
FindsWhatIsThere ==
  pc = "idle" => \A k \in Nodes :
    /\ Find(tree, k) = (IF k \in present THEN k ELSE Nil)
    /\ LET later == {j \in present : j > k}
       IN  GetNext(tree, k) = IF later = {} THEN Nil
                              ELSE CHOOSE j \in later : \A i \in later : j <= i

\* Every path down from the root has as many black nodes, the nil leaf included,
\* or else -1.
BlackPath(t) ==
  LET h[n \in Pointers] ==
        IF n = Nil THEN 1
        ELSE LET l == h[t.kids["left"][n]]
                 r == h[t.kids["right"][n]]
             IN  IF l = -1 \/ l # r THEN -1
                 ELSE IF t.color[n] = "black" THEN l + 1 ELSE l
  IN  h[t.root]

\* tree_verify, which is compiled with ENABLE_TREE_SANITY: the root is black, a
\* red node has a black parent and black children, whoever has a parent is its
\* child, and all paths have the same number of black nodes.
TreeVerify(t) ==
  /\ Color(t, t.root) = "black"
  /\ \A n \in present :
       LET p == t.parent[n]
       IN  /\ t.color[n] = "red" =>
                \A m \in {p, t.kids["left"][n], t.kids["right"][n]} : Color(t, m) = "black"
           /\ p # Nil => n \in {t.kids["left"][p], t.kids["right"][p]}
  /\ BlackPath(t) # -1

\* After each insertion and removal the nodes are linked both ways, and what
\* tree_verify asserts holds.
RedBlack ==
  pc = "idle" =>
    /\ tree.root # Nil => tree.parent[tree.root] = Nil
    /\ \A n \in present, side \in Sides :
         tree.kids[side][n] # Nil => tree.parent[tree.kids[side][n]] = n
    /\ TreeVerify(tree)

\* The assertions of tree_black_node_removed: there is a sibling, and if a
\* rotation is due, its far child is red.
AssertionsHold ==
  pc = "rebalance" /\ tree.parent[up] # Nil =>
    /\ Sibling(tree, up) # Nil
    /\ LET t == Simplified(tree, up)
           u == FarRed(t, up)
           far == u.kids[Other(SideOf(u, up))][Sibling(u, up)]
       IN  BlackFamily(t, up) \/ Color(u, far) = "red"

\* sector_cache_destroy and tree_empty remove every node, though each removal
\* reshapes the tree they go through.
SweepRemovesAll ==
  [][pc = "next" /\ pc' = "idle" => tree.root = Nil /\ present = {}]_vars

\* Every operation returns.
OperationEnds == pc # "idle" ~> pc = "idle"
=============================================================================
