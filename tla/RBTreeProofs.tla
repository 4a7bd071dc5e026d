---------------------------- MODULE RBTreeProofs ----------------------------
(***************************************************************************)
(* Proofs about RBTree, for every set of keys: between operations a key is *)
(* found exactly if it is there, what tree_verify asserts holds, and so do *)
(* the assertions of tree_black_node_removed; a sweep leaves nothing.      *)
(***************************************************************************)
EXTENDS RBTree, FiniteSetTheorems, WellFoundedInduction, TLAPS

-----------------------------------------------------------------------------
(* What the tree is like.                                                  *)

\* i is on that side of n in the order of keys.
Before(side, i, n) == IF side = "left" THEN i < n ELSE n < i

\* What root->node and the fields of the nodes hold.
Colors == {"red", "black"}
Trees == [root : Pointers, kids : [Sides -> [Nodes -> Pointers]],
          parent : [Nodes -> Pointers], color : [Nodes -> Colors]]

\* The nodes in S are linked both ways into one tree; below[n] is the set of the
\* nodes in the subtree of n.  Other nodes are as Replace leaves them.
Shaped(t, S, below) ==
  /\ t \in Trees /\ S \subseteq Nodes /\ IsFiniteSet(S)
  /\ below \in [Pointers -> SUBSET Nodes]
  /\ below[Nil] = {} /\ below[t.root] = S
  /\ \A n \in Nodes :
       /\ below[n] = {n} \cup below[t.kids["left"][n]] \cup below[t.kids["right"][n]]
       /\ n \notin below[t.kids["left"][n]] /\ n \notin below[t.kids["right"][n]]
       /\ below[t.kids["left"][n]] \cap below[t.kids["right"][n]] = {}
       /\ \A side \in Sides : t.kids[side][n] # Nil => t.parent[t.kids[side][n]] = n
  /\ \A n \in S : below[n] \subseteq S
  /\ \A n \in S : IF n = t.root THEN t.parent[n] = Nil
                  ELSE \E side \in Sides : t.parent[n] \in S /\ t.kids[side][t.parent[n]] = n
  /\ \A n \in Nodes \ S : /\ t.parent[n] = Nil /\ t.color[n] = "red"
                          /\ \A side \in Sides : t.kids[side][n] = Nil

\* It is a search tree, but for the node that goes.
Ordered(t, S, below, gone) ==
  \A n \in S \ {gone} : \A side \in Sides :
    \A i \in below[t.kids[side][n]] \ {gone} : Before(side, i, n)

\* What a node counts on a path.
Weight(t, n) == IF t.color[n] = "black" THEN 1 ELSE 0

\* The black nodes on the paths from m down; a black is missing below `short`.
Height(black, m, short) == IF m # Nil /\ m = short THEN black[m] + 1 ELSE black[m]

\* All paths from n down have black[n] black nodes, the nil leaf included.  The
\* node that goes does not count: its child is about to take its place.
Even(t, black, gone, c, short) ==
  /\ black \in [Pointers -> Nat \ {0}] /\ black[Nil] = 1
  /\ \A n \in Nodes :
       IF n = gone THEN black[n] = black[c]
       ELSE \A side \in Sides :
              black[n] = Height(black, t.kids[side][n], short) + Weight(t, n)

\* A red node has a black parent, but for those in X.
Reds(t, S, X) ==
  \A n \in S \ X : t.color[n] = "red" => Color(t, t.parent[n]) = "black"

\* The path of an insertion leads to where the key belongs.
OnItsWay(t, S, below, u, k) ==
  /\ u \in S
  /\ \A n \in S : \A side \in Sides : u \in below[t.kids[side][n]] => Before(side, k, n)

\* The node that goes has no other child.
OneChild(t, n, c) ==
  /\ \E side \in Sides : t.kids[side][n] = c /\ t.kids[Other(side)][n] = Nil
  /\ Color(t, c) = "red" => t.color[n] = "red"

-----------------------------------------------------------------------------
(* Order and shape.                                                        *)

\* Keys are numbers, and nil is none of them.
LEMMA NodesAreNumbers ==
  /\ Nodes \subseteq Nat \ {0} /\ Nil = 0 /\ Nil \notin Nodes /\ Pointers = Nodes \cup {Nil}
  /\ Pointers \subseteq Nat
BY NodesAssumption DEF Nil, Pointers

\* There are two sides.
LEMMA TwoSides ==
  ASSUME NEW side \in Sides
  PROVE  /\ Other(side) \in Sides /\ Other(Other(side)) = side /\ Other(side) # side
         /\ \A s \in Sides : s = side \/ s = Other(side)
         /\ {side, Other(side)} = {"left", "right"}
BY DEF Sides, Other

\* The order of the keys.
LEMMA BeforeIsOrder ==
  ASSUME NEW side \in Sides, NEW i \in Nodes, NEW n \in Nodes
  PROVE  /\ Before(side, i, n) <=> Before(Other(side), n, i)
         /\ ~Before(side, n, n)
         /\ ~(Before(side, i, n) /\ Before(side, n, i))
         /\ i # n => Before(side, i, n) \/ Before(side, n, i)
         /\ \A j \in Nodes : Before(side, i, n) /\ Before(side, n, j) => Before(side, i, j)
BY NodesAreNumbers DEF Sides, Other, Before

\* A key belongs on the side that it is told.
LEMMA TowardsIsBefore ==
  ASSUME NEW k \in Nodes, NEW n \in Nodes, k # n
  PROVE  /\ Towards(n, k) \in Sides /\ Before(Towards(n, k), k, n)
         /\ ~Before(Other(Towards(n, k)), k, n)
BY NodesAreNumbers DEF Sides, Other, Before, Towards

\* A subtree is a node, and what is on one side and on the other.
LEMMA BelowNode ==
  ASSUME NEW t, NEW S, NEW below, Shaped(t, S, below), NEW n \in Nodes, NEW side \in Sides
  PROVE  /\ t.kids[side][n] \in Pointers
         /\ below[n] = {n} \cup below[t.kids[side][n]] \cup below[t.kids[Other(side)][n]]
         /\ n \in below[n] /\ n \notin below[t.kids[side][n]]
         /\ below[t.kids[side][n]] \cap below[t.kids[Other(side)][n]] = {}
         /\ t.kids[side][n] # Nil => /\ t.kids[side][n] \in Nodes
                                     /\ t.parent[t.kids[side][n]] = n
                                     /\ t.kids[side][n] \in below[t.kids[side][n]]
                                     /\ t.kids[side][n] # n
                                     /\ t.kids[side][n] # t.kids[Other(side)][n]
         /\ n \in S => t.kids[side][n] \in S \cup {Nil}
         /\ n \notin S => t.kids[side][n] = Nil
<1>1. t \in Trees /\ t.kids[side][n] \in Pointers /\ below[n] \subseteq Nodes
  BY NodesAreNumbers DEF Shaped, Trees
<1>2. \/ side = "left" /\ Other(side) = "right"
      \/ side = "right" /\ Other(side) = "left"
  BY DEF Sides, Other
<1>3. /\ below[n] = {n} \cup below[t.kids["left"][n]] \cup below[t.kids["right"][n]]
      /\ n \notin below[t.kids["left"][n]] /\ n \notin below[t.kids["right"][n]]
      /\ below[t.kids["left"][n]] \cap below[t.kids["right"][n]] = {}
      /\ t.kids[side][n] # Nil => t.parent[t.kids[side][n]] = n
  BY DEF Shaped
<1>4. /\ below[n] = {n} \cup below[t.kids[side][n]] \cup below[t.kids[Other(side)][n]]
      /\ n \notin below[t.kids[side][n]]
      /\ below[t.kids[side][n]] \cap below[t.kids[Other(side)][n]] = {}
  BY <1>2, <1>3
<1>5. \A m \in Nodes : m \in below[m]
  BY DEF Shaped
<1>6. t.kids[side][n] # Nil => t.kids[side][n] \in Nodes
  BY <1>1, NodesAreNumbers
<1>7. n \in S => below[n] \subseteq S
  BY DEF Shaped
<1>8. n \notin S => t.kids[side][n] = Nil
  BY DEF Shaped
<1> QED
  BY <1>1, <1>3, <1>4, <1>5, <1>6, <1>7, <1>8

\* The root is above all, and all but the root have a parent.
LEMMA ParentOf ==
  ASSUME NEW t, NEW S, NEW below, Shaped(t, S, below), NEW n \in Nodes
  PROVE  /\ n \notin S => t.parent[n] = Nil /\ t.color[n] = "red"
         /\ n \in S => (t.parent[n] = Nil <=> n = t.root)
         /\ t.parent[n] # Nil => /\ n \in S /\ t.parent[n] \in S
                                 /\ \E side \in Sides : t.kids[side][t.parent[n]] = n
         /\ t.root \in S \cup {Nil} /\ (t.root # Nil => t.parent[t.root] = Nil)
         /\ below[t.root] = S /\ (t.root = Nil <=> S = {})
<1>1. t \in Trees /\ t.root \in Pointers /\ t.parent[n] \in Pointers
  BY NodesAreNumbers DEF Shaped, Trees
<1>2. below[t.root] = S /\ below[Nil] = {} /\ S \subseteq Nodes
  BY DEF Shaped
<1>3. t.root # Nil => t.root \in below[t.root]
  <2>1. \A m \in Nodes : m \in below[m]
    BY DEF Shaped
  <2> QED
    BY <1>1, <2>1, NodesAreNumbers
<1>4. n \notin S => t.parent[n] = Nil /\ t.color[n] = "red"
  BY DEF Shaped
<1>5. \A m \in S : IF m = t.root THEN t.parent[m] = Nil
                   ELSE \E side \in Sides : t.parent[m] \in S /\ t.kids[side][t.parent[m]] = m
  BY DEF Shaped
<1> QED
  BY <1>1, <1>2, <1>3, <1>4, <1>5, NodesAreNumbers

\* In a set of nodes of the tree there is one with no child in the set.
LEMMA Lowest ==
  ASSUME NEW t, NEW S, NEW below, Shaped(t, S, below), NEW T, T \subseteq S, T # {}
  PROVE  \E x \in T : \A side \in Sides : t.kids[side][x] \notin T
<1> DEFINE Sizes == {Cardinality(below[n]) : n \in T}
<1>1. \A n \in S : IsFiniteSet(below[n]) /\ Cardinality(below[n]) \in Nat
  <2> TAKE n \in S
  <2>1. IsFiniteSet(S) /\ below[n] \in SUBSET S
    BY DEF Shaped
  <2> QED
    BY <2>1, FS_Subset, FS_CardinalityType
<1>2. Sizes \subseteq Nat /\ Sizes # {}
  BY <1>1
<1>3. PICK c \in Sizes : \A d \in Sizes : ~ (<<d, c>> \in OpToRel(<, Nat))
  <2> HIDE DEF Sizes
  <2> QED
    BY <1>2, NatLessThanWellFounded, WFMin, Zenon
<1>4. PICK x \in T : c = Cardinality(below[x])
  BY <1>3, Zenon
<1>5. ASSUME NEW side \in Sides, t.kids[side][x] \in T
      PROVE  FALSE
  <2>1. x \in Nodes /\ x \in S /\ t.kids[side][x] \in S
    BY <1>4, <1>5 DEF Shaped
  <2>2. below[t.kids[side][x]] \in SUBSET below[x] /\ below[t.kids[side][x]] # below[x]
    BY <2>1, BelowNode
  <2>3. /\ Cardinality(below[t.kids[side][x]]) \in Nat /\ Cardinality(below[x]) \in Nat
        /\ IsFiniteSet(below[x])
    BY <1>1, <2>1
  <2>4. Cardinality(below[t.kids[side][x]]) < Cardinality(below[x])
    BY <2>2, <2>3, FS_Subset
  <2>5. <<Cardinality(below[t.kids[side][x]]), c>> \in OpToRel(<, Nat)
    BY <1>4, <2>3, <2>4 DEF OpToRel
  <2> QED
    BY <1>3, <1>5, <2>5, Zenon
<1> QED
  BY <1>5

\* What is below a node below another is below that one.
LEMMA BelowInside ==
  ASSUME NEW t, NEW S, NEW below, Shaped(t, S, below), NEW x \in Nodes, NEW m \in below[x]
  PROVE  below[m] \subseteq below[x] /\ m \in Nodes
<1> DEFINE Bad == {n \in S : \E i \in below[n] : ~(below[i] \subseteq below[n])}
<1>1. Bad = {}
  <2> SUFFICES ASSUME Bad # {} PROVE FALSE
    OBVIOUS
  <2>1. Bad \subseteq S /\ S \subseteq Nodes
    BY DEF Shaped
  <2>2. PICK n \in Bad : \A side \in Sides : t.kids[side][n] \notin Bad
    <3> HIDE DEF Bad
    <3> QED
      BY <2>1, Lowest
  <2>3. PICK i \in below[n] : ~(below[i] \subseteq below[n])
    BY <2>2
  <2>4. i # n
    BY <2>3
  <2>5. PICK side \in Sides : i \in below[t.kids[side][n]]
    <3>1. "left" \in Sides /\ "right" \in Sides /\ n \in Nodes
      BY <2>1 DEF Sides
    <3> QED
      BY <2>3, <2>4, <3>1 DEF Shaped
  <2>6. /\ t.kids[side][n] \in S \cup {Nil} /\ below[t.kids[side][n]] \subseteq below[n]
        /\ below[Nil] = {}
    <3>1. n \in Nodes /\ n \in S
      BY <2>1, <2>2
    <3>2. below[Nil] = {}
      BY DEF Shaped
    <3> QED
      BY <3>1, <3>2, BelowNode
  <2>7. t.kids[side][n] \in S
    BY <2>5, <2>6
  <2>8. below[i] \subseteq below[t.kids[side][n]]
    BY <2>2, <2>5, <2>7
  <2> QED
    BY <2>3, <2>6, <2>8
<1>2. CASE x \in S
  BY <1>1, <1>2 DEF Shaped
<1>3. CASE x \notin S
  <2>1. "left" \in Sides /\ "right" \in Sides
    BY DEF Sides
  <2>2. below[x] = {x}
    BY <1>3, <2>1 DEF Shaped
  <2> QED
    BY <2>2
<1> QED
  BY <1>2, <1>3

\* The parent of what is further below a node is below it.
LEMMA ParentInside ==
  ASSUME NEW t, NEW S, NEW below, Shaped(t, S, below),
         NEW x \in S, NEW m \in below[x], m # x
  PROVE  t.parent[m] \in below[x] /\ t.parent[m] # Nil
<1> DEFINE Bad == {n \in S : \E i \in below[n] : i # n /\ t.parent[i] \notin below[n]}
<1>1. Bad = {}
  <2> SUFFICES ASSUME Bad # {} PROVE FALSE
    OBVIOUS
  <2>1. Bad \subseteq S /\ S \subseteq Nodes
    BY DEF Shaped
  <2>2. PICK n \in Bad : \A side \in Sides : t.kids[side][n] \notin Bad
    <3> HIDE DEF Bad
    <3> QED
      BY <2>1, Lowest
  <2>3. PICK i \in below[n] : i # n /\ t.parent[i] \notin below[n]
    BY <2>2
  <2>5. PICK side \in Sides : i \in below[t.kids[side][n]]
    <3>1. "left" \in Sides /\ "right" \in Sides /\ n \in Nodes
      BY <2>1 DEF Sides
    <3> QED
      BY <2>3, <3>1 DEF Shaped
  <2>6. /\ t.kids[side][n] \in S \cup {Nil} /\ below[t.kids[side][n]] \subseteq below[n]
        /\ below[Nil] = {} /\ n \in below[n]
        /\ t.kids[side][n] # Nil => t.parent[t.kids[side][n]] = n
    <3>1. n \in Nodes /\ n \in S
      BY <2>1, <2>2
    <3>2. below[Nil] = {}
      BY DEF Shaped
    <3> QED
      BY <3>1, <3>2, BelowNode
  <2>7. t.kids[side][n] \in S /\ t.kids[side][n] # Nil
    BY <2>1, <2>5, <2>6, NodesAreNumbers
  <2>8. i = t.kids[side][n] \/ t.parent[i] \in below[t.kids[side][n]]
    BY <2>2, <2>5, <2>7
  <2> QED
    BY <2>3, <2>6, <2>7, <2>8
<1>2. below[x] \subseteq Nodes
  BY NodesAreNumbers DEF Shaped
<1> QED
  BY <1>1, <1>2, NodesAreNumbers

-----------------------------------------------------------------------------
(* Finding.                                                                *)

\* Two functions agree that agree on a node whenever they do on its children.
LEMMA SameByKids ==
  ASSUME NEW t, NEW S, NEW below, Shaped(t, S, below),
         NEW f, NEW g, f = [n \in Pointers |-> f[n]], g = [n \in Pointers |-> g[n]],
         f[Nil] = g[Nil],
         \A n \in Nodes :
           (\A side \in Sides : f[t.kids[side][n]] = g[t.kids[side][n]]) => f[n] = g[n]
  PROVE  f = g
<1> DEFINE Bad == {n \in S : f[n] # g[n]}
<1>1. \A n \in Nodes \ S : f[n] = g[n]
  BY BelowNode
<1>2. Bad = {}
  <2> SUFFICES ASSUME Bad # {} PROVE FALSE
    OBVIOUS
  <2>1. Bad \subseteq S /\ S \subseteq Nodes
    BY DEF Shaped
  <2>2. PICK n \in Bad : \A side \in Sides : t.kids[side][n] \notin Bad
    <3> HIDE DEF Bad
    <3> QED
      BY <2>1, Lowest
  <2>3. \A side \in Sides : f[t.kids[side][n]] = g[t.kids[side][n]]
    <3> TAKE side \in Sides
    <3>1. t.kids[side][n] \in S \cup {Nil}
      BY <2>1, <2>2, BelowNode
    <3> QED
      BY <2>2, <3>1
  <2> QED
    BY <2>1, <2>2, <2>3
<1>3. \A n \in Pointers : f[n] = g[n]
  BY <1>1, <1>2, NodesAreNumbers
<1> QED
  BY <1>3

\* The first or last of some nodes.
Extreme(side, m, X) == m \in X /\ \A j \in X \ {m} : Before(side, m, j)

\* It, of nodes that are not none.
ExtremeOf(side, X) == CHOOSE m : Extreme(side, m, X)

\* There is only one.
LEMMA ExtremeIsUnique ==
  ASSUME NEW side \in Sides, NEW X, X \subseteq Nodes, NEW m, Extreme(side, m, X)
  PROVE  ExtremeOf(side, X) = m
<1>1. \A i : Extreme(side, i, X) => i = m
  BY BeforeIsOrder DEF Extreme
<1> QED
  BY <1>1 DEF ExtremeOf

\* The extreme of a subtree is that of the child there, or the node itself.
LEMMA ExtremeOfKid ==
  ASSUME NEW t, NEW S, NEW below, Shaped(t, S, below), Ordered(t, S, below, Nil),
         NEW n \in S, NEW side \in Sides
  PROVE  /\ t.kids[side][n] = Nil => Extreme(side, n, below[n])
         /\ \A m : Extreme(side, m, below[t.kids[side][n]]) => Extreme(side, m, below[n])
<1>1. n \in Nodes /\ below \in [Pointers -> SUBSET Nodes] /\ below[Nil] = {} /\ n # Nil
  BY NodesAreNumbers DEF Shaped
<1>2. Other(side) \in Sides
  BY TwoSides
<1>3. /\ below[n] = {n} \cup below[t.kids[side][n]] \cup below[t.kids[Other(side)][n]]
      /\ t.kids[side][n] \in Pointers /\ t.kids[Other(side)][n] \in Pointers
      /\ n \notin below[t.kids[side][n]]
      /\ below[t.kids[side][n]] \cap below[t.kids[Other(side)][n]] = {}
  BY <1>1, <1>2, BelowNode
<1>4. /\ \A i \in below[t.kids[side][n]] : i \in Nodes /\ Before(side, i, n)
      /\ \A i \in below[t.kids[Other(side)][n]] : i \in Nodes /\ Before(Other(side), i, n)
  BY <1>1, <1>2, <1>3, NodesAreNumbers DEF Ordered
<1>5. \A i \in below[t.kids[Other(side)][n]] : Before(side, n, i)
  BY <1>1, <1>4, BeforeIsOrder
<1>6. t.kids[side][n] = Nil => Extreme(side, n, below[n])
  BY <1>1, <1>3, <1>5 DEF Extreme
<1>7. ASSUME NEW m, Extreme(side, m, below[t.kids[side][n]])
      PROVE  Extreme(side, m, below[n])
  <2>1. m \in below[t.kids[side][n]] /\ m \in Nodes /\ Before(side, m, n)
    BY <1>4, <1>7 DEF Extreme
  <2>2. \A i \in below[t.kids[Other(side)][n]] : Before(side, m, i)
    BY <1>1, <1>4, <1>5, <2>1, BeforeIsOrder
  <2> QED
    BY <1>3, <1>7, <2>1, <2>2 DEF Extreme
<1> QED
  BY <1>6, <1>7

\* Every subtree has one, and it has no child on that side.
LEMMA ExtremeBelow ==
  ASSUME NEW t, NEW S, NEW below, Shaped(t, S, below), Ordered(t, S, below, Nil),
         NEW n \in S, NEW side \in Sides
  PROVE  \E m \in Nodes : Extreme(side, m, below[n]) /\ t.kids[side][m] = Nil
<1> DEFINE Has(x) == \E m \in Nodes : Extreme(side, m, below[x]) /\ t.kids[side][m] = Nil
           Bad == {x \in S : ~Has(x)}
<1>1. Bad = {}
  <2> SUFFICES ASSUME Bad # {} PROVE FALSE
    OBVIOUS
  <2>1. Bad \subseteq S /\ S \subseteq Nodes
    BY DEF Shaped
  <2>2. PICK x \in Bad : \A s \in Sides : t.kids[s][x] \notin Bad
    <3> HIDE DEF Bad
    <3> QED
      BY <2>1, Lowest
  <2>3. x \in S /\ x \in Nodes /\ t.kids[side][x] \in S \cup {Nil}
    BY <2>1, <2>2, BelowNode
  <2>4. CASE t.kids[side][x] = Nil
    BY <2>2, <2>3, <2>4, ExtremeOfKid
  <2>5. CASE t.kids[side][x] # Nil
    <3>1. Has(t.kids[side][x])
      BY <2>2, <2>3, <2>5
    <3> QED
      BY <2>2, <2>3, <3>1, ExtremeOfKid
  <2> QED
    BY <2>4, <2>5
<1> QED
  BY <1>1

\* tree_first and tree_last.
IsOuter(t, side, f) ==
  f = [top \in Pointers |->
         IF top = Nil THEN Nil
         ELSE IF t.kids[side][top] = Nil THEN top ELSE f[t.kids[side][top]]]

\* They find the outermost node, which is the first or last.
LEMMA OutermostIs ==
  ASSUME NEW t, NEW S, NEW below, Shaped(t, S, below), Ordered(t, S, below, Nil),
         NEW n \in S \cup {Nil}, NEW side \in Sides
  PROVE  /\ n = Nil => Outermost(t, side, n) = Nil
         /\ n # Nil => /\ Outermost(t, side, n) \in S
                       /\ Extreme(side, Outermost(t, side, n), below[n])
                       /\ t.kids[side][Outermost(t, side, n)] = Nil
<1> DEFINE g == [top \in Pointers |-> IF top = Nil THEN Nil
                                      ELSE ExtremeOf(side, below[top])]
<1>1. /\ S \subseteq Nodes /\ below \in [Pointers -> SUBSET Nodes] /\ Nil \notin Nodes
      /\ Pointers = Nodes \cup {Nil} /\ \A x \in S : below[x] \subseteq S
  BY NodesAreNumbers DEF Shaped
<1>2. g[Nil] = Nil /\ \A x \in Nodes : g[x] = ExtremeOf(side, below[x])
  BY <1>1
<1>3. \A x \in S : Extreme(side, g[x], below[x]) /\ t.kids[side][g[x]] = Nil
  <2> TAKE x \in S
  <2>1. PICK m \in Nodes : Extreme(side, m, below[x]) /\ t.kids[side][m] = Nil
    BY ExtremeBelow
  <2>2. x \in Nodes /\ below[x] \subseteq Nodes
    BY <1>1
  <2>3. g[x] = m
    BY <1>2, <2>1, <2>2, ExtremeIsUnique
  <2> QED
    BY <2>1, <2>3
<1>4. \A x \in Nodes : g[x] = IF t.kids[side][x] = Nil THEN x ELSE g[t.kids[side][x]]
  <2> TAKE x \in Nodes
  <2>1. CASE x \in S
    <3>1. t.kids[side][x] \in S \cup {Nil} /\ below[x] \subseteq Nodes
      BY <1>1, <2>1, BelowNode
    <3>2. CASE t.kids[side][x] = Nil
      <4>1. Extreme(side, x, below[x])
        BY <2>1, <3>2, ExtremeOfKid
      <4> QED
        BY <1>2, <3>1, <3>2, <4>1, ExtremeIsUnique
    <3>3. CASE t.kids[side][x] # Nil
      <4>1. Extreme(side, g[t.kids[side][x]], below[x])
        BY <1>3, <2>1, <3>1, <3>3, ExtremeOfKid
      <4> QED
        BY <1>2, <3>1, <3>3, <4>1, ExtremeIsUnique
    <3> QED
      BY <3>2, <3>3
  <2>2. CASE x \notin S
    <3>1. /\ t.kids[side][x] = Nil /\ t.kids[Other(side)][x] = Nil
      BY <2>2, BelowNode, TwoSides
    <3>2. below[x] = {x}
      <4>1. below[x] = {x} \cup below[t.kids[side][x]] \cup below[t.kids[Other(side)][x]]
        BY BelowNode
      <4>2. below[Nil] = {}
        BY DEF Shaped
      <4> QED
        BY <3>1, <4>1, <4>2
    <3>3. Extreme(side, x, below[x])
      BY <3>2 DEF Extreme
    <3>4. ExtremeOf(side, below[x]) = x
      BY <3>2, <3>3, ExtremeIsUnique
    <3> QED
      BY <1>2, <3>1, <3>4
  <2> QED
    BY <2>1, <2>2
<1>5. g = [top \in Pointers |-> g[top]]
  OBVIOUS
<1> HIDE DEF g
<1>6. IsOuter(t, side, g)
  <2>1. [top \in Pointers |-> g[top]]
          = [top \in Pointers |->
               IF top = Nil THEN Nil
               ELSE IF t.kids[side][top] = Nil THEN top ELSE g[t.kids[side][top]]]
    BY <1>1, <1>2, <1>4
  <2> QED
    BY <1>5, <2>1 DEF IsOuter
<1>7. ASSUME NEW f, IsOuter(t, side, f)
      PROVE  f = g
  <2>1. f = [top \in Pointers |-> f[top]]
    BY <1>7 DEF IsOuter
  <2>2. /\ f[Nil] = Nil
        /\ \A x \in Nodes : f[x] = IF t.kids[side][x] = Nil THEN x ELSE f[t.kids[side][x]]
    BY <1>1, <1>7 DEF IsOuter
  <2>3. \A x \in Nodes : f[t.kids[side][x]] = g[t.kids[side][x]] => f[x] = g[x]
    BY <1>4, <2>2
  <2> QED
    BY <1>2, <1>5, <2>1, <2>2, <2>3, SameByKids
<1>8. (CHOOSE f : IsOuter(t, side, f)) = g
  BY <1>6, <1>7
<1>9. Outermost(t, side, n) = (CHOOSE f : IsOuter(t, side, f))[n]
  BY DEF Outermost, IsOuter
<1>10. n # Nil => g[n] \in S
  BY <1>1, <1>3 DEF Extreme
<1> QED
  BY <1>2, <1>3, <1>8, <1>9, <1>10

\* Which way a key is to be looked for.
LEMMA TheWay ==
  ASSUME NEW t, NEW S, NEW below, Shaped(t, S, below), Ordered(t, S, below, Nil),
         NEW n \in Nodes, NEW k \in Nodes, k # n
  PROVE  k \in below[n] <=> k \in below[t.kids[Towards(n, k)][n]]
<1> DEFINE side == Towards(n, k)
<1>1. side \in Sides /\ ~Before(Other(side), k, n) /\ Other(side) \in Sides
  BY TowardsIsBefore, TwoSides
<1>2. /\ below[n] = {n} \cup below[t.kids[side][n]] \cup below[t.kids[Other(side)][n]]
      /\ t.kids[Other(side)][n] \in Pointers /\ (n \notin S => t.kids[Other(side)][n] = Nil)
  BY <1>1, BelowNode
<1>3. k \notin below[t.kids[Other(side)][n]]
  <2>1. below[Nil] = {} /\ Nil \notin Nodes
    BY NodesAreNumbers DEF Shaped
  <2>2. CASE n \in S
    BY <1>1, <2>1, <2>2 DEF Ordered
  <2>3. CASE n \notin S
    BY <1>2, <2>1, <2>3
  <2> QED
    BY <2>2, <2>3
<1> QED
  BY <1>2, <1>3

\* tree_find.
IsFind(t, k, f) ==
  f = [top \in Pointers |->
         IF top = Nil THEN Nil
         ELSE IF top = k THEN top ELSE f[t.kids[Towards(top, k)][top]]]

\* tree_find finds the keys of the tree and no other.
LEMMA FindIs ==
  ASSUME NEW t, NEW S, NEW below, Shaped(t, S, below), Ordered(t, S, below, Nil),
         NEW k \in Nodes
  PROVE  Find(t, k) = IF k \in S THEN k ELSE Nil
<1> DEFINE g == [top \in Pointers |-> IF k \in below[top] THEN k ELSE Nil]
<1>1. below[Nil] = {} /\ Pointers = Nodes \cup {Nil} /\ Nil \notin Nodes /\ t.root \in Pointers
  BY NodesAreNumbers DEF Shaped, Trees
<1>2. \A x \in Pointers : g[x] = IF k \in below[x] THEN k ELSE Nil
  OBVIOUS
<1>3. g = [top \in Pointers |-> g[top]]
  OBVIOUS
<1> HIDE DEF g
<1>4. \A x \in Nodes : /\ x # k => Towards(x, k) \in Sides /\ t.kids[Towards(x, k)][x] \in Pointers
                       /\ g[x] = IF x = k THEN x ELSE g[t.kids[Towards(x, k)][x]]
  <2> TAKE x \in Nodes
  <2>1. CASE x = k
    BY <1>1, <1>2, <2>1, BelowNode, TwoSides DEF Sides
  <2>2. CASE x # k
    <3>1. Towards(x, k) \in Sides /\ t.kids[Towards(x, k)][x] \in Pointers
      BY <2>2, TowardsIsBefore, BelowNode
    <3> QED
      BY <1>1, <1>2, <2>2, <3>1, TheWay
  <2> QED
    BY <2>1, <2>2
<1>5. IsFind(t, k, g)
  <2>1. [top \in Pointers |-> g[top]]
          = [top \in Pointers |->
               IF top = Nil THEN Nil
               ELSE IF top = k THEN top ELSE g[t.kids[Towards(top, k)][top]]]
    BY <1>1, <1>2, <1>4
  <2> QED
    BY <1>3, <2>1 DEF IsFind
<1>6. ASSUME NEW f, IsFind(t, k, f)
      PROVE  f = g
  <2>1. f = [top \in Pointers |-> f[top]]
    BY <1>6 DEF IsFind
  <2>2. /\ f[Nil] = Nil
        /\ \A x \in Nodes : f[x] = IF x = k THEN x ELSE f[t.kids[Towards(x, k)][x]]
    BY <1>1, <1>6, Zenon DEF IsFind
  <2>3. \A x \in Nodes :
          (\A side \in Sides : f[t.kids[side][x]] = g[t.kids[side][x]]) => f[x] = g[x]
    BY <1>4, <2>2
  <2>4. g[Nil] = Nil
    BY <1>1, <1>2
  <2> QED
    BY <1>3, <2>1, <2>2, <2>3, <2>4, SameByKids
<1>7. (CHOOSE f : IsFind(t, k, f)) = g
  BY <1>5, <1>6
<1>8. Find(t, k) = (CHOOSE f : IsFind(t, k, f))[t.root]
  BY DEF Find, IsFind
<1>9. below[t.root] = S
  BY DEF Shaped
<1> QED
  BY <1>1, <1>2, <1>7, <1>8, <1>9

\* The keys of X behind k, and the first of them.
Later(X, k) == {j \in X : j > k}
IsNext(r, X, k) ==
  IF Later(X, k) = {} THEN r = Nil
  ELSE r \in Later(X, k) /\ \A i \in Later(X, k) : r <= i
FirstAfter(X, k) == CHOOSE r : IsNext(r, X, k)

\* There is one, and only one.
LEMMA NextIsUnique ==
  ASSUME NEW X, X \subseteq Nodes, NEW k \in Nodes
  PROVE  /\ IsNext(FirstAfter(X, k), X, k)
         /\ \A r : IsNext(r, X, k) => r = FirstAfter(X, k)
<1>1. Later(X, k) \subseteq Nat
  BY NodesAreNumbers DEF Later
<1>2. \E r : IsNext(r, X, k)
  <2>1. CASE Later(X, k) = {}
    BY <2>1 DEF IsNext
  <2>2. CASE Later(X, k) # {}
    <3>1. PICK r \in Later(X, k) : \A i \in Later(X, k) : ~ (<<i, r>> \in OpToRel(<, Nat))
      BY <1>1, <2>2, NatLessThanWellFounded, WFMin, Zenon
    <3>2. \A i \in Later(X, k) : ~(i < r)
      BY <1>1, <3>1 DEF OpToRel
    <3>3. \A i \in Later(X, k) : r <= i
      <4> TAKE i \in Later(X, k)
      <4>1. i \in Nat /\ r \in Nat
        BY <1>1, <3>1, Zenon
      <4> QED
        BY <3>2, <4>1
    <3>4. IsNext(r, X, k)
      BY <2>2, <3>1, <3>3, Zenon DEF IsNext
    <3> QED
      BY <3>4
  <2> QED
    BY <2>1, <2>2
<1>3. ASSUME NEW r, NEW s, IsNext(r, X, k), IsNext(s, X, k)
      PROVE  r = s
  BY <1>1, <1>3 DEF IsNext
<1>4. IsNext(FirstAfter(X, k), X, k)
  BY <1>2 DEF FirstAfter
<1> QED
  BY <1>3, <1>4

\* The next key in a subtree, as tree_get_next looks for it.
LEMMA NextInSubtree ==
  ASSUME NEW t, NEW S, NEW below, Shaped(t, S, below), Ordered(t, S, below, Nil),
         NEW x \in Nodes, NEW k \in Nodes
  PROVE  LET l == FirstAfter(below[t.kids["left"][x]], k)
             r == FirstAfter(below[t.kids["right"][x]], k)
         IN  FirstAfter(below[x], k)
               = IF x = k THEN Outermost(t, "left", t.kids["right"][x])
                 ELSE IF x < k THEN r
                 ELSE IF l # Nil THEN l ELSE x
<1> DEFINE L == below[t.kids["left"][x]]
           R == below[t.kids["right"][x]]
<1>1. "left" \in Sides /\ "right" \in Sides /\ Other("left") = "right"
  BY DEF Sides, Other
<1>2. /\ below[x] = {x} \cup L \cup R /\ below[x] \subseteq Nodes
      /\ below[Nil] = {}
  <2>1. below \in [Pointers -> SUBSET Nodes] /\ below[Nil] = {} /\ x \in Pointers
    BY NodesAreNumbers DEF Shaped
  <2>2. below[x] = {x} \cup L \cup R
    BY DEF Shaped
  <2> QED
    BY <2>1, <2>2
<1>3. /\ t.kids["right"][x] \in S \cup {Nil}
      /\ x \notin S => t.kids["left"][x] = Nil /\ t.kids["right"][x] = Nil
  BY <1>1, BelowNode
<1>4. /\ \A i \in L : i < x
      /\ \A i \in R : x < i
  <2>1. CASE x \in S
    <3>1. x \in S \ {Nil} /\ \A i \in below[x] : i # Nil
      BY <1>2, <2>1, NodesAreNumbers
    <3>2. /\ \A i \in L : Before("left", i, x)
          /\ \A i \in R : Before("right", i, x)
      BY <1>1, <1>2, <3>1 DEF Ordered
    <3> QED
      BY <3>2 DEF Before
  <2>2. CASE x \notin S
    BY <1>2, <1>3, <2>2
  <2> QED
    BY <2>1, <2>2
<1>5. L \subseteq Nodes /\ R \subseteq Nodes
  BY <1>2
<1> HIDE DEF L, R
<1>6. CASE x = k
  <2>1. Later(below[x], k) = R
    BY <1>2, <1>4, <1>5, <1>6, NodesAreNumbers DEF Later
  <2>2. IsNext(Outermost(t, "left", t.kids["right"][x]), below[x], k)
    <3>1. CASE t.kids["right"][x] = Nil
      <4>1. R = {}
        BY <1>2, <3>1 DEF R
      <4> QED
        BY <1>1, <2>1, <3>1, <4>1, OutermostIs DEF IsNext
    <3>2. CASE t.kids["right"][x] # Nil
      <4>1. Extreme("left", Outermost(t, "left", t.kids["right"][x]), R)
        BY <1>1, <1>3, <3>2, OutermostIs DEF R
      <4>2. PICK m : m = Outermost(t, "left", t.kids["right"][x])
        OBVIOUS
      <4>3. m \in R /\ \A j \in R \ {m} : m < j
        BY <4>1, <4>2 DEF Extreme, Before
      <4>4. \A j \in R : m <= j
        BY <1>5, <4>3, NodesAreNumbers
      <4> QED
        BY <2>1, <4>2, <4>3, <4>4 DEF IsNext
    <3> QED
      BY <3>1, <3>2
  <2> QED
    BY <1>2, <1>6, <2>2, NextIsUnique
<1>7. CASE x # k /\ x < k
  <2>1. Later(below[x], k) = Later(R, k)
    <3>1. /\ ~(x > k)
          /\ \A i \in L : ~(i > k)
      BY <1>4, <1>5, <1>7, NodesAreNumbers
    <3> QED
      BY <1>2, <3>1 DEF Later
  <2>2. IsNext(FirstAfter(R, k), below[x], k)
    BY <1>5, <2>1, NextIsUnique DEF IsNext
  <2>3. FirstAfter(below[x], k) = FirstAfter(R, k)
    BY <1>2, <2>2, NextIsUnique
  <2> QED
    BY <1>7, <2>3 DEF R
<1>8. CASE x # k /\ ~(x < k)
  <2>1. k < x
    BY <1>8, NodesAreNumbers
  <2>2. Later(below[x], k) = {x} \cup Later(L, k) \cup R
    <3>1. /\ x > k
          /\ \A i \in R : i > k
      BY <1>4, <1>5, <2>1, NodesAreNumbers
    <3> QED
      BY <1>2, <3>1 DEF Later
  <2>3. PICK l : l = FirstAfter(L, k)
    OBVIOUS
  <2>4. IsNext(l, L, k) /\ Later(L, k) \subseteq Nodes
    BY <1>5, <2>3, NextIsUnique DEF Later
  <2>5. /\ l = Nil => Later(L, k) = {}
        /\ l # Nil => l \in Later(L, k) /\ l \in L /\ \A i \in Later(L, k) : l <= i
    BY <2>4, NodesAreNumbers DEF IsNext, Later
  <2>6. IsNext(IF l # Nil THEN l ELSE x, below[x], k)
    <3>1. Later(below[x], k) # {}
      BY <2>2
    <3>2. CASE l # Nil
      <4>1. l < x /\ l \in Nat /\ x \in Nat
        BY <1>4, <1>5, <2>5, <3>2, NodesAreNumbers
      <4>2. \A i \in R : i \in Nat /\ x < i
        BY <1>4, <1>5, NodesAreNumbers
      <4>3. \A i \in {x} \cup R : l <= i
        BY <4>1, <4>2
      <4> QED
        BY <2>2, <2>5, <3>1, <3>2, <4>3 DEF IsNext
    <3>3. CASE l = Nil
      <4>1. \A i \in {x} \cup R : x <= i
        BY <1>4, <1>5, NodesAreNumbers
      <4> QED
        BY <2>2, <2>5, <3>1, <3>3, <4>1 DEF IsNext
    <3> QED
      BY <3>2, <3>3
  <2>7. FirstAfter(below[x], k) = IF l # Nil THEN l ELSE x
    BY <1>2, <2>6, NextIsUnique
  <2> QED
    BY <1>8, <2>3, <2>7 DEF L
<1> QED
  BY <1>6, <1>7, <1>8

\* tree_get_next.
IsGetNext(t, k, f) ==
  f = [top \in Pointers |->
         IF top = Nil THEN Nil
         ELSE IF top = k THEN Outermost(t, "left", t.kids["right"][top])
         ELSE IF top < k THEN f[t.kids["right"][top]]
         ELSE LET subtree == f[t.kids["left"][top]]
              IN  IF subtree # Nil THEN subtree ELSE top]

\* tree_get_next finds the next key that is there.
LEMMA GetNextIs ==
  ASSUME NEW t, NEW S, NEW below, Shaped(t, S, below), Ordered(t, S, below, Nil),
         NEW k \in Nodes
  PROVE  IsNext(GetNext(t, k), S, k)
<1> DEFINE g == [top \in Pointers |-> FirstAfter(below[top], k)]
<1>1. /\ below[Nil] = {} /\ Pointers = Nodes \cup {Nil} /\ Nil \notin Nodes /\ t.root \in Pointers
      /\ below \in [Pointers -> SUBSET Nodes]
  BY NodesAreNumbers DEF Shaped, Trees
<1>2. \A x \in Pointers : g[x] = FirstAfter(below[x], k)
  OBVIOUS
<1>3. g = [top \in Pointers |-> g[top]]
  OBVIOUS
<1> HIDE DEF g
<1>4. g[Nil] = Nil
  <2>1. Later({}, k) = {}
    BY DEF Later
  <2>2. IsNext(Nil, {}, k)
    BY <2>1 DEF IsNext
  <2>3. FirstAfter({}, k) = Nil
    BY <2>2, NextIsUnique
  <2> QED
    BY <1>1, <1>2, <2>3
<1>5. \A x \in Nodes :
        g[x] = IF x = k THEN Outermost(t, "left", t.kids["right"][x])
               ELSE IF x < k THEN g[t.kids["right"][x]]
               ELSE IF g[t.kids["left"][x]] # Nil THEN g[t.kids["left"][x]] ELSE x
  <2> TAKE x \in Nodes
  <2>1. t.kids["left"][x] \in Pointers /\ t.kids["right"][x] \in Pointers
    BY BelowNode DEF Sides
  <2>2. /\ g[t.kids["left"][x]] = FirstAfter(below[t.kids["left"][x]], k)
        /\ g[t.kids["right"][x]] = FirstAfter(below[t.kids["right"][x]], k)
        /\ g[x] = FirstAfter(below[x], k)
    BY <1>1, <1>2, <2>1
  <2> QED
    BY <2>2, NextInSubtree
<1>6. IsGetNext(t, k, g)
  <2>1. [top \in Pointers |-> g[top]]
          = [top \in Pointers |->
               IF top = Nil THEN Nil
               ELSE IF top = k THEN Outermost(t, "left", t.kids["right"][top])
               ELSE IF top < k THEN g[t.kids["right"][top]]
               ELSE IF g[t.kids["left"][top]] # Nil THEN g[t.kids["left"][top]] ELSE top]
    BY <1>1, <1>4, <1>5
  <2> QED
    BY <1>3, <2>1 DEF IsGetNext
<1>7. ASSUME NEW f, IsGetNext(t, k, f)
      PROVE  f = g
  <2>1. f = [top \in Pointers |-> f[top]]
    BY <1>7 DEF IsGetNext
  <2>2. /\ f[Nil] = Nil
        /\ \A x \in Nodes :
             f[x] = IF x = k THEN Outermost(t, "left", t.kids["right"][x])
                    ELSE IF x < k THEN f[t.kids["right"][x]]
                    ELSE IF f[t.kids["left"][x]] # Nil THEN f[t.kids["left"][x]] ELSE x
    BY <1>1, <1>7, Zenon DEF IsGetNext
  <2>3. \A x \in Nodes :
          (\A side \in Sides : f[t.kids[side][x]] = g[t.kids[side][x]]) => f[x] = g[x]
    BY <1>5, <2>2 DEF Sides
  <2> QED
    BY <1>3, <1>4, <2>1, <2>2, <2>3, SameByKids
<1>8. (CHOOSE f : IsGetNext(t, k, f)) = g
  BY <1>6, <1>7
<1>9. GetNext(t, k) = (CHOOSE f : IsGetNext(t, k, f))[t.root]
  BY DEF GetNext, IsGetNext
<1>10. below[t.root] = S /\ S \subseteq Nodes
  BY DEF Shaped
<1>11. GetNext(t, k) = FirstAfter(S, k)
  BY <1>1, <1>2, <1>8, <1>9, <1>10
<1> QED
  BY <1>10, <1>11, NextIsUnique

\* The black nodes on a path, as tree_verify counts them.
IsBlackPath(t, h) ==
  h = [n \in Pointers |->
         IF n = Nil THEN 1
         ELSE LET l == h[t.kids["left"][n]]
                  r == h[t.kids["right"][n]]
              IN  IF l = -1 \/ l # r THEN -1
                  ELSE IF t.color[n] = "black" THEN l + 1 ELSE l]

\* What tree_verify counts.
LEMMA BlackPathIs ==
  ASSUME NEW t, NEW S, NEW below, Shaped(t, S, below),
         NEW black, Even(t, black, Nil, Nil, Nil)
  PROVE  BlackPath(t) # -1
<1>1. /\ Pointers = Nodes \cup {Nil} /\ Nil \notin Nodes /\ t.root \in Pointers
      /\ black \in [Pointers -> Nat \ {0}] /\ black[Nil] = 1
  BY NodesAreNumbers DEF Shaped, Trees, Even
<1>2. \A x \in Nodes :
        /\ t.kids["left"][x] \in Pointers /\ t.kids["right"][x] \in Pointers
        /\ black[t.kids["left"][x]] = black[t.kids["right"][x]]
        /\ black[x] = IF t.color[x] = "black" THEN black[t.kids["left"][x]] + 1
                      ELSE black[t.kids["left"][x]]
  <2> TAKE x \in Nodes
  <2>1. t.kids["left"][x] \in Pointers /\ t.kids["right"][x] \in Pointers
    BY BelowNode DEF Sides
  <2>2. \A side \in Sides : black[x] = Height(black, t.kids[side][x], Nil) + Weight(t, x)
    BY <1>1 DEF Even
  <2>3. \A m : Height(black, m, Nil) = black[m]
    BY DEF Height
  <2>4. /\ black[x] = black[t.kids["left"][x]] + Weight(t, x)
        /\ black[x] = black[t.kids["right"][x]] + Weight(t, x)
    BY <2>2, <2>3 DEF Sides
  <2>5. black[t.kids["left"][x]] \in Nat /\ black[t.kids["right"][x]] \in Nat /\ black[x] \in Nat
    BY <1>1, <2>1
  <2> QED
    BY <2>1, <2>4, <2>5 DEF Weight
<1>3. IsBlackPath(t, black)
  <2>1. \A x \in Nodes : black[t.kids["left"][x]] # -1
    BY <1>1, <1>2
  <2>2. [n \in Pointers |-> black[n]]
          = [n \in Pointers |->
               IF n = Nil THEN 1
               ELSE IF \/ black[t.kids["left"][n]] = -1
                       \/ black[t.kids["left"][n]] # black[t.kids["right"][n]] THEN -1
                    ELSE IF t.color[n] = "black" THEN black[t.kids["left"][n]] + 1
                    ELSE black[t.kids["left"][n]]]
    BY <1>1, <1>2, <2>1, ZenonT(30)
  <2>3. black = [n \in Pointers |-> black[n]]
    BY <1>1
  <2> QED
    BY <2>2, <2>3 DEF IsBlackPath
<1>9. PICK g : /\ g = [n \in Pointers |-> g[n]] /\ g[Nil] = 1 /\ g = black
               /\ \A x \in Nodes :
                    /\ g[t.kids["left"][x]] = g[t.kids["right"][x]]
                    /\ g[t.kids["left"][x]] # -1
                    /\ g[x] = IF t.color[x] = "black" THEN g[t.kids["left"][x]] + 1
                              ELSE g[t.kids["left"][x]]
  BY <1>1, <1>2
<1>4. ASSUME NEW h, IsBlackPath(t, h)
      PROVE  h = g
  <2>1. h = [n \in Pointers |-> h[n]]
    BY <1>4 DEF IsBlackPath
  <2>2. /\ h[Nil] = 1
        /\ \A x \in Nodes :
             h[x] = IF h[t.kids["left"][x]] = -1 \/ h[t.kids["left"][x]] # h[t.kids["right"][x]]
                    THEN -1
                    ELSE IF t.color[x] = "black" THEN h[t.kids["left"][x]] + 1
                    ELSE h[t.kids["left"][x]]
    BY <1>1, <1>4, Zenon DEF IsBlackPath
  <2>3. \A x \in Nodes :
          (\A side \in Sides : h[t.kids[side][x]] = g[t.kids[side][x]]) => h[x] = g[x]
    BY <1>9, <2>2 DEF Sides
  <2>4. h[Nil] = g[Nil]
    BY <1>9, <2>2
  <2>5. g = [n \in Pointers |-> g[n]]
    BY <1>9
  <2> QED
    BY <1>1, <2>1, <2>3, <2>4, <2>5, SameByKids
<1>5. (CHOOSE h : IsBlackPath(t, h)) = black
  BY <1>3, <1>4, <1>9
<1>6. BlackPath(t) = (CHOOSE h : IsBlackPath(t, h))[t.root]
  BY DEF BlackPath, IsBlackPath
<1>7. black[t.root] \in Nat \ {0}
  BY <1>1
<1>8. BlackPath(t) = black[t.root]
  BY <1>5, <1>6
<1> QED
  BY <1>7, <1>8

-----------------------------------------------------------------------------
(* Changing pointers and colors.                                           *)

\* What an assignment to the root changes.
LEMMA RootEdit ==
  ASSUME NEW t \in Trees, NEW x \in Pointers
  PROVE  /\ [t EXCEPT !.root = x] \in Trees
         /\ [t EXCEPT !.root = x].root = x
         /\ [t EXCEPT !.root = x].kids = t.kids
         /\ [t EXCEPT !.root = x].parent = t.parent
         /\ [t EXCEPT !.root = x].color = t.color
BY DEF Trees

\* What an assignment to a parent changes.
LEMMA ParentEdit ==
  ASSUME NEW t \in Trees, NEW m \in Nodes, NEW x \in Pointers
  PROVE  /\ [t EXCEPT !.parent[m] = x] \in Trees
         /\ [t EXCEPT !.parent[m] = x].root = t.root
         /\ [t EXCEPT !.parent[m] = x].kids = t.kids
         /\ [t EXCEPT !.parent[m] = x].color = t.color
         /\ \A n \in Nodes :
              [t EXCEPT !.parent[m] = x].parent[n] = IF n = m THEN x ELSE t.parent[n]
BY DEF Trees

\* What an assignment to a child changes.
LEMMA KidEdit ==
  ASSUME NEW t \in Trees, NEW d \in Sides, NEW m \in Nodes, NEW x \in Pointers
  PROVE  /\ [t EXCEPT !.kids[d][m] = x] \in Trees
         /\ [t EXCEPT !.kids[d][m] = x].root = t.root
         /\ [t EXCEPT !.kids[d][m] = x].parent = t.parent
         /\ [t EXCEPT !.kids[d][m] = x].color = t.color
         /\ \A n \in Nodes, e \in Sides :
              [t EXCEPT !.kids[d][m] = x].kids[e][n]
                = IF n = m /\ e = d THEN x ELSE t.kids[e][n]
BY DEF Trees

\* What linking a node below another changes.
Linked(t, d, m, x) == [t EXCEPT !.kids[d][m] = x, !.parent[x] = m]

\* It changes the two pointers alone.
LinkedTo(t, u, d, m, x) ==
  /\ u \in Trees /\ u.root = t.root /\ u.color = t.color
  /\ \A n \in Nodes, w \in Sides :
       u.kids[w][n] = IF n = m /\ w = d THEN x ELSE t.kids[w][n]
  /\ \A n \in Nodes : u.parent[n] = IF n = x THEN m ELSE t.parent[n]

\* That is what linking does.
LEMMA LinkEdit ==
  ASSUME NEW t \in Trees, NEW d \in Sides, NEW m \in Nodes, NEW x \in Nodes
  PROVE  LinkedTo(t, Linked(t, d, m, x), d, m, x)
BY NodesAreNumbers DEF Trees, Linked, LinkedTo

\* What a new color changes.
Painted(t, u, m, c) ==
  /\ u \in Trees /\ u.root = t.root /\ u.kids = t.kids /\ u.parent = t.parent
  /\ u.color[m] = c /\ \A n \in Nodes \ {m} : u.color[n] = t.color[n]

\* That is what painting does.
LEMMA PaintIs ==
  ASSUME NEW t \in Trees, NEW m \in Nodes, NEW c \in Colors
  PROVE  Painted(t, Paint(t, m, c), m, c)
BY DEF Trees, Paint, Painted

\* The colors are two.
LEMMA TwoColors == "red" \in Colors /\ "black" \in Colors /\ "red" # "black"
BY DEF Colors

\* Trees are the same whose fields are.
LEMMA SameTree ==
  ASSUME NEW t \in Trees, NEW u \in Trees,
         t.root = u.root, t.kids = u.kids, t.parent = u.parent,
         \A n \in Nodes : t.color[n] = u.color[n]
  PROVE  t = u
<1>1. t.color = u.color
  BY DEF Trees
<1> QED
  BY <1>1 DEF Trees

\* Colors have nothing to do with shape and order.
LEMMA PaintKeepsShape ==
  ASSUME NEW t, NEW S, NEW below, Shaped(t, S, below), NEW m \in S, NEW c \in Colors
  PROVE  /\ Shaped(Paint(t, m, c), S, below)
         /\ \A gone : Ordered(t, S, below, gone) => Ordered(Paint(t, m, c), S, below, gone)
<1>1. t \in Trees /\ m \in Nodes
  BY DEF Shaped
<1>2. PICK u : u = Paint(t, m, c)
  OBVIOUS
<1>3. /\ u \in Trees /\ u.root = t.root /\ u.kids = t.kids /\ u.parent = t.parent
      /\ \A n \in Nodes \ {m} : u.color[n] = t.color[n]
  <2>1. Painted(t, u, m, c)
    BY <1>1, <1>2, PaintIs
  <2> QED
    BY <2>1 DEF Painted
<1>4. \A n \in Nodes \ S : u.color[n] = "red"
  BY <1>3 DEF Shaped
<1>5. Shaped(u, S, below)
  BY <1>3, <1>4 DEF Shaped
<1>6. \A gone : Ordered(t, S, below, gone) => Ordered(u, S, below, gone)
  BY <1>3 DEF Ordered
<1> QED
  BY <1>2, <1>5, <1>6

\* The side a node is on.
LEMMA SideIs ==
  ASSUME NEW t, NEW S, NEW below, Shaped(t, S, below),
         NEW p \in Nodes, NEW d \in Sides, t.kids[d][p] # Nil
  PROVE  LET n == t.kids[d][p]
         IN  /\ n \in S /\ p \in S /\ t.parent[n] = p /\ SideOf(t, n) = d
             /\ Sibling(t, n) = t.kids[Other(d)][p]
<1>1. PICK n : n = t.kids[d][p]
  OBVIOUS
<1>2. /\ n \in Nodes /\ t.parent[n] = p /\ n # t.kids[Other(d)][p] /\ p \in S
      /\ n \in S
  BY <1>1, BelowNode, NodesAreNumbers
<1>3. SideOf(t, n) = d
  BY <1>1, <1>2 DEF SideOf, Sides, Other
<1> QED
  BY <1>1, <1>2, <1>3 DEF Sibling

\* Who has a parent is its child.
LEMMA OnASide ==
  ASSUME NEW t, NEW S, NEW below, Shaped(t, S, below),
         NEW n \in Nodes, t.parent[n] # Nil
  PROVE  /\ n \in S /\ t.parent[n] \in S /\ t.parent[n] \in Nodes
         /\ SideOf(t, n) \in Sides /\ t.kids[SideOf(t, n)][t.parent[n]] = n
<1>1. /\ n \in S /\ t.parent[n] \in S
      /\ \E side \in Sides : t.kids[side][t.parent[n]] = n
  BY ParentOf
<1>2. t.parent[n] \in Nodes
  BY <1>1 DEF Shaped
<1> QED
  BY <1>1, <1>2 DEF SideOf, Sides

\* How shape is shown from either side.
Joined(t, below, n, side) ==
  /\ below[n] = {n} \cup below[t.kids[side][n]] \cup below[t.kids[Other(side)][n]]
  /\ n \notin below[t.kids[side][n]] /\ n \notin below[t.kids[Other(side)][n]]
  /\ below[t.kids[side][n]] \cap below[t.kids[Other(side)][n]] = {}
  /\ \A d \in Sides : t.kids[d][n] # Nil => t.parent[t.kids[d][n]] = n

\* Joined nodes make a tree.
LEMMA IntoShape ==
  ASSUME NEW t \in Trees, NEW S \in SUBSET Nodes, IsFiniteSet(S),
         NEW below \in [Pointers -> SUBSET Nodes],
         below[Nil] = {}, below[t.root] = S,
         \A n \in Nodes : \E side \in Sides : Joined(t, below, n, side),
         \A n \in S : below[n] \subseteq S,
         t.root # Nil => t.parent[t.root] = Nil,
         \A n \in S \ {t.root} :
           \E side \in Sides : t.parent[n] \in S /\ t.kids[side][t.parent[n]] = n,
         \A n \in Nodes \ S : /\ t.parent[n] = Nil /\ t.color[n] = "red"
                              /\ \A side \in Sides : t.kids[side][n] = Nil
  PROVE  Shaped(t, S, below)
<1>1. \A n \in Nodes :
       /\ below[n] = {n} \cup below[t.kids["left"][n]] \cup below[t.kids["right"][n]]
       /\ n \notin below[t.kids["left"][n]] /\ n \notin below[t.kids["right"][n]]
       /\ below[t.kids["left"][n]] \cap below[t.kids["right"][n]] = {}
       /\ \A side \in Sides : t.kids[side][n] # Nil => t.parent[t.kids[side][n]] = n
  <2> TAKE n \in Nodes
  <2>1. PICK side \in Sides : Joined(t, below, n, side)
    OBVIOUS
  <2>2. \/ side = "left" /\ Other(side) = "right"
        \/ side = "right" /\ Other(side) = "left"
    BY DEF Sides, Other
  <2> QED
    BY <2>1, <2>2 DEF Joined
<1>2. \A n \in S : IF n = t.root THEN t.parent[n] = Nil
                   ELSE \E side \in Sides : t.parent[n] \in S /\ t.kids[side][t.parent[n]] = n
  BY NodesAreNumbers, SMTT(30)
<1> QED
  BY <1>1, <1>2 DEF Shaped

-----------------------------------------------------------------------------
(* Rotation.                                                               *)

\* n has gone down on that side, below s; i has changed its parent.
Turned(t, u, side, n, s, i) ==
  /\ u \in Trees /\ u.color = t.color
  /\ u.root = IF t.root = n THEN s ELSE t.root
  /\ u.kids[side][s] = n /\ u.kids[Other(side)][s] = t.kids[Other(side)][s]
  /\ u.kids[Other(side)][n] = i /\ u.kids[side][n] = t.kids[side][n]
  /\ \A m \in Nodes \ {n, s} : \A d \in Sides :
       u.kids[d][m] = IF t.kids[d][m] = n THEN s ELSE t.kids[d][m]
  /\ \A m \in Nodes :
       u.parent[m] = IF m = n THEN s ELSE IF m = s THEN t.parent[n]
                     ELSE IF m = i THEN n ELSE t.parent[m]

\* The nodes of a rotation.
LEMMA TurnNodes ==
  ASSUME NEW t, NEW S, NEW below, Shaped(t, S, below), NEW side \in Sides,
         NEW n \in S, NEW s, s = t.kids[Other(side)][n], s # Nil,
         NEW i, i = t.kids[side][s]
  PROVE  /\ n \in Nodes /\ s \in Nodes /\ s \in S /\ i \in S \cup {Nil} /\ i \in Pointers
         /\ Other(side) \in Sides /\ Other(Other(side)) = side /\ Other(side) # side
         /\ n # s /\ n # i /\ s # i /\ t.parent[s] = n /\ (i # Nil => t.parent[i] = s)
         /\ t.parent[n] # n /\ t.parent[n] # s /\ t.root # s /\ (i # Nil => t.root # i)
         /\ t.kids[Other(side)][s] # n
<1>1. /\ n \in Nodes /\ Other(side) \in Sides /\ Other(Other(side)) = side /\ Other(side) # side
  BY TwoSides DEF Shaped
<1>2. /\ s \in Nodes /\ t.parent[s] = n /\ s \in S /\ n \notin below[s] /\ s # n
      /\ s \in below[s]
  BY <1>1, BelowNode, NodesAreNumbers, SMTT(30)
<1>3. /\ i \in S \cup {Nil} /\ i \in Pointers
      /\ below[s] = {s} \cup below[i] \cup below[t.kids[Other(side)][s]]
      /\ i # Nil => i \in Nodes /\ t.parent[i] = s /\ i \in below[i] /\ i # s
  BY <1>2, BelowNode
<1>4. i # n /\ i # s
  BY <1>1, <1>2, <1>3, NodesAreNumbers, Zenon
<1>5. t.kids[Other(side)][s] # n
  BY <1>1, <1>2, BelowNode
<1>6. t.parent[n] # n /\ t.parent[n] # s
  <2>1. t.parent[n] # Nil => \E d \in Sides : t.kids[d][t.parent[n]] = n
    BY <1>1, ParentOf
  <2>2. \A d \in Sides : t.kids[d][n] # n /\ t.kids[d][s] # n
    <3>1. \A d \in Sides : t.kids[d][n] # n
      BY <1>1, BelowNode, NodesAreNumbers, SMTT(30)
    <3> QED
      BY <1>3, <1>4, <1>5, <3>1, TwoSides
  <2> QED
    BY <1>1, <1>2, <2>1, <2>2, NodesAreNumbers
<1>7. t.root # s /\ (i # Nil => t.root # i)
  <2>1. t.root # Nil => t.parent[t.root] = Nil
    BY <1>1, ParentOf, SMTT(30)
  <2> QED
    BY <1>1, <1>2, <1>3, <2>1, NodesAreNumbers, ZenonT(30)
<1> QED
  BY <1>1, <1>2, <1>3, <1>4, <1>5, <1>6, <1>7, Zenon

\* tree_rotate_left and tree_rotate_right.
LEMMA RotateTurns ==
  ASSUME NEW t, NEW S, NEW below, Shaped(t, S, below), NEW side \in Sides,
         NEW n \in S, NEW s, s = t.kids[Other(side)][n], s # Nil,
         NEW i, i = t.kids[side][s]
  PROVE  Turned(t, Rotate(t, side, n), side, n, s, i)
<1>1. /\ n \in Nodes /\ s \in Nodes /\ s \in S /\ i \in S \cup {Nil} /\ i \in Pointers
      /\ Other(side) \in Sides /\ Other(Other(side)) = side /\ Other(side) # side
      /\ n # s /\ n # i /\ s # i /\ t.parent[s] = n /\ (i # Nil => t.parent[i] = s)
      /\ t.parent[n] # n /\ t.parent[n] # s /\ t.root # s
      /\ t.kids[Other(side)][s] # n
  BY TurnNodes, SMTT(30)
<1>2. t \in Trees /\ s \in Pointers /\ n \in Pointers
  BY <1>1, NodesAreNumbers DEF Shaped
<1>3. PICK p : p = t.parent[n]
  OBVIOUS
<1>4. p \in Pointers /\ (p # Nil => p \in Nodes /\ SideOf(t, n) \in Sides /\ t.kids[SideOf(t, n)][p] = n)
  BY <1>1, <1>2, <1>3, OnASide, NodesAreNumbers DEF Trees
<1>5. /\ p = Nil => n = t.root
      /\ \A m \in Nodes, d \in Sides : t.kids[d][m] = n => m = p /\ p # Nil /\ d = SideOf(t, n)
  <2>1. p = Nil => n = t.root
    <3>1. t.parent[n] = Nil <=> n = t.root
      BY <1>1, ParentOf
    <3> QED
      BY <1>3, <3>1
  <2>2. ASSUME NEW m \in Nodes, NEW d \in Sides, t.kids[d][m] = n
        PROVE  m = p /\ p # Nil /\ d = SideOf(t, n)
    BY <1>1, <1>3, <2>2, SideIs, NodesAreNumbers
  <2> QED
    BY <2>1, <2>2
<1>6. PICK a : a = IF p = Nil THEN [t EXCEPT !.root = s]
                   ELSE [t EXCEPT !.kids[SideOf(t, n)][p] = s]
  OBVIOUS
<1>7. /\ a \in Trees /\ a.color = t.color /\ a.parent = t.parent
      /\ a.root = IF t.root = n THEN s ELSE t.root
      /\ \A m \in Nodes, d \in Sides :
           a.kids[d][m] = IF t.kids[d][m] = n THEN s ELSE t.kids[d][m]
  <2>1. CASE p = Nil
    <3>1. /\ a \in Trees /\ a.color = t.color /\ a.parent = t.parent /\ a.root = s
          /\ a.kids = t.kids
      BY <1>2, <1>6, <2>1, RootEdit
    <3>2. \A m \in Nodes, d \in Sides : t.kids[d][m] # n
      BY <1>5, <2>1
    <3> QED
      BY <1>5, <2>1, <3>1, <3>2
  <2>2. CASE p # Nil
    <3>1. t.root # n
      BY <1>1, <1>3, <2>2, ParentOf
    <3>2. a = [t EXCEPT !.kids[SideOf(t, n)][p] = s]
      BY <1>6, <2>2
    <3>3. p \in Nodes /\ SideOf(t, n) \in Sides /\ t.kids[SideOf(t, n)][p] = n
      BY <1>4, <2>2
    <3>4. /\ a \in Trees /\ a.color = t.color /\ a.parent = t.parent /\ a.root = t.root
          /\ \A m \in Nodes, d \in Sides :
               a.kids[d][m] = IF m = p /\ d = SideOf(t, n) THEN s ELSE t.kids[d][m]
      BY <1>2, <3>2, <3>3, KidEdit
    <3> QED
      BY <1>5, <3>1, <3>3, <3>4
  <2> QED
    BY <2>1, <2>2
<1>8. PICK b : b = [a EXCEPT !.parent[s] = p]
  OBVIOUS
<1>9. /\ b \in Trees /\ b.color = t.color /\ b.root = a.root /\ b.kids = a.kids
      /\ \A m \in Nodes : b.parent[m] = IF m = s THEN p ELSE t.parent[m]
  BY <1>1, <1>4, <1>7, <1>8, ParentEdit
<1>10. b = ReplaceNode(t, n, s)
  BY <1>3, <1>6, <1>8 DEF ReplaceNode
<1>11. PICK c : c = [b EXCEPT !.kids[Other(side)][n] = i]
  BY ZenonT(30)
<1>12. /\ c \in Trees /\ c.color = t.color /\ c.root = a.root /\ c.parent = b.parent
       /\ \A m \in Nodes, d \in Sides :
            c.kids[d][m] = IF m = n /\ d = Other(side) THEN i ELSE a.kids[d][m]
  BY <1>1, <1>9, <1>11, KidEdit
<1>13. PICK e : e = IF i = Nil THEN c ELSE [c EXCEPT !.parent[i] = n]
  OBVIOUS
<1>14. /\ e \in Trees /\ e.color = t.color /\ e.root = a.root /\ e.kids = c.kids
       /\ \A m \in Nodes : e.parent[m] = IF m = i THEN n ELSE b.parent[m]
  <2>1. CASE i = Nil
    BY <1>12, <1>13, <2>1, NodesAreNumbers
  <2>2. CASE i # Nil
    <3>1. i \in Nodes /\ e = [c EXCEPT !.parent[i] = n]
      BY <1>1, <1>13, <2>2, NodesAreNumbers, SMTT(30)
    <3> QED
      BY <1>2, <1>12, <3>1, ParentEdit, SMTT(30)
  <2> QED
    BY <2>1, <2>2
<1>15. PICK u : u = Linked(e, side, s, n)
  OBVIOUS
<1>18. /\ u \in Trees /\ u.color = t.color /\ u.root = a.root
       /\ \A m \in Nodes, d \in Sides :
            u.kids[d][m] = IF m = s /\ d = side THEN n ELSE c.kids[d][m]
       /\ \A m \in Nodes : u.parent[m] = IF m = n THEN s ELSE e.parent[m]
  <2>1. /\ u \in Trees /\ u.root = e.root /\ u.color = e.color
        /\ \A m \in Nodes, d \in Sides :
             u.kids[d][m] = IF m = s /\ d = side THEN n ELSE e.kids[d][m]
        /\ \A m \in Nodes : u.parent[m] = IF m = n THEN s ELSE e.parent[m]
    <3>1. e \in Trees /\ side \in Sides /\ s \in Nodes /\ n \in Nodes
      BY <1>1, <1>14
    <3>2. LinkedTo(e, u, side, s, n)
      BY <3>1, <1>15, LinkEdit, Zenon
    <3> QED
      BY <3>2, Zenon DEF LinkedTo
  <2> QED
    BY <1>14, <2>1
<1>19. u = Rotate(t, side, n)
  <2> DEFINE r(x, y) == [ReplaceNode(t, n, x) EXCEPT !.kids[Other(side)][n] = y]
             v(x, y) == IF y = Nil THEN r(x, y) ELSE [r(x, y) EXCEPT !.parent[y] = n]
             x0 == t.kids[Other(side)][n]
  <2>1. Rotate(t, side, n) = Linked(v(x0, t.kids[side][x0]), side, x0, n)
    BY DEF Rotate, Linked
  <2>2. Rotate(t, side, n) = Linked(v(s, i), side, s, n)
    <3> HIDE DEF v
    <3> QED
      BY <2>1
  <2>3. c = r(s, i)
    BY <1>10, <1>11, SMTT(30)
  <2>4. e = v(s, i)
    <3> HIDE DEF r
    <3> QED
      BY <1>13, <2>3, SMTT(30)
  <2> HIDE DEF v
  <2> QED
    BY <1>15, <2>2, <2>4
<1>20. /\ u.kids[side][s] = n /\ u.kids[Other(side)][s] = t.kids[Other(side)][s]
       /\ u.kids[Other(side)][n] = i /\ u.kids[side][n] = t.kids[side][n]
  <2>1. t.kids[side][n] # n
    BY <1>1, BelowNode, NodesAreNumbers, SMTT(30)
  <2> QED
    BY <1>1, <1>7, <1>12, <1>14, <1>18, <2>1, SMTT(30)
<1>21. \A m \in Nodes \ {n, s} : \A d \in Sides :
         u.kids[d][m] = IF t.kids[d][m] = n THEN s ELSE t.kids[d][m]
  BY <1>1, <1>7, <1>12, <1>14, <1>18
<1>22. \A m \in Nodes :
         u.parent[m] = IF m = n THEN s ELSE IF m = s THEN t.parent[n]
                       ELSE IF m = i THEN n ELSE t.parent[m]
  BY <1>1, <1>3, <1>9, <1>14, <1>18
<1>23. u.color = t.color /\ u.root = IF t.root = n THEN s ELSE t.root
  BY <1>7, <1>18
<1> QED
  BY <1>18, <1>19, <1>20, <1>21, <1>22, <1>23 DEF Turned

\* The subtrees after a rotation.
BelowTurned(t, below, side, n, s, i) ==
  [m \in Pointers |-> IF m = s THEN below[n]
                      ELSE IF m = n THEN {n} \cup below[t.kids[side][n]] \cup below[i]
                      ELSE below[m]]

\* What a rotation does to the subtrees.
TurnedBelow(below, after, n, s, i, near, outer) ==
  /\ after \in [Pointers -> SUBSET Nodes]
  /\ after[s] = below[n] /\ after[n] = {n} \cup below[near] \cup below[i]
  /\ after[n] \subseteq below[n]
  /\ \A m \in Pointers \ {n, s} : after[m] = below[m]
  /\ below[n] = {n} \cup below[near] \cup below[s]
  /\ below[s] = {s} \cup below[i] \cup below[outer]
  /\ n \notin below[near] /\ n \notin below[s] /\ below[near] \cap below[s] = {}
  /\ s \notin below[i] /\ s \notin below[outer] /\ below[i] \cap below[outer] = {}
  /\ near \in Pointers /\ outer \in Pointers
  /\ near \notin {n, s} /\ outer \notin {n, s}

\* The subtrees after a rotation are these.
LEMMA BelowTurnedIs ==
  ASSUME NEW t, NEW S, NEW below, Shaped(t, S, below), NEW side \in Sides,
         NEW n \in S, NEW s, s = t.kids[Other(side)][n], s # Nil,
         NEW i, i = t.kids[side][s]
  PROVE  TurnedBelow(below, BelowTurned(t, below, side, n, s, i), n, s, i,
                     t.kids[side][n], t.kids[Other(side)][s])
<1>1. /\ n \in Nodes /\ s \in Nodes /\ s \in S /\ i \in S \cup {Nil} /\ i \in Pointers
      /\ Other(side) \in Sides /\ Other(Other(side)) = side /\ Other(side) # side
      /\ n # s /\ n # i /\ s # i
      /\ t.kids[Other(side)][s] # n
  BY TurnNodes, SMTT(30)
<1>2. PICK near, outer, after : /\ near = t.kids[side][n] /\ outer = t.kids[Other(side)][s]
                                /\ after = BelowTurned(t, below, side, n, s, i)
  BY ZenonT(30)
<1>3. /\ below[n] = {n} \cup below[near] \cup below[s]
      /\ n \notin below[near] /\ n \notin below[s] /\ below[near] \cap below[s] = {}
      /\ near \in Pointers /\ near # n /\ near # s
  BY <1>1, <1>2, BelowNode, NodesAreNumbers
<1>4. /\ below[s] = {s} \cup below[i] \cup below[outer]
      /\ s \notin below[i] /\ s \notin below[outer] /\ below[i] \cap below[outer] = {}
      /\ outer \in Pointers /\ outer # s
  <2>1. /\ below[s] = {s} \cup below[i] \cup below[outer]
        /\ s \notin below[i] /\ below[i] \cap below[outer] = {}
    <3>1. s \in Nodes
      BY <1>1
    <3>2. /\ below[s] = {s} \cup below[t.kids[side][s]] \cup below[t.kids[Other(side)][s]]
          /\ s \notin below[t.kids[side][s]]
          /\ below[t.kids[side][s]] \cap below[t.kids[Other(side)][s]] = {}
      BY <3>1, BelowNode
    <3> QED
      BY <1>2, <3>2, Zenon
  <2>2. /\ s \notin below[outer] /\ outer \in Pointers
        /\ outer # Nil => outer # s
    BY <1>1, <1>2, BelowNode, SMTT(30)
  <2> QED
    BY <1>1, <2>1, <2>2, NodesAreNumbers, Zenon
<1>5. below \in [Pointers -> SUBSET Nodes] /\ n \in Pointers /\ s \in Pointers
  BY <1>1, NodesAreNumbers DEF Shaped
<1>6. /\ after \in [Pointers -> SUBSET Nodes]
      /\ after[s] = below[n] /\ after[n] = {n} \cup below[near] \cup below[i]
      /\ \A m \in Pointers \ {n, s} : after[m] = below[m]
  <2>1. {n} \cup below[near] \cup below[i] \in SUBSET Nodes
    BY <1>1, <1>3, <1>5
  <2> QED
    BY <1>1, <1>2, <1>5, <2>1, Zenon DEF BelowTurned
<1>7. TurnedBelow(below, after, n, s, i, near, outer)
  <2>1. after[n] \subseteq below[n] /\ near \notin {n, s} /\ outer \notin {n, s}
    BY <1>1, <1>2, <1>3, <1>4, <1>6, Zenon
  <2> QED
    BY <1>3, <1>4, <1>6, <2>1, Zenon DEF TurnedBelow
<1> QED
  BY <1>2, <1>7

\* A rotation keeps the shape.
LEMMA TurnedShaped ==
  ASSUME NEW t, NEW S, NEW below, Shaped(t, S, below), NEW side \in Sides,
         NEW n \in S, NEW s, s = t.kids[Other(side)][n], s # Nil,
         NEW i, i = t.kids[side][s], NEW u, Turned(t, u, side, n, s, i)
  PROVE  Shaped(u, S, BelowTurned(t, below, side, n, s, i))
<1> DEFINE far == Other(side)
<1>1. /\ n \in Nodes /\ s \in Nodes /\ s \in S /\ i \in S \cup {Nil} /\ i \in Pointers
      /\ far \in Sides /\ Other(far) = side /\ far # side
      /\ n # s /\ n # i /\ s # i /\ t.parent[s] = n /\ (i # Nil => t.parent[i] = s)
      /\ t.parent[n] # n /\ t.parent[n] # s /\ t.root # s /\ (i # Nil => t.root # i)
      /\ t.kids[far][s] # n
  BY TurnNodes
<1>2. PICK near, outer, after : /\ near = t.kids[side][n] /\ outer = t.kids[far][s]
                                /\ after = BelowTurned(t, below, side, n, s, i)
  BY Zenon
<1>3. /\ after \in [Pointers -> SUBSET Nodes]
      /\ after[s] = below[n] /\ after[n] = {n} \cup below[near] \cup below[i]
      /\ after[n] \subseteq below[n]
      /\ \A m \in Pointers \ {n, s} : after[m] = below[m]
      /\ below[n] = {n} \cup below[near] \cup below[s]
      /\ below[s] = {s} \cup below[i] \cup below[outer]
      /\ n \notin below[near] /\ n \notin below[s] /\ below[near] \cap below[s] = {}
      /\ s \notin below[i] /\ s \notin below[outer] /\ below[i] \cap below[outer] = {}
      /\ near \in Pointers /\ outer \in Pointers
      /\ near \notin {n, s} /\ outer \notin {n, s}
  <2>1. TurnedBelow(below, after, n, s, i, near, outer)
    BY <1>2, BelowTurnedIs
  <2> QED
    BY <2>1, Zenon DEF TurnedBelow
<1>4. /\ u \in Trees /\ u.color = t.color
      /\ u.root = IF t.root = n THEN s ELSE t.root
      /\ u.kids[side][s] = n /\ u.kids[far][s] = outer
      /\ u.kids[far][n] = i /\ u.kids[side][n] = near
  BY <1>2 DEF Turned
<1>5. \A m \in Nodes \ {n, s} : \A d \in Sides :
        u.kids[d][m] = IF t.kids[d][m] = n THEN s ELSE t.kids[d][m]
  BY DEF Turned
<1>6. \A m \in Nodes :
        u.parent[m] = IF m = n THEN s ELSE IF m = s THEN t.parent[n]
                      ELSE IF m = i THEN n ELSE t.parent[m]
  BY SMTT(30) DEF Turned
<1>7. S \in SUBSET Nodes /\ IsFiniteSet(S) /\ below[Nil] = {} /\ below[t.root] = S
      /\ t \in Trees /\ t.root \in Pointers /\ n # Nil /\ s # Nil /\ Nil \in Pointers
  BY <1>1, NodesAreNumbers DEF Shaped, Trees
<1>8. after[Nil] = {} /\ after[u.root] = S
  <2>1. \A m \in Pointers : m # n /\ m # s => after[m] = below[m]
    BY <1>3, Zenon
  <2>2. after[Nil] = {}
    BY <1>7, <2>1, Zenon
  <2>3. CASE t.root = n
    <3>1. u.root = s
      BY <1>4, <2>3
    <3> QED
      BY <1>3, <1>7, <2>2, <2>3, <3>1, Zenon
  <2>4. CASE t.root # n
    <3>1. u.root = t.root
      BY <1>4, <2>4
    <3>2. after[t.root] = below[t.root]
      BY <1>1, <1>7, <2>1, <2>4, Zenon
    <3> QED
      BY <1>7, <2>2, <3>1, <3>2, Zenon
  <2> QED
    BY <2>3, <2>4, Zenon
<1>9. ASSUME NEW m \in Nodes
      PROVE  \E d \in Sides : Joined(u, after, m, d)
  <2>1. CASE m = n
    <3>1. near # Nil => near \in Nodes /\ t.parent[near] = n /\ near # i
      <4>1. near # Nil => near \in Nodes /\ t.parent[near] = n
        BY <1>1, <1>2, BelowNode, ZenonT(30)
      <4> QED
        BY <1>1, <4>1
    <3>2. \A d \in Sides : u.kids[d][n] # Nil => u.parent[u.kids[d][n]] = n
      <4>1. i # Nil => u.parent[i] = n
        BY <1>1, <1>6, NodesAreNumbers
      <4>2. near # Nil => u.parent[near] = n
        BY <1>1, <1>3, <1>6, <3>1, Zenon
      <4> QED
        BY <1>1, <1>4, <4>1, <4>2, TwoSides, SMTT(30)
    <3>3. after[near] = below[near] /\ after[i] = below[i]
      BY <1>1, <1>3, Zenon
    <3>4. Joined(u, after, n, side)
      <4>1. n \notin below[i] /\ below[near] \cap below[i] = {}
        BY <1>3, Zenon
      <4> QED
        BY <1>3, <1>4, <3>2, <3>3, <4>1, ZenonT(30) DEF Joined
    <3> QED
      BY <2>1, <3>4, SMTT(30)
  <2>2. CASE m = s
    <3>1. outer # Nil => outer \in Nodes /\ t.parent[outer] = s /\ outer # i
      <4>1. outer # Nil => /\ outer \in Nodes /\ t.parent[outer] = s
                           /\ outer # t.kids[Other(far)][s]
        <5>1. s \in Nodes /\ far \in Sides
          BY <1>1, SMTT(30)
        <5>2. t.kids[far][s] # Nil => /\ t.kids[far][s] \in Nodes
                                      /\ t.parent[t.kids[far][s]] = s
                                      /\ t.kids[far][s] # t.kids[Other(far)][s]
          <6> HIDE DEF far
          <6> QED
            BY <5>1, BelowNode
        <5> QED
          BY <1>2, <5>2, SMTT(30)
      <4> QED
        BY <1>1, <4>1, SMTT(30)
    <3>2. \A d \in Sides : u.kids[d][s] # Nil => u.parent[u.kids[d][s]] = s
      <4>1. outer # Nil => u.parent[outer] = s
        BY <1>1, <1>3, <1>6, <3>1, ZenonT(30)
      <4>2. u.parent[n] = s
        BY <1>1, <1>6
      <4> QED
        BY <1>1, <1>4, <4>1, <4>2, TwoSides, Zenon
    <3>3. after[outer] = below[outer]
      BY <1>3, Zenon
    <3>4. Joined(u, after, s, side)
      <4>1. /\ s \notin {n} \cup below[near] \cup below[i]
            /\ ({n} \cup below[near] \cup below[i]) \cap below[outer] = {}
            /\ below[n] = {s} \cup ({n} \cup below[near] \cup below[i]) \cup below[outer]
        <5>1. /\ below[n] = {n} \cup below[near] \cup below[s]
              /\ below[s] = {s} \cup below[i] \cup below[outer]
              /\ n \notin below[s] /\ below[near] \cap below[s] = {}
              /\ s \notin below[i] /\ below[i] \cap below[outer] = {} /\ n # s
          BY <1>1, <1>3, Zenon
        <5>2. PICK N, B, C, D, E : /\ N = below[n] /\ B = below[near] /\ C = below[s]
                                   /\ D = below[i] /\ E = below[outer]
          OBVIOUS
        <5>3. /\ N = {n} \cup B \cup C /\ C = {s} \cup D \cup E
              /\ n \notin C /\ B \cap C = {} /\ s \notin D /\ D \cap E = {} /\ n # s
          BY <5>1, <5>2, Zenon
        <5>4. /\ s \notin {n} \cup B \cup D
              /\ ({n} \cup B \cup D) \cap E = {}
              /\ N = {s} \cup ({n} \cup B \cup D) \cup E
          BY <5>3
        <5> QED
          BY <5>2, <5>4, Zenon
      <4> QED
        BY <1>3, <1>4, <3>2, <3>3, <4>1, ZenonT(30) DEF Joined
    <3> QED
      BY <2>2, <3>4
  <2>3. CASE m \notin {n, s}
    <3>1. ASSUME NEW d \in Sides
          PROVE  /\ after[u.kids[d][m]] = below[t.kids[d][m]]
                 /\ u.kids[d][m] # Nil => u.parent[u.kids[d][m]] = m
      <4>1. PICK k : k = t.kids[d][m]
        OBVIOUS
      <4>2. /\ k \in Pointers
            /\ k # Nil => k \in Nodes /\ t.parent[k] = m
        BY <4>1, BelowNode
      <4>3. k # s /\ (k # Nil => k # i)
        BY <1>1, <1>7, <2>3, <4>2
      <4>4. u.kids[d][m] = IF k = n THEN s ELSE k
        BY <1>5, <2>3, <4>1
      <4>5. CASE k = n
        <5>1. u.kids[d][m] = s /\ after[s] = below[n] /\ t.parent[n] = m
          BY <1>3, <1>7, <4>2, <4>4, <4>5, ZenonT(30)
        <5>2. u.parent[s] = m
          BY <1>1, <1>6, <5>1
        <5> QED
          BY <4>1, <4>5, <5>1, <5>2
      <4>6. CASE k # n
        <5>1. u.kids[d][m] = k /\ after[k] = below[k]
          BY <1>3, <4>2, <4>3, <4>4, <4>6, Zenon
        <5>2. k # Nil => u.parent[k] = m
          BY <1>6, <4>2, <4>3, <4>6
        <5> QED
          BY <4>1, <5>1, <5>2
      <4> QED
        BY <4>5, <4>6
    <3>2. after[m] = below[m]
      BY <1>3, <2>3, NodesAreNumbers, Zenon
    <3>3. /\ below[m] = {m} \cup below[t.kids[side][m]] \cup below[t.kids[far][m]]
          /\ m \notin below[t.kids[side][m]] /\ m \notin below[t.kids[far][m]]
          /\ below[t.kids[side][m]] \cap below[t.kids[far][m]] = {}
      <4>1. m \in Nodes /\ \A d \in Sides :
              /\ below[m] = {m} \cup below[t.kids[d][m]] \cup below[t.kids[Other(d)][m]]
              /\ m \notin below[t.kids[d][m]]
              /\ below[t.kids[d][m]] \cap below[t.kids[Other(d)][m]] = {}
        BY BelowNode
      <4> QED
        BY <1>1, <4>1, ZenonT(30)
    <3>4. Joined(u, after, m, side)
      BY <1>1, <3>1, <3>2, <3>3, Zenon DEF Joined
    <3> QED
      BY <3>4
  <2> QED
    BY <2>1, <2>2, <2>3
<1>10. \A m \in S : after[m] \subseteq S
  <2>1. \A m \in S : below[m] \subseteq S /\ m \in Pointers
    BY NodesAreNumbers DEF Shaped
  <2> QED
    BY <1>1, <1>3, <2>1, ZenonT(30)
<1>11. u.root # Nil => u.parent[u.root] = Nil
  <2>1. t.root # Nil => t.parent[t.root] = Nil /\ t.root \in Nodes
    BY <1>1, <1>7, ParentOf
  <2> QED
    BY <1>1, <1>4, <1>6, <1>7, <2>1, SMTT(30)
<1>12. ASSUME NEW m \in S \ {u.root}
       PROVE  \E d \in Sides : u.parent[m] \in S /\ u.kids[d][u.parent[m]] = m
  <2>1. m \in Nodes
    BY <1>7, SMTT(30)
  <2>2. CASE m = n
    BY <1>1, <1>4, <1>6, <2>2
  <2>3. CASE m = i
    BY <1>1, <1>4, <1>6, <2>1, <2>3, Zenon
  <2>4. CASE m = s
    <3>1. n # t.root
      BY <1>4, <2>4, SMTT(30)
    <3>2. PICK d \in Sides : t.parent[n] \in S /\ t.kids[d][t.parent[n]] = n
      BY <1>1, <3>1, ParentOf, SMTT(30)
    <3>3. u.kids[d][t.parent[n]] = s /\ u.parent[s] = t.parent[n]
      BY <1>1, <1>5, <1>6, <1>7, <3>2
    <3> QED
      BY <2>4, <3>2, <3>3
  <2>5. CASE m \notin {n, i, s}
    <3>1. m # t.root
      BY <1>4, <2>5
    <3>2. PICK d \in Sides : t.parent[m] \in S /\ t.kids[d][t.parent[m]] = m
      BY <2>1, <3>1, ParentOf
    <3>3. PICK p : p = t.parent[m]
      OBVIOUS
    <3>4. u.parent[m] = p
      BY <1>6, <2>1, <2>5, <3>3
    <3>5. CASE p = n
      <4>1. d = side
        BY <1>2, <2>5, <3>2, <3>3, <3>5, TwoSides
      <4> QED
        BY <1>1, <1>2, <1>4, <3>2, <3>3, <3>4, <3>5, <4>1, Zenon
    <3>6. CASE p = s
      <4>1. d = far
        BY <1>2, <2>5, <3>2, <3>3, <3>6, TwoSides
      <4> QED
        BY <1>1, <1>2, <1>4, <3>2, <3>3, <3>4, <3>6, <4>1, Zenon
    <3>7. CASE p \notin {n, s}
      BY <1>5, <1>7, <2>5, <3>2, <3>3, <3>4, <3>7
    <3> QED
      BY <3>5, <3>6, <3>7
  <2> QED
    BY <2>2, <2>3, <2>4, <2>5
<1>13. \A m \in Nodes \ S : /\ u.parent[m] = Nil /\ u.color[m] = "red"
                            /\ \A d \in Sides : u.kids[d][m] = Nil
  <2> TAKE m \in Nodes \ S
  <2>1. /\ t.parent[m] = Nil /\ t.color[m] = "red"
        /\ \A d \in Sides : t.kids[d][m] = Nil
    BY SMTT(30) DEF Shaped
  <2>2. m # n /\ m # s /\ m # i
    BY <1>1, NodesAreNumbers
  <2> QED
    BY <1>4, <1>5, <1>6, <1>7, <2>1, <2>2
<1> HIDE DEF far
<1>14. Shaped(u, S, after)
  BY <1>3, <1>4, <1>7, <1>8, <1>9, <1>10, <1>11, <1>12, <1>13, IntoShape, Zenon
<1> QED
  BY <1>2, <1>14, SMTT(30)

\* A rotation keeps the order.
LEMMA TurnedOrdered ==
  ASSUME NEW t, NEW S, NEW below, Shaped(t, S, below), NEW side \in Sides,
         NEW n \in S, NEW s, s = t.kids[Other(side)][n], s # Nil,
         NEW i, i = t.kids[side][s], NEW u, Turned(t, u, side, n, s, i),
         NEW gone \in Pointers, gone # n, gone # s, Ordered(t, S, below, gone)
  PROVE  Ordered(u, S, BelowTurned(t, below, side, n, s, i), gone)
<1> DEFINE far == Other(side)
<1>1. /\ n \in Nodes /\ s \in Nodes /\ s \in S /\ i \in S \cup {Nil} /\ i \in Pointers
      /\ far \in Sides /\ Other(far) = side /\ far # side
      /\ n # s /\ n # i /\ s # i /\ t.parent[s] = n
  BY TurnNodes
<1>2. PICK near, outer, after : /\ near = t.kids[side][n] /\ outer = t.kids[far][s]
                                /\ after = BelowTurned(t, below, side, n, s, i)
  BY Zenon
<1>3. /\ after \in [Pointers -> SUBSET Nodes]
      /\ after[s] = below[n] /\ after[n] = {n} \cup below[near] \cup below[i]
      /\ after[n] \subseteq below[n]
      /\ \A m \in Pointers \ {n, s} : after[m] = below[m]
      /\ below[n] = {n} \cup below[near] \cup below[s]
      /\ below[s] = {s} \cup below[i] \cup below[outer]
      /\ near \in Pointers /\ outer \in Pointers
      /\ near \notin {n, s} /\ outer \notin {n, s}
  <2>1. TurnedBelow(below, after, n, s, i, near, outer)
    BY <1>2, BelowTurnedIs
  <2> QED
    BY <2>1, Zenon DEF TurnedBelow
<1>4. /\ u.kids[side][s] = n /\ u.kids[far][s] = outer
      /\ u.kids[far][n] = i /\ u.kids[side][n] = near
  BY <1>2 DEF Turned
<1>5. \A m \in Nodes \ {n, s} : \A d \in Sides :
        u.kids[d][m] = IF t.kids[d][m] = n THEN s ELSE t.kids[d][m]
  BY DEF Turned
<1>6. \A m \in S \ {gone} : \A d \in Sides :
        \A j \in below[t.kids[d][m]] \ {gone} : Before(d, j, m)
  BY DEF Ordered
<1>7. S \in SUBSET Nodes /\ below \in [Pointers -> SUBSET Nodes]
  BY DEF Shaped
<1>8. ASSUME NEW m \in S \ {gone}, NEW d \in Sides, NEW j \in after[u.kids[d][m]] \ {gone}
      PROVE  Before(d, j, m)
  <2>1. CASE m = n /\ d = side
    <3>1. j \in below[t.kids[side][n]] \ {gone}
      BY <1>2, <1>3, <1>4, <1>8, <2>1, ZenonT(30)
    <3> QED
      BY <1>6, <2>1, <3>1
  <2>2. CASE m = n /\ d = far
    <3>1. j \in below[s]
      BY <1>1, <1>3, <1>4, <2>2, ZenonT(30)
    <3> QED
      BY <1>1, <1>6, <2>2, <3>1
  <2>3. CASE m = s /\ d = far
    <3>1. j \in below[t.kids[far][s]] \ {gone}
      BY <1>2, <1>3, <1>4, <1>8, <2>3, ZenonT(30)
    <3> QED
      BY <1>1, <1>6, <2>3, <3>1, SMTT(30)
  <2>4. CASE m = s /\ d = side
    <3>1. j \in {n} \cup below[near] \cup below[i]
      BY <1>3, <1>4, <2>4, Zenon
    <3>2. Before(side, n, s)
      <4>1. s \in below[s] \ {gone}
        BY <1>3, Zenon
      <4>2. Before(far, s, n)
        BY <1>1, <1>6, <4>1
      <4> QED
        BY <1>1, <4>2, BeforeIsOrder
    <3>3. CASE j \in below[near]
      <4>1. Before(side, j, n)
        BY <1>2, <1>6, <3>3
      <4>2. j \in Nodes
        BY <1>3, <1>7, <3>3, ZenonT(30)
      <4> QED
        BY <1>1, <2>4, <3>2, <4>1, <4>2, BeforeIsOrder
    <3>4. CASE j \in below[i]
      BY <1>1, <1>6, <1>8, <2>4, <3>4
    <3> QED
      BY <2>4, <3>1, <3>2, <3>3, <3>4, SMTT(30)
  <2>5. CASE m \notin {n, s}
    <3>1. PICK k : k = t.kids[d][m]
      OBVIOUS
    <3>2. k \in Pointers /\ k # s /\ m \in Nodes
      <4>1. m \in Nodes
        BY <1>7
      <4>2. k \in Pointers /\ (k # Nil => t.parent[k] = m)
        BY <3>1, <4>1, BelowNode
      <4> QED
        BY <1>1, <2>5, <4>1, <4>2
    <3>3. u.kids[d][m] = IF k = n THEN s ELSE k
      BY <1>5, <2>5, <3>1, <3>2
    <3>4. after[u.kids[d][m]] = below[k]
      BY <1>3, <3>2, <3>3, Zenon
    <3> QED
      BY <1>6, <3>1, <3>4
  <2> QED
    BY <2>1, <2>2, <2>3, <2>4, <2>5, TwoSides
<1>9. Ordered(u, S, after, gone)
  <2> HIDE DEF far
  <2> QED
    BY <1>8 DEF Ordered
<1> QED
  BY <1>2, <1>9

-----------------------------------------------------------------------------
(* Black nodes on the paths.                                               *)

\* A node that has a color already.
LEMMA PaintSame ==
  ASSUME NEW t \in Trees, NEW m \in Nodes, NEW c, t.color[m] = c
  PROVE  Paint(t, m, c) = t
BY DEF Trees, Paint

\* The order of two strokes does not matter.
LEMMA PaintTwo ==
  ASSUME NEW t \in Trees, NEW a \in Nodes, NEW b \in Nodes, a # b,
         NEW x \in Colors, NEW y \in Colors
  PROVE  Paint(Paint(t, a, x), b, y) = Paint(Paint(t, b, y), a, x)
<1>1. PICK v, w : v = Paint(t, a, x) /\ w = Paint(t, b, y)
  OBVIOUS
<1>2. PICK p, q : p = Paint(v, b, y) /\ q = Paint(w, a, x)
  OBVIOUS
<1>3. Painted(t, v, a, x) /\ Painted(t, w, b, y)
  BY <1>1, PaintIs
<1>4. v \in Trees /\ w \in Trees
  BY <1>3 DEF Painted
<1>5. Painted(v, p, b, y) /\ Painted(w, q, a, x)
  BY <1>2, <1>4, PaintIs
<1>6. /\ p \in Trees /\ q \in Trees
      /\ p.root = q.root /\ p.kids = q.kids /\ p.parent = q.parent
  BY <1>3, <1>5 DEF Painted
<1>7. \A n \in Nodes : p.color[n] = q.color[n]
  BY <1>3, <1>5 DEF Painted
<1>8. p = q
  BY <1>6, <1>7, SameTree
<1> QED
  BY <1>1, <1>2, <1>8

\* The paths from a node go on from its children.
LEMMA EvenAt ==
  ASSUME NEW t, NEW black, NEW gone, NEW c, NEW short, Even(t, black, gone, c, short),
         NEW n \in Nodes, n # gone, NEW side \in Sides
  PROVE  black[n] = Height(black, t.kids[side][n], short) + Weight(t, n)
BY DEF Even

\* Heights are numbers of nodes.
LEMMA HeightIs ==
  ASSUME NEW black \in [Pointers -> Nat \ {0}], NEW m \in Pointers, NEW short
  PROVE  /\ Height(black, m, short) \in Nat \ {0}
         /\ black[m] \in Nat \ {0}
         /\ m # short => Height(black, m, short) = black[m]
         /\ m = short /\ m # Nil => Height(black, m, short) = black[m] + 1
<1>1. black[m] \in Nat \ {0}
  OBVIOUS
<1> QED
  BY <1>1 DEF Height

\* What counts for a node is its color.
LEMMA WeightIs ==
  ASSUME NEW t, NEW m
  PROVE  /\ t.color[m] = "black" => Weight(t, m) = 1
         /\ t.color[m] # "black" => Weight(t, m) = 0
         /\ Weight(t, m) \in {0, 1}
BY DEF Weight

\* Zero weighs nothing.
LEMMA PlusZero ==
  /\ \A a \in Nat : a + 0 = a
  /\ \A a, b \in Nat : a = b + 0 => a = b
OBVIOUS

\* A rotation of two red nodes.
LEMMA RedTurnEven ==
  ASSUME NEW t, NEW S, NEW below, Shaped(t, S, below), NEW side \in Sides,
         NEW n \in S, NEW s, s = t.kids[Other(side)][n], s # Nil,
         NEW i, i = t.kids[side][s], NEW u, Turned(t, u, side, n, s, i),
         t.color[n] = "red", t.color[s] = "red",
         NEW black, NEW c, Even(t, black, Nil, c, Nil)
  PROVE  Even(u, black, Nil, c, Nil)
<1> DEFINE far == Other(side)
<1>1. /\ n \in Nodes /\ s \in Nodes /\ i \in Pointers
      /\ far \in Sides /\ far # side /\ n # s /\ n # Nil /\ s # Nil
      /\ \A d \in Sides : d = side \/ d = far
  BY TurnNodes, TwoSides, NodesAreNumbers
<1>2. /\ u.color = t.color
      /\ u.kids[side][s] = n /\ u.kids[far][s] = t.kids[far][s]
      /\ u.kids[far][n] = i /\ u.kids[side][n] = t.kids[side][n]
      /\ \A m \in Nodes \ {n, s} : \A d \in Sides :
           u.kids[d][m] = IF t.kids[d][m] = n THEN s ELSE t.kids[d][m]
  BY DEF Turned
<1>3. /\ black \in [Pointers -> Nat \ {0}] /\ black[Nil] = 1
      /\ \A m \in Nodes, d \in Sides :
           black[m] = Height(black, t.kids[d][m], Nil) + Weight(t, m)
  BY NodesAreNumbers DEF Even
<1>4. \A m : Height(black, m, Nil) = black[m]
  BY DEF Height
<1>5. \A m : Weight(u, m) = Weight(t, m)
  BY <1>2 DEF Weight
<1>6. Weight(t, n) = 0 /\ Weight(t, s) = 0
  BY SMTT(30) DEF Weight
<1>7. \A m \in Nodes : \A d \in Sides : t.kids[d][m] \in Pointers /\ black[t.kids[d][m]] \in Nat
  BY <1>3, BelowNode
<1>8. PICK near, outer : near = t.kids[side][n] /\ outer = t.kids[far][s]
  BY ZenonT(30)
<1>9. /\ black[n] \in Nat /\ black[n] = black[s] /\ black[n] = black[near]
      /\ black[n] = black[i] /\ black[n] = black[outer]
  <2>1. /\ black[n] \in Nat /\ black[s] \in Nat /\ black[i] \in Nat
        /\ black[near] \in Nat /\ black[outer] \in Nat
    BY <1>1, <1>3, <1>7, <1>8, NodesAreNumbers, SMTT(30)
  <2>2. /\ black[n] = black[s] + 0 /\ black[n] = black[near] + 0
        /\ black[s] = black[i] + 0 /\ black[s] = black[outer] + 0
    BY <1>1, <1>3, <1>4, <1>6, <1>8
  <2> QED
    BY <2>1, <2>2, PlusZero, ZenonT(30)
<1>10. ASSUME NEW m \in Nodes, NEW d \in Sides
       PROVE  black[m] = Height(black, u.kids[d][m], Nil) + Weight(u, m)
  <2>1. CASE m = n
    <3>1. black[u.kids[d][n]] = black[n]
      BY <1>1, <1>2, <1>8, <1>9
    <3>2. Height(black, u.kids[d][n], Nil) = black[n] /\ Weight(u, n) = 0
      BY <1>4, <1>5, <1>6, <3>1
    <3> QED
      BY <1>9, <2>1, <3>2, PlusZero, SMTT(30)
  <2>2. CASE m = s
    <3>1. black[u.kids[d][s]] = black[s]
      BY <1>1, <1>2, <1>8, <1>9
    <3>2. Height(black, u.kids[d][s], Nil) = black[s] /\ Weight(u, s) = 0
      BY <1>4, <1>5, <1>6, <3>1
    <3> QED
      BY <1>9, <2>2, <3>2, PlusZero, ZenonT(30)
  <2>3. CASE m \notin {n, s}
    <3>1. black[u.kids[d][m]] = black[t.kids[d][m]]
      BY <1>2, <1>9, <2>3
    <3> QED
      BY <1>3, <1>4, <1>5, <3>1
  <2> QED
    BY <2>1, <2>2, <2>3
<1> QED
  BY <1>3, <1>10, NodesAreNumbers DEF Even

\* A black node and its red child change colors and places.
BlackTurned(black, n, s) ==
  [m \in Pointers |-> IF m = n THEN black[n] - 1 ELSE IF m = s THEN black[n] ELSE black[m]]

\* No path gets more black nodes or fewer.
LEMMA SwapTurnEven ==
  ASSUME NEW t, NEW S, NEW below, Shaped(t, S, below), NEW side \in Sides,
         NEW n \in S, NEW s, s = t.kids[Other(side)][n], s # Nil,
         NEW i, i = t.kids[side][s], NEW u, NEW v, NEW w, Turned(v, u, side, n, s, i),
         t.color[n] = "black", t.color[s] = "red",
         Painted(t, w, n, "red"), Painted(w, v, s, "black"),
         NEW black, NEW gone, NEW c \in Pointers, NEW short,
         gone \notin {n, s}, short \notin {n, s}, gone = Nil \/ c \notin {n, s},
         Even(t, black, gone, c, short)
  PROVE  Even(u, BlackTurned(black, n, s), gone, c, short)
<1> DEFINE far == Other(side)
<1>1. /\ n \in Nodes /\ s \in Nodes /\ i \in Pointers /\ t \in Trees
      /\ far \in Sides /\ far # side /\ n # s /\ n # Nil /\ s # Nil /\ i # n /\ i # s
      /\ \A d \in Sides : d = side \/ d = far
      /\ t.kids[far][s] # n
  <2>1. t \in Trees
    BY DEF Shaped
  <2> QED
    BY <2>1, TurnNodes, TwoSides, NodesAreNumbers, SMTT(30)
<1>2. /\ v.kids = t.kids /\ v.color[n] = "red" /\ v.color[s] = "black"
      /\ \A m \in Nodes \ {n, s} : v.color[m] = t.color[m]
  BY <1>1 DEF Painted
<1>3. /\ u.color = v.color
      /\ u.kids[side][s] = n /\ u.kids[far][s] = t.kids[far][s]
      /\ u.kids[far][n] = i /\ u.kids[side][n] = t.kids[side][n]
      /\ \A m \in Nodes \ {n, s} : \A d \in Sides :
           u.kids[d][m] = IF t.kids[d][m] = n THEN s ELSE t.kids[d][m]
  BY <1>2 DEF Turned
<1>4. /\ black \in [Pointers -> Nat \ {0}] /\ black[Nil] = 1
      /\ gone \in Nodes => black[gone] = black[c]
  BY DEF Even
<1>5. PICK near, outer, after : /\ near = t.kids[side][n] /\ outer = t.kids[far][s]
                                /\ after = BlackTurned(black, n, s)
  BY Zenon
<1>6. near \in Pointers /\ near \notin {n, s} /\ outer \in Pointers /\ outer \notin {n, s}
  <2>1. TurnedBelow(below, BelowTurned(t, below, side, n, s, i), n, s, i, near, outer)
    BY <1>5, BelowTurnedIs
  <2> QED
    BY <2>1, Zenon DEF TurnedBelow
<1>7. /\ Height(black, near, short) \in Nat \ {0} /\ Height(black, i, short) \in Nat \ {0}
      /\ Height(black, outer, short) \in Nat \ {0}
      /\ black[n] \in Nat \ {0} /\ black[s] \in Nat \ {0}
      /\ Height(black, s, short) = black[s]
      /\ Height(black, n, short) = black[n]
  <2>1. /\ n \in Pointers /\ s \in Pointers /\ n # short /\ s # short
        /\ black \in [Pointers -> Nat \ {0}]
    BY <1>1, <1>4, NodesAreNumbers
  <2>2. /\ Height(black, near, short) \in Nat \ {0} /\ Height(black, i, short) \in Nat \ {0}
        /\ Height(black, outer, short) \in Nat \ {0}
    BY <1>1, <1>6, <2>1, HeightIs
  <2>3. /\ black[n] \in Nat \ {0} /\ Height(black, n, short) = black[n]
    BY <2>1, HeightIs
  <2>4. /\ black[s] \in Nat \ {0} /\ Height(black, s, short) = black[s]
    BY <2>1, HeightIs, SMTT(30)
  <2> QED
    BY <2>2, <2>3, <2>4
<1>8. /\ black[n] = Height(black, near, short) + 1 /\ black[n] = black[s] + 1
      /\ black[s] = Height(black, i, short) /\ black[s] = Height(black, outer, short)
  <2>1. Weight(t, n) = 1 /\ Weight(t, s) = 0
    BY DEF Weight
  <2>2. /\ black[n] = Height(black, near, short) + Weight(t, n)
        /\ black[n] = Height(black, s, short) + Weight(t, n)
        /\ black[s] = Height(black, i, short) + Weight(t, s)
        /\ black[s] = Height(black, outer, short) + Weight(t, s)
    BY <1>1, <1>5, EvenAt
  <2> QED
    BY <1>7, <2>1, <2>2
<1>9. /\ after \in [Pointers -> Nat \ {0}] /\ after[Nil] = 1
      /\ after[n] = black[s] /\ after[s] = black[n]
      /\ \A m \in Pointers \ {n, s} : after[m] = black[m]
  <2>1. black[n] - 1 = black[s]
    BY <1>7, <1>8
  <2>2. after = [m \in Pointers |-> IF m = n THEN black[s] ELSE IF m = s THEN black[n]
                                    ELSE black[m]]
    BY <1>5, <2>1 DEF BlackTurned
  <2> QED
    BY <1>1, <1>4, <1>7, <2>2, NodesAreNumbers, Zenon
<1>10. /\ Height(after, n, short) = black[s] /\ Height(after, s, short) = black[n]
       /\ \A m \in Pointers \ {n, s} : Height(after, m, short) = Height(black, m, short)
  BY <1>9 DEF Height
<1>11. ASSUME NEW m \in Nodes, m # gone, NEW d \in Sides
       PROVE  after[m] = Height(after, u.kids[d][m], short) + Weight(u, m)
  <2>1. CASE m = n
    <3>1. Weight(u, n) = 0
      BY <1>2, <1>3 DEF Weight
    <3>2. Height(after, u.kids[d][n], short) = black[s]
      <4>1. CASE d = side
        <5>1. Height(after, near, short) = Height(black, near, short)
          BY <1>6, <1>10
        <5>2. black[s] = Height(black, near, short)
          BY <1>7, <1>8
        <5> QED
          BY <1>3, <1>5, <4>1, <5>1, <5>2
      <4>2. CASE d = far
        BY <1>1, <1>3, <1>8, <1>10, <4>2, Zenon
      <4> QED
        BY <1>1, <4>1, <4>2, SMTT(30)
    <3> QED
      BY <1>7, <1>9, <2>1, <3>1, <3>2
  <2>2. CASE m = s
    <3>1. Weight(u, s) = 1
      BY <1>2, <1>3 DEF Weight
    <3>2. Height(after, u.kids[d][s], short) = black[s]
      <4>1. CASE d = side
        BY <1>3, <1>10, <4>1, SMTT(30)
      <4>2. CASE d = far
        BY <1>3, <1>5, <1>6, <1>8, <1>10, <4>2
      <4> QED
        BY <1>1, <4>1, <4>2, SMTT(30)
    <3> QED
      BY <1>7, <1>8, <1>9, <2>2, <3>1, <3>2
  <2>3. CASE m \notin {n, s}
    <3>1. Weight(u, m) = Weight(t, m)
      BY <1>2, <1>3, <2>3 DEF Weight
    <3>2. PICK k : k = t.kids[d][m]
      OBVIOUS
    <3>3. k \in Pointers /\ k # s
      <4>1. k \in Pointers /\ (k # Nil => t.parent[k] = m)
        BY <3>2, BelowNode
      <4>2. t.parent[s] = n
        BY TurnNodes, SMTT(30)
      <4> QED
        BY <1>1, <2>3, <4>1, <4>2, SMTT(30)
    <3>4. Height(after, u.kids[d][m], short) = Height(black, k, short)
      BY <1>3, <1>7, <1>10, <2>3, <3>2, <3>3
    <3>5. black[m] = Height(black, k, short) + Weight(t, m)
      BY <1>11, <3>2, EvenAt
    <3>6. after[m] = black[m]
      BY <1>9, <2>3, NodesAreNumbers
    <3> QED
      BY <3>1, <3>4, <3>5, <3>6
  <2> QED
    BY <2>1, <2>2, <2>3
<1>12. gone \in Nodes => after[gone] = after[c]
  BY <1>4, <1>9, NodesAreNumbers
<1>13. Even(u, after, gone, c, short)
  <2> HIDE DEF far
  <2> QED
    BY <1>9, <1>11, <1>12 DEF Even
<1> QED
  BY <1>5, <1>13

\* The far nephew makes up for what is missing on the other side.
FarTurned(black, n, s, o, x) ==
  [m \in Pointers |-> IF m = n THEN black[x] + 1 ELSE IF m = s THEN black[n]
                      ELSE IF m = o THEN black[o] + 1 ELSE black[m]]

\* n has the children x, on that side, and s; s has the children i and o.
Kin(t, side, n, x, s, i, o) ==
  /\ x = t.kids[side][n] /\ s = t.kids[Other(side)][n]
  /\ i = t.kids[side][s] /\ o = t.kids[Other(side)][s]

\* A child is another node than those above it.
LEMMA KidBelow ==
  ASSUME NEW t, NEW S, NEW below, Shaped(t, S, below), NEW m \in Nodes, NEW d \in Sides,
         NEW k, k = t.kids[d][m], k # Nil
  PROVE  /\ k \in Nodes /\ k \in S /\ m \in S /\ t.parent[k] = m /\ k # m
         /\ k \in below[k] /\ m \notin below[k]
         /\ k \in below[m] /\ below[k] \subseteq below[m]
         /\ k # t.kids[Other(d)][m]
BY BelowNode, NodesAreNumbers

\* The nodes that take part in a rotation.
LEMMA KinNodes ==
  ASSUME NEW t, NEW S, NEW below, Shaped(t, S, below), NEW side \in Sides,
         NEW n \in S, NEW x, NEW s, NEW i, NEW o, Kin(t, side, n, x, s, i, o), s # Nil
  PROVE  /\ n \in Nodes /\ s \in Nodes /\ s \in S /\ t.parent[s] = n /\ n # s
         /\ i \in Pointers /\ x \in Pointers /\ o \in Pointers
         /\ x # Nil => x \in Nodes /\ x \in S /\ t.parent[x] = n
         /\ i # Nil => i \in Nodes /\ i \in S /\ t.parent[i] = s
         /\ o # Nil => o \in Nodes /\ o \in S /\ t.parent[o] = s /\ o # i
         /\ x \notin {n, s} /\ i \notin {n, s} /\ o \notin {n, s}
         /\ x # Nil => x # i /\ x # o
         /\ \A m \in Nodes, d \in Sides :
              t.kids[d][m] # Nil =>
                /\ t.kids[d][m] = s => m = n /\ d = Other(side)
                /\ t.kids[d][m] = x => m = n /\ d = side
                /\ t.kids[d][m] = i => m = s /\ d = side
                /\ t.kids[d][m] = o => m = s /\ d = Other(side)
         /\ \A d \in Sides : o # Nil => t.kids[d][o] \notin {n, s, o}
         /\ n \notin below[x] /\ s \notin below[x] /\ n \notin below[s]
         /\ o # Nil => o \notin below[x] /\ o \in below[s] /\ below[o] \subseteq below[s]
<1>1. PICK far \in Sides : far = Other(side) /\ Other(far) = side /\ far # side
  BY TwoSides
<1>2. /\ x = t.kids[side][n] /\ s = t.kids[far][n]
      /\ i = t.kids[side][s] /\ o = t.kids[far][s]
  BY <1>1 DEF Kin
<1>3. n \in Nodes /\ n # Nil
  BY NodesAreNumbers DEF Shaped
<1>4. /\ s \in Nodes /\ s \in S /\ t.parent[s] = n /\ s # n /\ s \in below[s]
      /\ n \notin below[s] /\ s # x
  BY <1>1, <1>2, <1>3, KidBelow, SMTT(30)
<1>5. /\ i \in Pointers /\ x \in Pointers /\ o \in Pointers
  BY <1>1, <1>2, <1>3, <1>4, BelowNode
<1>6. x # Nil => /\ x \in Nodes /\ x \in S /\ t.parent[x] = n /\ x # n
  BY <1>2, <1>3, KidBelow, SMTT(30)
<1>7. i # Nil => /\ i \in Nodes /\ i \in S /\ t.parent[i] = s /\ i # s /\ i # o /\ i \in below[s]
  BY <1>1, <1>2, <1>4, KidBelow, SMTT(30)
<1>8. o # Nil => /\ o \in Nodes /\ o \in S /\ t.parent[o] = s /\ o # s /\ o # i
                 /\ o \in below[s] /\ below[o] \subseteq below[s]
  BY <1>1, <1>2, <1>4, KidBelow, SMTT(30)
<1>9. n \notin below[x] /\ below[x] \cap below[s] = {}
  BY <1>1, <1>2, <1>3, BelowNode
<1>10. x \notin {n, s} /\ i \notin {n, s} /\ o \notin {n, s}
  BY <1>3, <1>4, <1>6, <1>7, <1>8, NodesAreNumbers
<1>11. x # Nil => x # i /\ x # o
  BY <1>4, <1>6, <1>7, <1>8
<1>12. ASSUME NEW m \in Nodes, NEW d \in Sides, t.kids[d][m] # Nil
       PROVE  /\ t.kids[d][m] = s => m = n /\ d = far
              /\ t.kids[d][m] = x => m = n /\ d = side
              /\ t.kids[d][m] = i => m = s /\ d = side
              /\ t.kids[d][m] = o => m = s /\ d = far
  <2>1. PICK k : k = t.kids[d][m]
    OBVIOUS
  <2>2. t.parent[k] = m /\ k # t.kids[Other(d)][m] /\ k # Nil
    BY <1>12, <2>1, KidBelow
  <2>3. d = side \/ (d = far /\ Other(d) = side)
    BY <1>1, TwoSides
  <2>4. \/ d = far /\ Other(d) = side
        \/ d = side /\ Other(d) = far
    BY <1>1, <2>3
  <2>5. k = s => m = n /\ d = far
    BY <1>2, <1>4, <2>1, <2>2, <2>4
  <2>6. k = x => m = n /\ d = side
    BY <1>2, <1>6, <2>1, <2>2, <2>4, SMTT(30)
  <2>7. k = i => m = s /\ d = side
    BY <1>2, <1>7, <2>1, <2>2, <2>4, SMTT(30)
  <2>8. k = o => m = s /\ d = far
    BY <1>2, <1>8, <2>1, <2>2, <2>4
  <2> QED
    BY <2>1, <2>5, <2>6, <2>7, <2>8
<1>13. ASSUME NEW d \in Sides, o # Nil
       PROVE  t.kids[d][o] \notin {n, s, o}
  <2>1. PICK k : k = t.kids[d][o]
    OBVIOUS
  <2>2. k # Nil => k \in below[o] /\ k # o /\ t.parent[k] = o
    BY <1>8, <1>13, <2>1, KidBelow
  <2>3. k # n /\ k # s
    BY <1>3, <1>4, <1>8, <1>10, <1>13, <2>2, NodesAreNumbers
  <2> QED
    BY <1>8, <1>13, <2>1, <2>2, <2>3, NodesAreNumbers
<1>14. /\ s \notin below[x]
       /\ o # Nil => o \notin below[x]
  BY <1>4, <1>8, <1>9
<1> QED
  BY <1>1, <1>3, <1>4, <1>5, <1>6, <1>7, <1>8, <1>9, <1>10, <1>11, <1>12, <1>13, <1>14

\* After that rotation all paths are even again.
LEMMA FarTurnEven ==
  ASSUME NEW t, NEW S, NEW below, Shaped(t, S, below), NEW side \in Sides,
         NEW n \in S, NEW x, NEW s, NEW i, NEW o, Kin(t, side, n, x, s, i, o),
         s # Nil, x # Nil, o # Nil,
         NEW u, NEW v, Turned(v, u, side, n, s, i),
         t.color[s] = "black", t.color[o] = "red",
         v.kids = t.kids, v.color[s] = t.color[n], v.color[n] = "black", v.color[o] = "black",
         \A m \in Nodes \ {n, s, o} : v.color[m] = t.color[m],
         NEW black, NEW gone, NEW c \in Pointers,
         gone \notin {n, s, o}, c \notin {n, s, o},
         Even(t, black, gone, c, x)
  PROVE  Even(u, FarTurned(black, n, s, o, x), gone, c, Nil)
<1>1. PICK far \in Sides : far = Other(side) /\ far # side /\ \A d \in Sides : d = side \/ d = far
  BY TwoSides
<1>2. /\ n \in Nodes /\ s \in Nodes /\ x \in Nodes /\ o \in Nodes /\ i \in Pointers
      /\ n # s /\ n # Nil /\ s # Nil
      /\ x \notin {n, s} /\ i \notin {n, s} /\ o \notin {n, s}
      /\ x # i /\ x # o /\ o # i
  BY KinNodes, NodesAreNumbers, SMTT(30)
<1>3. /\ x = t.kids[side][n] /\ s = t.kids[far][n]
      /\ i = t.kids[side][s] /\ o = t.kids[far][s]
  BY <1>1 DEF Kin
<1>4. /\ u.color = v.color
      /\ u.kids[side][s] = n /\ u.kids[far][s] = o
      /\ u.kids[far][n] = i /\ u.kids[side][n] = x
      /\ \A m \in Nodes \ {n, s} : \A d \in Sides :
           u.kids[d][m] = IF t.kids[d][m] = n THEN s ELSE t.kids[d][m]
  <2>1. /\ u.color = v.color
        /\ u.kids[side][s] = n /\ u.kids[far][s] = v.kids[far][s]
        /\ u.kids[far][n] = i /\ u.kids[side][n] = v.kids[side][n]
        /\ \A m \in Nodes \ {n, s} : \A d \in Sides :
             u.kids[d][m] = IF v.kids[d][m] = n THEN s ELSE v.kids[d][m]
    BY <1>1 DEF Turned
  <2>2. \A d \in Sides, m \in Nodes : v.kids[d][m] = t.kids[d][m]
    BY Zenon
  <2>3. v.kids[far][s] = o /\ v.kids[side][n] = x
    BY <1>3, Zenon
  <2> QED
    BY <1>2, <2>1, <2>2, <2>3
<1>5. /\ black \in [Pointers -> Nat \ {0}] /\ black[Nil] = 1
      /\ gone \in Nodes => black[gone] = black[c]
  BY DEF Even
<1>6. PICK after : after = FarTurned(black, n, s, o, x)
  OBVIOUS
<1>7. PICK b \in Nat \ {0} : b = black[x]
  BY <1>2, <1>5, NodesAreNumbers
<1>8. /\ Height(black, i, x) = black[i] /\ Height(black, o, x) = black[o]
      /\ Height(black, s, x) = black[s] /\ Height(black, n, x) = black[n]
      /\ Height(black, x, x) = b + 1
      /\ black[i] \in Nat /\ black[o] \in Nat /\ black[s] \in Nat /\ black[n] \in Nat
  <2>2. \A m : m # x => Height(black, m, x) = black[m]
    BY DEF Height
  <2>3. Height(black, x, x) = b + 1
    BY <1>2, <1>7, NodesAreNumbers DEF Height
  <2>4. black[i] \in Nat /\ black[o] \in Nat /\ black[s] \in Nat /\ black[n] \in Nat
    BY <1>2, <1>5, NodesAreNumbers
  <2> QED
    BY <1>2, <2>2, <2>3, <2>4
<1>9. /\ black[s] = b + 1 /\ black[o] = b /\ black[i] = b
      /\ black[n] = b + 1 + Weight(t, n)
  <2>1. Weight(t, s) = 1 /\ Weight(t, n) \in Nat
    BY DEF Weight
  <2>2. /\ black[n] = Height(black, s, x) + Weight(t, n)
        /\ black[n] = Height(black, x, x) + Weight(t, n)
        /\ black[s] = Height(black, i, x) + Weight(t, s)
        /\ black[s] = Height(black, o, x) + Weight(t, s)
    <3>1. n # gone /\ s # gone /\ n \in Nodes /\ s \in Nodes
      BY <1>2
    <3>2. \A d \in Sides : black[n] = Height(black, t.kids[d][n], x) + Weight(t, n)
      BY <3>1, EvenAt
    <3>3. \A d \in Sides : black[s] = Height(black, t.kids[d][s], x) + Weight(t, s)
      BY <3>1, EvenAt
    <3> QED
      BY <1>1, <1>3, <3>2, <3>3, Zenon
  <2>3. /\ black[n] = black[s] + Weight(t, n)
        /\ black[n] = b + 1 + Weight(t, n)
        /\ black[s] = black[i] + 1
        /\ black[s] = black[o] + 1
    BY <1>8, <2>1, <2>2
  <2>4. \A h, j, k, l \in Nat, w \in Nat :
          h = k + w /\ h = b + 1 + w /\ k = j + 1 /\ k = l + 1 => k = b + 1 /\ j = b /\ l = b
    OBVIOUS
  <2>5. black[s] = b + 1 /\ black[i] = b /\ black[o] = b
    <3>1. PICK h \in Nat, j \in Nat, k \in Nat, l \in Nat, w \in Nat :
            /\ h = black[n] /\ j = black[i] /\ k = black[s] /\ l = black[o] /\ w = Weight(t, n)
      BY <1>8, <2>1
    <3>2. h = k + w /\ h = b + 1 + w /\ k = j + 1 /\ k = l + 1
      BY <2>3, <3>1
    <3> QED
      BY <2>4, <3>1, <3>2
  <2> QED
    BY <2>3, <2>5
<1>10. /\ after \in [Pointers -> Nat \ {0}] /\ after[Nil] = 1
       /\ after[n] = b + 1 /\ after[s] = black[n] /\ after[o] = b + 1
       /\ \A m \in Pointers \ {n, s, o} : after[m] = black[m]
  <2>1. after = [m \in Pointers |-> IF m = n THEN b + 1 ELSE IF m = s THEN black[n]
                                    ELSE IF m = o THEN b + 1 ELSE black[m]]
    BY <1>6, <1>7, <1>9 DEF FarTurned
  <2>2. b + 1 \in Nat \ {0} /\ black[n] \in Nat \ {0}
    BY <1>2, <1>5, NodesAreNumbers
  <2> QED
    BY <1>2, <1>5, <2>1, <2>2, NodesAreNumbers
<1>11. /\ \A m : Height(after, m, Nil) = after[m]
       /\ \A m : m # x => Height(black, m, x) = black[m]
  BY DEF Height
<1>12. ASSUME NEW m \in Nodes, m # gone, NEW d \in Sides
       PROVE  after[m] = Height(after, u.kids[d][m], Nil) + Weight(u, m)
  <2>1. CASE m = n
    <3>1. Weight(u, n) = 1
      BY <1>4 DEF Weight
    <3>2. after[u.kids[d][n]] = b
      <4>1. after[x] = b /\ after[i] = b
        BY <1>2, <1>7, <1>9, <1>10, NodesAreNumbers
      <4> QED
        BY <1>1, <1>4, <4>1
    <3> QED
      BY <1>10, <1>11, <2>1, <3>1, <3>2
  <2>2. CASE m = s
    <3>1. Weight(u, s) = Weight(t, n)
      BY <1>4 DEF Weight
    <3>2. after[u.kids[d][s]] = b + 1
      BY <1>1, <1>4, <1>10
    <3> QED
      BY <1>9, <1>10, <1>11, <2>2, <3>1, <3>2
  <2>3. CASE m = o
    <3>1. Weight(u, o) = 1 /\ Weight(t, o) = 0
      BY <1>4 DEF Weight
    <3>2. PICK k : k = t.kids[d][o]
      OBVIOUS
    <3>3. k \in Pointers /\ k \notin {n, s, o, x}
      <4>1. k \in Pointers
        BY <1>2, <3>2, BelowNode
      <4>2. k \notin {n, s, o}
        BY <3>2, KinNodes
      <4>3. k # x
        BY <1>2, <3>2, KinNodes
      <4> QED
        BY <4>1, <4>2, <4>3
    <3>4. u.kids[d][o] = k
      BY <1>2, <1>4, <3>2, <3>3
    <3>5. after[k] = black[k] /\ Height(black, k, x) = black[k]
      BY <1>10, <1>11, <3>3
    <3>6. b = black[k] + 0
      <4>1. black[o] = Height(black, k, x) + Weight(t, o)
        BY <1>2, <1>12, <2>3, <3>2, EvenAt
      <4> QED
        BY <1>9, <3>1, <3>5, <4>1
    <3>7. black[k] \in Nat
      BY <1>5, <3>3
    <3>8. black[k] = b
      BY <3>6, <3>7
    <3> QED
      BY <1>10, <1>11, <2>3, <3>1, <3>4, <3>5, <3>8
  <2>4. CASE m \notin {n, s, o}
    <3>1. Weight(u, m) = Weight(t, m)
      BY <1>4, <2>4 DEF Weight
    <3>2. PICK k : k = t.kids[d][m]
      OBVIOUS
    <3>3. k \in Pointers /\ k \notin {s, o, x}
      <4>1. k \in Pointers
        BY <3>2, BelowNode
      <4>2. k \notin {s, o, x}
        BY <1>2, <2>4, <3>2, KinNodes
      <4> QED
        BY <4>1, <4>2
    <3>4. after[u.kids[d][m]] = black[k]
      <4>1. u.kids[d][m] = IF k = n THEN s ELSE k
        BY <1>4, <2>4, <3>2
      <4>2. k # n => after[k] = black[k]
        BY <1>10, <3>3
      <4> QED
        BY <1>10, <4>1, <4>2
    <3>5. black[m] = black[k] + Weight(t, m)
      <4>1. black[m] = Height(black, k, x) + Weight(t, m)
        BY <1>12, <3>2, EvenAt
      <4> QED
        BY <1>11, <3>3, <4>1
    <3>6. after[m] = black[m]
      BY <1>10, <2>4, NodesAreNumbers
    <3> QED
      BY <1>11, <3>1, <3>4, <3>5, <3>6
  <2> QED
    BY <2>1, <2>2, <2>3, <2>4
<1>13. gone \in Nodes => after[gone] = after[c]
  BY <1>5, <1>10, NodesAreNumbers
<1>14. Even(u, after, gone, c, Nil)
  BY <1>10, <1>12, <1>13 DEF Even
<1> QED
  BY <1>6, <1>14

-----------------------------------------------------------------------------
(* Insertion.                                                              *)

\* What there is to say about the tree while an operation runs.
Healthy(t, S, below, black, gone, c, short, X) ==
  /\ Shaped(t, S, below) /\ Ordered(t, S, below, gone)
  /\ Even(t, black, gone, c, short) /\ Reds(t, S, X)

\* In an empty tree the node is the root.
LEMMA FirstNode ==
  ASSUME NEW t, NEW S, NEW below, NEW black, NEW c, Healthy(t, S, below, black, Nil, c, Nil, {}),
         NEW k \in Nodes, t.root = Nil
  PROVE  LET u == Paint([t EXCEPT !.root = k], k, "red")
         IN  /\ Healthy(u, {k}, below, black, Nil, c, Nil, {k})
             /\ u.color[k] = "red" /\ u.root = k /\ S = {}
<1>1. /\ Shaped(t, S, below) /\ t \in Trees /\ Even(t, black, Nil, c, Nil)
  BY DEF Healthy, Shaped
<1>2. S = {} /\ k \in Pointers /\ k # Nil
  BY <1>1, ParentOf, NodesAreNumbers
<1>3. PICK u : u = [t EXCEPT !.root = k]
  OBVIOUS
<1>4. /\ u \in Trees /\ u.root = k /\ u.kids = t.kids /\ u.parent = t.parent /\ u.color = t.color
  BY <1>1, <1>2, <1>3, RootEdit
<1>5. u.color[k] = "red" /\ u.parent[k] = Nil /\ \A d \in Sides : u.kids[d][k] = Nil
  BY <1>1, <1>2, <1>4 DEF Shaped
<1>6. Paint(u, k, "red") = u
  BY <1>4, <1>5, PaintSame
<1>7. below[k] = {k} /\ below[Nil] = {}
  <2>1. below[Nil] = {} /\ "left" \in Sides /\ "right" \in Sides
    BY <1>1 DEF Shaped, Sides
  <2>2. below[k] = {k} \cup below[t.kids["left"][k]] \cup below[t.kids["right"][k]]
    BY <1>1 DEF Shaped
  <2> QED
    BY <1>4, <1>5, <2>1, <2>2
<1>8. Shaped(u, {k}, below)
  <2>1. IsFiniteSet({k})
    BY FS_Singleton
  <2>2. /\ below \in [Pointers -> SUBSET Nodes]
        /\ \A n \in Nodes :
             /\ below[n] = {n} \cup below[u.kids["left"][n]] \cup below[u.kids["right"][n]]
             /\ n \notin below[u.kids["left"][n]] /\ n \notin below[u.kids["right"][n]]
             /\ below[u.kids["left"][n]] \cap below[u.kids["right"][n]] = {}
             /\ \A side \in Sides : u.kids[side][n] # Nil => u.parent[u.kids[side][n]] = n
        /\ \A n \in Nodes : /\ u.parent[n] = Nil /\ u.color[n] = "red"
                            /\ \A side \in Sides : u.kids[side][n] = Nil
    BY <1>1, <1>2, <1>4 DEF Shaped
  <2>3. \A n \in {k} : below[n] \subseteq {k}
    BY <1>7
  <2>4. \A n \in {k} : n = u.root /\ u.parent[n] = Nil
    BY <1>4, <1>5
  <2>5. \A n \in Nodes \ {k} : /\ u.parent[n] = Nil /\ u.color[n] = "red"
                               /\ \A side \in Sides : u.kids[side][n] = Nil
    BY <2>2
  <2> QED
    BY <1>4, <1>7, <2>1, <2>2, <2>3, <2>4, <2>5 DEF Shaped
<1>9. Ordered(u, {k}, below, Nil)
  BY <1>5, <1>7 DEF Ordered
<1>10. Even(u, black, Nil, c, Nil)
  BY <1>1, <1>4 DEF Even, Weight
<1>11. Reds(u, {k}, {k})
  BY DEF Reds
<1> QED
  BY <1>2, <1>3, <1>4, <1>5, <1>6, <1>8, <1>9, <1>10, <1>11 DEF Healthy

\* Otherwise it is red as it was, and the way down begins at the root.
LEMMA StartAtRoot ==
  ASSUME NEW t, NEW S, NEW below, Shaped(t, S, below), Ordered(t, S, below, Nil),
         NEW k \in Nodes \ S, t.root # Nil
  PROVE  /\ Paint(t, k, "red") = t
         /\ OnItsWay(t, S, below, t.root, k)
<1>1. t \in Trees /\ t.color[k] = "red"
  BY DEF Shaped
<1>2. t.root \in S
  BY ParentOf
<1>3. \A n \in S, side \in Sides : t.root \notin below[t.kids[side][n]]
  <2> TAKE n \in S, side \in Sides
  <2>1. n \in Nodes /\ t.kids[side][n] \in S \cup {Nil} /\ below[Nil] = {}
    <3>1. n \in Nodes /\ below[Nil] = {}
      BY DEF Shaped
    <3> QED
      BY <3>1, BelowNode
  <2>2. SUFFICES ASSUME t.root \in below[t.kids[side][n]] PROVE FALSE
    OBVIOUS
  <2>3. t.kids[side][n] \in Nodes /\ t.kids[side][n] # Nil
    BY <2>1, <2>2, BelowNode
  <2>4. below[t.root] \subseteq below[t.kids[side][n]]
    BY <2>2, <2>3, BelowInside
  <2>5. n \in below[t.root] /\ n \notin below[t.kids[side][n]]
    BY <2>1, BelowNode, ParentOf
  <2> QED
    BY <2>4, <2>5
<1>4. OnItsWay(t, S, below, t.root, k)
  BY <1>2, <1>3 DEF OnItsWay
<1>5. Paint(t, k, "red") = t
  BY <1>1, PaintSame
<1> QED
  BY <1>4, <1>5

\* A step down.
LEMMA StepDown ==
  ASSUME NEW t, NEW S, NEW below, Shaped(t, S, below), NEW k \in Nodes \ S,
         NEW n, OnItsWay(t, S, below, n, k), NEW m, m = t.kids[Towards(n, k)][n], m # Nil
  PROVE  OnItsWay(t, S, below, m, k)
<1>1. n \in S /\ n \in Nodes /\ k # n
  BY DEF OnItsWay, Shaped
<1>2. Towards(n, k) \in Sides /\ Before(Towards(n, k), k, n)
  BY <1>1, TowardsIsBefore
<1>3. m \in S /\ m \in Nodes /\ t.parent[m] = n /\ SideOf(t, m) = Towards(n, k)
  <2>1. m \in S /\ m \in Nodes /\ t.parent[m] = n
    BY <1>1, <1>2, KidBelow
  <2>2. SideOf(t, m) = Towards(n, k)
    BY <1>1, <1>2, SideIs
  <2> QED
    BY <2>1, <2>2
<1>4. ASSUME NEW j \in S, NEW side \in Sides, m \in below[t.kids[side][j]]
      PROVE  Before(side, k, j)
  <2>1. j \in Nodes /\ t.kids[side][j] \in S \cup {Nil} /\ below[Nil] = {}
    BY BelowNode DEF Shaped
  <2>2. PICK r : r = t.kids[side][j]
    OBVIOUS
  <2>3. r \in S /\ m \in below[r] /\ r # Nil
    BY <1>4, <2>1, <2>2, NodesAreNumbers DEF Shaped
  <2>4. CASE m = r
    <3>1. t.parent[m] = j /\ SideOf(t, m) = side
      BY <2>1, <2>2, <2>3, <2>4, SideIs
    <3> QED
      BY <1>2, <1>3, <3>1
  <2>5. CASE m # r
    <3>1. n \in below[r]
      BY <1>3, <2>3, <2>5, ParentInside
    <3> QED
      BY <2>2, <3>1 DEF OnItsWay
  <2> QED
    BY <2>4, <2>5
<1> QED
  BY <1>3, <1>4 DEF OnItsWay

\* The subtrees with one more node.
Grown(below, n, k) ==
  [m \in Pointers |-> IF n \in below[m] THEN below[m] \cup {k} ELSE below[m]]

\* The node is attached where it belongs.
LEMMA AttachKeeps ==
  ASSUME NEW t, NEW S, NEW below, NEW black, NEW c, Healthy(t, S, below, black, Nil, c, Nil, {}),
         NEW k \in Nodes \ S, NEW n, OnItsWay(t, S, below, n, k),
         NEW side, side = Towards(n, k), t.kids[side][n] = Nil
  PROVE  /\ Healthy(Linked(t, side, n, k), S \cup {k}, Grown(below, n, k), black, Nil, c, Nil, {k})
         /\ Linked(t, side, n, k).color[k] = "red"
         /\ Linked(t, side, n, k).root = t.root /\ t.root \in Nodes
         /\ Linked(t, side, n, k).color = t.color
<1>1. /\ Shaped(t, S, below) /\ Ordered(t, S, below, Nil)
      /\ Even(t, black, Nil, c, Nil) /\ Reds(t, S, {})
  BY DEF Healthy
<1>2. n \in S /\ n \in Nodes /\ k # n /\ S \subseteq Nodes /\ t \in Trees /\ IsFiniteSet(S)
  BY <1>1 DEF OnItsWay, Shaped
<1>3. side \in Sides /\ Before(side, k, n)
  BY <1>2, TowardsIsBefore
<1>4. PICK u, after : u = Linked(t, side, n, k) /\ after = Grown(below, n, k)
  OBVIOUS
<1>5. /\ u \in Trees /\ u.root = t.root /\ u.color = t.color
      /\ u.kids[side][n] = k
      /\ \A m \in Nodes, d \in Sides : ~(m = n /\ d = side) => u.kids[d][m] = t.kids[d][m]
      /\ u.parent[k] = n
      /\ \A m \in Nodes \ {k} : u.parent[m] = t.parent[m]
  <2>1. LinkedTo(t, u, side, n, k)
    BY <1>2, <1>3, <1>4, LinkEdit, Zenon
  <2> QED
    BY <1>2, <1>3, <2>1 DEF LinkedTo
<1>6. /\ t.parent[k] = Nil /\ t.color[k] = "red" /\ \A d \in Sides : t.kids[d][k] = Nil
      /\ below[Nil] = {} /\ below \in [Pointers -> SUBSET Nodes] /\ below[t.root] = S
  BY <1>1 DEF Shaped
<1>7. t.root \in S /\ t.root # Nil /\ t.root # k
  BY <1>1, <1>2, <1>6, ParentOf, NodesAreNumbers
<1>8. below[k] = {k} /\ \A m \in Pointers \ {k} : k \notin below[m]
  <2>1. ASSUME NEW m \in Nodes \ S
        PROVE  below[m] = {m}
    <3>1. \A d \in Sides : t.kids[d][m] = Nil
      BY <1>1 DEF Shaped
    <3>2. below[m] = {m} \cup below[t.kids["left"][m]] \cup below[t.kids["right"][m]]
      BY <1>1, SMTT(30) DEF Shaped
    <3> QED
      BY <1>6, <3>1, <3>2 DEF Sides
  <2>2. \A m \in S : below[m] \subseteq S
    BY <1>1 DEF Shaped
  <2>3. k \notin S /\ k \in Nodes
    BY Zenon
  <2>4. below[k] = {k}
    BY <2>1, <2>3, Zenon
  <2>5. ASSUME NEW m \in Pointers \ {k}
        PROVE  k \notin below[m]
    <3>1. CASE m = Nil
      BY <1>6, <3>1
    <3>2. CASE m \in S
      BY <2>2, <2>3, <3>2
    <3>3. CASE m \in Nodes \ S
      <4>1. below[m] = {m}
        BY <2>1, <3>3, Zenon
      <4> QED
        BY <4>1
    <3> QED
      BY <3>1, <3>2, <3>3, NodesAreNumbers
  <2> QED
    BY <2>4, <2>5
<1>9. /\ after \in [Pointers -> SUBSET Nodes] /\ after[Nil] = {} /\ after[k] = {k}
      /\ \A m \in Pointers : after[m] = IF n \in below[m] THEN below[m] \cup {k} ELSE below[m]
  BY <1>2, <1>4, <1>6, <1>8, NodesAreNumbers DEF Grown
<1>10. after[u.root] = S \cup {k}
  BY <1>2, <1>5, <1>6, <1>7, <1>9, NodesAreNumbers, ZenonT(30)
<1>11. ASSUME NEW m \in Nodes
       PROVE  \E d \in Sides : Joined(u, after, m, d)
  <2>1. /\ below[m] = {m} \cup below[t.kids[side][m]] \cup below[t.kids[Other(side)][m]]
        /\ m \notin below[t.kids[side][m]] /\ m \notin below[t.kids[Other(side)][m]]
        /\ below[t.kids[side][m]] \cap below[t.kids[Other(side)][m]] = {}
        /\ t.kids[side][m] \in Pointers /\ t.kids[Other(side)][m] \in Pointers
        /\ Other(side) \in Sides /\ Other(side) # side
    <3>1. Other(side) \in Sides /\ Other(side) # side
      BY <1>3, TwoSides
    <3>2. /\ below[m] = {m} \cup below[t.kids[side][m]] \cup below[t.kids[Other(side)][m]]
          /\ m \notin below[t.kids[side][m]]
          /\ below[t.kids[side][m]] \cap below[t.kids[Other(side)][m]] = {}
          /\ t.kids[side][m] \in Pointers
      BY <1>1, <1>3, BelowNode
    <3>3. m \notin below[t.kids[Other(side)][m]] /\ t.kids[Other(side)][m] \in Pointers
      BY <1>1, <3>1, BelowNode
    <3> QED
      BY <3>1, <3>2, <3>3
  <2>2. PICK L, R : L = t.kids[side][m] /\ R = t.kids[Other(side)][m]
    OBVIOUS
  <2>3. /\ L # k /\ R # k
        /\ L # Nil => t.parent[L] = m
        /\ R # Nil => t.parent[R] = m
    <3>1. \A d \in Sides : t.kids[d][m] # Nil => t.kids[d][m] \in S /\ t.parent[t.kids[d][m]] = m
      BY <1>1, KidBelow
    <3>2. k # Nil
      BY NodesAreNumbers
    <3> QED
      BY <1>3, <2>1, <2>2, <3>1, <3>2
  <2>4. CASE m = n
    <3>1. u.kids[side][n] = k /\ u.kids[Other(side)][n] = R
      BY <1>2, <1>5, <2>1, <2>2, <2>4
    <3>2. after[R] = below[R]
      BY <1>9, <2>1, <2>2, <2>4
    <3>3. after[n] = {n} \cup {k} \cup below[R]
      <4>1. L = Nil /\ n \in Pointers
        BY <1>2, <2>2, <2>4, NodesAreNumbers
      <4>2. below[n] = {n} \cup below[R]
        BY <1>6, <2>1, <2>2, <2>4, <4>1
      <4>3. after[n] = below[n] \cup {k}
        BY <1>9, <4>1, <4>2
      <4> QED
        BY <4>2, <4>3
    <3>4. k \notin below[R]
      BY <1>8, <2>1, <2>2, <2>3
    <3>5. \A d \in Sides : u.kids[d][n] # Nil => u.parent[u.kids[d][n]] = n
      <4>1. u.parent[k] = n /\ (R # Nil => u.parent[R] = n)
        BY <1>5, <2>1, <2>2, <2>3, <2>4, NodesAreNumbers, ZenonT(30)
      <4>2. \A d \in Sides : u.kids[d][n] = k \/ u.kids[d][n] = R
        BY <1>3, <3>1, TwoSides
      <4> QED
        BY <4>1, <4>2
    <3>6. Joined(u, after, n, side)
      BY <1>2, <1>9, <2>1, <2>2, <2>4, <3>1, <3>2, <3>3, <3>4, <3>5 DEF Joined
    <3> QED
      BY <1>3, <2>4, <3>6
  <2>5. CASE m # n
    <3>1. u.kids[side][m] = L /\ u.kids[Other(side)][m] = R
      BY <1>3, <1>5, <2>1, <2>2, <2>5
    <3>2. m # k => k \notin below[m] /\ k \notin below[L] /\ k \notin below[R]
      BY <1>8, <2>1, <2>2, <2>3, NodesAreNumbers
    <3>3. m = k => L = Nil /\ R = Nil
      BY <1>3, <1>6, <2>1, <2>2
    <3>4. /\ after[m] = IF n \in below[m] THEN below[m] \cup {k} ELSE below[m]
          /\ after[L] = IF n \in below[L] THEN below[L] \cup {k} ELSE below[L]
          /\ after[R] = IF n \in below[R] THEN below[R] \cup {k} ELSE below[R]
      BY <1>9, <2>1, <2>2, NodesAreNumbers
    <3>5. \A d \in Sides : u.kids[d][m] # Nil => u.parent[u.kids[d][m]] = m
      <4>1. /\ L # Nil => L \in Nodes /\ u.parent[L] = m
            /\ R # Nil => R \in Nodes /\ u.parent[R] = m
        BY <1>5, <2>1, <2>2, <2>3, NodesAreNumbers, ZenonT(30)
      <4> QED
        BY <1>3, <3>1, <4>1, TwoSides
    <3>6. CASE m = k
      <4>1. after[L] = {} /\ after[R] = {} /\ after[k] = {k}
        BY <1>9, <3>3, <3>6
      <4>2. Joined(u, after, k, side)
        BY <3>1, <3>5, <3>6, <4>1 DEF Joined
      <4> QED
        BY <1>3, <3>6, <4>2
    <3>7. CASE m # k
      <4>1. PICK B, C, D, E, F, G : /\ B = below[m] /\ C = below[L] /\ D = below[R]
                                    /\ E = after[m] /\ F = after[L] /\ G = after[R]
        OBVIOUS
      <4>2. /\ B = {m} \cup C \cup D /\ m \notin C /\ m \notin D /\ C \cap D = {}
            /\ k \notin B /\ k \notin C /\ k \notin D /\ m # k /\ m # n
            /\ E = IF n \in B THEN B \cup {k} ELSE B
            /\ F = IF n \in C THEN C \cup {k} ELSE C
            /\ G = IF n \in D THEN D \cup {k} ELSE D
        BY <2>1, <2>2, <2>5, <3>2, <3>4, <3>7, <4>1, Zenon
      <4>3. /\ E = {m} \cup F \cup G /\ m \notin F /\ m \notin G /\ F \cap G = {}
        BY <4>2
      <4> QED
        BY <1>3, <3>1, <3>5, <4>1, <4>3 DEF Joined
    <3> QED
      BY <1>3, <3>6, <3>7
  <2> QED
    BY <2>4, <2>5
<1>12. \A m \in S \cup {k} : after[m] \subseteq S \cup {k}
  <2>1. \A m \in S : below[m] \subseteq S
    BY <1>1 DEF Shaped
  <2> QED
    BY <1>2, <1>9, <2>1, NodesAreNumbers
<1>13. u.root # Nil => u.parent[u.root] = Nil
  <2>1. t.parent[t.root] = Nil /\ t.root \in Nodes
    BY <1>1, <1>2, <1>7, ParentOf
  <2> QED
    BY <1>5, <1>7, <2>1
<1>14. \A m \in (S \cup {k}) \ {u.root} :
         \E d \in Sides : u.parent[m] \in S \cup {k} /\ u.kids[d][u.parent[m]] = m
  <2> TAKE m \in (S \cup {k}) \ {u.root}
  <2>1. CASE m = k
    BY <1>2, <1>3, <1>5, <2>1
  <2>2. CASE m # k
    <3>1. m \in S /\ m \in Nodes /\ m # t.root /\ u.parent[m] = t.parent[m]
      BY <1>2, <1>5, <2>2
    <3>2. PICK d \in Sides : t.parent[m] \in S /\ t.kids[d][t.parent[m]] = m
      BY <1>1, <3>1 DEF Shaped
    <3>3. u.kids[d][t.parent[m]] = m
      BY <1>2, <1>5, <3>1, <3>2, NodesAreNumbers, ZenonT(30)
    <3> QED
      BY <3>1, <3>2, <3>3
  <2> QED
    BY <2>1, <2>2
<1>15. \A m \in Nodes \ (S \cup {k}) : /\ u.parent[m] = Nil /\ u.color[m] = "red"
                                       /\ \A d \in Sides : u.kids[d][m] = Nil
  <2> TAKE m \in Nodes \ (S \cup {k})
  <2>1. /\ t.parent[m] = Nil /\ t.color[m] = "red" /\ \A d \in Sides : t.kids[d][m] = Nil
    BY <1>1 DEF Shaped
  <2> QED
    BY <1>2, <1>5, <2>1
<1>16. Shaped(u, S \cup {k}, after)
  <2>1. S \cup {k} \in SUBSET Nodes /\ IsFiniteSet(S \cup {k})
    BY <1>2, FS_AddElement
  <2> QED
    BY <1>5, <1>9, <1>10, <1>11, <1>12, <1>13, <1>14, <1>15, <2>1, IntoShape
<1>17. Ordered(u, S \cup {k}, after, Nil)
  <2>1. ASSUME NEW m \in S \cup {k}, NEW d \in Sides, NEW j \in after[u.kids[d][m]]
        PROVE  Before(d, j, m)
    <3>1. CASE m = n /\ d = side
      BY <1>3, <1>5, <1>9, <2>1, <3>1
    <3>2. CASE ~(m = n /\ d = side)
      <4>1. m \in Nodes /\ u.kids[d][m] = t.kids[d][m]
        BY <1>2, <1>5, <3>2
      <4>2. m # k
        BY <1>6, <1>9, <2>1, <4>1
      <4>3. t.kids[d][m] \in Pointers
        BY <1>1, <4>1, BelowNode
      <4>4. j \in below[t.kids[d][m]] \/ (j = k /\ n \in below[t.kids[d][m]])
        BY <1>9, <2>1, <4>1, <4>3
      <4>5. CASE j \in below[t.kids[d][m]]
        <5>1. m \in S \ {Nil} /\ j # Nil
          BY <1>6, <4>1, <4>2, <4>3, <4>5, NodesAreNumbers
        <5> QED
          BY <1>1, <4>5, <5>1 DEF Ordered
      <4>6. CASE j = k /\ n \in below[t.kids[d][m]]
        BY <4>2, <4>6 DEF OnItsWay
      <4> QED
        BY <4>4, <4>5, <4>6
    <3> QED
      BY <3>1, <3>2
  <2> QED
    BY <2>1 DEF Ordered
<1>18. Even(u, black, Nil, c, Nil)
  <2>1. /\ black \in [Pointers -> Nat \ {0}] /\ black[Nil] = 1
        /\ \A m \in Nodes, d \in Sides :
             black[m] = Height(black, t.kids[d][m], Nil) + Weight(t, m)
    BY <1>1, NodesAreNumbers DEF Even
  <2>2. \A m : Height(black, m, Nil) = black[m] /\ Weight(u, m) = Weight(t, m)
    BY <1>5 DEF Height, Weight
  <2>3. black[k] = 1
    <3>1. Weight(t, k) = 0
      BY <1>6 DEF Weight
    <3> QED
      BY <1>3, <1>6, <2>1, <2>2, <3>1
  <2>4. \A m \in Nodes, d \in Sides :
          black[m] = Height(black, u.kids[d][m], Nil) + Weight(u, m)
    <3> TAKE m \in Nodes, d \in Sides
    <3>1. black[u.kids[d][m]] = black[t.kids[d][m]]
      BY <1>5, <2>1, <2>3
    <3> QED
      BY <2>1, <2>2, <3>1
  <2> QED
    BY <2>1, <2>4, NodesAreNumbers DEF Even
<1>19. Reds(u, S \cup {k}, {k})
  <2>1. \A m : Color(u, m) = Color(t, m)
    BY <1>5 DEF Color
  <2> QED
    BY <1>1, <1>2, <1>5, <2>1 DEF Reds
<1> QED
  BY <1>2, <1>4, <1>5, <1>6, <1>7, <1>16, <1>17, <1>18, <1>19 DEF Healthy

\* The color of a node, and of nil.
LEMMA ColorIs ==
  ASSUME NEW t \in Trees
  PROVE  /\ Color(t, Nil) = "black"
         /\ \A n \in Nodes : /\ Color(t, n) = t.color[n]
                             /\ t.color[n] = "red" \/ t.color[n] = "black"
         /\ \A n \in Pointers : Color(t, n) = "red" => n \in Nodes /\ t.color[n] = "red"
         /\ "red" # "black"
BY NodesAreNumbers DEF Trees, Color, Colors

\* The parts of health.
LEMMA HealthyIs ==
  ASSUME NEW t, NEW S, NEW below, NEW black, NEW gone, NEW c, NEW short, NEW X,
         Healthy(t, S, below, black, gone, c, short, X)
  PROVE  /\ Shaped(t, S, below) /\ Ordered(t, S, below, gone)
         /\ Even(t, black, gone, c, short) /\ Reds(t, S, X)
         /\ t \in Trees /\ S \subseteq Nodes
         /\ black \in [Pointers -> Nat \ {0}] /\ black[Nil] = 1
BY DEF Healthy, Shaped, Even

\* The root may be black or not.
LEMMA RootPainted ==
  ASSUME NEW t, NEW S, NEW below, Shaped(t, S, below), NEW n \in S, t.parent[n] = Nil,
         t.color[n] = "red", NEW c, NEW black, Even(t, black, Nil, c, Nil)
  PROVE  Even(Paint(t, n, "black"), [black EXCEPT ![n] = black[n] + 1], Nil, c, Nil)
<1>1. t \in Trees /\ n \in Nodes /\ n \in Pointers /\ n # Nil
  BY NodesAreNumbers DEF Shaped
<1>2. PICK u : u = Paint(t, n, "black")
  OBVIOUS
<1>3. Painted(t, u, n, "black")
  BY <1>1, <1>2, PaintIs, TwoColors
<1>4. /\ u.kids = t.kids /\ u.color[n] = "black"
      /\ \A m \in Nodes \ {n} : u.color[m] = t.color[m]
  BY <1>3 DEF Painted
<1>5. /\ black \in [Pointers -> Nat \ {0}] /\ black[Nil] = 1
      /\ \A m \in Nodes, d \in Sides :
           black[m] = Height(black, t.kids[d][m], Nil) + Weight(t, m)
  BY NodesAreNumbers DEF Even
<1>6. PICK after : after = [black EXCEPT ![n] = black[n] + 1]
  OBVIOUS
<1>7. /\ after \in [Pointers -> Nat \ {0}] /\ after[Nil] = 1 /\ after[n] = black[n] + 1
      /\ \A m \in Pointers \ {n} : after[m] = black[m]
      /\ black[n] \in Nat
  <2>1. black[n] \in Nat \ {0} /\ black[n] + 1 \in Nat \ {0}
    BY <1>1, <1>5
  <2> QED
    BY <1>1, <1>5, <1>6, <2>1, NodesAreNumbers
<1>8. /\ \A m : Height(after, m, Nil) = after[m] /\ Height(black, m, Nil) = black[m]
      /\ Weight(t, n) = 0 /\ Weight(u, n) = 1
      /\ \A m \in Nodes \ {n} : Weight(u, m) = Weight(t, m)
  BY <1>4 DEF Height, Weight
<1>9. ASSUME NEW m \in Nodes, NEW d \in Sides
      PROVE  after[m] = Height(after, u.kids[d][m], Nil) + Weight(u, m)
  <2>1. PICK k : k = t.kids[d][m]
    OBVIOUS
  <2>2. k \in Pointers /\ k # n
    <3>1. k \in Pointers
      BY <2>1, BelowNode
    <3>2. k # Nil => t.parent[k] = m
      BY <2>1, KidBelow
    <3> QED
      BY <1>1, <3>1, <3>2, NodesAreNumbers
  <2>3. after[k] = black[k] /\ black[k] \in Nat
    BY <1>5, <1>7, <2>2
  <2>4. black[m] = black[k] + Weight(t, m)
    BY <1>5, <1>8, <2>1
  <2>5. CASE m = n
    <3>1. black[n] = black[k] + 0
      BY <1>8, <2>4, <2>5
    <3>2. black[n] + 1 = black[k] + 1
      BY <2>3, <3>1
    <3> QED
      BY <1>4, <1>7, <1>8, <2>1, <2>3, <2>5, <3>2
  <2>6. CASE m # n
    BY <1>4, <1>7, <1>8, <2>1, <2>3, <2>4, <2>6, NodesAreNumbers
  <2> QED
    BY <2>5, <2>6
<1>10. Even(u, after, Nil, c, Nil)
  BY <1>7, <1>9, NodesAreNumbers DEF Even
<1> QED
  BY <1>2, <1>6, <1>10

\* The root is made black.
LEMMA BalancedRoot ==
  ASSUME NEW t, NEW S, NEW below, NEW black, NEW c, NEW n \in S,
         Healthy(t, S, below, black, Nil, c, Nil, {n}),
         t.color[n] = "red", t.parent[n] = Nil
  PROVE  /\ \E black2 : Healthy(Paint(t, n, "black"), S, below, black2, Nil, c, Nil, {})
         /\ Color(Paint(t, n, "black"), Paint(t, n, "black").root) = "black"
<1>1. /\ Shaped(t, S, below) /\ Ordered(t, S, below, Nil)
      /\ Even(t, black, Nil, c, Nil) /\ Reds(t, S, {n}) /\ t \in Trees /\ S \subseteq Nodes
  BY HealthyIs
<1>2. PICK u : u = Paint(t, n, "black")
  OBVIOUS
<1>3. Painted(t, u, n, "black")
  BY <1>1, <1>2, PaintIs, TwoColors
<1>4. t.root = n
  BY <1>1, ParentOf
<1>5. Color(u, u.root) = "black"
  BY <1>1, <1>3, <1>4, NodesAreNumbers DEF Painted, Color
<1>6. Shaped(u, S, below) /\ Ordered(u, S, below, Nil)
  BY <1>1, <1>2, PaintKeepsShape, TwoColors
<1>7. Even(u, [black EXCEPT ![n] = black[n] + 1], Nil, c, Nil)
  BY <1>1, <1>2, RootPainted
<1>8. Reds(u, S, {})
  <2>1. ASSUME NEW m \in S, u.color[m] = "red"
        PROVE  Color(u, u.parent[m]) = "black"
    <3>1. m # n /\ m \in Nodes /\ t.color[m] = "red" /\ u.parent[m] = t.parent[m]
      BY <1>1, <1>3, <2>1, TwoColors DEF Painted
    <3>2. Color(t, t.parent[m]) = "black"
      BY <1>1, <3>1 DEF Reds
    <3>3. PICK q \in Pointers : q = t.parent[m]
      BY <1>1, <3>1 DEF Trees
    <3>4. Color(u, q) = "black"
      BY <1>3, <3>2, <3>3, NodesAreNumbers DEF Painted, Color
    <3> QED
      BY <3>1, <3>3, <3>4
  <2> QED
    BY <2>1 DEF Reds
<1>9. Healthy(u, S, below, [black EXCEPT ![n] = black[n] + 1], Nil, c, Nil, {})
  BY <1>6, <1>7, <1>8 DEF Healthy
<1> QED
  BY <1>2, <1>5, <1>9

\* A black parent: nothing is to be done.
LEMMA BalancedBelow ==
  ASSUME NEW t, NEW S, NEW below, NEW black, NEW c, NEW n \in S,
         Healthy(t, S, below, black, Nil, c, Nil, {n}), Color(t, t.parent[n]) = "black"
  PROVE  Healthy(t, S, below, black, Nil, c, Nil, {})
BY DEF Healthy, Reds

\* The node, its parent and its grandparent.
LEMMA ThreeGenerations ==
  ASSUME NEW t, NEW S, NEW below, NEW black, NEW c, NEW n \in S,
         Healthy(t, S, below, black, Nil, c, Nil, {n}), t.color[n] = "red",
         t.root # n => Color(t, t.root) = "black",
         Color(t, t.parent[n]) = "red",
         NEW p, p = t.parent[n], NEW g, g = t.parent[p]
  PROVE  /\ p \in S /\ g \in S /\ n \in Nodes /\ p \in Nodes /\ g \in Nodes
         /\ n # p /\ n # g /\ p # g /\ t.root # n /\ t.root # p
         /\ SideOf(t, n) \in Sides /\ t.kids[SideOf(t, n)][p] = n
         /\ SideOf(t, p) \in Sides /\ t.kids[SideOf(t, p)][g] = p
         /\ t.color[p] = "red" /\ t.color[g] = "black"
         /\ Grandparent(t, n) = g /\ Sibling(t, p) = t.kids[Other(SideOf(t, p))][g]
<1>1. /\ Shaped(t, S, below) /\ Reds(t, S, {n}) /\ t \in Trees /\ n \in Nodes
      /\ t.parent[n] \in Pointers
  <2>1. Shaped(t, S, below) /\ Reds(t, S, {n}) /\ t \in Trees /\ n \in Nodes
    BY HealthyIs
  <2> QED
    BY <2>1 DEF Trees
<1>2. t.parent[n] # Nil /\ "red" # "black"
  BY DEF Color
<1>3. /\ p \in S /\ p \in Nodes /\ SideOf(t, n) \in Sides /\ t.kids[SideOf(t, n)][p] = n
  BY <1>1, <1>2, OnASide
<1>4. /\ t.root # n /\ t.color[p] = "red" /\ n # p
  <2>1. t.parent[n] = Nil <=> n = t.root
    BY <1>1, ParentOf
  <2>2. n # Nil /\ p # Nil
    BY <1>1, <1>3, NodesAreNumbers
  <2>3. t.kids[SideOf(t, n)][p] # p
    BY <1>1, <1>3, <2>2, KidBelow
  <2> QED
    BY <1>2, <1>3, <2>1, <2>2, <2>3 DEF Color
<1>5. t.root # p
  BY <1>2, <1>3, <1>4, NodesAreNumbers DEF Color
<1>6. g # Nil
  <2>1. t.parent[p] = Nil <=> p = t.root
    BY <1>1, <1>3, ParentOf
  <2> QED
    BY <1>5, <2>1
<1>7. g \in S /\ g \in Nodes /\ SideOf(t, p) \in Sides /\ t.kids[SideOf(t, p)][g] = p
  BY <1>1, <1>3, <1>6, OnASide
<1>8. Color(t, g) = "black"
  BY <1>1, <1>3, <1>4 DEF Reds
<1>9. t.color[g] = "black" /\ g # n /\ g # p
  BY <1>2, <1>4, <1>6, <1>8 DEF Color
<1> QED
  BY <1>3, <1>4, <1>5, <1>7, <1>9, <1>1 DEF Grandparent, Sibling

\* A red uncle: the black of the grandparent goes to its children.
Recolored2(black, p, q) ==
  [m \in Pointers |-> IF m = p \/ m = q THEN black[m] + 1 ELSE black[m]]

\* The paths stay even.
LEMMA RecolorEven ==
  ASSUME NEW t, NEW S, NEW below, Shaped(t, S, below), NEW g \in S, NEW d \in Sides,
         NEW p, p = t.kids[d][g], p # Nil, NEW q, q = t.kids[Other(d)][g], q # Nil,
         NEW u, u.kids = t.kids, u.color[p] = "black", u.color[q] = "black", u.color[g] = "red",
         \A m \in Nodes \ {p, q, g} : u.color[m] = t.color[m],
         t.color[p] = "red", t.color[q] = "red", t.color[g] = "black",
         NEW black, NEW c, Even(t, black, Nil, c, Nil)
  PROVE  Even(u, Recolored2(black, p, q), Nil, c, Nil)
<1>1. PICK e \in Sides : e = Other(d) /\ \A f \in Sides : f = d \/ f = e
  BY TwoSides
<1>2. /\ p \in Nodes /\ q \in Nodes /\ g \in Nodes /\ t.parent[p] = g /\ t.parent[q] = g
      /\ p # g /\ q # g
  <2>1. g \in Nodes
    BY DEF Shaped
  <2>2. p \in Nodes /\ t.parent[p] = g /\ p # g
    BY <2>1, KidBelow
  <2>3. q \in Nodes /\ t.parent[q] = g /\ q # g
    BY <1>1, <2>1, KidBelow
  <2> QED
    BY <2>1, <2>2, <2>3
<1>3. /\ black \in [Pointers -> Nat \ {0}] /\ black[Nil] = 1
      /\ \A m \in Nodes, f \in Sides :
           black[m] = Height(black, t.kids[f][m], Nil) + Weight(t, m)
  BY NodesAreNumbers DEF Even
<1>4. PICK after : after = Recolored2(black, p, q)
  BY SMTT(30)
<1>5. /\ after \in [Pointers -> Nat \ {0}] /\ after[Nil] = 1
      /\ after[p] = black[p] + 1 /\ after[q] = black[q] + 1
      /\ \A m \in Pointers \ {p, q} : after[m] = black[m]
      /\ black[p] \in Nat /\ black[q] \in Nat /\ black[g] \in Nat
  <2>1. black[p] \in Nat \ {0} /\ black[q] \in Nat \ {0} /\ black[g] \in Nat
    BY <1>2, <1>3, NodesAreNumbers
  <2>2. black[p] + 1 \in Nat \ {0} /\ black[q] + 1 \in Nat \ {0}
    BY <2>1
  <2>3. after = [m \in Pointers |-> IF m = p THEN black[p] + 1 ELSE IF m = q THEN black[q] + 1
                                    ELSE black[m]]
    BY <1>4 DEF Recolored2
  <2> QED
    BY <1>2, <1>3, <2>1, <2>2, <2>3, NodesAreNumbers
<1>6. /\ \A m : Height(after, m, Nil) = after[m] /\ Height(black, m, Nil) = black[m]
      /\ Weight(t, p) = 0 /\ Weight(t, q) = 0 /\ Weight(t, g) = 1
      /\ Weight(u, p) = 1 /\ Weight(u, q) = 1 /\ Weight(u, g) = 0
      /\ \A m \in Nodes \ {p, q, g} : Weight(u, m) = Weight(t, m)
  BY DEF Height, Weight
<1>7. ASSUME NEW m \in Nodes, NEW f \in Sides
      PROVE  after[m] = Height(after, u.kids[f][m], Nil) + Weight(u, m)
  <2>1. PICK k : k = t.kids[f][m]
    OBVIOUS
  <2>2. k \in Pointers /\ (k # Nil => t.parent[k] = m)
    <3>1. k \in Pointers
      BY <2>1, BelowNode
    <3>2. k # Nil => t.parent[k] = m
      BY <2>1, KidBelow
    <3> QED
      BY <3>1, <3>2
  <2>3. black[k] \in Nat /\ u.kids[f][m] = k
    BY <1>3, <2>1, <2>2
  <2>4. black[m] = black[k] + Weight(t, m)
    BY <1>3, <1>6, <2>1
  <2>5. CASE m = g
    <3>1. k = p \/ k = q
      BY <1>1, <2>1, <2>5
    <3>2. after[k] = black[k] + 1
      BY <1>5, <3>1
    <3>3. after[g] = black[k] + 1
      BY <1>2, <1>5, <1>6, <2>4, <2>5, NodesAreNumbers
    <3>4. black[k] + 1 = black[k] + 1 + 0
      BY <2>3
    <3> QED
      BY <1>6, <2>3, <2>5, <3>2, <3>3, <3>4
  <2>6. CASE m = p \/ m = q
    <3>1. after[k] = black[k]
      BY <1>2, <1>5, <2>2, <2>6, NodesAreNumbers
    <3>2. black[m] = black[k] + 0
      BY <1>6, <2>4, <2>6
    <3>3. black[m] + 1 = black[k] + 1
      BY <2>3, <3>2
    <3>4. after[m] = black[m] + 1 /\ Weight(u, m) = 1
      BY <1>5, <1>6, <2>6
    <3> QED
      BY <1>6, <2>3, <3>1, <3>3, <3>4
  <2>7. CASE m \notin {p, q, g}
    <3>1. after[k] = black[k] /\ after[m] = black[m]
      BY <1>2, <1>5, <2>2, <2>7, NodesAreNumbers
    <3>2. Weight(u, m) = Weight(t, m)
      BY <1>6, <2>7
    <3> QED
      BY <1>6, <2>3, <2>4, <3>1, <3>2
  <2> QED
    BY <2>5, <2>6, <2>7
<1>8. Even(u, after, Nil, c, Nil)
  BY <1>5, <1>7, NodesAreNumbers DEF Even
<1> QED
  BY <1>4, <1>8

\* A red uncle: the red moves up.
LEMMA RecolorKeeps ==
  ASSUME NEW t, NEW S, NEW below, NEW black, NEW c, NEW n \in S,
         Healthy(t, S, below, black, Nil, c, Nil, {n}), t.color[n] = "red",
         t.root # n => Color(t, t.root) = "black",
         Color(t, t.parent[n]) = "red", Color(t, Sibling(t, t.parent[n])) = "red"
  PROVE  LET p == t.parent[n]
             q == Sibling(t, p)
             g == Grandparent(t, n)
             u == Paint(Paint(Paint(t, p, "black"), q, "black"), g, "red")
         IN  /\ \E black2 : Healthy(u, S, below, black2, Nil, c, Nil, {g})
             /\ g \in S /\ u.color[g] = "red" /\ (u.root # g => Color(u, u.root) = "black")
<1>1. PICK p, g, q, d : /\ p = t.parent[n] /\ g = t.parent[p] /\ q = Sibling(t, p)
                        /\ d = SideOf(t, p)
  OBVIOUS
<1>2. /\ Shaped(t, S, below) /\ Ordered(t, S, below, Nil)
      /\ Even(t, black, Nil, c, Nil) /\ Reds(t, S, {n}) /\ t \in Trees /\ S \subseteq Nodes
  BY HealthyIs
<1>3. /\ p \in S /\ g \in S /\ n \in Nodes /\ p \in Nodes /\ g \in Nodes
      /\ n # p /\ n # g /\ p # g /\ t.root # n /\ t.root # p
      /\ d \in Sides /\ t.kids[d][g] = p
      /\ t.color[p] = "red" /\ t.color[g] = "black"
      /\ Grandparent(t, n) = g /\ q = t.kids[Other(d)][g]
  BY <1>1, ThreeGenerations
<1>4. Other(d) \in Sides
  BY <1>3, TwoSides
<1>5. q # Nil /\ q \in S /\ q \in Nodes /\ t.parent[q] = g /\ t.color[q] = "red" /\ q # g /\ q # p
  <2>1. q # Nil /\ t.color[q] = "red"
    BY <1>1 DEF Color
  <2>2. q \in S /\ q \in Nodes /\ t.parent[q] = g /\ q # g
    BY <1>2, <1>3, <1>4, <2>1, KidBelow
  <2>3. q # p
    BY <1>2, <1>3, <2>1, KidBelow, NodesAreNumbers
  <2> QED
    BY <2>1, <2>2, <2>3
<1>6. PICK v, w : v = Paint(t, p, "black") /\ w = Paint(v, q, "black")
  OBVIOUS
<1>7. PICK u : u = Paint(w, g, "red")
  OBVIOUS
<1>8. Painted(t, v, p, "black") /\ Shaped(v, S, below) /\ Ordered(v, S, below, Nil) /\ v \in Trees
  <2>1. Painted(t, v, p, "black")
    BY <1>2, <1>3, <1>6, PaintIs, TwoColors
  <2>2. Shaped(v, S, below) /\ Ordered(v, S, below, Nil)
    BY <1>2, <1>3, <1>6, PaintKeepsShape, TwoColors
  <2> QED
    BY <2>1, <2>2 DEF Painted
<1>9. Painted(v, w, q, "black") /\ Shaped(w, S, below) /\ Ordered(w, S, below, Nil) /\ w \in Trees
  <2>1. Painted(v, w, q, "black")
    BY <1>5, <1>6, <1>8, PaintIs, TwoColors
  <2>2. Shaped(w, S, below) /\ Ordered(w, S, below, Nil)
    BY <1>5, <1>6, <1>8, PaintKeepsShape, TwoColors
  <2> QED
    BY <2>1, <2>2 DEF Painted
<1>10. Painted(w, u, g, "red") /\ Shaped(u, S, below) /\ Ordered(u, S, below, Nil) /\ u \in Trees
  <2>1. Painted(w, u, g, "red")
    BY <1>3, <1>7, <1>9, PaintIs, TwoColors
  <2>2. Shaped(u, S, below) /\ Ordered(u, S, below, Nil)
    BY <1>3, <1>7, <1>9, PaintKeepsShape, TwoColors
  <2> QED
    BY <2>1, <2>2 DEF Painted
<1>11. /\ u.kids = t.kids /\ u.parent = t.parent /\ u.root = t.root
       /\ u.color[p] = "black" /\ u.color[q] = "black" /\ u.color[g] = "red"
       /\ \A m \in Nodes \ {p, q, g} : u.color[m] = t.color[m]
  BY <1>3, <1>5, <1>8, <1>9, <1>10 DEF Painted
<1>12. Even(u, Recolored2(black, p, q), Nil, c, Nil)
  BY <1>2, <1>3, <1>5, <1>11, RecolorEven, NodesAreNumbers
<1>13. ASSUME NEW m \in S \ {g}, u.color[m] = "red"
       PROVE  Color(u, u.parent[m]) = "black"
  <2>1. m \in Nodes /\ m \notin {p, q, g} /\ t.color[m] = "red"
    BY <1>2, <1>11, <1>13, TwoColors
  <2>2. CASE m = n
    BY <1>1, <1>3, <1>11, <2>2, NodesAreNumbers, Zenon DEF Color
  <2>3. CASE m # n
    <3>1. PICK r \in Pointers : r = t.parent[m]
      BY <1>2, <2>1 DEF Trees
    <3>2. Color(t, r) = "black"
      BY <1>2, <2>1, <2>3, <3>1 DEF Reds
    <3>3. r # g
      <4>1. SUFFICES ASSUME r = g PROVE FALSE
        OBVIOUS
      <4>2. t.parent[m] # Nil
        BY <1>3, <3>1, <4>1, NodesAreNumbers
      <4>3. PICK f \in Sides : t.kids[f][g] = m
        <5>1. t.kids[SideOf(t, m)][t.parent[m]] = m /\ SideOf(t, m) \in Sides
          BY <1>2, <2>1, <4>2, OnASide
        <5> QED
          BY <3>1, <4>1, <5>1
      <4> QED
        BY <1>3, <2>1, <4>3, TwoSides
    <3>4. r \in Nodes => t.color[r] = "black"
      BY <3>2, NodesAreNumbers DEF Color
    <3> QED
      BY <1>11, <3>1, <3>3, <3>4, NodesAreNumbers DEF Color
  <2> QED
    BY <2>2, <2>3
<1>14. Healthy(u, S, below, Recolored2(black, p, q), Nil, c, Nil, {g})
  BY <1>10, <1>12, <1>13 DEF Healthy, Reds
<1>15. u.root # g => Color(u, u.root) = "black"
  <2>1. t.root \in S /\ t.root # Nil /\ Color(t, t.root) = "black"
    BY <1>2, <1>3, ParentOf
  <2>2. t.color[t.root] = "black"
    BY <2>1 DEF Color
  <2>3. t.root # q
    BY <1>5, <2>2, TwoColors
  <2> QED
    BY <1>2, <1>3, <1>11, <2>1, <2>2, <2>3, NodesAreNumbers DEF Color
<1> QED
  BY <1>1, <1>3, <1>6, <1>7, <1>11, <1>14, <1>15, Zenon

\* The rotation after which all is well: the node is on the outer side.
LEMMA OuterRotateKeeps ==
  ASSUME NEW t, NEW S, NEW below, NEW black, NEW c, NEW n \in S,
         Healthy(t, S, below, black, Nil, c, Nil, {n}), t.color[n] = "red",
         t.root # n => Color(t, t.root) = "black",
         Color(t, t.parent[n]) = "red", Color(t, Sibling(t, t.parent[n])) = "black",
         SideOf(t, n) = SideOf(t, t.parent[n])
  PROVE  /\ \E below2, black2 : Healthy(RotatedUp(t, n), S, below2, black2, Nil, c, Nil, {})
         /\ Color(RotatedUp(t, n), RotatedUp(t, n).root) = "black"
<1>1. PICK p, g, q, d : /\ p = t.parent[n] /\ g = t.parent[p] /\ q = Sibling(t, p)
                        /\ d = SideOf(t, p)
  OBVIOUS
<1>2. /\ Shaped(t, S, below) /\ Ordered(t, S, below, Nil)
      /\ Even(t, black, Nil, c, Nil) /\ Reds(t, S, {n}) /\ t \in Trees /\ S \subseteq Nodes
  BY HealthyIs
<1>3. /\ p \in S /\ g \in S /\ n \in Nodes /\ p \in Nodes /\ g \in Nodes
      /\ n # p /\ n # g /\ p # g /\ t.root # n /\ t.root # p
      /\ d \in Sides /\ t.kids[d][g] = p /\ t.kids[SideOf(t, n)][p] = n
      /\ t.color[p] = "red" /\ t.color[g] = "black"
      /\ Grandparent(t, n) = g /\ q = t.kids[Other(d)][g]
  BY <1>1, ThreeGenerations
<1>4. t.kids[d][p] = n
  BY <1>1, <1>3
<1>5. PICK e \in Sides : e = Other(d) /\ Other(e) = d /\ e # d /\ \A f \in Sides : f = e \/ f = d
  BY <1>3, TwoSides
<1>6. PICK i : i = t.kids[e][p]
  OBVIOUS
<1>7. Kin(t, e, g, q, p, i, n)
  BY <1>3, <1>4, <1>5, <1>6 DEF Kin
<1>8. PICK w, v, u : w = Paint(t, g, "red") /\ v = Paint(w, p, "black") /\ u = Rotate(v, e, g)
  OBVIOUS
<1>9. u = RotatedUp(t, n)
  <2>1. v = Paint(Paint(t, p, "black"), g, "red")
    BY <1>2, <1>3, <1>8, PaintTwo, TwoColors
  <2> QED
    BY <1>1, <1>5, <1>8, <2>1 DEF RotatedUp
<1>10. Painted(t, w, g, "red") /\ Shaped(w, S, below) /\ Ordered(w, S, below, Nil) /\ w \in Trees
  <2>1. Painted(t, w, g, "red")
    BY <1>2, <1>3, <1>8, PaintIs, TwoColors
  <2>2. Shaped(w, S, below) /\ Ordered(w, S, below, Nil)
    BY <1>2, <1>3, <1>8, PaintKeepsShape, TwoColors
  <2> QED
    BY <2>1, <2>2 DEF Painted
<1>11. Painted(w, v, p, "black") /\ Shaped(v, S, below) /\ Ordered(v, S, below, Nil) /\ v \in Trees
  <2>1. Painted(w, v, p, "black")
    BY <1>3, <1>8, <1>10, PaintIs, TwoColors
  <2>2. Shaped(v, S, below) /\ Ordered(v, S, below, Nil)
    BY <1>3, <1>8, <1>10, PaintKeepsShape, TwoColors
  <2> QED
    BY <2>1, <2>2 DEF Painted
<1>12. /\ v.kids = t.kids /\ v.parent = t.parent /\ v.root = t.root
       /\ v.color[p] = "black" /\ v.color[g] = "red"
       /\ \A m \in Nodes \ {p, g} : v.color[m] = t.color[m]
  BY <1>3, <1>10, <1>11 DEF Painted
<1>13. p # Nil /\ g # Nil /\ n # Nil /\ Nil \in Pointers
  BY <1>3, NodesAreNumbers, SMTT(30)
<1>14. Turned(v, u, e, g, p, i)
  <2>1. p = v.kids[Other(e)][g] /\ i = v.kids[e][p]
    BY <1>3, <1>5, <1>6, <1>12
  <2> QED
    BY <1>3, <1>8, <1>11, <1>13, <2>1, RotateTurns
<1>15. /\ Shaped(u, S, BelowTurned(v, below, e, g, p, i))
       /\ Ordered(u, S, BelowTurned(v, below, e, g, p, i), Nil)
  <2>1. p = v.kids[Other(e)][g] /\ i = v.kids[e][p]
    BY <1>3, <1>5, <1>6, <1>12
  <2>2. Shaped(u, S, BelowTurned(v, below, e, g, p, i))
    BY <1>3, <1>11, <1>13, <1>14, <2>1, TurnedShaped, SMTT(30)
  <2>3. Ordered(u, S, BelowTurned(v, below, e, g, p, i), Nil)
    BY <1>3, <1>11, <1>13, <1>14, <2>1, TurnedOrdered
  <2> QED
    BY <2>2, <2>3
<1>16. \E black2 : Even(u, black2, Nil, c, Nil)
  <2>1. p = t.kids[Other(e)][g] /\ i = t.kids[e][p]
    BY <1>3, <1>5, <1>6
  <2>2. PICK c2 \in Pointers : c2 = Nil
    BY <1>13
  <2>3. Even(t, black, Nil, c2, Nil)
    BY <1>2, NodesAreNumbers DEF Even
  <2>4. Even(u, BlackTurned(black, g, p), Nil, c2, Nil)
    BY <1>2, <1>3, <1>10, <1>11, <1>13, <1>14, <2>1, <2>3, SwapTurnEven
  <2>5. Even(u, BlackTurned(black, g, p), Nil, c, Nil)
    BY <2>4, NodesAreNumbers DEF Even
  <2> QED
    BY <2>5
<1>17. /\ u.color = v.color /\ u.root = IF t.root = g THEN p ELSE t.root
       /\ \A m \in Nodes :
            u.parent[m] = IF m = g THEN p ELSE IF m = p THEN t.parent[g]
                          ELSE IF m = i THEN g ELSE t.parent[m]
  BY <1>12, <1>14 DEF Turned
<1>18. /\ i # n /\ i # p /\ i # g /\ (i # Nil => i \in Nodes /\ i \in S /\ t.parent[i] = p)
  BY <1>2, <1>3, <1>7, <1>13, KinNodes
<1>19. i # Nil => u.color[i] = "black"
  <2>1. SUFFICES ASSUME i # Nil PROVE u.color[i] = "black"
    OBVIOUS
  <2>2. t.color[i] # "red"
    BY <1>2, <1>3, <1>13, <1>18, <2>1, TwoColors DEF Reds, Color
  <2>3. t.color[i] = "black"
    BY <1>2, <1>18, <2>1, <2>2, ColorIs
  <2> QED
    BY <1>12, <1>17, <1>18, <2>1, <2>3
<1>20. ASSUME NEW m \in S, u.color[m] = "red"
       PROVE  Color(u, u.parent[m]) = "black"
  <2>1. m \in Nodes /\ m # p /\ m # i
    BY <1>2, <1>12, <1>17, <1>19, <1>20, NodesAreNumbers, TwoColors
  <2>2. CASE m = g
    BY <1>3, <1>12, <1>13, <1>17, <2>1, <2>2, SMTT(30) DEF Color
  <2>3. CASE m = n
    BY <1>1, <1>3, <1>12, <1>13, <1>17, <1>18, <2>1, <2>3 DEF Color
  <2>4. CASE m \notin {g, n}
    <3>1. t.color[m] = "red" /\ u.parent[m] = t.parent[m]
      BY <1>12, <1>17, <1>20, <2>1, <2>4
    <3>2. PICK r \in Pointers : r = t.parent[m]
      BY <1>2, <2>1 DEF Trees
    <3>3. Color(t, r) = "black"
      BY <1>2, <2>4, <3>1, <3>2 DEF Reds
    <3>4. r # g
      <4>1. SUFFICES ASSUME r = g PROVE FALSE
        OBVIOUS
      <4>2. t.parent[m] # Nil
        BY <1>13, <3>2, <4>1
      <4>3. PICK f \in Sides : t.kids[f][g] = m
        <5>1. t.kids[SideOf(t, m)][t.parent[m]] = m /\ SideOf(t, m) \in Sides
          BY <1>2, <2>1, <4>2, OnASide
        <5> QED
          BY <3>2, <4>1, <5>1
      <4>4. m = q
        BY <1>3, <1>5, <2>1, <4>3
      <4>5. Color(t, m) = "black"
        BY <1>1, <4>4
      <4> QED
        BY <2>1, <3>1, <4>5, TwoColors, NodesAreNumbers DEF Color
    <3>5. r \in Nodes => t.color[r] = "black"
      BY <3>3, NodesAreNumbers DEF Color
    <3> QED
      BY <1>12, <1>17, <3>1, <3>2, <3>4, <3>5, NodesAreNumbers DEF Color
  <2> QED
    BY <2>2, <2>3, <2>4
<1>21. Color(u, u.root) = "black"
  <2>1. t.root \in S /\ t.root # Nil /\ Color(t, t.root) = "black" /\ t.root \in Nodes
    BY <1>2, <1>3, ParentOf
  <2>2. t.color[t.root] = "black"
    BY <2>1 DEF Color
  <2> QED
    BY <1>3, <1>12, <1>13, <1>17, <2>1, <2>2 DEF Color
<1>22. Reds(u, S, {})
  BY <1>20 DEF Reds
<1>23. \E below2, black2 : Healthy(u, S, below2, black2, Nil, c, Nil, {})
  BY <1>15, <1>16, <1>22, SMTT(30) DEF Healthy
<1> QED
  BY <1>9, <1>21, <1>23

\* An inner node is made an outer one.
LEMMA StraightenKeeps ==
  ASSUME NEW t, NEW S, NEW below, NEW black, NEW c, NEW n \in S,
         Healthy(t, S, below, black, Nil, c, Nil, {n}), t.color[n] = "red",
         t.root # n => Color(t, t.root) = "black",
         Color(t, t.parent[n]) = "red", Color(t, Sibling(t, t.parent[n])) = "black",
         SideOf(t, n) # SideOf(t, t.parent[n])
  PROVE  LET p == t.parent[n]
             u == Rotate(t, SideOf(t, p), p)
         IN  /\ \E below2 : Healthy(u, S, below2, black, Nil, c, Nil, {p})
             /\ p \in S /\ u.color[p] = "red" /\ (u.root # p => Color(u, u.root) = "black")
             /\ Color(u, u.parent[p]) = "red" /\ Color(u, Sibling(u, u.parent[p])) = "black"
             /\ SideOf(u, p) = SideOf(u, u.parent[p])
<1>1. PICK p, g, q, d : /\ p = t.parent[n] /\ g = t.parent[p] /\ q = Sibling(t, p)
                        /\ d = SideOf(t, p)
  OBVIOUS
<1>2. /\ Shaped(t, S, below) /\ Ordered(t, S, below, Nil)
      /\ Even(t, black, Nil, c, Nil) /\ Reds(t, S, {n}) /\ t \in Trees /\ S \subseteq Nodes
  BY HealthyIs
<1>3. /\ p \in S /\ g \in S /\ n \in Nodes /\ p \in Nodes /\ g \in Nodes
      /\ n # p /\ n # g /\ p # g /\ t.root # n /\ t.root # p
      /\ d \in Sides /\ t.kids[d][g] = p /\ t.kids[SideOf(t, n)][p] = n
      /\ SideOf(t, n) \in Sides
      /\ t.color[p] = "red" /\ t.color[g] = "black"
      /\ Grandparent(t, n) = g /\ q = t.kids[Other(d)][g]
  BY <1>1, ThreeGenerations
<1>4. PICK e \in Sides : e = Other(d) /\ Other(e) = d /\ e # d /\ \A f \in Sides : f = e \/ f = d
  BY <1>3, TwoSides
<1>5. t.kids[e][p] = n
  BY <1>1, <1>3, <1>4
<1>6. PICK i, x, o : i = t.kids[d][n] /\ x = t.kids[d][p] /\ o = t.kids[e][n]
  OBVIOUS
<1>7. p # Nil /\ g # Nil /\ n # Nil /\ Nil \in Pointers
  BY <1>3, NodesAreNumbers
<1>8. /\ i # n /\ i # p /\ (i # Nil => i \in Nodes /\ i \in S /\ t.parent[i] = n)
  <2>1. Kin(t, d, p, x, n, i, o)
    BY <1>4, <1>5, <1>6 DEF Kin
  <2> QED
    BY <1>2, <1>3, <1>7, <2>1, KinNodes
<1>9. PICK u : u = Rotate(t, d, p)
  OBVIOUS
<1>10. n = t.kids[Other(d)][p] /\ i = t.kids[d][n]
  BY <1>4, <1>5, <1>6
<1>11. Turned(t, u, d, p, n, i)
  BY <1>2, <1>3, <1>7, <1>9, <1>10, RotateTurns
<1>12. PICK after : after = BelowTurned(t, below, d, p, n, i)
  BY SMTT(30)
<1>13. Shaped(u, S, after)
  BY <1>2, <1>3, <1>7, <1>10, <1>11, <1>12, TurnedShaped, SMTT(30)
<1>14. Ordered(u, S, after, Nil)
  BY <1>2, <1>3, <1>7, <1>10, <1>11, <1>12, TurnedOrdered
<1>15. Even(u, black, Nil, c, Nil)
  BY <1>2, <1>3, <1>7, <1>10, <1>11, RedTurnEven
<1>16. /\ u.color = t.color /\ u.root = t.root
       /\ u.kids[d][n] = p
       /\ \A m \in Nodes \ {p, n} : \A f \in Sides :
            u.kids[f][m] = IF t.kids[f][m] = p THEN n ELSE t.kids[f][m]
       /\ \A m \in Nodes :
            u.parent[m] = IF m = p THEN n ELSE IF m = n THEN g
                          ELSE IF m = i THEN p ELSE t.parent[m]
  BY <1>1, <1>3, <1>11, SMTT(30) DEF Turned
<1>17. /\ u.parent[p] = n /\ u.parent[n] = g /\ u.kids[d][g] = n
       /\ u.kids[e][g] = q
  <2>1. t.kids[e][g] # p
    BY <1>2, <1>3, <1>4, <1>7, KidBelow
  <2> QED
    BY <1>3, <1>4, <1>16, <2>1
<1>18. SideOf(u, p) = d /\ SideOf(u, n) = d /\ Sibling(u, n) = q
  <2>1. SideOf(u, p) = d
    BY <1>3, <1>7, <1>13, <1>16, SideIs
  <2>2. SideOf(u, n) = d /\ Sibling(u, n) = u.kids[Other(d)][g]
    BY <1>3, <1>7, <1>13, <1>17, SideIs
  <2> QED
    BY <1>4, <1>17, <2>1, <2>2
<1>19. ASSUME NEW m \in S \ {p}, u.color[m] = "red"
       PROVE  Color(u, u.parent[m]) = "black"
  <2>1. m \in Nodes /\ t.color[m] = "red" /\ m # p
    BY <1>2, <1>16, <1>19
  <2>2. CASE m = n
    BY <1>3, <1>7, <1>16, <2>2 DEF Color
  <2>3. CASE m # n
    <3>1. Color(t, t.parent[m]) = "black"
      BY <1>2, <2>1, <2>3 DEF Reds
    <3>2. m # i
      <4>1. Color(t, n) = "red"
        BY <1>7 DEF Color
      <4>2. m # Nil
        BY <2>1, NodesAreNumbers
      <4> QED
        BY <1>8, <3>1, <4>1, <4>2, TwoColors
    <3> QED
      BY <1>16, <2>1, <2>3, <3>1, <3>2 DEF Color
  <2> QED
    BY <2>2, <2>3
<1>20. Healthy(u, S, after, black, Nil, c, Nil, {p})
  BY <1>13, <1>14, <1>15, <1>19 DEF Healthy, Reds
<1>21. u.color[p] = "red" /\ (u.root # p => Color(u, u.root) = "black")
  BY <1>3, <1>16 DEF Color
<1>22. Color(u, u.parent[p]) = "red" /\ Color(u, Sibling(u, u.parent[p])) = "black"
  BY <1>1, <1>7, <1>16, <1>17, <1>18 DEF Color
<1> QED
  BY <1>1, <1>3, <1>9, <1>17, <1>18, <1>20, <1>21, <1>22

\* A black uncle: after one or two rotations all is well.
LEMMA RotateUpKeeps ==
  ASSUME NEW t, NEW S, NEW below, NEW black, NEW c, NEW n \in S,
         Healthy(t, S, below, black, Nil, c, Nil, {n}), t.color[n] = "red",
         t.root # n => Color(t, t.root) = "black",
         Color(t, t.parent[n]) = "red", Color(t, Sibling(t, t.parent[n])) = "black"
  PROVE  LET s == Straightened(t, n)
             u == RotatedUp(s.tree, s.node)
         IN  /\ \E below2, black2 : Healthy(u, S, below2, black2, Nil, c, Nil, {})
             /\ Color(u, u.root) = "black"
<1>1. CASE SideOf(t, n) = SideOf(t, t.parent[n])
  <2>1. Straightened(t, n).tree = t /\ Straightened(t, n).node = n
    BY <1>1 DEF Straightened
  <2> QED
    BY <1>1, <2>1, OuterRotateKeeps
<1>2. CASE SideOf(t, n) # SideOf(t, t.parent[n])
  <2>1. PICK p, u : p = t.parent[n] /\ u = Rotate(t, SideOf(t, p), p)
    OBVIOUS
  <2>2. Straightened(t, n).tree = u /\ Straightened(t, n).node = p
    BY <1>2, <2>1 DEF Straightened
  <2>3. /\ \E below2 : Healthy(u, S, below2, black, Nil, c, Nil, {p})
        /\ p \in S /\ u.color[p] = "red" /\ (u.root # p => Color(u, u.root) = "black")
        /\ Color(u, u.parent[p]) = "red" /\ Color(u, Sibling(u, u.parent[p])) = "black"
        /\ SideOf(u, p) = SideOf(u, u.parent[p])
    BY <1>2, <2>1, StraightenKeeps
  <2>4. PICK below2 : Healthy(u, S, below2, black, Nil, c, Nil, {p})
    BY <2>3
  <2>5. /\ \E below3, black3 : Healthy(RotatedUp(u, p), S, below3, black3, Nil, c, Nil, {})
        /\ Color(RotatedUp(u, p), RotatedUp(u, p).root) = "black"
    BY <2>3, <2>4, OuterRotateKeeps
  <2> QED
    BY <2>2, <2>5
<1> QED
  BY <1>1, <1>2

-----------------------------------------------------------------------------
(* Removal: the climb after a black node has gone.                         *)

\* The red nodes whose parent may be red: the child of the node x that goes, and x
\* itself as long as the climb has not left it.
Excuse(x, c, n) == {c} \cup IF n = x THEN {x} ELSE {}

\* A black node is missing on all paths through n, which is x or above it.
Missing(t, S, below, black, x, c, n) ==
  /\ Healthy(t, S, below, black, x, c, n, Excuse(x, c, n))
  /\ x \in S /\ n \in S /\ x \in below[n] /\ c \in Pointers
  /\ OneChild(t, x, c)
  /\ n # x => t.color[n] = "black"

\* The node that goes keeps its child.
LEMMA KeepsChild ==
  ASSUME NEW t, NEW u, NEW x, NEW c, OneChild(t, x, c),
         \A f \in Sides : u.kids[f][x] = t.kids[f][x],
         u.color[x] = t.color[x], Color(u, c) = Color(t, c)
  PROVE  OneChild(u, x, c)
BY TwoSides DEF OneChild

\* The other nodes around a node with a parent: its sibling exists, and neither the
\* sibling's family nor the parent is the node that goes or its child.
LEMMA MissingIs ==
  ASSUME NEW t, NEW S, NEW below, NEW black, NEW x, NEW c, NEW n,
         Missing(t, S, below, black, x, c, n), t.parent[n] # Nil,
         NEW p, p = t.parent[n], NEW d, d = SideOf(t, n), NEW s, s = Sibling(t, n),
         NEW i, i = t.kids[d][s], NEW o, o = t.kids[Other(d)][s]
  PROVE  /\ d \in Sides /\ p \in S /\ p \in Nodes /\ n \in Nodes /\ n # Nil /\ p # Nil
         /\ s # Nil /\ Kin(t, d, p, n, s, i, o)
         /\ x \in Nodes /\ x # Nil /\ x \notin {p, s, i, o}
         /\ c \in Pointers /\ c \notin {p, s} /\ (c # Nil => c \notin {i, o})
         /\ \A m \in below[s] : m # x /\ m # c
<1>1. /\ Shaped(t, S, below) /\ Even(t, black, x, c, n) /\ t \in Trees /\ S \subseteq Nodes
      /\ black \in [Pointers -> Nat \ {0}] /\ black[Nil] = 1
      /\ x \in S /\ n \in S /\ x \in below[n] /\ c \in Pointers /\ OneChild(t, x, c)
      /\ x \in Nodes /\ n \in Nodes
  <2>1. Healthy(t, S, below, black, x, c, n, Excuse(x, c, n))
    BY DEF Missing
  <2>2. /\ Shaped(t, S, below) /\ Even(t, black, x, c, n) /\ t \in Trees /\ S \subseteq Nodes
        /\ black \in [Pointers -> Nat \ {0}] /\ black[Nil] = 1
    BY <2>1, HealthyIs
  <2> QED
    BY <2>2 DEF Missing
<1>2. /\ p \in S /\ p \in Nodes /\ d \in Sides /\ t.kids[d][p] = n
  BY <1>1, OnASide
<1>3. n # Nil /\ p # Nil /\ x # Nil
  BY <1>1, <1>2, NodesAreNumbers
<1>4. s = t.kids[Other(d)][p]
  BY <1>2 DEF Sibling
<1>5. /\ below[n] \cap below[s] = {} /\ p \notin below[n] /\ n # p /\ s \in Pointers
      /\ below[Nil] = {}
  <2>1. below[n] \cap below[s] = {} /\ p \notin below[n]
    <3>1. ASSUME NEW q \in Nodes, NEW f \in Sides
          PROVE  /\ below[t.kids[f][q]] \cap below[t.kids[Other(f)][q]] = {}
                 /\ q \notin below[t.kids[f][q]]
      BY <1>1, BelowNode
    <3> QED
      BY <1>2, <1>4, <3>1, Zenon
  <2>2. s \in Pointers
    BY <1>1, <1>2, <1>4, BelowNode, TwoSides
  <2>3. n # p
    BY <1>1, <1>2, <1>3, KidBelow
  <2> QED
    BY <1>1, <2>1, <2>2, <2>3 DEF Shaped
<1>6. c = Nil \/ c \in below[n]
  <2>1. PICK f \in Sides : t.kids[f][x] = c
    BY <1>1 DEF OneChild
  <2>2. SUFFICES ASSUME c # Nil PROVE c \in below[n]
    OBVIOUS
  <2>3. c \in below[x]
    BY <1>1, <2>1, <2>2, KidBelow
  <2>4. below[x] \subseteq below[n]
    BY <1>1, BelowInside
  <2> QED
    BY <2>3, <2>4
<1>7. s # Nil
  <2>1. SUFFICES ASSUME s = Nil PROVE FALSE
    OBVIOUS
  <2>2. p # x /\ Other(d) \in Sides
    BY <1>1, <1>2, <1>5, TwoSides
  <2>3. black[p] = Height(black, n, n) + Weight(t, p)
    BY <1>1, <1>2, <2>2, EvenAt
  <2>4. black[p] = Height(black, Nil, n) + Weight(t, p)
    <3>1. black[p] = Height(black, t.kids[Other(d)][p], n) + Weight(t, p)
      BY <1>1, <1>2, <2>2, EvenAt
    <3> QED
      BY <1>4, <2>1, <3>1
  <2>5. /\ Height(black, n, n) = black[n] + 1 /\ Height(black, Nil, n) = 1
        /\ black[n] \in Nat \ {0} /\ Weight(t, p) \in {0, 1}
    BY <1>1, <1>3, HeightIs, WeightIs, NodesAreNumbers DEF Height
  <2> QED
    BY <2>3, <2>4, <2>5
<1>8. s \in Nodes /\ s \in below[s] /\ below[i] \subseteq below[s] /\ below[o] \subseteq below[s]
      /\ (i # Nil => i \in below[s]) /\ (o # Nil => o \in below[s])
  <2>1. s \in Nodes /\ Other(d) \in Sides
    BY <1>2, <1>5, <1>7, TwoSides, NodesAreNumbers
  <2>2. s \in below[s] /\ below[s] = {s} \cup below[i] \cup below[o]
    BY <1>1, <1>2, <2>1, BelowNode
  <2>3. i # Nil => i \in below[s]
    BY <1>1, <1>2, <2>1, KidBelow
  <2>4. o # Nil => o \in below[s]
    BY <1>1, <2>1, KidBelow
  <2> QED
    BY <2>1, <2>2, <2>3, <2>4
<1>9. \A m \in below[s] : m # x /\ m # c
  <2>1. Nil \notin below[s]
    BY <1>1, <1>5, NodesAreNumbers DEF Shaped
  <2> QED
    BY <1>1, <1>5, <1>6, <2>1
<1> QED
  BY <1>1, <1>2, <1>3, <1>4, <1>5, <1>6, <1>7, <1>8, <1>9, Zenon DEF Kin

\* What Missing says of the tree.
LEMMA MissingParts ==
  ASSUME NEW t, NEW S, NEW below, NEW black, NEW x, NEW c, NEW n,
         Missing(t, S, below, black, x, c, n)
  PROVE  /\ Shaped(t, S, below) /\ Ordered(t, S, below, x) /\ Even(t, black, x, c, n)
         /\ Reds(t, S, Excuse(x, c, n)) /\ t \in Trees /\ S \subseteq Nodes
         /\ black \in [Pointers -> Nat \ {0}] /\ black[Nil] = 1
         /\ x \in S /\ n \in S /\ x \in below[n] /\ c \in Pointers /\ OneChild(t, x, c)
         /\ x \in Nodes /\ n \in Nodes /\ (n # x => t.color[n] = "black")
<1>1. Healthy(t, S, below, black, x, c, n, Excuse(x, c, n))
  BY DEF Missing
<1>2. /\ Shaped(t, S, below) /\ Ordered(t, S, below, x) /\ Even(t, black, x, c, n)
      /\ Reds(t, S, Excuse(x, c, n)) /\ t \in Trees /\ S \subseteq Nodes
      /\ black \in [Pointers -> Nat \ {0}] /\ black[Nil] = 1
  BY <1>1, HealthyIs
<1> QED
  BY <1>2 DEF Missing

\* The parent of a node has no third child.
LEMMA OnlyKids ==
  ASSUME NEW t, NEW S, NEW below, Shaped(t, S, below), NEW m \in Nodes,
         NEW q \in Nodes, t.parent[m] = q, NEW d \in Sides
  PROVE  m = t.kids[d][q] \/ m = t.kids[Other(d)][q]
<1>1. t.parent[m] # Nil
  BY NodesAreNumbers
<1>2. t.kids[SideOf(t, m)][t.parent[m]] = m /\ SideOf(t, m) \in Sides
  BY <1>1, OnASide
<1> QED
  BY <1>2, TwoSides

\* Two nodes get other colors.
PaintedBoth(t, S, below, x, w, v, a, y, b, z) ==
  /\ Painted(t, w, a, y) /\ Painted(w, v, b, z)
  /\ Shaped(v, S, below) /\ Ordered(v, S, below, x) /\ v \in Trees
  /\ v.kids = t.kids /\ v.parent = t.parent /\ v.root = t.root
  /\ v.color[a] = y /\ v.color[b] = z
  /\ \A m \in Nodes \ {a, b} : v.color[m] = t.color[m]

\* The tree keeps its shape and order.
LEMMA PaintedTwice ==
  ASSUME NEW t, NEW S, NEW below, NEW x, Shaped(t, S, below), Ordered(t, S, below, x),
         NEW a \in S, NEW b \in S, a # b, NEW y \in Colors, NEW z \in Colors
  PROVE  PaintedBoth(t, S, below, x, Paint(t, a, y), Paint(Paint(t, a, y), b, z), a, y, b, z)
<1>0. PICK w, v : w = Paint(t, a, y) /\ v = Paint(w, b, z)
  OBVIOUS
<1>1. t \in Trees /\ a \in Nodes /\ b \in Nodes
  BY DEF Shaped
<1>2. Painted(t, w, a, y) /\ Shaped(w, S, below) /\ Ordered(w, S, below, x) /\ w \in Trees
  <2>1. Painted(t, w, a, y)
    BY <1>0, <1>1, PaintIs
  <2>2. Shaped(w, S, below) /\ Ordered(w, S, below, x)
    BY <1>0, PaintKeepsShape
  <2> QED
    BY <2>1, <2>2 DEF Painted
<1>3. Painted(w, v, b, z) /\ Shaped(v, S, below) /\ Ordered(v, S, below, x) /\ v \in Trees
  <2>1. Painted(w, v, b, z)
    BY <1>0, <1>1, <1>2, PaintIs
  <2>2. Shaped(v, S, below) /\ Ordered(v, S, below, x)
    BY <1>0, <1>2, PaintKeepsShape
  <2> QED
    BY <2>1, <2>2 DEF Painted
<1>4. PaintedBoth(t, S, below, x, w, v, a, y, b, z)
  BY <1>1, <1>2, <1>3 DEF Painted, PaintedBoth
<1> QED
  BY <1>0, <1>4

\* A black node n has gone down on that side and become red; its red child s has
\* gone up and become black.
Lifted(t, u, side, n, s, i) ==
  /\ u.kids[side][s] = n /\ u.kids[Other(side)][s] = t.kids[Other(side)][s]
  /\ u.kids[Other(side)][n] = i /\ u.kids[side][n] = t.kids[side][n]
  /\ \A m \in Nodes \ {n, s} : \A d \in Sides :
       u.kids[d][m] = IF t.kids[d][m] = n THEN s ELSE t.kids[d][m]
  /\ \A m \in Nodes :
       u.parent[m] = IF m = n THEN s ELSE IF m = s THEN t.parent[n]
                     ELSE IF m = i THEN n ELSE t.parent[m]
  /\ u.color[n] = "red" /\ u.color[s] = "black"
  /\ \A m \in Nodes \ {n, s} : u.color[m] = t.color[m]

\* This keeps all well, where the other child of n may have a red parent.
LEMMA RedChildUp ==
  ASSUME NEW t, NEW S, NEW below, NEW black, NEW x, NEW c, NEW short,
         Missing(t, S, below, black, x, c, short), NEW side \in Sides,
         NEW n \in S, NEW s, s = t.kids[Other(side)][n], s # Nil, NEW i, i = t.kids[side][s],
         t.color[n] = "black", t.color[s] = "red",
         x \notin {n, s, i}, c \notin {n, s}, c # Nil => c # i, short \notin {n, s},
         \A m \in S : t.parent[m] = n => \/ m = s \/ t.color[m] = "black"
                                         \/ m \in Excuse(x, c, short),
         NEW u, u = Rotate(Paint(Paint(t, n, "red"), s, "black"), side, n)
  PROVE  /\ \E below2, black2 : Missing(u, S, below2, black2, x, c, short)
         /\ Lifted(t, u, side, n, s, i)
<1>1. /\ Shaped(t, S, below) /\ Ordered(t, S, below, x) /\ Even(t, black, x, c, short)
      /\ Reds(t, S, Excuse(x, c, short)) /\ t \in Trees /\ S \subseteq Nodes
      /\ x \in S /\ short \in S /\ x \in below[short] /\ c \in Pointers /\ OneChild(t, x, c)
      /\ x \in Nodes /\ short \in Nodes /\ (short # x => t.color[short] = "black")
  BY MissingParts
<1>2. /\ n \in Nodes /\ s \in Nodes /\ s \in S /\ i \in S \cup {Nil} /\ i \in Pointers
      /\ Other(side) \in Sides /\ n # s /\ n # i /\ s # i /\ t.parent[s] = n
      /\ (i # Nil => t.parent[i] = s) /\ n # Nil
  BY <1>1, TurnNodes, NodesAreNumbers
<1>3. PICK w, v : w = Paint(t, n, "red") /\ v = Paint(w, s, "black")
  OBVIOUS
<1>4. /\ Painted(t, w, n, "red") /\ Painted(w, v, s, "black")
      /\ Shaped(v, S, below) /\ Ordered(v, S, below, x) /\ v \in Trees
      /\ v.kids = t.kids /\ v.parent = t.parent /\ v.root = t.root
      /\ v.color[n] = "red" /\ v.color[s] = "black"
      /\ \A m \in Nodes \ {n, s} : v.color[m] = t.color[m]
  <2>1. PaintedBoth(t, S, below, x, Paint(t, n, "red"), Paint(Paint(t, n, "red"), s, "black"),
                    n, "red", s, "black")
    BY <1>1, <1>2, PaintedTwice, TwoColors
  <2>2. PaintedBoth(t, S, below, x, w, v, n, "red", s, "black")
    BY <1>3, <2>1
  <2> QED
    BY <2>2 DEF PaintedBoth
<1>5. u = Rotate(v, side, n)
  BY <1>3
<1>6. Turned(v, u, side, n, s, i)
  <2>1. s = v.kids[Other(side)][n] /\ i = v.kids[side][s]
    BY <1>4
  <2> QED
    BY <1>4, <1>5, <2>1, RotateTurns
<1>7. PICK after : after = BelowTurned(v, below, side, n, s, i)
  OBVIOUS
<1>8. Shaped(u, S, after) /\ Ordered(u, S, after, x) /\ TurnedBelow(below, after, n, s, i,
         v.kids[side][n], v.kids[Other(side)][s])
  <2>1. s = v.kids[Other(side)][n] /\ i = v.kids[side][s]
    BY <1>4
  <2>2. Shaped(u, S, after)
    BY <1>4, <1>6, <1>7, <2>1, TurnedShaped
  <2>3. x \in Pointers /\ x # n /\ x # s
    BY <1>1, NodesAreNumbers
  <2>4. Ordered(u, S, after, x)
    BY <1>4, <1>6, <1>7, <2>1, <2>3, TurnedOrdered, ZenonT(30)
  <2>5. TurnedBelow(below, after, n, s, i, v.kids[side][n], v.kids[Other(side)][s])
    BY <1>4, <1>7, <2>1, BelowTurnedIs
  <2> QED
    BY <2>2, <2>4, <2>5, SMTT(30)
<1>9. Even(u, BlackTurned(black, n, s), x, c, short)
  BY <1>1, <1>4, <1>6, SwapTurnEven, Zenon
<1>10. Lifted(t, u, side, n, s, i)
  <2>1. v.kids = t.kids /\ v.parent = t.parent /\ u.color = v.color
    BY <1>4, <1>6, Zenon DEF Turned
  <2>2. /\ u.color[n] = "red" /\ u.color[s] = "black"
        /\ \A m \in Nodes \ {n, s} : u.color[m] = t.color[m]
    BY <1>4, <2>1
  <2>3. /\ u.kids[side][s] = n /\ u.kids[Other(side)][s] = t.kids[Other(side)][s]
        /\ u.kids[Other(side)][n] = i /\ u.kids[side][n] = t.kids[side][n]
    BY <1>6, <2>1, Zenon DEF Turned
  <2>4. \A m \in Nodes \ {n, s} : \A d \in Sides :
          u.kids[d][m] = IF t.kids[d][m] = n THEN s ELSE t.kids[d][m]
    <3> TAKE m \in Nodes \ {n, s}
    <3> TAKE d \in Sides
    <3>1. u.kids[d][m] = IF v.kids[d][m] = n THEN s ELSE v.kids[d][m]
      BY <1>6, Zenon DEF Turned
    <3>2. PICK k : k = v.kids[d][m]
      OBVIOUS
    <3>3. k = t.kids[d][m]
      BY <2>1, <3>2, Zenon
    <3> QED
      BY <3>1, <3>2, <3>3
  <2>5. \A m \in Nodes :
          u.parent[m] = IF m = n THEN s ELSE IF m = s THEN t.parent[n]
                        ELSE IF m = i THEN n ELSE t.parent[m]
    BY <1>6, <2>1, Zenon DEF Turned
  <2> QED
    BY <2>2, <2>3, <2>4, <2>5, Zenon DEF Lifted
<1>11. ASSUME NEW m \in S \ Excuse(x, c, short), u.color[m] = "red"
       PROVE  Color(u, u.parent[m]) = "black"
  <2>1. m \in Nodes /\ m # s
    BY <1>1, <1>10, <1>11, TwoColors, Zenon DEF Lifted
  <2>2. CASE m = n
    BY <1>2, <1>10, <2>2, NodesAreNumbers, Zenon DEF Lifted, Color
  <2>3. CASE m # n
    <3>1. t.color[m] = "red"
      BY <1>10, <1>11, <2>1, <2>3, Zenon DEF Lifted
    <3>2. Color(t, t.parent[m]) = "black"
      BY <1>1, <1>11, <3>1 DEF Reds
    <3>3. PICK q \in Pointers : q = t.parent[m]
      BY <1>1, <2>1 DEF Trees
    <3>4. q # n
      BY <1>11, <2>1, <3>1, <3>3, TwoColors
    <3>5. q # s
      BY <1>2, <3>2, <3>3, TwoColors, NodesAreNumbers DEF Color
    <3>6. m # i
      BY <1>2, <2>1, <3>3, <3>5, NodesAreNumbers
    <3>7. u.parent[m] = q
      BY <1>10, <2>1, <2>3, <3>3, <3>6, Zenon DEF Lifted
    <3>8. q \in Nodes => u.color[q] = t.color[q]
      BY <1>10, <3>4, <3>5, Zenon DEF Lifted
    <3> QED
      BY <3>2, <3>3, <3>7, <3>8, NodesAreNumbers DEF Color
  <2> QED
    BY <2>2, <2>3
<1>12. Healthy(u, S, after, BlackTurned(black, n, s), x, c, short, Excuse(x, c, short))
  BY <1>8, <1>9, <1>11, Zenon DEF Healthy, Reds
<1>13. x \in after[short]
  BY <1>1, <1>8, NodesAreNumbers, Zenon DEF TurnedBelow
<1>14. OneChild(u, x, c)
  <2>1. ASSUME NEW f \in Sides
        PROVE  u.kids[f][x] = t.kids[f][x]
    <3>1. t.kids[f][x] # n
      <4>1. PICK e \in Sides : t.kids[e][x] = c /\ t.kids[Other(e)][x] = Nil
        BY <1>1 DEF OneChild
      <4>2. t.kids[f][x] = c \/ t.kids[f][x] = Nil
        BY <4>1, TwoSides
      <4> QED
        BY <1>2, <4>2
    <3> QED
      BY <1>1, <1>10, <3>1, Zenon DEF Lifted
  <2>2. u.color[x] = t.color[x] /\ (c # Nil => u.color[c] = t.color[c])
    BY <1>1, <1>10, NodesAreNumbers, Zenon DEF Lifted
  <2>3. Color(u, c) = Color(t, c)
    BY <2>2 DEF Color
  <2> QED
    BY <1>1, <2>1, <2>2, <2>3, KeepsChild
<1>15. short # x => u.color[short] = "black"
  BY <1>1, <1>10, Zenon DEF Lifted
<1>16. Missing(u, S, after, BlackTurned(black, n, s), x, c, short)
  BY <1>1, <1>12, <1>13, <1>14, <1>15 DEF Missing
<1> QED
  BY <1>10, <1>16

\* A red sibling is made the grandparent: then there is a black sibling.
LEMMA SimplifyKeeps ==
  ASSUME NEW t, NEW S, NEW below, NEW black, NEW x, NEW c, NEW n,
         Missing(t, S, below, black, x, c, n), t.parent[n] # Nil
  PROVE  /\ \E below2, black2 : Missing(Simplified(t, n), S, below2, black2, x, c, n)
         /\ Simplified(t, n).parent[n] # Nil
         /\ Color(Simplified(t, n), Sibling(Simplified(t, n), n)) = "black"
<1>1. PICK p, d, s, u : /\ p = t.parent[n] /\ d = SideOf(t, n) /\ s = Sibling(t, n)
                        /\ u = Simplified(t, n)
  OBVIOUS
<1>2. PICK i, o, y : i = t.kids[d][s] /\ o = t.kids[Other(d)][s] /\ y = t.kids[Other(d)][p]
  OBVIOUS
<1>3. /\ d \in Sides /\ p \in S /\ p \in Nodes /\ n \in Nodes /\ n # Nil /\ p # Nil
      /\ s # Nil /\ Kin(t, d, p, n, s, i, o)
      /\ x \in Nodes /\ x # Nil /\ x \notin {p, s, i, o}
      /\ c \in Pointers /\ c \notin {p, s} /\ (c # Nil => c \notin {i, o})
  BY <1>1, <1>2, MissingIs
<1>4. /\ Shaped(t, S, below) /\ Reds(t, S, Excuse(x, c, n)) /\ t \in Trees /\ n \in S
      /\ (n # x => t.color[n] = "black") /\ S \subseteq Nodes
  BY MissingParts
<1>5. /\ s \in Nodes /\ s \in S /\ t.parent[s] = p /\ p # s /\ i \in Pointers
      /\ n \notin {p, s} /\ n # i
      /\ (i # Nil => i \in Nodes /\ i \in S /\ t.parent[i] = s)
  BY <1>3, <1>4, KinNodes
<1>6. CASE Color(t, s) = "black"
  <2>1. u = t
    BY <1>1, <1>6, TwoColors DEF Simplified
  <2> QED
    BY <1>1, <1>6, <2>1
<1>7. CASE Color(t, s) # "black"
  <2>1. t.color[s] = "red" /\ Color(t, s) = "red"
    BY <1>4, <1>5, <1>7, ColorIs
  <2>2. u = Rotate(Paint(Paint(t, p, "red"), s, "black"), d, p)
    BY <1>1, <2>1 DEF Simplified
  <2>3. s = t.kids[Other(d)][p] /\ i = t.kids[d][s] /\ n = t.kids[d][p]
    BY <1>3 DEF Kin
  <2>4. s \notin Excuse(x, c, n)
    BY <1>3, <1>5 DEF Excuse
  <2>5. t.color[p] = "black"
    <3>1. Color(t, t.parent[s]) = "black"
      BY <1>4, <1>5, <2>1, <2>4 DEF Reds
    <3> QED
      BY <1>3, <1>5, <3>1 DEF Color
  <2>6. \A m \in S : t.parent[m] = p => \/ m = s \/ t.color[m] = "black"
                                        \/ m \in Excuse(x, c, n)
    <3> TAKE m \in S
    <3>1. SUFFICES ASSUME t.parent[m] = p, m # s
                   PROVE  t.color[m] = "black" \/ m \in Excuse(x, c, n)
      OBVIOUS
    <3>2. m \in Nodes
      BY <1>4
    <3>3. m = n
      BY <1>3, <1>4, <2>3, <3>1, <3>2, OnlyKids, SMTT(30)
    <3> QED
      BY <1>4, <3>3 DEF Excuse
  <2>7. /\ \E below2, black2 : Missing(u, S, below2, black2, x, c, n)
        /\ Lifted(t, u, d, p, s, i)
    BY <1>3, <1>5, <2>1, <2>2, <2>3, <2>5, <2>6, RedChildUp
  <2>8. u.parent[n] = p /\ u.kids[d][p] = n /\ u.kids[Other(d)][p] = i
    BY <1>1, <1>3, <1>5, <2>3, <2>7, Zenon DEF Lifted
  <2>9. PICK below2, black2 : Missing(u, S, below2, black2, x, c, n)
    BY <2>7
  <2>10. Sibling(u, n) = i /\ i # Nil
    <3>1. Shaped(u, S, below2)
      BY <2>9, MissingParts
    <3>2. Sibling(u, u.kids[d][p]) = u.kids[Other(d)][p]
      BY <1>3, <2>8, <3>1, SideIs
    <3>3. Sibling(u, n) = i
      BY <2>8, <3>2
    <3>4. Sibling(u, n) # Nil
      BY <1>3, <2>8, <2>9, MissingIs
    <3> QED
      BY <3>3, <3>4
  <2>11. u.color[i] = "black"
    <3>1. i \notin Excuse(x, c, n) /\ i \in S /\ i \in Nodes /\ t.parent[i] = s
      BY <1>3, <1>5, <2>10 DEF Excuse
    <3>2. t.color[i] # "red"
      BY <1>4, <1>7, <3>1 DEF Reds
    <3>3. t.color[i] = "black"
      BY <1>4, <3>1, <3>2, ColorIs
    <3>4. i \notin {p, s}
      BY <1>3, <1>4, <2>10, KinNodes
    <3> QED
      BY <2>7, <3>1, <3>3, <3>4 DEF Lifted
  <2> QED
    BY <1>1, <1>3, <2>7, <2>8, <2>10, <2>11 DEF Color
<1> QED
  BY <1>6, <1>7

\* A red child of the sibling is moved to the far side.
LEMMA FarRedKeeps ==
  ASSUME NEW t, NEW S, NEW below, NEW black, NEW x, NEW c, NEW n,
         Missing(t, S, below, black, x, c, n), t.parent[n] # Nil,
         Color(t, Sibling(t, n)) = "black", ~BlackFamily(t, n)
  PROVE  LET u == FarRed(t, n)
         IN  /\ \E below2, black2 : Missing(u, S, below2, black2, x, c, n)
             /\ u.parent[n] # Nil
             /\ Color(u, Sibling(u, n)) = "black"
             /\ Color(u, u.kids[Other(SideOf(u, n))][Sibling(u, n)]) = "red"
<1>1. PICK p, d, s, u : /\ p = t.parent[n] /\ d = SideOf(t, n) /\ s = Sibling(t, n)
                        /\ u = FarRed(t, n)
  OBVIOUS
<1>2. PICK i, o : i = t.kids[d][s] /\ o = t.kids[Other(d)][s]
  OBVIOUS
<1>3. /\ d \in Sides /\ p \in S /\ p \in Nodes /\ n \in Nodes /\ n # Nil /\ p # Nil
      /\ s # Nil /\ Kin(t, d, p, n, s, i, o)
      /\ x \in Nodes /\ x # Nil /\ x \notin {p, s, i, o}
      /\ c \in Pointers /\ c \notin {p, s} /\ (c # Nil => c \notin {i, o})
      /\ \A m \in below[s] : m # x /\ m # c
  BY <1>1, <1>2, MissingIs
<1>4. /\ Shaped(t, S, below) /\ Reds(t, S, Excuse(x, c, n)) /\ t \in Trees /\ n \in S
      /\ S \subseteq Nodes
  BY MissingParts
<1>5. /\ s \in Nodes /\ s \in S /\ t.parent[s] = p /\ p # s /\ i \in Pointers /\ o \in Pointers
      /\ n \notin {p, s} /\ n # i /\ i \notin {p, s}
      /\ (i # Nil => i \in Nodes /\ i \in S /\ t.parent[i] = s)
  BY <1>3, <1>4, KinNodes
<1>6. PICK e \in Sides : e = Other(d) /\ Other(e) = d /\ e # d /\ \A f \in Sides : f = d \/ f = e
  BY <1>3, TwoSides
<1>7. Color(t, i) = "red" \/ Color(t, o) = "red"
  <2>1. \E f \in Sides : Color(t, t.kids[f][s]) # "black"
    BY <1>1 DEF BlackFamily
  <2>2. Color(t, i) # "black" \/ Color(t, o) # "black"
    BY <1>2, <1>6, <2>1
  <2> QED
    BY <1>4, <1>5, <2>2, ColorIs, NodesAreNumbers
<1>8. CASE Color(t, o) = "red"
  <2>1. u = t
    BY <1>1, <1>2, <1>8, TwoColors DEF FarRed
  <2> QED
    BY <1>1, <1>2, <1>3, <1>8, <2>1
<1>9. CASE Color(t, o) # "red"
  <2>1. Color(t, i) = "red" /\ Color(t, o) = "black"
    BY <1>4, <1>5, <1>7, <1>9, ColorIs, NodesAreNumbers
  <2>2. t.color[s] = "black" /\ t.color[i] = "red" /\ i # Nil
    BY <1>1, <1>3, <2>1, TwoColors DEF Color
  <2>3. u = Rotate(Paint(Paint(t, s, "red"), i, "black"), e, s)
    BY <1>1, <1>2, <1>6, <2>1 DEF FarRed
  <2>4. PICK j : j = t.kids[e][i]
    OBVIOUS
  <2>5. i = t.kids[Other(e)][s] /\ o = t.kids[e][s]
    BY <1>2, <1>6
  <2>6. /\ j # Nil => j # x /\ j # c
        /\ i \in below[s]
    <3>1. i \in Nodes /\ i \in below[s] /\ below[i] \subseteq below[s]
      BY <1>2, <1>3, <1>4, <1>5, <2>2, KidBelow
    <3>2. j # Nil => j \in below[i]
      BY <1>4, <1>6, <2>4, <3>1, KidBelow
    <3> QED
      BY <1>3, <3>1, <3>2
  <2>7. \A m \in S : t.parent[m] = s => \/ m = i \/ t.color[m] = "black"
                                        \/ m \in Excuse(x, c, n)
    <3> TAKE m \in S
    <3>1. SUFFICES ASSUME t.parent[m] = s, m # i
                   PROVE  t.color[m] = "black" \/ m \in Excuse(x, c, n)
      OBVIOUS
    <3>2. m \in Nodes /\ m # Nil
      BY <1>4, NodesAreNumbers
    <3>3. m = o
      BY <1>4, <1>5, <1>6, <2>5, <3>1, <3>2, OnlyKids
    <3> QED
      BY <2>1, <3>2, <3>3 DEF Color
  <2>8. x \notin {s, i, j} /\ c \notin {s, i} /\ (c # Nil => c # j) /\ n \notin {s, i}
    <3>1. x # j /\ (c # Nil => c # j)
      BY <1>3, <2>6
    <3> QED
      BY <1>3, <1>5, <2>2, <3>1
  <2>9. /\ \E below2, black2 : Missing(u, S, below2, black2, x, c, n)
        /\ Lifted(t, u, e, s, i, j)
    BY <1>5, <1>6, <2>2, <2>3, <2>4, <2>5, <2>7, <2>8, RedChildUp
  <2>10. PICK below2, black2 : Missing(u, S, below2, black2, x, c, n)
    BY <2>9
  <2>11. /\ u.parent[n] = p /\ u.kids[d][p] = n /\ u.kids[e][p] = i /\ u.kids[e][i] = s
         /\ u.color[i] = "black" /\ u.color[s] = "red"
    <3>1. t.kids[d][p] = n /\ t.kids[e][p] = s
      BY <1>3, <1>6 DEF Kin
    <3>2. n # j
      <4>1. t.kids[d][p] # Nil
        BY <1>3, <3>1
      <4>2. j # Nil => t.parent[j] = i
        BY <1>4, <1>5, <1>6, <2>2, <2>4, KidBelow
      <4> QED
        BY <1>1, <1>3, <1>5, <4>2
    <3> QED
      BY <1>1, <1>3, <1>5, <1>6, <2>9, <3>1, <3>2 DEF Lifted
  <2>12. SideOf(u, n) = d /\ Sibling(u, n) = i
    <3>1. Shaped(u, S, below2)
      BY <2>10, MissingParts
    <3>2. /\ SideOf(u, u.kids[d][p]) = d
          /\ Sibling(u, u.kids[d][p]) = u.kids[Other(d)][p]
      BY <1>3, <2>11, <3>1, SideIs
    <3> QED
      BY <1>6, <2>11, <3>2
  <2> QED
    BY <1>1, <1>3, <1>6, <2>2, <2>9, <2>11, <2>12 DEF Color
<1> QED
  BY <1>8, <1>9

\* One black is taken out of the sibling's side: n has it back, if the parent p had
\* none to give, or else it is missing below p.
Lightened(black, p, s, n) ==
  [m \in Pointers |-> IF m = p THEN black[n] + 1 ELSE IF m = s THEN black[s] - 1 ELSE black[m]]

\* The paths stay even.
LEMMA TakeBlackEven ==
  ASSUME NEW t, NEW S, NEW below, Shaped(t, S, below), NEW d \in Sides,
         NEW p \in S, NEW n, NEW s, NEW i, NEW o, Kin(t, d, p, n, s, i, o), n # Nil, s # Nil,
         t.color[s] = "black", NEW u, u.kids = t.kids, u.color[s] = "red", u.color[p] = "black",
         \A m \in Nodes \ {p, s} : u.color[m] = t.color[m],
         NEW black, NEW gone, NEW c \in Pointers, gone \notin {p, s}, c \notin {p, s},
         Even(t, black, gone, c, n), t.color[p] \in Colors,
         NEW short, short = IF t.color[p] = "black" THEN p ELSE Nil
  PROVE  Even(u, Lightened(black, p, s, n), gone, c, short)
<1>1. PICK e \in Sides : e = Other(d) /\ \A f \in Sides : f = d \/ f = e
  BY TwoSides
<1>2. /\ p \in Nodes /\ s \in Nodes /\ n \in Nodes /\ p # s /\ n \notin {p, s}
      /\ i \in Pointers /\ i \notin {p, s} /\ (i # Nil => t.parent[i] = s) /\ n # i
      /\ \A m \in Nodes, f \in Sides :
           t.kids[f][m] # Nil => /\ t.kids[f][m] = s => m = p /\ f = e
                                 /\ t.kids[f][m] = n => m = p /\ f = d
  BY <1>1, KinNodes
<1>3. t.kids[d][p] = n /\ t.kids[e][p] = s /\ t.kids[d][s] = i
  BY <1>1 DEF Kin
<1>4. /\ black \in [Pointers -> Nat \ {0}] /\ black[Nil] = 1
      /\ \A m \in Nodes \ {gone}, f \in Sides :
           black[m] = Height(black, t.kids[f][m], n) + Weight(t, m)
      /\ gone \in Nodes => black[gone] = black[c]
  BY DEF Even
<1>5. /\ Weight(t, s) = 1 /\ Weight(u, s) = 0 /\ Weight(u, p) = 1
      /\ Weight(t, p) = IF t.color[p] = "black" THEN 1 ELSE 0
      /\ \A m \in Nodes \ {p, s} : Weight(u, m) = Weight(t, m)
  BY TwoColors DEF Weight
<1>6. PICK after : after = Lightened(black, p, s, n)
  OBVIOUS
<1>7. /\ black[n] \in Nat \ {0} /\ black[p] \in Nat \ {0} /\ black[s] \in Nat \ {0}
      /\ black[i] \in Nat \ {0}
      /\ black[s] = black[i] + 1
      /\ black[p] = black[n] + 1 + Weight(t, p) /\ black[p] = black[s] + Weight(t, p)
  <2>1. /\ black[n] \in Nat \ {0} /\ black[p] \in Nat \ {0} /\ black[s] \in Nat \ {0}
        /\ black[i] \in Nat \ {0}
    BY <1>2, <1>4, NodesAreNumbers
  <2>2. /\ Height(black, n, n) = black[n] + 1 /\ Height(black, s, n) = black[s]
        /\ Height(black, i, n) = black[i]
    BY <1>2 DEF Height
  <2>3. p \in Nodes \ {gone} /\ s \in Nodes \ {gone}
    BY <1>2
  <2>4. black[p] = Height(black, n, n) + Weight(t, p)
    BY <1>3, <1>4, <2>3
  <2>5. black[p] = Height(black, s, n) + Weight(t, p)
    BY <1>1, <1>3, <1>4, <2>3
  <2>6. black[s] = Height(black, i, n) + Weight(t, s)
    BY <1>3, <1>4, <2>3
  <2> QED
    BY <1>5, <2>1, <2>2, <2>4, <2>5, <2>6
<1>8. /\ after \in [Pointers -> Nat \ {0}] /\ after[Nil] = 1
      /\ after[p] = black[n] + 1 /\ after[s] = black[s] - 1
      /\ \A m \in Pointers \ {p, s} : after[m] = black[m]
  <2>1. black[n] + 1 \in Nat \ {0} /\ black[s] - 1 \in Nat \ {0}
    BY <1>7
  <2>2. p \in Pointers /\ s \in Pointers /\ Nil \notin {p, s} /\ Nil \in Pointers
    BY <1>2, NodesAreNumbers
  <2> HIDE <1>7
  <2> QED
    BY <1>2, <1>4, <1>6, <2>1, <2>2 DEF Lightened
<1>9. Height(after, p, short) = black[p]
  <2>1. p # Nil /\ Weight(t, p) \in {0, 1}
    BY <1>2, NodesAreNumbers, WeightIs
  <2>2. CASE t.color[p] = "black"
    <3>1. Height(after, p, short) = black[n] + 1 + 1
      BY <1>8, <2>1, <2>2 DEF Height
    <3>2. Weight(t, p) = 1
      BY <1>5, <2>2
    <3> QED
      BY <1>7, <3>1, <3>2
  <2>3. CASE t.color[p] # "black"
    <3>1. Height(after, p, short) = black[n] + 1
      BY <1>8, <2>1, <2>3 DEF Height
    <3>2. Weight(t, p) = 0
      BY <1>5, <2>3
    <3> QED
      BY <1>7, <3>1, <3>2
  <2> QED
    BY <2>2, <2>3
<1>10. ASSUME NEW m \in Nodes \ {gone}, NEW f \in Sides
       PROVE  after[m] = Height(after, u.kids[f][m], short) + Weight(u, m)
  <2>1. PICK k : k = t.kids[f][m]
    OBVIOUS
  <2>2. k \in Pointers /\ (k # Nil => t.parent[k] = m) /\ u.kids[f][m] = k
    <3>1. k \in Pointers
      BY <2>1, BelowNode
    <3>2. k # Nil => t.parent[k] = m
      BY <2>1, KidBelow
    <3> QED
      BY <2>1, <3>1, <3>2
  <2>3. black[m] = Height(black, k, n) + Weight(t, m)
    BY <1>4, <1>10, <2>1
  <2>4. CASE m = p
    <3>1. k = n \/ k = s
      BY <1>1, <1>3, <2>1, <2>4
    <3>2. k # short
      BY <1>2, <3>1, NodesAreNumbers
    <3>3. Height(after, k, short) = after[k]
      BY <3>2 DEF Height
    <3>4. after[n] = black[n]
      BY <1>2, <1>8, NodesAreNumbers
    <3>5. black[s] - 1 = black[n]
      BY <1>7, WeightIs
    <3>6. after[k] = black[n]
      BY <1>8, <3>1, <3>4, <3>5
    <3> QED
      BY <1>5, <1>7, <1>8, <2>2, <2>4, <3>3, <3>6
  <2>5. CASE m = s
    <3>1. k \in Pointers \ {p, s} /\ k # n
      <4>1. k # Nil => t.parent[k] = s
        BY <2>2, <2>5
      <4>2. k # Nil => k # s /\ k # p
        <5>1. p \notin below[s]
          BY KinNodes
        <5>2. k # Nil => k # s /\ k \in below[s]
          BY <1>2, <2>1, <2>5, KidBelow
        <5> QED
          BY <5>1, <5>2
      <4>3. k # n
        BY <1>2, <2>1, <2>5, NodesAreNumbers
      <4> QED
        BY <1>2, <2>2, <4>2, <4>3, NodesAreNumbers
    <3>2. Height(after, k, short) = black[k] /\ Height(black, k, n) = black[k]
      <4>1. after[k] = black[k] /\ (k # Nil => k # short)
        BY <1>8, <3>1
      <4> QED
        BY <3>1, <4>1 DEF Height
    <3>3. black[k] \in Nat
      BY <1>4, <3>1
    <3>4. black[s] = black[k] + 1
      BY <1>5, <2>3, <2>5, <3>2
    <3>5. after[s] = black[k] + 0
      BY <1>7, <1>8, <3>3, <3>4
    <3> QED
      BY <1>5, <2>2, <2>5, <3>2, <3>5
  <2>6. CASE m \notin {p, s}
    <3>1. k # s /\ k # n
      BY <1>2, <2>1, <2>6, NodesAreNumbers
    <3>2. Height(after, k, short) = Height(black, k, n)
      <4>1. CASE k = p
        BY <1>2, <1>9, <3>1, <4>1 DEF Height
      <4>2. CASE k # p
        <5>1. after[k] = black[k] /\ (k # Nil => k # short)
          BY <1>8, <2>2, <3>1, <4>2
        <5> QED
          BY <3>1, <5>1 DEF Height
      <4> QED
        BY <4>1, <4>2
    <3>3. after[m] = black[m] /\ Weight(u, m) = Weight(t, m)
      BY <1>5, <1>8, <2>6, NodesAreNumbers
    <3> QED
      BY <2>2, <2>3, <3>2, <3>3
  <2> QED
    BY <2>4, <2>5, <2>6
<1>11. gone \in Nodes => after[gone] = after[c]
  BY <1>4, <1>8, NodesAreNumbers
<1>12. Even(u, after, gone, c, short)
  BY <1>8, <1>10, <1>11 DEF Even
<1> QED
  BY <1>6, <1>12

\* The sibling comes into the place of the parent, with a red far child made black.
LEMMA RotatedDownKeeps ==
  ASSUME NEW t, NEW S, NEW below, NEW black, NEW x, NEW c, NEW n,
         Missing(t, S, below, black, x, c, n), t.parent[n] # Nil,
         Color(t, Sibling(t, n)) = "black",
         Color(t, t.kids[Other(SideOf(t, n))][Sibling(t, n)]) = "red"
  PROVE  /\ \E below2, black2 : Healthy(RotatedDown(t, n), S, below2, black2, x, c, Nil, {c})
         /\ OneChild(RotatedDown(t, n), x, c)
<1>1. PICK p, d, s, u : /\ p = t.parent[n] /\ d = SideOf(t, n) /\ s = Sibling(t, n)
                        /\ u = RotatedDown(t, n)
  OBVIOUS
<1>2. PICK i, o, y : i = t.kids[d][s] /\ o = t.kids[Other(d)][s] /\ y = t.color[p]
  OBVIOUS
<1>3. /\ d \in Sides /\ p \in S /\ p \in Nodes /\ n \in Nodes /\ n # Nil /\ p # Nil
      /\ s # Nil /\ Kin(t, d, p, n, s, i, o)
      /\ x \in Nodes /\ x # Nil /\ x \notin {p, s, i, o}
      /\ c \in Pointers /\ c \notin {p, s} /\ (c # Nil => c \notin {i, o})
  BY <1>1, <1>2, MissingIs
<1>4. /\ Shaped(t, S, below) /\ Ordered(t, S, below, x) /\ Even(t, black, x, c, n)
      /\ Reds(t, S, Excuse(x, c, n)) /\ t \in Trees /\ S \subseteq Nodes /\ OneChild(t, x, c)
  BY MissingParts
<1>5. /\ s \in Nodes /\ s \in S /\ t.parent[s] = p /\ p # s /\ i \in Pointers /\ o \in Pointers
      /\ n \notin {p, s} /\ i \notin {p, s} /\ o \notin {p, s} /\ n # i
      /\ (i # Nil => i \in Nodes /\ i \in S /\ t.parent[i] = s)
      /\ (o # Nil => o \in Nodes /\ o \in S /\ t.parent[o] = s /\ o # i)
  BY <1>3, <1>4, KinNodes
<1>6. PICK e \in Sides : e = Other(d) /\ \A f \in Sides : f = d \/ f = e
  BY <1>3, TwoSides
<1>7. /\ o # Nil /\ o \in Nodes /\ o \in S /\ t.color[o] = "red" /\ t.color[s] = "black"
      /\ c # o /\ y \in Colors
  <2>1. Color(t, o) = "red" /\ Color(t, s) = "black"
    BY <1>1, <1>2
  <2>2. o # Nil /\ t.color[o] = "red" /\ t.color[s] = "black"
    BY <1>3, <2>1, TwoColors DEF Color
  <2>3. y \in Colors
    BY <1>2, <1>3, <1>4 DEF Trees
  <2> QED
    BY <1>3, <1>5, <2>2, <2>3
<1>8. PICK w, v, z : /\ w = Paint(t, s, y) /\ v = Paint(w, p, "black")
                     /\ z = Paint(v, o, "black")
  OBVIOUS
<1>9. u = Rotate(z, d, p)
  <2>1. Color(t, p) = y
    BY <1>2, <1>3 DEF Color
  <2> QED
    BY <1>1, <1>2, <1>8, <2>1 DEF RotatedDown
<1>10. /\ Shaped(v, S, below) /\ Ordered(v, S, below, x) /\ v \in Trees
       /\ v.kids = t.kids /\ v.parent = t.parent
       /\ v.color[s] = y /\ v.color[p] = "black"
       /\ \A m \in Nodes \ {s, p} : v.color[m] = t.color[m]
  <2>1. PaintedBoth(t, S, below, x, Paint(t, s, y), Paint(Paint(t, s, y), p, "black"),
                    s, y, p, "black")
    BY <1>3, <1>4, <1>5, <1>7, PaintedTwice, TwoColors
  <2>2. PaintedBoth(t, S, below, x, w, v, s, y, p, "black")
    BY <1>8, <2>1
  <2> QED
    BY <2>2 DEF PaintedBoth
<1>11. /\ Shaped(z, S, below) /\ Ordered(z, S, below, x) /\ Painted(v, z, o, "black")
  <2>1. Painted(v, z, o, "black")
    BY <1>7, <1>8, <1>10, PaintIs, TwoColors
  <2>2. Shaped(z, S, below) /\ Ordered(z, S, below, x)
    BY <1>7, <1>8, <1>10, PaintKeepsShape, TwoColors
  <2> QED
    BY <2>1, <2>2
<1>12. /\ z.kids = t.kids /\ z.parent = t.parent
       /\ z.color[s] = y /\ z.color[p] = "black" /\ z.color[o] = "black"
       /\ \A m \in Nodes \ {s, p, o} : z.color[m] = t.color[m]
  BY <1>3, <1>5, <1>7, <1>10, <1>11 DEF Painted
<1>13. s = z.kids[Other(d)][p] /\ i = z.kids[d][s]
  BY <1>3, <1>12 DEF Kin
<1>14. Turned(z, u, d, p, s, i)
  BY <1>3, <1>9, <1>11, <1>13, RotateTurns
<1>15. \E after : Shaped(u, S, after) /\ Ordered(u, S, after, x)
  <2>1. Shaped(u, S, BelowTurned(z, below, d, p, s, i))
    BY <1>3, <1>11, <1>13, <1>14, TurnedShaped
  <2>2. x \in Pointers /\ x # p /\ x # s
    BY <1>3, NodesAreNumbers
  <2>3. Ordered(u, S, BelowTurned(z, below, d, p, s, i), x)
    BY <1>3, <1>11, <1>13, <1>14, <2>2, TurnedOrdered
  <2> QED
    BY <2>1, <2>3
<1>16. Even(u, FarTurned(black, p, s, o, n), x, c, Nil)
  <2>1. x \notin {p, s, o} /\ c \notin {p, s, o} /\ z.color[s] = t.color[p]
    BY <1>2, <1>3, <1>7, <1>12
  <2>2. \A m \in Nodes \ {p, s, o} : z.color[m] = t.color[m]
    BY <1>12
  <2> QED
    BY <1>3, <1>4, <1>7, <1>12, <1>14, <2>1, <2>2, FarTurnEven
<1>17. /\ u.color = z.color /\ u.parent[p] = s /\ u.parent[s] = t.parent[p]
       /\ \A m \in Nodes \ {p, s} : u.parent[m] = IF m = i THEN p ELSE t.parent[m]
  BY <1>3, <1>5, <1>12, <1>14 DEF Turned
<1>18. ASSUME NEW m \in S \ {c}, u.color[m] = "red"
       PROVE  Color(u, u.parent[m]) = "black"
  <2>1. m \in Nodes /\ m # p /\ m # o /\ z.color[m] = "red"
    BY <1>4, <1>12, <1>17, <1>18, TwoColors
  <2>2. \A q \in Pointers : q # s /\ Color(t, q) = "black" => Color(u, q) = "black"
    BY <1>12, <1>17, NodesAreNumbers DEF Color
  <2>3. CASE m = s
    <3>1. t.color[p] = "red"
      BY <1>2, <1>12, <2>1, <2>3
    <3>2. p \notin Excuse(x, c, n)
      BY <1>3, <1>5 DEF Excuse
    <3>3. Color(t, t.parent[p]) = "black"
      BY <1>3, <1>4, <3>1, <3>2 DEF Reds
    <3>4. t.parent[p] \in Pointers /\ t.parent[p] # s
      <4>1. t.parent[p] \in Pointers
        BY <1>3, <1>4 DEF Trees
      <4>2. s = t.kids[Other(d)][p] /\ i = t.kids[d][s]
        BY <1>3 DEF Kin
      <4>3. t.parent[p] # s
        BY <1>3, <1>4, <4>2, TurnNodes
      <4> QED
        BY <4>1, <4>3
    <3> QED
      BY <1>17, <2>2, <2>3, <3>3, <3>4
  <2>4. CASE m # s
    <3>1. t.color[m] = "red" /\ u.parent[m] = IF m = i THEN p ELSE t.parent[m]
      BY <1>12, <1>17, <2>1, <2>4
    <3>2. PICK q \in Pointers : q = t.parent[m]
      BY <1>4, <2>1 DEF Trees
    <3>3. CASE m = i \/ q = p
      <4>1. u.parent[m] = p
        BY <3>1, <3>2, <3>3
      <4> QED
        BY <1>3, <1>12, <1>17, <4>1 DEF Color
    <3>4. CASE m # i /\ q # p
      <4>1. m # n
        BY <1>1, <3>2, <3>4
      <4>2. m \notin Excuse(x, c, n)
        BY <1>18, <4>1 DEF Excuse
      <4>3. Color(t, q) = "black"
        BY <1>4, <3>1, <3>2, <4>2 DEF Reds
      <4>4. q # s
        <5>1. SUFFICES ASSUME q = s PROVE FALSE
          OBVIOUS
        <5>2. m = i \/ m = o
          <6>1. t.parent[m] = s
            BY <3>2, <5>1
          <6>2. m = t.kids[d][s] \/ m = t.kids[Other(d)][s]
            BY <1>3, <1>4, <1>5, <2>1, <6>1, OnlyKids
          <6> QED
            BY <1>2, <6>2
        <5> QED
          BY <2>1, <3>4, <5>2
      <4> QED
        BY <2>2, <3>1, <3>2, <3>4, <4>3, <4>4
    <3> QED
      BY <3>3, <3>4
  <2> QED
    BY <2>3, <2>4
<1>19. \E below2, black2 : Healthy(u, S, below2, black2, x, c, Nil, {c})
  BY <1>15, <1>16, <1>18 DEF Healthy, Reds
<1>20. OneChild(u, x, c)
  <2>1. ASSUME NEW f \in Sides
        PROVE  u.kids[f][x] = t.kids[f][x]
    <3>1. t.kids[f][x] # p
      <4>1. PICK g \in Sides : t.kids[g][x] = c /\ t.kids[Other(g)][x] = Nil
        BY <1>4 DEF OneChild
      <4>2. t.kids[f][x] = c \/ t.kids[f][x] = Nil
        BY <4>1, TwoSides
      <4> QED
        BY <1>3, <4>2
    <3>2. u.kids[f][x] = IF z.kids[f][x] = p THEN s ELSE z.kids[f][x]
      BY <1>3, <1>14 DEF Turned
    <3>3. PICK k : k = z.kids[f][x]
      OBVIOUS
    <3>4. k = t.kids[f][x]
      BY <1>12, <3>3, Zenon
    <3> QED
      BY <3>1, <3>2, <3>3, <3>4
  <2>2. u.color[x] = t.color[x] /\ (c # Nil => u.color[c] = t.color[c])
    BY <1>3, <1>7, <1>12, <1>17, NodesAreNumbers
  <2>3. Color(u, c) = Color(t, c)
    BY <2>2 DEF Color
  <2> QED
    BY <1>4, <2>1, <2>2, <2>3, KeepsChild
<1> QED
  BY <1>1, <1>19, <1>20

\* The climb has reached the root: nothing is missing any more.
LEMMA RootReached ==
  ASSUME NEW t, NEW S, NEW below, NEW black, NEW x, NEW c, NEW n,
         Missing(t, S, below, black, x, c, n), t.parent[n] = Nil
  PROVE  Healthy(t, S, below, black, x, c, Nil, {c})
<1>1. /\ Shaped(t, S, below) /\ Ordered(t, S, below, x) /\ Even(t, black, x, c, n)
      /\ Reds(t, S, Excuse(x, c, n)) /\ S \subseteq Nodes /\ n \in Nodes
  BY MissingParts
<1>2. ASSUME NEW m \in Nodes, NEW f \in Sides
      PROVE  Height(black, t.kids[f][m], n) = Height(black, t.kids[f][m], Nil)
  <2>1. t.kids[f][m] # Nil => t.parent[t.kids[f][m]] = m /\ m # Nil
    BY <1>1, KidBelow, NodesAreNumbers
  <2>2. t.kids[f][m] # Nil => t.kids[f][m] # n
    BY <2>1
  <2> QED
    BY <2>2 DEF Height
<1>3. Even(t, black, x, c, Nil)
  BY <1>1, <1>2 DEF Even
<1>4. Reds(t, S, {c})
  BY <1>1 DEF Reds, Excuse, Color
<1> QED
  BY <1>1, <1>3, <1>4 DEF Healthy

-----------------------------------------------------------------------------
(* Removal: the beginning.                                                 *)

\* Two nodes in each other's place.
Exchanged(m, a, b) == IF m = a THEN b ELSE IF m = b THEN a ELSE m

\* u is t with the two nodes exchanged.
Conjugated(t, u, a, b) ==
  /\ u \in Trees /\ u.root = Exchanged(t.root, a, b)
  /\ \A m \in Nodes :
       /\ \A d \in Sides : u.kids[d][m] = Exchanged(t.kids[d][Exchanged(m, a, b)], a, b)
       /\ u.parent[m] = Exchanged(t.parent[Exchanged(m, a, b)], a, b)
       /\ u.color[m] = t.color[Exchanged(m, a, b)]

\* Exchanging them twice changes nothing.
LEMMA ExchangedIs ==
  ASSUME NEW S, S \subseteq Nodes, NEW a \in S, NEW b \in S, NEW m
  PROVE  /\ Exchanged(Exchanged(m, a, b), a, b) = m
         /\ Exchanged(m, a, b) = Nil <=> m = Nil
         /\ Exchanged(m, a, b) \in S <=> m \in S
         /\ Exchanged(m, a, b) \in Nodes <=> m \in Nodes
         /\ Exchanged(m, a, b) \in Pointers <=> m \in Pointers
BY NodesAreNumbers DEF Exchanged

\* No node is its own child or its own parent.
LEMMA NotItself ==
  ASSUME NEW t, NEW S, NEW below, Shaped(t, S, below), NEW m \in Nodes
  PROVE  /\ t.parent[m] # m /\ t.parent[m] \in Pointers
         /\ \A d \in Sides : t.kids[d][m] # m /\ t.kids[d][m] \in Pointers
<1>1. \A d \in Sides : t.kids[d][m] # m /\ t.kids[d][m] \in Pointers
  <2> TAKE d \in Sides
  <2>1. t.kids[d][m] # Nil => t.kids[d][m] # m
    BY KidBelow
  <2>2. t.kids[d][m] \in Pointers /\ m # Nil
    BY BelowNode, NodesAreNumbers
  <2> QED
    BY <2>1, <2>2
<1>2. t.parent[m] \in Pointers
  BY DEF Shaped, Trees
<1>3. t.parent[m] # m
  <2>1. SUFFICES ASSUME t.parent[m] = m PROVE FALSE
    OBVIOUS
  <2>2. t.parent[m] # Nil
    BY <2>1, NodesAreNumbers
  <2>3. SideOf(t, m) \in Sides /\ t.kids[SideOf(t, m)][t.parent[m]] = m
    BY <2>2, OnASide
  <2> QED
    BY <1>1, <2>1, <2>3
<1> QED
  BY <1>1, <1>2, <1>3

\* tree_swap_nodes exchanges the two nodes, also where they are neighbours.
LEMMA SwapNodesIs ==
  ASSUME NEW t, NEW S, NEW below, Shaped(t, S, below), NEW a \in S, NEW b \in S, a # b
  PROVE  Conjugated(t, SwapNodes(t, a, b), a, b)
<1> DEFINE R(p) == CASE p = a -> b [] p = b -> a [] OTHER -> p
           W(f) == [n \in Nodes |-> CASE n = a -> Fixup(f[b], a, b)
                                      [] n = b -> Fixup(f[a], b, a)
                                      [] OTHER -> R(f[n])]
<1>1. t \in Trees /\ S \subseteq Nodes /\ a \in Nodes /\ b \in Nodes
  BY DEF Shaped
<1>2. \A p : R(p) = Exchanged(p, a, b)
  BY DEF Exchanged
<1>3. PICK u : u = SwapNodes(t, a, b)
  OBVIOUS
<1>4. u = [root |-> R(t.root),
           kids |-> [side \in Sides |-> W(t.kids[side])],
           parent |-> W(t.parent),
           color |-> [t.color EXCEPT ![a] = t.color[b], ![b] = t.color[a]]]
  BY <1>3 DEF SwapNodes
<1>5. ASSUME NEW f, \A n \in Nodes : f[n] # n /\ f[n] \in Pointers
      PROVE  /\ \A n \in Nodes : W(f)[n] = Exchanged(f[Exchanged(n, a, b)], a, b)
             /\ W(f) \in [Nodes -> Pointers]
  <2>1. ASSUME NEW n \in Nodes
        PROVE  W(f)[n] = Exchanged(f[Exchanged(n, a, b)], a, b)
    <3>1. CASE n = a
      <4>1. W(f)[n] = Fixup(f[b], a, b)
        BY <3>1
      <4>2. Exchanged(n, a, b) = b /\ f[b] # b
        BY <1>1, <1>5, <3>1 DEF Exchanged
      <4> QED
        BY <4>1, <4>2 DEF Fixup, Exchanged
    <3>2. CASE n = b
      <4>1. W(f)[n] = Fixup(f[a], b, a)
        BY <3>2
      <4>2. Exchanged(n, a, b) = a /\ f[a] # a
        BY <1>1, <1>5, <3>2 DEF Exchanged
      <4> QED
        BY <4>1, <4>2 DEF Fixup, Exchanged
    <3>3. CASE n \notin {a, b}
      <4>1. W(f)[n] = R(f[n])
        BY <3>3
      <4>2. Exchanged(n, a, b) = n
        BY <3>3 DEF Exchanged
      <4> QED
        BY <1>2, <4>1, <4>2
    <3> QED
      BY <3>1, <3>2, <3>3
  <2>2. \A n \in Nodes : Exchanged(f[Exchanged(n, a, b)], a, b) \in Pointers
    <3> TAKE n \in Nodes
    <3>1. Exchanged(n, a, b) \in Nodes
      BY <1>1, ExchangedIs
    <3>2. f[Exchanged(n, a, b)] \in Pointers
      BY <1>5, <3>1
    <3> QED
      BY <1>1, <3>2, ExchangedIs
  <2>3. W(f) = [n \in Nodes |-> W(f)[n]]
    OBVIOUS
  <2> HIDE DEF W
  <2>4. W(f) \in [Nodes -> Pointers]
    BY <2>1, <2>2, <2>3
  <2> QED
    BY <2>1, <2>4
<1> HIDE DEF R, W
<1>6. /\ u.root = R(t.root) /\ u.parent = W(t.parent)
      /\ u.kids = [side \in Sides |-> W(t.kids[side])]
      /\ u.color = [t.color EXCEPT ![a] = t.color[b], ![b] = t.color[a]]
  BY <1>4
<1>7. ASSUME NEW d \in Sides
      PROVE  /\ \A m \in Nodes : u.kids[d][m] = Exchanged(t.kids[d][Exchanged(m, a, b)], a, b)
             /\ u.kids[d] \in [Nodes -> Pointers]
  <2>1. u.kids[d] = W(t.kids[d])
    BY <1>6
  <2>2. \A m \in Nodes : t.kids[d][m] # m /\ t.kids[d][m] \in Pointers
    BY NotItself
  <2>3. /\ \A n \in Nodes : W(t.kids[d])[n] = Exchanged(t.kids[d][Exchanged(n, a, b)], a, b)
        /\ W(t.kids[d]) \in [Nodes -> Pointers]
    BY <1>5, <2>2
  <2> QED
    BY <2>1, <2>3
<1>8. /\ \A m \in Nodes : u.parent[m] = Exchanged(t.parent[Exchanged(m, a, b)], a, b)
      /\ u.parent \in [Nodes -> Pointers]
  <2>1. \A m \in Nodes : t.parent[m] # m /\ t.parent[m] \in Pointers
    BY NotItself
  <2>2. /\ \A n \in Nodes : W(t.parent)[n] = Exchanged(t.parent[Exchanged(n, a, b)], a, b)
        /\ W(t.parent) \in [Nodes -> Pointers]
    BY <1>5, <2>1
  <2> QED
    BY <1>6, <2>2
<1>9. /\ \A m \in Nodes : u.color[m] = t.color[Exchanged(m, a, b)]
      /\ u.color \in [Nodes -> Colors]
  <2>1. PICK f, g : f = t.color /\ g = u.color
    OBVIOUS
  <2>2. f \in [Nodes -> Colors] /\ g = [f EXCEPT ![a] = f[b], ![b] = f[a]]
    <3>1. t.color \in [Nodes -> Colors]
      BY <1>1 DEF Trees
    <3> QED
      BY <1>6, <2>1, <3>1
  <2> HIDE <1>6
  <2>3. /\ g \in [Nodes -> Colors]
        /\ \A m \in Nodes : g[m] = IF m = b THEN f[a] ELSE IF m = a THEN f[b] ELSE f[m]
    BY <1>1, <2>2
  <2>4. \A m \in Nodes : g[m] = f[Exchanged(m, a, b)]
    BY <1>1, <2>3 DEF Exchanged
  <2> QED
    BY <2>1, <2>3, <2>4
<1>10. u.root = Exchanged(t.root, a, b) /\ u.root \in Pointers
  <2>1. t.root \in Pointers
    BY <1>1 DEF Trees
  <2>2. Exchanged(t.root, a, b) \in Pointers
    <3>1. \A m : Exchanged(m, a, b) \in Pointers <=> m \in Pointers
      BY <1>1, ExchangedIs
    <3> QED
      BY <2>1, <3>1
  <2> QED
    BY <1>2, <1>6, <2>2
<1>11. u \in Trees
  <2>1. u.kids \in [Sides -> [Nodes -> Pointers]]
    BY <1>6, <1>7
  <2>2. u = [root |-> u.root, kids |-> u.kids, parent |-> u.parent, color |-> u.color]
    BY <1>4, <1>6
  <2> QED
    BY <1>8, <1>9, <1>10, <2>1, <2>2 DEF Trees
<1>12. Conjugated(t, u, a, b)
  BY <1>7, <1>8, <1>9, <1>10, <1>11 DEF Conjugated
<1> QED
  BY <1>3, <1>12

\* The subtrees after the exchange.
BelowExchanged(below, a, b) ==
  [m \in Pointers |-> {Exchanged(j, a, b) : j \in below[Exchanged(m, a, b)]}]

\* They are those of t, with the two nodes exchanged.
LEMMA BelowExchangedIs ==
  ASSUME NEW t, NEW S, NEW below, Shaped(t, S, below), NEW a \in S, NEW b \in S
  PROVE  /\ BelowExchanged(below, a, b) \in [Pointers -> SUBSET Nodes]
         /\ \A m \in Pointers : \A j : j \in BelowExchanged(below, a, b)[m]
                                       <=> Exchanged(j, a, b) \in below[Exchanged(m, a, b)]
<1>1. S \subseteq Nodes /\ below \in [Pointers -> SUBSET Nodes]
  BY DEF Shaped
<1>2. \A j : /\ Exchanged(Exchanged(j, a, b), a, b) = j
             /\ (Exchanged(j, a, b) \in Nodes <=> j \in Nodes)
             /\ (Exchanged(j, a, b) \in Pointers <=> j \in Pointers)
  BY <1>1, ExchangedIs
<1>3. ASSUME NEW m \in Pointers, NEW j
      PROVE  j \in BelowExchanged(below, a, b)[m]
               <=> Exchanged(j, a, b) \in below[Exchanged(m, a, b)]
  <2>1. PICK B : B = below[Exchanged(m, a, b)]
    OBVIOUS
  <2>2. BelowExchanged(below, a, b)[m] = {Exchanged(i, a, b) : i \in B}
    BY <2>1 DEF BelowExchanged
  <2>3. j \in {Exchanged(i, a, b) : i \in B} <=> Exchanged(j, a, b) \in B
    BY <1>2
  <2> QED
    BY <2>1, <2>2, <2>3
<1>4. ASSUME NEW m \in Pointers
      PROVE  BelowExchanged(below, a, b)[m] \subseteq Nodes
  <2>1. below[Exchanged(m, a, b)] \subseteq Nodes
    BY <1>1, <1>2
  <2> QED
    BY <1>2, <1>3, <2>1
<1>5. BelowExchanged(below, a, b) \in [Pointers -> SUBSET Nodes]
  BY <1>4 DEF BelowExchanged
<1> QED
  BY <1>3, <1>5

\* The shape is kept.
LEMMA ExchangedShaped ==
  ASSUME NEW t, NEW S, NEW below, Shaped(t, S, below), NEW a \in S, NEW b \in S,
         NEW u, Conjugated(t, u, a, b)
  PROVE  Shaped(u, S, BelowExchanged(below, a, b))
<1> DEFINE X(m) == Exchanged(m, a, b)
<1>1. PICK after : after = BelowExchanged(below, a, b)
  OBVIOUS
<1>2. /\ after \in [Pointers -> SUBSET Nodes]
      /\ \A m \in Pointers : \A j : j \in after[m] <=> X(j) \in below[X(m)]
  BY <1>1, BelowExchangedIs
<1>3. \A m : /\ X(X(m)) = m /\ (X(m) = Nil <=> m = Nil) /\ (X(m) \in S <=> m \in S)
             /\ (X(m) \in Nodes <=> m \in Nodes) /\ (X(m) \in Pointers <=> m \in Pointers)
  BY ExchangedIs DEF Shaped
<1>4. /\ u \in Trees /\ u.root = X(t.root)
      /\ \A m \in Nodes : /\ \A d \in Sides : u.kids[d][m] = X(t.kids[d][X(m)])
                          /\ u.parent[m] = X(t.parent[X(m)])
                          /\ u.color[m] = t.color[X(m)]
  BY DEF Conjugated
<1> HIDE DEF X
<1>5. S \in SUBSET Nodes /\ IsFiniteSet(S) /\ t.root \in Pointers /\ below[Nil] = {}
      /\ below[t.root] = S
  BY NodesAreNumbers DEF Shaped, Trees
<1>6. after[Nil] = {} /\ after[u.root] = S
  <2>1. Nil \in Pointers /\ X(Nil) = Nil /\ u.root \in Pointers /\ X(u.root) = t.root
    BY <1>3, <1>4, <1>5, NodesAreNumbers
  <2>2. \A j : j \notin after[Nil]
    BY <1>2, <1>5, <2>1
  <2>3. \A j : j \in after[u.root] <=> j \in S
    BY <1>2, <1>3, <1>5, <2>1
  <2> QED
    BY <2>2, <2>3
<1>7. ASSUME NEW n \in Nodes
      PROVE  \E d \in Sides : Joined(u, after, n, d)
  <2>1. PICK d, e : d \in Sides /\ e \in Sides /\ e = Other(d) /\ \A f \in Sides : f = d \/ f = e
    <3>1. "left" \in Sides
      BY DEF Sides
    <3> QED
      BY <3>1, TwoSides
  <2>2. PICK m \in Nodes : m = X(n) /\ X(m) = n
    BY <1>3
  <2>3. PICK l, r : l = t.kids[d][m] /\ r = t.kids[e][m]
    OBVIOUS
  <2>4. /\ l \in Pointers /\ r \in Pointers
        /\ below[m] = {m} \cup below[l] \cup below[r]
        /\ m \notin below[l] /\ m \notin below[r] /\ below[l] \cap below[r] = {}
        /\ (l # Nil => l \in Nodes /\ t.parent[l] = m)
        /\ (r # Nil => r \in Nodes /\ t.parent[r] = m)
    <3>1. ASSUME NEW f \in Sides
          PROVE  /\ t.kids[f][m] \in Pointers
                 /\ below[m] = {m} \cup below[t.kids[f][m]] \cup below[t.kids[Other(f)][m]]
                 /\ m \notin below[t.kids[f][m]]
                 /\ below[t.kids[f][m]] \cap below[t.kids[Other(f)][m]] = {}
                 /\ t.kids[f][m] # Nil => /\ t.kids[f][m] \in Nodes
                                          /\ t.parent[t.kids[f][m]] = m
      BY BelowNode
    <3> QED
      BY <2>1, <2>3, <3>1
  <2>5. u.kids[d][n] = X(l) /\ u.kids[e][n] = X(r)
    BY <1>4, <2>1, <2>2, <2>3
  <2>6. X(l) \in Pointers /\ X(r) \in Pointers /\ n \in Pointers
    BY <1>3, <2>4, NodesAreNumbers
  <2>7. /\ \A j : j \in after[n] <=> X(j) \in below[m]
        /\ \A j : j \in after[X(l)] <=> X(j) \in below[l]
        /\ \A j : j \in after[X(r)] <=> X(j) \in below[r]
    BY <1>2, <1>3, <2>2, <2>6
  <2>8. PICK B, C, D, E, F, G : /\ B = below[m] /\ C = below[l] /\ D = below[r]
                                /\ E = after[n] /\ F = after[X(l)] /\ G = after[X(r)]
    OBVIOUS
  <2>9. /\ \A j : j \in E <=> j = n \/ j \in F \/ j \in G
        /\ n \notin F /\ n \notin G
        /\ \A j : ~(j \in F /\ j \in G)
    <3>1. /\ \A j : j \in B <=> j = m \/ j \in C \/ j \in D
          /\ m \notin C /\ m \notin D /\ \A j : ~(j \in C /\ j \in D)
      BY <2>4, <2>8
    <3>2. /\ \A j : j \in E <=> X(j) \in B
          /\ \A j : j \in F <=> X(j) \in C
          /\ \A j : j \in G <=> X(j) \in D
      BY <2>7, <2>8
    <3>3. \A j : X(j) = m <=> j = n
      BY <1>3, <2>2
    <3> QED
      BY <3>1, <3>2, <3>3
  <2>10. E = {n} \cup F \cup G /\ n \notin F /\ n \notin G /\ F \cap G = {}
    BY <2>9
  <2>11. /\ X(l) # Nil => u.parent[X(l)] = n
         /\ X(r) # Nil => u.parent[X(r)] = n
    <3>1. ASSUME NEW k \in Nodes, t.parent[k] = m
          PROVE  u.parent[X(k)] = n
      <4>1. X(k) \in Nodes /\ X(X(k)) = k
        BY <1>3
      <4>2. u.parent[X(k)] = X(t.parent[X(X(k))])
        BY <1>4, <4>1
      <4> QED
        BY <2>2, <3>1, <4>1, <4>2
    <3> QED
      BY <1>3, <2>4, <3>1
  <2>12. \A f \in Sides : u.kids[f][n] # Nil => u.parent[u.kids[f][n]] = n
    BY <2>1, <2>5, <2>11
  <2>13. Joined(u, after, n, d)
    BY <2>1, <2>5, <2>8, <2>10, <2>12 DEF Joined
  <2> QED
    BY <2>1, <2>13
<1>8. ASSUME NEW n \in S
      PROVE  after[n] \subseteq S
  <2>1. X(n) \in S /\ n \in Pointers
    BY <1>3, <1>5, NodesAreNumbers
  <2>2. below[X(n)] \subseteq S
    BY <2>1 DEF Shaped
  <2> QED
    BY <1>2, <1>3, <2>1, <2>2
<1>9. u.root # Nil => u.parent[u.root] = Nil
  <2>1. SUFFICES ASSUME u.root # Nil PROVE u.parent[u.root] = Nil
    OBVIOUS
  <2>2. t.root # Nil /\ t.root \in Nodes /\ u.root \in Nodes /\ X(u.root) = t.root
    BY <1>3, <1>4, <1>5, <2>1, NodesAreNumbers
  <2>3. t.parent[t.root] = Nil
    BY <2>2, ParentOf
  <2> QED
    BY <1>3, <1>4, <2>2, <2>3
<1>10. ASSUME NEW n \in S \ {u.root}
       PROVE  \E d \in Sides : u.parent[n] \in S /\ u.kids[d][u.parent[n]] = n
  <2>1. PICK m \in S : m = X(n) /\ X(m) = n
    BY <1>3
  <2>2. m \in Nodes /\ m # t.root /\ n \in Nodes
    BY <1>3, <1>4, <1>5, <2>1
  <2>3. PICK q : q = t.parent[m]
    OBVIOUS
  <2>4. PICK d \in Sides : q \in S /\ t.kids[d][q] = m
    BY <2>2, <2>3 DEF Shaped
  <2>5. u.parent[n] = X(q) /\ X(q) \in S /\ X(q) \in Nodes /\ X(X(q)) = q
    BY <1>3, <1>4, <1>5, <2>1, <2>2, <2>3, <2>4
  <2>6. u.kids[d][X(q)] = X(t.kids[d][X(X(q))])
    BY <1>4, <2>5
  <2> QED
    BY <2>1, <2>4, <2>5, <2>6
<1>11. ASSUME NEW n \in Nodes \ S
       PROVE  /\ u.parent[n] = Nil /\ u.color[n] = "red" /\ \A d \in Sides : u.kids[d][n] = Nil
  <2>1. X(n) = n
    BY DEF X, Exchanged
  <2>2. t.parent[n] = Nil /\ t.color[n] = "red" /\ \A d \in Sides : t.kids[d][n] = Nil
    BY DEF Shaped
  <2> QED
    BY <1>3, <1>4, <2>1, <2>2
<1>12. Shaped(u, S, after)
  BY <1>2, <1>4, <1>5, <1>6, <1>7, <1>8, <1>9, <1>10, <1>11, IntoShape
<1> QED
  BY <1>1, <1>12

\* The greatest node below the left child takes the place of its ancestor, and the
\* order is kept but for that one.
LEMMA ExchangedOrdered ==
  ASSUME NEW t, NEW S, NEW below, Shaped(t, S, below), Ordered(t, S, below, Nil),
         NEW a \in S, NEW l, l = t.kids["left"][a], l # Nil,
         NEW b \in S, Extreme("right", b, below[l]),
         NEW u, Conjugated(t, u, a, b)
  PROVE  Ordered(u, S, BelowExchanged(below, a, b), a)
<1>1. S \subseteq Nodes /\ "left" \in Sides /\ "right" \in Sides /\ Other("left") = "right"
      /\ below[Nil] = {}
  BY DEF Shaped, Sides, Other
<1>2. b \in below[l] /\ \A j \in below[l] \ {b} : j < b
  BY DEF Extreme, Before
<1>3. /\ a \notin below[l] /\ below[l] \subseteq below[a] /\ a # b /\ a \in below[a]
      /\ \A d \in Sides : a \notin below[t.kids[d][a]]
  <2>1. a \in Nodes
    BY <1>1
  <2>2. a \notin below[l] /\ below[l] \subseteq below[a]
    BY <1>1, <2>1, KidBelow
  <2>3. a \in below[a] /\ \A d \in Sides : a \notin below[t.kids[d][a]]
    <3>1. ASSUME NEW d \in Sides
          PROVE  a \in below[a] /\ a \notin below[t.kids[d][a]]
      BY <2>1, BelowNode
    <3> QED
      BY <1>1, <3>1
  <2> QED
    BY <1>2, <2>2, <2>3
<1>4. \A n \in S, d \in Sides : \A i \in below[t.kids[d][n]] : Before(d, i, n)
  <2> TAKE n \in S, d \in Sides
  <2> TAKE i \in below[t.kids[d][n]]
  <2>1. n # Nil /\ n \in Nodes
    BY <1>1, NodesAreNumbers
  <2>2. t.kids[d][n] \in Pointers /\ below \in [Pointers -> SUBSET Nodes]
    BY <2>1, NotItself DEF Shaped
  <2>3. i # Nil
    BY <2>2, NodesAreNumbers
  <2> QED
    BY <2>1, <2>3 DEF Ordered
<1>5. PICK after : after = BelowExchanged(below, a, b)
  OBVIOUS
<1>6. ASSUME NEW n \in S \ {a}, NEW d \in Sides, NEW i \in after[u.kids[d][n]] \ {a}
      PROVE  Before(d, i, n)
  <2>1. PICK m, k : m = Exchanged(n, a, b) /\ k = t.kids[d][m]
    OBVIOUS
  <2>2. m \in S /\ m \in Nodes /\ n \in Nodes /\ k \in Pointers
    <3>1. m \in S
      BY <1>1, <2>1, ExchangedIs
    <3>2. m \in Nodes /\ n \in Nodes
      BY <1>1, <3>1
    <3>3. k \in Pointers
      BY <2>1, <3>2, NotItself
    <3> QED
      BY <3>1, <3>2, <3>3
  <2>3. u.kids[d][n] = Exchanged(k, a, b)
    BY <2>1, <2>2 DEF Conjugated
  <2>4. Exchanged(k, a, b) \in Pointers /\ Exchanged(Exchanged(k, a, b), a, b) = k
    BY <1>1, <2>2, ExchangedIs
  <2>5. PICK j : j = Exchanged(i, a, b)
    OBVIOUS
  <2>6. j \in below[k]
    <3>1. \A y \in Pointers : \A z : z \in after[y] <=> Exchanged(z, a, b) \in below[Exchanged(y, a, b)]
      BY <1>5, BelowExchangedIs
    <3>2. i \in after[Exchanged(k, a, b)]
      BY <1>6, <2>3
    <3> QED
      BY <2>4, <2>5, <3>1, <3>2
  <2>7. j # b /\ (j # a => i = j) /\ (j = a => i = b)
    BY <1>6, <2>5 DEF Exchanged
  <2>8. i \in Nodes /\ j \in Nodes
    <3>1. j \in Nodes
      BY <2>2, <2>6 DEF Shaped
    <3> QED
      BY <1>1, <2>7, <3>1
  <2>9. CASE n = b
    <3>1. m = a
      BY <2>1, <2>9 DEF Exchanged
    <3>2. i = j /\ i \in below[t.kids[d][a]]
      BY <1>3, <2>1, <2>6, <2>7, <3>1
    <3>3. CASE d = "left"
      BY <1>2, <2>7, <2>9, <3>2, <3>3 DEF Before
    <3>4. CASE d # "left"
      <4>1. d = "right"
        BY <3>4 DEF Sides
      <4>2. Before("right", i, a)
        BY <1>4, <3>2, <4>1
      <4>3. Before("left", b, a)
        BY <1>1, <1>2, <1>4
      <4>4. a < i /\ b < a /\ a \in Nat /\ b \in Nat /\ i \in Nat
        BY <1>1, <2>8, <4>2, <4>3, NodesAreNumbers DEF Before
      <4> QED
        BY <2>9, <4>1, <4>4 DEF Before
    <3> QED
      BY <3>3, <3>4
  <2>10. CASE n # b
    <3>1. m = n
      BY <1>6, <2>1, <2>10 DEF Exchanged
    <3>2. CASE j # a
      BY <1>4, <2>1, <2>2, <2>6, <2>7, <3>1, <3>2
    <3>3. CASE j = a
      <4>1. k # Nil /\ k \in Nodes
        BY <1>1, <2>2, <2>6, NodesAreNumbers
      <4>2. below[a] \subseteq below[k]
        BY <2>6, <3>3, <4>1, BelowInside
      <4>3. b \in below[k]
        BY <1>2, <1>3, <4>2
      <4> QED
        BY <1>4, <2>1, <2>2, <2>7, <3>1, <3>3, <4>3
    <3> QED
      BY <3>2, <3>3
  <2> QED
    BY <2>9, <2>10
<1> QED
  BY <1>5, <1>6 DEF Ordered

\* The node to be removed changes places with its predecessor, if it has two children:
\* then it has but one.
LEMMA PlacesChanged ==
  ASSUME NEW t, NEW S, NEW below, NEW black, NEW c,
         Healthy(t, S, below, black, Nil, c, Nil, {}), NEW a \in S,
         t.kids["left"][a] # Nil, t.kids["right"][a] # Nil,
         NEW u, u = SwapNodes(t, a, Outermost(t, "right", t.kids["left"][a]))
  PROVE  /\ \E below2, black2 : /\ Shaped(u, S, below2) /\ Ordered(u, S, below2, a)
                                /\ Even(u, black2, Nil, c, Nil) /\ Reds(u, S, {})
         /\ u.kids["right"][a] = Nil
<1>1. PICK l, b : l = t.kids["left"][a] /\ b = Outermost(t, "right", l)
  OBVIOUS
<1>2. /\ Shaped(t, S, below) /\ Ordered(t, S, below, Nil) /\ Even(t, black, Nil, c, Nil)
      /\ Reds(t, S, {}) /\ t \in Trees /\ S \subseteq Nodes
  BY HealthyIs
<1>3. a \in Nodes /\ "left" \in Sides /\ "right" \in Sides
  BY <1>2 DEF Sides
<1>4. l \in S /\ l # Nil /\ a \notin below[l]
  BY <1>1, <1>2, <1>3, KidBelow
<1>5. b \in S /\ Extreme("right", b, below[l]) /\ t.kids["right"][b] = Nil
  BY <1>1, <1>2, <1>3, <1>4, OutermostIs
<1>6. a # b
  BY <1>4, <1>5 DEF Extreme
<1>7. Conjugated(t, u, a, b)
  BY <1>1, <1>2, <1>5, <1>6, SwapNodesIs
<1>8. Shaped(u, S, BelowExchanged(below, a, b))
  BY <1>2, <1>5, <1>7, ExchangedShaped
<1>9. Ordered(u, S, BelowExchanged(below, a, b), a)
  BY <1>1, <1>2, <1>4, <1>5, <1>7, ExchangedOrdered
<1> DEFINE X(m) == Exchanged(m, a, b)
<1>10. \A m : /\ X(X(m)) = m /\ (X(m) = Nil <=> m = Nil) /\ (X(m) \in S <=> m \in S)
              /\ (X(m) \in Nodes <=> m \in Nodes) /\ (X(m) \in Pointers <=> m \in Pointers)
  BY <1>2, <1>5, ExchangedIs
<1>11. \A m \in Nodes : /\ \A d \in Sides : u.kids[d][m] = X(t.kids[d][X(m)])
                        /\ u.parent[m] = X(t.parent[X(m)])
                        /\ u.color[m] = t.color[X(m)]
  BY <1>7 DEF Conjugated
<1>12. X(a) = b
  BY DEF Exchanged
<1> HIDE DEF X
<1>13. u.kids["right"][a] = Nil
  BY <1>3, <1>5, <1>10, <1>11, <1>12
<1>14. \E black2 : Even(u, black2, Nil, c, Nil)
  <2>1. PICK black2 : black2 = [m \in Pointers |-> black[X(m)]]
    OBVIOUS
  <2>2. /\ black \in [Pointers -> Nat \ {0}] /\ black[Nil] = 1
        /\ \A m \in Nodes, d \in Sides : black[m] = black[t.kids[d][m]] + Weight(t, m)
    BY <1>2, NodesAreNumbers DEF Even, Height
  <2>3. /\ black2 \in [Pointers -> Nat \ {0}] /\ black2[Nil] = 1
        /\ \A m \in Pointers : black2[m] = black[X(m)]
    BY <1>10, <2>1, <2>2, NodesAreNumbers
  <2>4. ASSUME NEW m \in Nodes, NEW d \in Sides
        PROVE  black2[m] = black2[u.kids[d][m]] + Weight(u, m)
    <3>1. PICK n \in Nodes : n = X(m)
      BY <1>10
    <3>2. PICK k \in Pointers : k = t.kids[d][n]
      BY <1>2, <3>1, NotItself
    <3>3. u.kids[d][m] = X(k) /\ u.color[m] = t.color[n]
      BY <1>11, <3>1, <3>2
    <3>4. black2[X(k)] = black[k] /\ black2[m] = black[n]
      <4>1. X(k) \in Pointers /\ X(X(k)) = k /\ m \in Pointers
        BY <1>10, NodesAreNumbers
      <4>2. \A y \in Pointers : black2[y] = black[X(y)]
        BY <2>3
      <4> QED
        BY <3>1, <4>1, <4>2
    <3>5. Weight(u, m) = Weight(t, n)
      BY <3>3, SMTT(30) DEF Weight
    <3> QED
      BY <2>2, <3>2, <3>3, <3>4, <3>5
  <2>5. Even(u, black2, Nil, c, Nil)
    BY <2>3, <2>4, NodesAreNumbers DEF Even, Height
  <2> QED
    BY <2>5
<1>15. Reds(u, S, {})
  <2>1. ASSUME NEW m \in S, u.color[m] = "red"
        PROVE  Color(u, u.parent[m]) = "black"
    <3>1. PICK n \in S : n = X(m)
      BY <1>10
    <3>2. n \in Nodes /\ m \in Nodes
      BY <1>2, <3>1
    <3>3. PICK q \in Pointers : q = t.parent[n]
      BY <1>2, <3>2, NotItself
    <3>4. u.parent[m] = X(q) /\ t.color[n] = "red"
      BY <1>11, <2>1, <3>1, <3>2, <3>3
    <3>5. Color(t, q) = "black"
      BY <1>2, <3>1, <3>3, <3>4 DEF Reds
    <3>6. CASE q = Nil
      BY <1>10, <3>4, <3>6 DEF Color
    <3>7. CASE q # Nil
      <4>1. X(q) \in Nodes /\ X(X(q)) = q /\ X(q) # Nil
        BY <1>10, <3>3, <3>7, NodesAreNumbers
      <4>2. u.color[X(q)] = t.color[q]
        BY <1>11, <4>1
      <4> QED
        BY <3>4, <3>5, <3>7, <4>1, <4>2 DEF Color
    <3> QED
      BY <3>6, <3>7
  <2> QED
    BY <2>1 DEF Reds
<1> QED
  BY <1>8, <1>9, <1>13, <1>14, <1>15

\* A black node with at most one child goes: it takes the color of the child, and a
\* black is missing.
LEMMA BlackGone ==
  ASSUME NEW t, NEW S, NEW below, NEW black, NEW any, NEW x \in S, NEW d \in Sides,
         Shaped(t, S, below), Ordered(t, S, below, x), Even(t, black, Nil, any, Nil),
         Reds(t, S, {}), NEW c, c = t.kids[d][x], t.kids[Other(d)][x] = Nil,
         t.color[x] = "black", NEW u, u = Paint(t, x, Color(t, c))
  PROVE  \E black2 : Missing(u, S, below, black2, x, c, x)
<1>1. t \in Trees /\ S \subseteq Nodes /\ x \in Nodes /\ x # Nil /\ x \in Pointers
  BY NodesAreNumbers DEF Shaped
<1>2. c \in Pointers /\ c # x /\ Color(t, c) \in Colors
  <2>1. c \in Pointers /\ c # x
    BY <1>1, NotItself
  <2> QED
    BY <1>1, <2>1, NodesAreNumbers, TwoColors DEF Color, Trees
<1>3. Shaped(u, S, below) /\ Ordered(u, S, below, x)
  BY <1>2, PaintKeepsShape
<1>4. Painted(t, u, x, Color(t, c))
  BY <1>1, <1>2, PaintIs
<1>5. /\ u.kids = t.kids /\ u.parent = t.parent /\ u.color[x] = Color(t, c)
      /\ \A m \in Nodes \ {x} : u.color[m] = t.color[m]
  BY <1>4 DEF Painted
<1>6. /\ black \in [Pointers -> Nat \ {0}] /\ black[Nil] = 1
      /\ \A m \in Nodes, f \in Sides : black[m] = black[t.kids[f][m]] + Weight(t, m)
  BY NodesAreNumbers DEF Even, Height
<1>7. PICK after : after = [black EXCEPT ![x] = black[c]]
  OBVIOUS
<1>8. /\ after \in [Pointers -> Nat \ {0}] /\ after[Nil] = 1 /\ after[x] = black[c]
      /\ \A m \in Pointers \ {x} : after[m] = black[m]
  <2>1. black[c] \in Nat \ {0}
    BY <1>2, <1>6
  <2> QED
    BY <1>1, <1>6, <1>7, <2>1, NodesAreNumbers
<1>9. black[x] = black[c] + 1 /\ after[c] = black[c]
  <2>1. Weight(t, x) = 1
    BY DEF Weight
  <2> QED
    BY <1>1, <1>2, <1>6, <1>8, <2>1
<1>10. ASSUME NEW m \in Nodes \ {x}, NEW f \in Sides
       PROVE  after[m] = Height(after, u.kids[f][m], x) + Weight(u, m)
  <2>1. PICK k \in Pointers : k = t.kids[f][m] /\ u.kids[f][m] = k
    BY <1>1, <1>5, NotItself
  <2>2. Weight(u, m) = Weight(t, m) /\ black[m] = black[k] + Weight(t, m)
    BY <1>5, <1>6, <2>1 DEF Weight
  <2>3. after[m] = black[m]
    BY <1>8, NodesAreNumbers
  <2>4. Height(after, k, x) = black[k]
    BY <1>1, <1>8, <1>9, <2>1, SMTT(30) DEF Height
  <2> QED
    BY <2>1, <2>2, <2>3, <2>4
<1>11. Even(u, after, x, c, x)
  BY <1>8, <1>9, <1>10 DEF Even
<1>12. PICK e \in Sides : e = Other(d) /\ Other(e) = d /\ \A f \in Sides : f = d \/ f = e
  BY TwoSides
<1>13. Reds(u, S, {c} \cup {x})
  <2>1. ASSUME NEW m \in S \ ({c} \cup {x}), u.color[m] = "red"
        PROVE  Color(u, u.parent[m]) = "black"
    <3>1. m \in Nodes /\ t.color[m] = "red" /\ m # Nil
      BY <1>1, <1>5, <2>1, NodesAreNumbers
    <3>2. PICK q \in Pointers : q = t.parent[m]
      BY <3>1, NotItself
    <3>3. Color(t, q) = "black"
      BY <3>1, <3>2 DEF Reds
    <3>4. q # x
      <4>1. SUFFICES ASSUME q = x PROVE FALSE
        OBVIOUS
      <4>2. t.parent[m] = x
        BY <3>2, <4>1
      <4>3. m = t.kids[d][x] \/ m = t.kids[Other(d)][x]
        BY <1>1, <3>1, <4>2, OnlyKids
      <4> QED
        BY <2>1, <3>1, <4>3
    <3>5. u.parent[m] = q
      BY <1>5, <3>2, Zenon
    <3>6. q # Nil => u.color[q] = t.color[q]
      BY <1>5, <3>2, <3>4, NodesAreNumbers, ZenonT(30)
    <3>7. Color(u, q) = Color(t, q)
      BY <3>6 DEF Color
    <3> QED
      BY <3>3, <3>5, <3>7, Zenon
  <2> QED
    BY <2>1 DEF Reds
<1>14. Healthy(u, S, below, after, x, c, x, Excuse(x, c, x))
  BY <1>3, <1>11, <1>13 DEF Healthy, Excuse
<1>15. OneChild(u, x, c)
  <2>1. u.kids[d][x] = c /\ u.kids[Other(d)][x] = Nil
    BY <1>5
  <2>2. Color(u, c) = Color(t, c)
    BY <1>2, <1>5, NodesAreNumbers, Zenon DEF Color
  <2> QED
    BY <1>5, <2>1, <2>2 DEF OneChild
<1>16. x \in below[x]
  BY <1>1, BelowNode
<1> QED
  BY <1>2, <1>14, <1>15, <1>16 DEF Missing

\* A red node with at most one child goes: no black is missing.
LEMMA RedGone ==
  ASSUME NEW t, NEW S, NEW below, NEW black, NEW any, NEW x \in S, NEW d \in Sides,
         Shaped(t, S, below), Ordered(t, S, below, x), Even(t, black, Nil, any, Nil),
         Reds(t, S, {}), NEW c, c = t.kids[d][x], t.kids[Other(d)][x] = Nil,
         t.color[x] = "red"
  PROVE  Healthy(t, S, below, black, x, c, Nil, {c}) /\ OneChild(t, x, c)
<1>1. x \in Nodes
  BY DEF Shaped
<1>2. /\ black \in [Pointers -> Nat \ {0}] /\ black[Nil] = 1
      /\ \A m \in Nodes, f \in Sides :
           black[m] = Height(black, t.kids[f][m], Nil) + Weight(t, m)
  BY NodesAreNumbers DEF Even
<1>3. black[x] = black[c]
  <2>1. Weight(t, x) = 0
    BY TwoColors DEF Weight
  <2>2. c \in Pointers
    BY <1>1, NotItself
  <2>3. PICK h \in Nat : h = black[c]
    BY <1>2, <2>2
  <2>4. black[x] = h + 0
    BY <1>1, <1>2, <2>1, <2>3 DEF Height
  <2> QED
    BY <2>3, <2>4
<1>4. Even(t, black, x, c, Nil)
  BY <1>2, <1>3 DEF Even
<1> QED
  BY <1>4 DEF Healthy, Reds, OneChild

-----------------------------------------------------------------------------
(* Removal: the end.                                                       *)

\* The node that has gone forgets its pointers.
Cleared(t, x) ==
  [t EXCEPT !.kids["left"][x] = Nil, !.kids["right"][x] = Nil,
            !.parent[x] = Nil, !.color[x] = "red"]

\* It alone.
LEMMA ClearedIs ==
  ASSUME NEW t \in Trees, NEW x \in Nodes
  PROVE  /\ Cleared(t, x) \in Trees
         /\ Cleared(t, x).root = t.root
         /\ \A m \in Nodes, d \in Sides :
              Cleared(t, x).kids[d][m] = IF m = x THEN Nil ELSE t.kids[d][m]
         /\ \A m \in Nodes : Cleared(t, x).parent[m] = IF m = x THEN Nil ELSE t.parent[m]
         /\ \A m \in Nodes : Cleared(t, x).color[m] = IF m = x THEN "red" ELSE t.color[m]
<1>1. PICK a, b, v, u : /\ a = [t EXCEPT !.kids["left"][x] = Nil]
                        /\ b = [a EXCEPT !.kids["right"][x] = Nil]
                        /\ v = [b EXCEPT !.parent[x] = Nil] /\ u = Paint(v, x, "red")
  OBVIOUS
<1>2. Cleared(t, x) = u
  BY <1>1 DEF Cleared, Paint
<1>3. /\ "left" \in Sides /\ "right" \in Sides /\ "left" # "right" /\ Nil \in Pointers
      /\ \A d \in Sides : d = "left" \/ d = "right"
  BY NodesAreNumbers DEF Sides
<1>4. /\ a \in Trees /\ a.root = t.root /\ a.parent = t.parent /\ a.color = t.color
      /\ \A m \in Nodes, d \in Sides :
           a.kids[d][m] = IF m = x /\ d = "left" THEN Nil ELSE t.kids[d][m]
  BY <1>1, <1>3, KidEdit
<1>5. /\ b \in Trees /\ b.root = a.root /\ b.parent = a.parent /\ b.color = a.color
      /\ \A m \in Nodes, d \in Sides :
           b.kids[d][m] = IF m = x /\ d = "right" THEN Nil ELSE a.kids[d][m]
  <2>1. a \in Trees /\ b = [a EXCEPT !.kids["right"][x] = Nil]
    BY <1>1, <1>4
  <2> QED
    BY <1>3, <2>1, KidEdit
<1>6. /\ v \in Trees /\ v.root = b.root /\ v.kids = b.kids /\ v.color = b.color
      /\ \A m \in Nodes : v.parent[m] = IF m = x THEN Nil ELSE b.parent[m]
  <2>1. b \in Trees /\ v = [b EXCEPT !.parent[x] = Nil]
    BY <1>1, <1>5
  <2> QED
    BY <1>3, <2>1, ParentEdit
<1>7. Painted(v, u, x, "red")
  BY <1>1, <1>6, PaintIs, TwoColors
<1>8. /\ u \in Trees /\ u.root = t.root /\ u.kids = b.kids
      /\ \A m \in Nodes : u.parent[m] = IF m = x THEN Nil ELSE t.parent[m]
      /\ \A m \in Nodes : u.color[m] = IF m = x THEN "red" ELSE t.color[m]
  BY <1>4, <1>5, <1>6, <1>7 DEF Painted
<1>9. \A m \in Nodes, d \in Sides : b.kids[d][m] = IF m = x THEN Nil ELSE t.kids[d][m]
  BY <1>3, <1>4, <1>5
<1> QED
  BY <1>2, <1>8, <1>9

\* The child in the place of the node.
Replaced(t, r, x, c) ==
  /\ r \in Trees /\ r.color = t.color
  /\ r.root = IF t.root = x THEN c ELSE t.root
  /\ \A m \in Nodes, d \in Sides : r.kids[d][m] = IF t.kids[d][m] = x THEN c ELSE t.kids[d][m]
  /\ \A m \in Nodes : r.parent[m] = IF m = c THEN t.parent[x] ELSE t.parent[m]

\* What tree_replace_node does.
LEMMA ReplaceNodeIs ==
  ASSUME NEW t, NEW S, NEW below, Shaped(t, S, below), NEW x \in S, NEW c \in Pointers
  PROVE  Replaced(t, ReplaceNode(t, x, c), x, c)
<1>1. PICK p, e, r : p = t.parent[x] /\ e = SideOf(t, x) /\ r = ReplaceNode(t, x, c)
  OBVIOUS
<1>2. PICK w : w = IF p = Nil THEN [t EXCEPT !.root = c] ELSE [t EXCEPT !.kids[e][p] = c]
  OBVIOUS
<1>3. r = IF c = Nil THEN w ELSE [w EXCEPT !.parent[c] = p]
  BY <1>1, <1>2 DEF ReplaceNode
<1>4. t \in Trees /\ S \subseteq Nodes /\ x \in Nodes /\ x # Nil /\ p \in Pointers
  <2>1. t \in Trees /\ S \subseteq Nodes /\ x \in Nodes /\ x # Nil
    BY NodesAreNumbers DEF Shaped
  <2> QED
    BY <1>1, <2>1, NotItself
<1>5. /\ p = Nil <=> x = t.root
      /\ p # Nil => p \in Nodes /\ e \in Sides /\ t.kids[e][p] = x
  <2>1. p = Nil <=> x = t.root
    BY <1>1, <1>4, ParentOf
  <2>2. p # Nil => p \in Nodes /\ e \in Sides /\ t.kids[e][p] = x
    BY <1>1, <1>4, OnASide
  <2> QED
    BY <2>1, <2>2
<1>6. \A m \in Nodes, d \in Sides : t.kids[d][m] = x => p # Nil /\ m = p /\ d = e
  <2> TAKE m \in Nodes, d \in Sides
  <2>1. SUFFICES ASSUME t.kids[d][m] = x PROVE p # Nil /\ m = p /\ d = e
    OBVIOUS
  <2>2. t.kids[d][m] # Nil
    BY <1>4, <2>1
  <2>3. t.parent[t.kids[d][m]] = m /\ SideOf(t, t.kids[d][m]) = d
    BY <2>2, SideIs
  <2> QED
    BY <1>1, <2>1, <2>3, NodesAreNumbers
<1>7. /\ w \in Trees /\ w.color = t.color /\ w.parent = t.parent
      /\ w.root = IF t.root = x THEN c ELSE t.root
      /\ \A m \in Nodes, d \in Sides :
           w.kids[d][m] = IF t.kids[d][m] = x THEN c ELSE t.kids[d][m]
  <2>1. CASE p = Nil
    <3>1. w = [t EXCEPT !.root = c]
      BY <1>2, <2>1
    <3>2. /\ w \in Trees /\ w.color = t.color /\ w.parent = t.parent /\ w.root = c
          /\ w.kids = t.kids
      BY <1>4, <3>1, RootEdit
    <3>3. \A m \in Nodes, d \in Sides : t.kids[d][m] # x
      BY <1>6, <2>1
    <3> QED
      BY <1>5, <2>1, <3>2, <3>3
  <2>2. CASE p # Nil
    <3>1. w = [t EXCEPT !.kids[e][p] = c]
      BY <1>2, <2>2
    <3>2. /\ w \in Trees /\ w.color = t.color /\ w.parent = t.parent /\ w.root = t.root
          /\ \A m \in Nodes, d \in Sides :
               w.kids[d][m] = IF m = p /\ d = e THEN c ELSE t.kids[d][m]
      BY <1>4, <1>5, <2>2, <3>1, KidEdit
    <3>3. \A m \in Nodes, d \in Sides : t.kids[d][m] = x <=> m = p /\ d = e
      BY <1>5, <1>6, <2>2
    <3> QED
      BY <1>5, <2>2, <3>2, <3>3
  <2> QED
    BY <2>1, <2>2
<1>8. CASE c = Nil
  <2>1. r = w
    BY <1>3, <1>8
  <2>2. \A m \in Nodes : m # c
    BY <1>8, NodesAreNumbers
  <2>3. Replaced(t, r, x, c)
    BY <1>7, <2>1, <2>2 DEF Replaced
  <2> QED
    BY <1>1, <2>3
<1>9. CASE c # Nil
  <2>1. r = [w EXCEPT !.parent[c] = p] /\ c \in Nodes
    BY <1>3, <1>9, NodesAreNumbers
  <2>2. /\ r \in Trees /\ r.color = w.color /\ r.kids = w.kids /\ r.root = w.root
        /\ \A m \in Nodes : r.parent[m] = IF m = c THEN p ELSE w.parent[m]
    BY <1>4, <1>7, <2>1, ParentEdit
  <2>3. Replaced(t, r, x, c)
    BY <1>1, <1>7, <2>2 DEF Replaced
  <2> QED
    BY <1>1, <2>3
<1> QED
  BY <1>8, <1>9

\* Trees are the same whose pointers and colors are.
LEMMA SameTreeAt ==
  ASSUME NEW t \in Trees, NEW u \in Trees, t.root = u.root,
         \A m \in Nodes : /\ t.color[m] = u.color[m] /\ t.parent[m] = u.parent[m]
                          /\ \A d \in Sides : t.kids[d][m] = u.kids[d][m]
  PROVE  t = u
<1>1. t.parent = u.parent
  BY DEF Trees
<1>2. \A d \in Sides : t.kids[d] = u.kids[d]
  BY DEF Trees
<1>3. t.kids = u.kids
  BY <1>2 DEF Trees
<1> QED
  BY <1>1, <1>3, SameTree

\* The tree without the node.
Unlinked(t, u, x, c) ==
  /\ u \in Trees
  /\ u.root = IF t.root = x THEN c ELSE t.root
  /\ \A m \in Nodes, d \in Sides :
       u.kids[d][m] = IF m = x THEN Nil ELSE IF t.kids[d][m] = x THEN c ELSE t.kids[d][m]
  /\ \A m \in Nodes :
       /\ u.parent[m] = IF m = x THEN Nil ELSE IF m = c THEN t.parent[x] ELSE t.parent[m]
       /\ u.color[m] = IF m = x THEN "red" ELSE t.color[m]

\* Its subtrees.
BelowUnlinked(below, x) == [m \in Pointers |-> IF m = x THEN {x} ELSE below[m] \ {x}]

\* It has the shape of a tree.
LEMMA UnlinkedShaped ==
  ASSUME NEW t, NEW S, NEW below, Shaped(t, S, below), NEW x \in S, NEW c, OneChild(t, x, c),
         NEW u, Unlinked(t, u, x, c)
  PROVE  Shaped(u, S \ {x}, BelowUnlinked(below, x))
<1>1. /\ t \in Trees /\ S \subseteq Nodes /\ IsFiniteSet(S) /\ x \in Nodes /\ x # Nil
      /\ x \in Pointers /\ Nil \in Pointers /\ below \in [Pointers -> SUBSET Nodes]
      /\ below[Nil] = {}
  BY NodesAreNumbers DEF Shaped
<1>2. PICK e \in Sides : t.kids[e][x] = c /\ t.kids[Other(e)][x] = Nil
  BY DEF OneChild
<1>3. /\ c \in Pointers /\ c # x /\ below[x] = {x} \cup below[c] /\ x \notin below[c]
      /\ (c # Nil => c \in Nodes /\ c \in S /\ t.parent[c] = x)
  <2>1. c \in Pointers /\ c # x
    BY <1>1, <1>2, NotItself
  <2>2. /\ below[x] = {x} \cup below[t.kids[e][x]] \cup below[t.kids[Other(e)][x]]
        /\ x \notin below[t.kids[e][x]]
    BY <1>1, <1>2, BelowNode
  <2>3. c # Nil => c \in Nodes /\ c \in S /\ t.parent[c] = x
    BY <1>1, <1>2, KidBelow
  <2> QED
    BY <1>1, <1>2, <2>1, <2>2, <2>3
<1>4. PICK after : after = BelowUnlinked(below, x)
  OBVIOUS
<1>5. /\ after \in [Pointers -> SUBSET Nodes] /\ after[Nil] = {} /\ after[x] = {x}
      /\ \A m \in Pointers \ {x} : after[m] = below[m] \ {x}
  BY <1>1, <1>4 DEF BelowUnlinked
<1>6. \A k \in Pointers : after[IF k = x THEN c ELSE k] = below[k] \ {x}
  BY <1>3, <1>5
<1>7. after[u.root] = S \ {x}
  <2>1. t.root \in Pointers /\ below[t.root] = S
    BY <1>1 DEF Shaped, Trees
  <2>2. u.root = IF t.root = x THEN c ELSE t.root
    BY DEF Unlinked
  <2> QED
    BY <1>6, <2>1, <2>2
<1>8. ASSUME NEW n \in Nodes, NEW d \in Sides, n # x
      PROVE  /\ after[u.kids[d][n]] = below[t.kids[d][n]] \ {x}
             /\ u.kids[d][n] # Nil => u.parent[u.kids[d][n]] = n
  <2>1. PICK k \in Pointers : k = t.kids[d][n]
    BY <1>1, NotItself
  <2>2. u.kids[d][n] = IF k = x THEN c ELSE k
    BY <1>8, <2>1 DEF Unlinked
  <2>3. k # Nil => k \in Nodes /\ t.parent[k] = n
    BY <2>1, KidBelow
  <2>4. \A m \in Nodes : u.parent[m] = IF m = x THEN Nil ELSE IF m = c THEN t.parent[x]
                                       ELSE t.parent[m]
    BY DEF Unlinked
  <2>5. CASE k = x
    BY <1>1, <1>3, <1>6, <2>1, <2>2, <2>3, <2>4, <2>5
  <2>6. CASE k # x
    <3>1. k # Nil => k # c
      BY <1>3, <1>8, <2>3
    <3> QED
      BY <1>6, <2>1, <2>2, <2>3, <2>4, <2>6, <3>1
  <2> QED
    BY <2>5, <2>6
<1>9. ASSUME NEW n \in Nodes
      PROVE  \E d \in Sides : Joined(u, after, n, d)
  <2>1. PICK d, f : d \in Sides /\ f \in Sides /\ f = Other(d) /\ \A g \in Sides : g = d \/ g = f
    <3>1. "left" \in Sides
      BY DEF Sides
    <3> QED
      BY <3>1, TwoSides
  <2>2. CASE n = x
    <3>1. \A g \in Sides : u.kids[g][x] = Nil
      BY <1>1 DEF Unlinked
    <3>2. Joined(u, after, x, d)
      BY <1>5, <2>1, <3>1 DEF Joined
    <3> QED
      BY <2>1, <2>2, <3>2
  <2>3. CASE n # x
    <3>1. PICK B, C, D : B = below[n] /\ C = below[t.kids[d][n]] /\ D = below[t.kids[f][n]]
      OBVIOUS
    <3>2. B = {n} \cup C \cup D /\ n \notin C /\ n \notin D /\ C \cap D = {}
      <4>1. ASSUME NEW g \in Sides
            PROVE  /\ below[n] = {n} \cup below[t.kids[g][n]] \cup below[t.kids[Other(g)][n]]
                   /\ n \notin below[t.kids[g][n]]
                   /\ below[t.kids[g][n]] \cap below[t.kids[Other(g)][n]] = {}
        BY BelowNode
      <4> QED
        BY <2>1, <3>1, <4>1
    <3>3. /\ after[n] = B \ {x} /\ after[u.kids[d][n]] = C \ {x}
          /\ after[u.kids[f][n]] = D \ {x}
      BY <1>5, <1>8, <2>1, <2>3, <3>1, NodesAreNumbers
    <3>4. PICK E, F, G : E = B \ {x} /\ F = C \ {x} /\ G = D \ {x}
      OBVIOUS
    <3>5. E = {n} \cup F \cup G /\ n \notin F /\ n \notin G /\ F \cap G = {}
      BY <2>3, <3>2, <3>4
    <3>6. \A g \in Sides : u.kids[g][n] # Nil => u.parent[u.kids[g][n]] = n
      BY <1>8, <2>3
    <3>7. after[n] = E /\ after[u.kids[d][n]] = F /\ after[u.kids[Other(d)][n]] = G
      BY <2>1, <3>3, <3>4
    <3>8. Joined(u, after, n, d)
      BY <3>5, <3>6, <3>7 DEF Joined
    <3> QED
      BY <2>1, <3>8
  <2> QED
    BY <2>2, <2>3
<1>10. \A n \in S \ {x} : after[n] \subseteq S \ {x}
  <2>1. \A n \in S : below[n] \subseteq S
    BY DEF Shaped
  <2> QED
    BY <1>1, <1>5, <2>1, NodesAreNumbers
<1>11. u.root # Nil => u.parent[u.root] = Nil
  <2>1. SUFFICES ASSUME u.root # Nil PROVE u.parent[u.root] = Nil
    OBVIOUS
  <2>2. u.root = IF t.root = x THEN c ELSE t.root
    BY DEF Unlinked
  <2>3. \A m \in Nodes : u.parent[m] = IF m = x THEN Nil ELSE IF m = c THEN t.parent[x]
                                       ELSE t.parent[m]
    BY DEF Unlinked
  <2>4. t.root # Nil => t.root \in Nodes /\ t.parent[t.root] = Nil
    <3>1. t.root \in S \cup {Nil} /\ (t.root # Nil => t.parent[t.root] = Nil)
      BY <1>1, ParentOf
    <3> QED
      BY <1>1, <3>1
  <2>5. CASE t.root = x
    BY <1>1, <1>3, <2>1, <2>2, <2>3, <2>4, <2>5
  <2>6. CASE t.root # x
    <3>1. t.root # c
      BY <1>1, <1>3, <2>1, <2>2, <2>4, <2>6
    <3> QED
      BY <2>1, <2>2, <2>3, <2>4, <2>6, <3>1
  <2> QED
    BY <2>5, <2>6
<1>12. ASSUME NEW n \in (S \ {x}) \ {u.root}
       PROVE  \E d \in Sides : u.parent[n] \in S \ {x} /\ u.kids[d][u.parent[n]] = n
  <2>1. n \in Nodes /\ n # Nil /\ n # x
    BY <1>1, NodesAreNumbers
  <2>2. \A m \in Nodes, d \in Sides :
          u.kids[d][m] = IF m = x THEN Nil ELSE IF t.kids[d][m] = x THEN c ELSE t.kids[d][m]
    BY DEF Unlinked
  <2>3. u.parent[n] = IF n = c THEN t.parent[x] ELSE t.parent[n]
    BY <2>1 DEF Unlinked
  <2>4. u.root = IF t.root = x THEN c ELSE t.root
    BY DEF Unlinked
  <2>5. CASE n = c
    <3>1. x # t.root
      BY <1>12, <2>4, <2>5
    <3>2. PICK q : q = t.parent[x]
      OBVIOUS
    <3>3. PICK d \in Sides : q \in S /\ t.kids[d][q] = x
      BY <3>1, <3>2 DEF Shaped
    <3>4. q \in Nodes /\ q # x
      BY <1>1, <3>2, <3>3, NotItself
    <3>5. u.kids[d][q] = c
      BY <2>2, <3>3, <3>4
    <3> QED
      BY <2>3, <2>5, <3>2, <3>3, <3>4, <3>5
  <2>6. CASE n # c
    <3>1. n # t.root
      BY <1>12, <2>1, <2>4
    <3>2. PICK q : q = t.parent[n]
      OBVIOUS
    <3>3. PICK d \in Sides : q \in S /\ t.kids[d][q] = n
      BY <3>1, <3>2 DEF Shaped
    <3>4. q # x
      BY <1>2, <2>1, <2>6, <3>3, TwoSides
    <3>5. u.kids[d][q] = n
      BY <1>1, <2>1, <2>2, <3>3, <3>4
    <3> QED
      BY <2>3, <2>6, <3>2, <3>3, <3>4, <3>5
  <2> QED
    BY <2>5, <2>6
<1>13. ASSUME NEW n \in Nodes \ (S \ {x})
       PROVE  /\ u.parent[n] = Nil /\ u.color[n] = "red" /\ \A d \in Sides : u.kids[d][n] = Nil
  <2>1. /\ \A d \in Sides :
             u.kids[d][n] = IF n = x THEN Nil ELSE IF t.kids[d][n] = x THEN c ELSE t.kids[d][n]
        /\ u.parent[n] = IF n = x THEN Nil ELSE IF n = c THEN t.parent[x] ELSE t.parent[n]
        /\ u.color[n] = IF n = x THEN "red" ELSE t.color[n]
    BY DEF Unlinked
  <2>2. n # x => /\ t.parent[n] = Nil /\ t.color[n] = "red"
                 /\ \A d \in Sides : t.kids[d][n] = Nil
    BY DEF Shaped
  <2>3. n # x => n # c
    BY <1>3, NodesAreNumbers
  <2> QED
    BY <1>1, <2>1, <2>2, <2>3
<1>14. Shaped(u, S \ {x}, after)
  <2>1. u \in Trees /\ S \ {x} \in SUBSET Nodes /\ IsFiniteSet(S \ {x})
    BY <1>1, FS_Difference DEF Unlinked
  <2> QED
    BY <1>5, <1>7, <1>9, <1>10, <1>11, <1>12, <1>13, <2>1, IntoShape
<1> QED
  BY <1>4, <1>14

\* The order, the paths and the colors of the tree without the node.
LEMMA UnlinkedHealthy ==
  ASSUME NEW t, NEW S, NEW below, NEW black, NEW x \in S, NEW c,
         Healthy(t, S, below, black, x, c, Nil, {c}), OneChild(t, x, c),
         NEW u, Unlinked(t, u, x, c)
  PROVE  \E black2 : Healthy(u, S \ {x}, BelowUnlinked(below, x), black2, Nil, c, Nil, {})
<1>1. /\ Shaped(t, S, below) /\ Ordered(t, S, below, x) /\ Even(t, black, x, c, Nil)
      /\ Reds(t, S, {c}) /\ t \in Trees /\ S \subseteq Nodes
      /\ black \in [Pointers -> Nat \ {0}] /\ black[Nil] = 1
  BY HealthyIs
<1>2. x \in Nodes /\ x # Nil /\ x \in Pointers /\ Nil \in Pointers
      /\ below \in [Pointers -> SUBSET Nodes]
  BY <1>1, NodesAreNumbers DEF Shaped
<1>3. PICK e \in Sides : /\ t.kids[e][x] = c /\ t.kids[Other(e)][x] = Nil
                         /\ (Color(t, c) = "red" => t.color[x] = "red")
  BY DEF OneChild
<1>4. /\ c \in Pointers /\ c # x /\ x \notin below[c]
      /\ (c # Nil => c \in Nodes /\ t.parent[c] = x)
  <2>1. c \in Pointers /\ c # x
    BY <1>1, <1>2, <1>3, NotItself
  <2>2. x \notin below[t.kids[e][x]]
    BY <1>1, <1>2, BelowNode
  <2>3. c # Nil => c \in Nodes /\ t.parent[c] = x
    BY <1>1, <1>2, <1>3, KidBelow
  <2> QED
    BY <1>3, <2>1, <2>2, <2>3
<1>5. PICK after : after = BelowUnlinked(below, x)
  OBVIOUS
<1>6. Shaped(u, S \ {x}, after)
  BY <1>1, <1>5, UnlinkedShaped
<1>7. /\ after[x] = {x} /\ \A m \in Pointers \ {x} : after[m] = below[m] \ {x}
  BY <1>2, <1>5 DEF BelowUnlinked
<1>8. /\ \A m \in Nodes, d \in Sides :
           u.kids[d][m] = IF m = x THEN Nil ELSE IF t.kids[d][m] = x THEN c ELSE t.kids[d][m]
      /\ \A m \in Nodes :
           /\ u.parent[m] = IF m = x THEN Nil ELSE IF m = c THEN t.parent[x] ELSE t.parent[m]
           /\ u.color[m] = IF m = x THEN "red" ELSE t.color[m]
  BY DEF Unlinked
<1>9. Ordered(u, S \ {x}, after, Nil)
  <2>1. ASSUME NEW n \in S \ {x}, NEW d \in Sides, NEW i \in after[u.kids[d][n]]
        PROVE  Before(d, i, n)
    <3>1. n \in Nodes /\ n # x
      BY <1>1
    <3>2. PICK k \in Pointers : k = t.kids[d][n]
      BY <1>1, <3>1, NotItself
    <3>3. u.kids[d][n] = IF k = x THEN c ELSE k
      BY <1>8, <3>1, <3>2
    <3>4. i \in below[k] /\ i # x
      <4>1. CASE k = x
        <5>1. i \in below[c] /\ i # x
          BY <1>4, <1>7, <2>1, <3>3, <4>1
        <5>2. c # Nil
          BY <1>1, <5>1 DEF Shaped
        <5>3. below[c] \subseteq below[x]
          BY <1>1, <1>2, <1>3, <5>2, KidBelow
        <5> QED
          BY <4>1, <5>1, <5>3
      <4>2. CASE k # x
        BY <1>7, <2>1, <3>2, <3>3, <4>2
      <4> QED
        BY <4>1, <4>2
    <3> QED
      BY <1>1, <3>1, <3>2, <3>4 DEF Ordered
  <2> QED
    BY <2>1 DEF Ordered
<1>10. PICK black2 : black2 = [black EXCEPT ![x] = 1]
  OBVIOUS
<1>11. /\ black2 \in [Pointers -> Nat \ {0}] /\ black2[Nil] = 1 /\ black2[x] = 1
       /\ \A m \in Pointers \ {x} : black2[m] = black[m]
  BY <1>1, <1>2, <1>10
<1>12. /\ \A m \in Nodes \ {x}, d \in Sides :
            black[m] = Height(black, t.kids[d][m], Nil) + Weight(t, m)
       /\ black[x] = black[c]
  BY <1>1, <1>2 DEF Even
<1>13. ASSUME NEW m \in Nodes, NEW d \in Sides
       PROVE  black2[m] = black2[u.kids[d][m]] + Weight(u, m)
  <2>1. CASE m = x
    <3>1. u.kids[d][m] = Nil /\ u.color[m] = "red"
      BY <1>8, <2>1
    <3>2. Weight(u, m) = 0
      BY <3>1, TwoColors DEF Weight
    <3> QED
      BY <1>11, <2>1, <3>1, <3>2
  <2>2. CASE m # x
    <3>1. PICK k \in Pointers : k = t.kids[d][m]
      BY <1>1, NotItself
    <3>2. u.kids[d][m] = IF k = x THEN c ELSE k
      BY <1>8, <2>2, <3>1
    <3>3. black2[IF k = x THEN c ELSE k] = black[k]
      BY <1>4, <1>11, <1>12, <3>1
    <3>4. black[m] = black[k] + Weight(t, m)
      BY <1>12, <2>2, <3>1 DEF Height
    <3>5. black2[m] = black[m] /\ Weight(u, m) = Weight(t, m)
      BY <1>8, <1>11, <2>2, NodesAreNumbers DEF Weight
    <3> QED
      BY <3>2, <3>3, <3>4, <3>5
  <2> QED
    BY <2>1, <2>2
<1>14. Even(u, black2, Nil, c, Nil)
  BY <1>11, <1>13, NodesAreNumbers DEF Even, Height
<1>15. Reds(u, S \ {x}, {})
  <2>1. ASSUME NEW m \in S \ {x}, u.color[m] = "red"
        PROVE  Color(u, u.parent[m]) = "black"
    <3>1. m \in Nodes /\ m # x /\ t.color[m] = "red" /\ m # Nil
      BY <1>1, <1>8, <2>1, NodesAreNumbers
    <3>2. ASSUME NEW q \in Pointers, q # x, Color(t, q) = "black"
          PROVE  Color(u, q) = "black"
      BY <1>8, <3>2, NodesAreNumbers DEF Color
    <3>3. CASE m = c
      <4>1. t.color[x] = "red"
        BY <1>3, <3>1, <3>3 DEF Color
      <4>2. Color(t, t.parent[x]) = "black"
        BY <1>1, <1>4, <4>1 DEF Reds
      <4>3. t.parent[x] \in Pointers /\ t.parent[x] # x
        BY <1>1, <1>2, NotItself
      <4>4. u.parent[m] = t.parent[x]
        BY <1>8, <3>1, <3>3
      <4> QED
        BY <3>2, <4>2, <4>3, <4>4
    <3>4. CASE m # c
      <4>1. PICK q \in Pointers : q = t.parent[m]
        BY <1>1, <3>1, NotItself
      <4>2. Color(t, q) = "black"
        BY <1>1, <3>1, <3>4, <4>1 DEF Reds
      <4>3. q # x
        <5>1. SUFFICES ASSUME q = x PROVE FALSE
          OBVIOUS
        <5>2. t.parent[m] = x
          BY <4>1, <5>1
        <5>3. m = t.kids[e][x] \/ m = t.kids[Other(e)][x]
          BY <1>1, <1>2, <3>1, <5>2, OnlyKids
        <5> QED
          BY <1>3, <3>1, <3>4, <5>3
      <4>4. u.parent[m] = q
        BY <1>8, <3>1, <3>4, <4>1
      <4> QED
        BY <3>2, <4>2, <4>3, <4>4
    <3> QED
      BY <3>3, <3>4
  <2> QED
    BY <2>1 DEF Reds
<1> QED
  BY <1>5, <1>6, <1>9, <1>14, <1>15 DEF Healthy

\* The node is unlinked and the root made black: all is well.
LEMMA ReplaceKeeps ==
  ASSUME NEW t, NEW S, NEW below, NEW black, NEW x \in S, NEW c,
         Healthy(t, S, below, black, x, c, Nil, {c}), OneChild(t, x, c),
         NEW r, r = ReplaceNode(t, x, c),
         NEW u, u = Cleared(IF r.root = Nil THEN r ELSE Paint(r, r.root, "black"), x)
  PROVE  /\ \E below2, black2 : Healthy(u, S \ {x}, below2, black2, Nil, c, Nil, {})
         /\ Color(u, u.root) = "black"
<1>1. Shaped(t, S, below) /\ t \in Trees /\ x \in Nodes /\ S \subseteq Nodes
  <2>1. Shaped(t, S, below) /\ t \in Trees /\ S \subseteq Nodes
    BY HealthyIs
  <2> QED
    BY <2>1
<1>2. c \in Pointers /\ c # x
  <2>1. PICK e \in Sides : t.kids[e][x] = c
    BY DEF OneChild
  <2> QED
    BY <1>1, <2>1, NotItself
<1>3. Replaced(t, r, x, c)
  BY <1>1, <1>2, ReplaceNodeIs
<1>4. /\ r \in Trees /\ r.color = t.color
      /\ r.root = IF t.root = x THEN c ELSE t.root
      /\ \A m \in Nodes, d \in Sides :
           r.kids[d][m] = IF t.kids[d][m] = x THEN c ELSE t.kids[d][m]
      /\ \A m \in Nodes : r.parent[m] = IF m = c THEN t.parent[x] ELSE t.parent[m]
  BY <1>3 DEF Replaced
<1>5. r.root # x /\ r.root \in Pointers
  BY <1>2, <1>4 DEF Trees
<1>6. PICK v : v = Cleared(r, x)
  OBVIOUS
<1>7. /\ v \in Trees /\ v.root = r.root
      /\ \A m \in Nodes, d \in Sides : v.kids[d][m] = IF m = x THEN Nil ELSE r.kids[d][m]
      /\ \A m \in Nodes : v.parent[m] = IF m = x THEN Nil ELSE r.parent[m]
      /\ \A m \in Nodes : v.color[m] = IF m = x THEN "red" ELSE r.color[m]
  BY <1>1, <1>4, <1>6, ClearedIs, SMTT(30)
<1>8. Unlinked(t, v, x, c)
  BY <1>4, <1>7 DEF Unlinked
<1>9. PICK below2, black2 : Healthy(v, S \ {x}, below2, black2, Nil, c, Nil, {})
  BY <1>8, UnlinkedHealthy
<1>10. CASE r.root = Nil
  <2>1. u = v
    BY <1>6, <1>10
  <2> QED
    BY <1>7, <1>9, <1>10, <2>1 DEF Color
<1>11. CASE r.root # Nil
  <2>1. PICK n \in Nodes : n = r.root
    BY <1>5, <1>11, NodesAreNumbers
  <2>2. PICK w : w = Paint(r, n, "black")
    OBVIOUS
  <2>3. u = Cleared(w, x)
    BY <1>11, <2>1, <2>2
  <2>4. Painted(r, w, n, "black")
    BY <1>4, <2>2, PaintIs, TwoColors
  <2>5. /\ w \in Trees /\ w.root = r.root /\ w.kids = r.kids /\ w.parent = r.parent
        /\ w.color[n] = "black" /\ \A m \in Nodes \ {n} : w.color[m] = r.color[m]
    BY <2>4 DEF Painted
  <2>6. /\ u \in Trees /\ u.root = w.root
        /\ \A m \in Nodes, d \in Sides : u.kids[d][m] = IF m = x THEN Nil ELSE w.kids[d][m]
        /\ \A m \in Nodes : u.parent[m] = IF m = x THEN Nil ELSE w.parent[m]
        /\ \A m \in Nodes : u.color[m] = IF m = x THEN "red" ELSE w.color[m]
    <3>1. w \in Trees
      BY <2>5
    <3>2. /\ Cleared(w, x) \in Trees /\ Cleared(w, x).root = w.root
          /\ \A m \in Nodes, d \in Sides :
               Cleared(w, x).kids[d][m] = IF m = x THEN Nil ELSE w.kids[d][m]
          /\ \A m \in Nodes : Cleared(w, x).parent[m] = IF m = x THEN Nil ELSE w.parent[m]
          /\ \A m \in Nodes : Cleared(w, x).color[m] = IF m = x THEN "red" ELSE w.color[m]
      BY <1>1, <3>1, ClearedIs
    <3> QED
      BY <2>3, <3>2
  <2>7. PICK z : z = Paint(v, n, "black")
    OBVIOUS
  <2>8. Painted(v, z, n, "black")
    BY <1>7, <2>7, PaintIs, TwoColors
  <2>9. /\ z \in Trees /\ z.root = v.root /\ z.kids = v.kids /\ z.parent = v.parent
        /\ z.color[n] = "black" /\ \A m \in Nodes \ {n} : z.color[m] = v.color[m]
    BY <2>8 DEF Painted
  <2>10. u = z
    <3>1. \A m \in Nodes : u.color[m] = z.color[m]
      BY <1>5, <1>7, <2>1, <2>5, <2>6, <2>9
    <3>2. \A m \in Nodes : u.parent[m] = z.parent[m]
      BY <1>7, <2>5, <2>6, <2>9
    <3>3. \A m \in Nodes, d \in Sides : u.kids[d][m] = z.kids[d][m]
      BY <1>7, <2>5, <2>6, <2>9
    <3>4. u.root = z.root
      BY <1>7, <2>5, <2>6, <2>9
    <3> QED
      BY <2>6, <2>9, <3>1, <3>2, <3>3, <3>4, SameTreeAt
  <2>11. n \in S \ {x} /\ v.parent[n] = Nil /\ v.root = n
    <3>1. Shaped(v, S \ {x}, below2)
      BY <1>9, HealthyIs
    <3>2. v.root \in (S \ {x}) \cup {Nil} /\ (v.root # Nil => v.parent[v.root] = Nil)
      BY <2>1, <3>1, ParentOf
    <3> QED
      BY <1>7, <1>11, <2>1, <3>2
  <2>12. CASE v.color[n] = "red"
    <3>1. Healthy(v, S \ {x}, below2, black2, Nil, c, Nil, {n})
      BY <1>9 DEF Healthy, Reds
    <3>2. /\ \E black3 : Healthy(Paint(v, n, "black"), S \ {x}, below2, black3, Nil, c, Nil, {})
          /\ Color(Paint(v, n, "black"), Paint(v, n, "black").root) = "black"
      BY <2>11, <2>12, <3>1, BalancedRoot
    <3>3. /\ \E black3 : Healthy(z, S \ {x}, below2, black3, Nil, c, Nil, {})
          /\ Color(z, z.root) = "black"
      BY <2>7, <3>2
    <3> QED
      BY <2>10, <3>3
  <2>13. CASE v.color[n] # "red"
    <3>1. v.color[n] = "black"
      BY <1>7, <2>13, ColorIs
    <3>2. z = v
      BY <1>7, <2>7, <3>1, PaintSame
    <3>3. Color(v, v.root) = "black"
      BY <2>11, <3>1 DEF Color
    <3> QED
      BY <1>9, <2>10, <3>2, <3>3
  <2> QED
    BY <2>12, <2>13
<1> QED
  BY <1>10, <1>11

-----------------------------------------------------------------------------
(* The inductive invariant.                                                *)

\* Between the operations, and before a removal has changed anything.
Quiet(t, S) ==
  /\ Color(t, t.root) = "black"
  /\ \E below, black : Healthy(t, S, below, black, Nil, Nil, Nil, {})

\* An insertion of k is on its way down, at n.
Descending(t, S, k, n) ==
  /\ k \in S /\ Color(t, t.root) = "black"
  /\ \E below, black : /\ Healthy(t, S \ {k}, below, black, Nil, Nil, Nil, {})
                       /\ OnItsWay(t, S \ {k}, below, n, k)

\* A red node n may have a red parent.
Balancing(t, S, n) ==
  /\ n \in S /\ t.color[n] = "red" /\ (t.root # n => Color(t, t.root) = "black")
  /\ \E below, black : Healthy(t, S, below, black, Nil, Nil, Nil, {n})

\* A black is missing below n, for the node x that goes and its child c.
Climbing(t, S, x, c, n) == \E below, black : Missing(t, S, below, black, x, c, n)

\* The node x that goes is still to be unlinked.
Closing(t, S, x, c) ==
  /\ x \in S /\ OneChild(t, x, c)
  /\ \E below, black : Healthy(t, S, below, black, x, c, Nil, {c})

\* A sweep removes the least key there is.
Sweeping ==
  /\ sweep \in {"none", "walk", "empty"}
  /\ pc \in {"idle", "insert", "balance"} => sweep = "none"
  /\ pc = "next" => sweep # "none" /\ at \notin present
  /\ sweep # "none" => at \in Nodes /\ \A i \in present : at <= i

\* The stages of an operation.
Stages == {"idle", "insert", "balance", "remove", "rebalance", "replace", "next"}

\* The types of what is not the tree.
TypeInv ==
  /\ pc \in Stages /\ at \in Pointers /\ up \in Pointers /\ child \in Pointers
  /\ present \subseteq Nodes

\* What the tree is like at each stage.
TreeInv ==
  /\ pc \in {"idle", "remove", "next"} => Quiet(tree, present)
  /\ pc = "remove" => at \in present
  /\ pc = "insert" => Descending(tree, present, at, up)
  /\ pc = "balance" => Balancing(tree, present, up)
  /\ pc = "rebalance" => Climbing(tree, present, at, child, up)
  /\ pc = "replace" => Closing(tree, present, at, child)

\* The inductive invariant.
IInv == TypeInv /\ Sweeping /\ TreeInv

-----------------------------------------------------------------------------
(* The steps of insertion.                                                 *)

\* As long as no node goes it does not matter which child would take its place.
LEMMA AnyChild ==
  ASSUME NEW t, NEW S, NEW below, NEW black, NEW c, NEW d, NEW short, NEW X,
         Healthy(t, S, below, black, Nil, c, short, X)
  PROVE  Healthy(t, S, below, black, Nil, d, short, X)
BY NodesAreNumbers DEF Healthy, Even

\* At rest, keys are found that are there.
LEMMA QuietFinds ==
  ASSUME NEW t, NEW S, Quiet(t, S)
  PROVE  /\ S \subseteq Nodes
         /\ \A k \in Nodes : Find(t, k) = IF k \in S THEN k ELSE Nil
         /\ \A k \in Nodes : IsNext(GetNext(t, k), S, k)
         /\ S = {} <=> t.root = Nil
         /\ S = {} => Outermost(t, "left", t.root) = Nil
         /\ S # {} => Extreme("left", Outermost(t, "left", t.root), S)
<1>1. PICK below, black : Healthy(t, S, below, black, Nil, Nil, Nil, {})
  BY DEF Quiet
<1>2. Shaped(t, S, below) /\ Ordered(t, S, below, Nil) /\ S \subseteq Nodes
  BY <1>1, HealthyIs
<1>3. \A k \in Nodes : Find(t, k) = IF k \in S THEN k ELSE Nil
  BY <1>2, FindIs
<1>4. \A k \in Nodes : IsNext(GetNext(t, k), S, k)
  BY <1>2, GetNextIs
<1>5. t.root \in S \cup {Nil} /\ below[t.root] = S /\ (t.root = Nil <=> S = {})
  <2>1. ASSUME NEW n \in Nodes
        PROVE  t.root \in S \cup {Nil} /\ below[t.root] = S /\ (t.root = Nil <=> S = {})
    BY <1>2, ParentOf
  <2>2. t.root \in Pointers /\ below[t.root] = S /\ below[Nil] = {}
    BY <1>2 DEF Shaped, Trees
  <2> QED
    BY <2>1, <2>2, NodesAreNumbers
<1>6. "left" \in Sides
  BY DEF Sides
<1>7. t.root = Nil => Outermost(t, "left", t.root) = Nil
  BY <1>2, <1>5, <1>6, OutermostIs
<1>8. t.root # Nil => Extreme("left", Outermost(t, "left", t.root), below[t.root])
  BY <1>2, <1>5, <1>6, OutermostIs
<1> QED
  BY <1>2, <1>3, <1>4, <1>5, <1>7, <1>8

\* A new key in an empty tree.
LEMMA FirstInsert ==
  ASSUME NEW t, NEW S, Quiet(t, S), NEW k \in Nodes, t.root = Nil
  PROVE  Balancing(Paint([t EXCEPT !.root = k], k, "red"), S \cup {k}, k)
<1>1. PICK below, black : Healthy(t, S, below, black, Nil, Nil, Nil, {})
  BY DEF Quiet
<1>2. PICK u : u = Paint([t EXCEPT !.root = k], k, "red")
  OBVIOUS
<1>3. /\ Healthy(u, {k}, below, black, Nil, Nil, Nil, {k})
      /\ u.color[k] = "red" /\ u.root = k /\ S = {}
  BY <1>1, <1>2, FirstNode
<1>4. S \cup {k} = {k}
  BY <1>3
<1>5. Balancing(u, {k}, k)
  BY <1>3 DEF Balancing
<1> QED
  BY <1>2, <1>4, <1>5

\* A new key in a tree.
LEMMA InsertInto ==
  ASSUME NEW t, NEW S, Quiet(t, S), NEW k \in Nodes \ S, t.root # Nil
  PROVE  Descending(Paint(t, k, "red"), S \cup {k}, k, t.root)
<1>1. PICK below, black : Healthy(t, S, below, black, Nil, Nil, Nil, {})
  BY DEF Quiet
<1>2. Paint(t, k, "red") = t /\ OnItsWay(t, S, below, t.root, k)
  <2>1. Shaped(t, S, below) /\ Ordered(t, S, below, Nil)
    BY <1>1, HealthyIs
  <2> QED
    BY <2>1, StartAtRoot
<1>3. (S \cup {k}) \ {k} = S
  OBVIOUS
<1>4. Descending(t, S \cup {k}, k, t.root)
  BY <1>1, <1>2, <1>3 DEF Descending, Quiet
<1> QED
  BY <1>2, <1>4

\* The way down.
LEMMA DescendOn ==
  ASSUME NEW t, NEW S, NEW k \in Nodes, NEW n, Descending(t, S, k, n),
         NEW m, m = t.kids[Towards(n, k)][n], m # Nil
  PROVE  Descending(t, S, k, m) /\ m \in Nodes
<1>1. PICK below, black : /\ Healthy(t, S \ {k}, below, black, Nil, Nil, Nil, {})
                          /\ OnItsWay(t, S \ {k}, below, n, k)
  BY DEF Descending
<1>2. PICK T : T = S \ {k}
  OBVIOUS
<1>3. Shaped(t, T, below) /\ T \subseteq Nodes /\ k \in Nodes \ T /\ OnItsWay(t, T, below, n, k)
  BY <1>1, <1>2, HealthyIs
<1>4. OnItsWay(t, T, below, m, k)
  BY <1>3, StepDown
<1>5. m \in Nodes
  BY <1>3, <1>4 DEF OnItsWay
<1> QED
  BY <1>1, <1>2, <1>4, <1>5 DEF Descending

\* The end of the way down.
LEMMA AttachNew ==
  ASSUME NEW t, NEW S, NEW k \in Nodes, NEW n, Descending(t, S, k, n),
         t.kids[Towards(n, k)][n] = Nil
  PROVE  Balancing(Linked(t, Towards(n, k), n, k), S, k)
<1>1. PICK below, black : /\ Healthy(t, S \ {k}, below, black, Nil, Nil, Nil, {})
                          /\ OnItsWay(t, S \ {k}, below, n, k)
  BY DEF Descending
<1>2. PICK T, side : T = S \ {k} /\ side = Towards(n, k)
  OBVIOUS
<1>3. PICK u : u = Linked(t, side, n, k)
  OBVIOUS
<1>4. /\ Healthy(u, T \cup {k}, Grown(below, n, k), black, Nil, Nil, Nil, {k})
      /\ u.color[k] = "red" /\ u.root = t.root /\ t.root \in Nodes /\ u.color = t.color
  <2>1. /\ Healthy(t, T, below, black, Nil, Nil, Nil, {}) /\ k \in Nodes \ T
        /\ OnItsWay(t, T, below, n, k) /\ t.kids[side][n] = Nil
    BY <1>1, <1>2
  <2>2. /\ Healthy(Linked(t, side, n, k), T \cup {k}, Grown(below, n, k), black, Nil, Nil, Nil, {k})
        /\ Linked(t, side, n, k).color[k] = "red"
        /\ Linked(t, side, n, k).root = t.root /\ t.root \in Nodes
        /\ Linked(t, side, n, k).color = t.color
    BY <1>2, <2>1, AttachKeeps
  <2> QED
    BY <1>3, <2>2
<1>5. S = T \cup {k} /\ Color(t, t.root) = "black" /\ k \in S
  BY <1>2 DEF Descending
<1>6. Color(u, u.root) = "black"
  BY <1>4, <1>5 DEF Color
<1> QED
  BY <1>2, <1>3, <1>4, <1>5, <1>6 DEF Balancing

\* The end of the way up.
LEMMA BalancedNow ==
  ASSUME NEW t, NEW S, NEW n, Balancing(t, S, n), Color(t, t.parent[n]) = "black"
  PROVE  Quiet(IF t.parent[n] = Nil THEN Paint(t, n, "black") ELSE t, S)
<1>1. PICK below, black : Healthy(t, S, below, black, Nil, Nil, Nil, {n})
  BY DEF Balancing
<1>2. n \in S /\ t.color[n] = "red" /\ (t.root # n => Color(t, t.root) = "black")
  BY DEF Balancing
<1>3. CASE t.parent[n] = Nil
  <2>1. /\ \E black2 : Healthy(Paint(t, n, "black"), S, below, black2, Nil, Nil, Nil, {})
        /\ Color(Paint(t, n, "black"), Paint(t, n, "black").root) = "black"
    BY <1>1, <1>2, <1>3, BalancedRoot
  <2> QED
    BY <1>3, <2>1 DEF Quiet
<1>4. CASE t.parent[n] # Nil
  <2>1. Healthy(t, S, below, black, Nil, Nil, Nil, {})
    BY <1>1, <1>2, BalancedBelow
  <2>2. t.root # n
    <3>1. Shaped(t, S, below) /\ n \in Nodes
      <4>1. Shaped(t, S, below) /\ S \subseteq Nodes
        BY <1>1, HealthyIs
      <4> QED
        BY <1>2, <4>1
    <3>2. t.parent[n] = Nil <=> n = t.root
      BY <1>2, <3>1, ParentOf
    <3> QED
      BY <1>4, <3>2
  <2> QED
    BY <1>2, <1>4, <2>1, <2>2 DEF Quiet
<1> QED
  BY <1>3, <1>4

\* A red uncle.
LEMMA RecoloredNow ==
  ASSUME NEW t, NEW S, NEW n, Balancing(t, S, n), Color(t, t.parent[n]) = "red",
         Color(t, Sibling(t, t.parent[n])) = "red"
  PROVE  Balancing(Paint(Paint(Paint(t, t.parent[n], "black"), Sibling(t, t.parent[n]), "black"),
                         Grandparent(t, n), "red"), S, Grandparent(t, n))
<1>1. PICK below, black : Healthy(t, S, below, black, Nil, Nil, Nil, {n})
  BY DEF Balancing
<1>2. PICK p, q, g : p = t.parent[n] /\ q = Sibling(t, p) /\ g = Grandparent(t, n)
  OBVIOUS
<1>3. PICK u : u = Paint(Paint(Paint(t, p, "black"), q, "black"), g, "red")
  OBVIOUS
<1>4. /\ \E black2 : Healthy(u, S, below, black2, Nil, Nil, Nil, {g})
      /\ g \in S /\ u.color[g] = "red" /\ (u.root # g => Color(u, u.root) = "black")
  <2>1. n \in S /\ t.color[n] = "red" /\ (t.root # n => Color(t, t.root) = "black")
    BY DEF Balancing
  <2> QED
    BY <1>1, <1>2, <1>3, <2>1, RecolorKeeps
<1> QED
  BY <1>2, <1>3, <1>4 DEF Balancing

\* A black uncle.
LEMMA RotatedUpNow ==
  ASSUME NEW t, NEW S, NEW n, Balancing(t, S, n), Color(t, t.parent[n]) = "red",
         Color(t, Sibling(t, t.parent[n])) = "black"
  PROVE  Quiet(LET s == Straightened(t, n) IN RotatedUp(s.tree, s.node), S)
<1>1. PICK below, black : Healthy(t, S, below, black, Nil, Nil, Nil, {n})
  BY DEF Balancing
<1>2. PICK u : u = LET s == Straightened(t, n) IN RotatedUp(s.tree, s.node)
  OBVIOUS
<1>3. /\ \E below2, black2 : Healthy(u, S, below2, black2, Nil, Nil, Nil, {})
      /\ Color(u, u.root) = "black"
  <2>1. n \in S /\ t.color[n] = "red" /\ (t.root # n => Color(t, t.root) = "black")
    BY DEF Balancing
  <2> QED
    BY <1>1, <1>2, <2>1, RotateUpKeeps
<1> QED
  BY <1>2, <1>3 DEF Quiet

-----------------------------------------------------------------------------
(* The steps of removal.                                                   *)

\* The tree is in order but for the node that goes.
LEMMA OrderedBut ==
  ASSUME NEW t, NEW S, NEW below, Shaped(t, S, below), Ordered(t, S, below, Nil), NEW x
  PROVE  Ordered(t, S, below, x)
<1>1. ASSUME NEW n \in S \ {x}, NEW d \in Sides, NEW i \in below[t.kids[d][n]] \ {x}
      PROVE  Before(d, i, n)
  <2>1. n \in Nodes /\ n # Nil
    BY NodesAreNumbers DEF Shaped
  <2>2. t.kids[d][n] \in Pointers /\ below \in [Pointers -> SUBSET Nodes]
    BY <2>1, NotItself, SMTT(30) DEF Shaped
  <2>3. i # Nil
    BY <2>2, NodesAreNumbers
  <2> QED
    BY <2>1, <2>3 DEF Ordered
<1> QED
  BY <1>1 DEF Ordered

\* The node that goes, which has one child or none.
LEMMA Found ==
  ASSUME NEW t, NEW S, NEW below, NEW black, NEW x \in S, Shaped(t, S, below),
         Ordered(t, S, below, x), Even(t, black, Nil, Nil, Nil), Reds(t, S, {}),
         t.kids["left"][x] = Nil \/ t.kids["right"][x] = Nil,
         NEW c, c = IF t.kids["right"][x] # Nil THEN t.kids["right"][x] ELSE t.kids["left"][x]
  PROVE  /\ c \in Pointers
         /\ Color(t, x) = "black" => Climbing(Paint(t, x, Color(t, c)), S, x, c, x)
         /\ Color(t, x) # "black" => Closing(t, S, x, c)
<1>1. PICK d \in Sides : c = t.kids[d][x] /\ t.kids[Other(d)][x] = Nil
  BY DEF Sides, Other
<1>2. t \in Trees /\ x \in Nodes /\ x # Nil
  BY NodesAreNumbers DEF Shaped
<1>3. c \in Pointers
  BY <1>1, <1>2, NotItself
<1>4. Color(t, x) = t.color[x] /\ (t.color[x] = "red" \/ t.color[x] = "black")
  BY <1>2, ColorIs
<1>5. ASSUME t.color[x] = "black"
      PROVE  Climbing(Paint(t, x, Color(t, c)), S, x, c, x)
  <2>1. PICK u : u = Paint(t, x, Color(t, c))
    OBVIOUS
  <2>2. \E black2 : Missing(u, S, below, black2, x, c, x)
    BY <1>1, <1>5, <2>1, BlackGone
  <2> QED
    BY <2>1, <2>2 DEF Climbing
<1>6. ASSUME t.color[x] = "red"
      PROVE  Closing(t, S, x, c)
  <2>1. Healthy(t, S, below, black, x, c, Nil, {c}) /\ OneChild(t, x, c)
    BY <1>1, <1>6, RedGone
  <2> QED
    BY <2>1 DEF Closing
<1> QED
  BY <1>3, <1>4, <1>5, <1>6

\* The node to be removed is put where it can go.
LEMMA FoundNow ==
  ASSUME NEW q, NEW S, Quiet(q, S), NEW x \in S,
         NEW t, t = IF q.kids["left"][x] # Nil /\ q.kids["right"][x] # Nil
                    THEN SwapNodes(q, x, Outermost(q, "right", q.kids["left"][x])) ELSE q,
         NEW c, c = IF t.kids["right"][x] # Nil THEN t.kids["right"][x] ELSE t.kids["left"][x]
  PROVE  /\ c \in Pointers
         /\ Color(t, x) = "black" => Climbing(Paint(t, x, Color(t, c)), S, x, c, x)
         /\ Color(t, x) # "black" => Closing(t, S, x, c)
<1>1. PICK below, black : Healthy(q, S, below, black, Nil, Nil, Nil, {})
  BY DEF Quiet
<1>2. CASE q.kids["left"][x] # Nil /\ q.kids["right"][x] # Nil
  <2>1. t = SwapNodes(q, x, Outermost(q, "right", q.kids["left"][x]))
    BY <1>2
  <2>2. /\ \E below2, black2 : /\ Shaped(t, S, below2) /\ Ordered(t, S, below2, x)
                               /\ Even(t, black2, Nil, Nil, Nil) /\ Reds(t, S, {})
        /\ t.kids["right"][x] = Nil
    BY <1>1, <1>2, <2>1, PlacesChanged, SMTT(30)
  <2>3. PICK below2, black2 : /\ Shaped(t, S, below2) /\ Ordered(t, S, below2, x)
                              /\ Even(t, black2, Nil, Nil, Nil) /\ Reds(t, S, {})
    BY <2>2
  <2> QED
    BY <2>2, <2>3, Found, Zenon
<1>3. CASE q.kids["left"][x] = Nil \/ q.kids["right"][x] = Nil
  <2>1. t = q
    BY <1>3
  <2>2. /\ Shaped(q, S, below) /\ Ordered(q, S, below, Nil)
        /\ Even(q, black, Nil, Nil, Nil) /\ Reds(q, S, {})
    BY <1>1, HealthyIs
  <2>3. Ordered(q, S, below, x)
    BY <2>2, OrderedBut
  <2>4. /\ Shaped(t, S, below) /\ Ordered(t, S, below, x)
        /\ Even(t, black, Nil, Nil, Nil) /\ Reds(t, S, {})
    BY <2>1, <2>2, <2>3
  <2>5. t.kids["left"][x] = Nil \/ t.kids["right"][x] = Nil
    BY <1>3, <2>1
  <2> HIDE <1>3
  <2> QED
    BY <2>4, <2>5, Found, Zenon
<1> QED
  BY <1>2, <1>3, Zenon

\* The climb ends at the root.
LEMMA AtTheRoot ==
  ASSUME NEW t, NEW S, NEW x, NEW c, NEW n, Climbing(t, S, x, c, n), t.parent[n] = Nil
  PROVE  Closing(t, S, x, c)
<1>1. PICK below, black : Missing(t, S, below, black, x, c, n)
  BY DEF Climbing
<1>2. Healthy(t, S, below, black, x, c, Nil, {c})
  BY <1>1, RootReached
<1>3. x \in S /\ OneChild(t, x, c)
  BY <1>1 DEF Missing
<1> QED
  BY <1>2, <1>3 DEF Closing

\* The sibling and its children are black: the sibling is made red, and the parent
\* black.
LEMMA SiblingReddened ==
  ASSUME NEW t, NEW S, NEW below, NEW black, NEW x, NEW c, NEW n,
         Missing(t, S, below, black, x, c, n), t.parent[n] # Nil, BlackFamily(t, n),
         NEW p, p = t.parent[n], NEW s, s = Sibling(t, n),
         NEW u, u = Paint(Paint(t, s, "red"), p, "black"),
         NEW short, t.color[p] = "black" => short = p, t.color[p] # "black" => short = Nil
  PROVE  /\ p \in Nodes
         /\ Color(t, p) = "black" => Climbing(Paint(t, s, "red"), S, x, c, p)
         /\ Color(t, p) = "red" => Closing(u, S, x, c)
<1>1. PICK d, i, o : d = SideOf(t, n) /\ i = t.kids[d][s] /\ o = t.kids[Other(d)][s]
  OBVIOUS
<1>2. /\ d \in Sides /\ p \in S /\ p \in Nodes /\ n \in Nodes /\ n # Nil /\ p # Nil
      /\ s # Nil /\ Kin(t, d, p, n, s, i, o)
      /\ x \in Nodes /\ x # Nil /\ x \notin {p, s, i, o}
      /\ c \in Pointers /\ c \notin {p, s} /\ (c # Nil => c \notin {i, o})
  BY <1>1, MissingIs
<1>3. /\ Shaped(t, S, below) /\ Ordered(t, S, below, x) /\ Even(t, black, x, c, n)
      /\ Reds(t, S, Excuse(x, c, n)) /\ t \in Trees /\ S \subseteq Nodes /\ OneChild(t, x, c)
  BY MissingParts
<1>4. /\ s \in Nodes /\ s \in S /\ t.parent[s] = p /\ p # s /\ i \in Pointers /\ o \in Pointers
      /\ n \notin {p, s} /\ i \notin {p, s} /\ o \notin {p, s}
  BY <1>2, <1>3, KinNodes
<1>5. PICK e \in Sides : e = Other(d) /\ \A f \in Sides : f = d \/ f = e
  BY <1>2, TwoSides
<1>6. Color(t, s) = "black" /\ Color(t, i) = "black" /\ Color(t, o) = "black"
  BY <1>1, <1>2, <1>5 DEF BlackFamily
<1>7. /\ t.color[s] = "black" /\ (i # Nil => t.color[i] = "black")
      /\ (o # Nil => t.color[o] = "black")
  BY <1>2, <1>6 DEF Color
<1>8. PICK w : w = Paint(t, s, "red")
  OBVIOUS
<1>9. /\ Shaped(u, S, below) /\ Ordered(u, S, below, x) /\ u \in Trees
      /\ u.kids = t.kids /\ u.parent = t.parent
      /\ u.color[s] = "red" /\ u.color[p] = "black"
      /\ \A m \in Nodes \ {s, p} : u.color[m] = t.color[m]
  <2>1. PaintedBoth(t, S, below, x, Paint(t, s, "red"), Paint(Paint(t, s, "red"), p, "black"),
                    s, "red", p, "black")
    BY <1>2, <1>3, <1>4, PaintedTwice, TwoColors
  <2>2. PaintedBoth(t, S, below, x, w, u, s, "red", p, "black")
    BY <1>8, <2>1
  <2> QED
    BY <2>2 DEF PaintedBoth
<1>10. Even(u, Lightened(black, p, s, n), x, c, short)
  <2>1. t.color[p] \in Colors /\ x \notin {p, s}
    BY <1>2, <1>3 DEF Trees
  <2> QED
    BY <1>2, <1>3, <1>7, <1>9, <2>1, TakeBlackEven
<1>11. ASSUME NEW m \in S \ {c}, u.color[m] = "red"
       PROVE  Color(u, u.parent[m]) = "black"
  <2>1. m \in Nodes /\ m # p
    BY <1>3, <1>9, <1>11, TwoColors
  <2>2. PICK q \in Pointers : q = t.parent[m] /\ u.parent[m] = q
    BY <1>3, <1>9, <2>1 DEF Trees
  <2>3. CASE q = p
    BY <1>2, <1>9, <2>2, <2>3 DEF Color
  <2>4. CASE q # p
    <3>1. m # s /\ m # n
      BY <1>4, <2>2, <2>4
    <3>2. t.color[m] = "red"
      BY <1>9, <1>11, <2>1, <3>1
    <3>3. q # s
      <4>1. SUFFICES ASSUME q = s PROVE FALSE
        OBVIOUS
      <4>2. m = i \/ m = o
        <5>1. t.parent[m] = s
          BY <2>2, <4>1
        <5>2. m = t.kids[d][s] \/ m = t.kids[Other(d)][s]
          BY <1>2, <1>3, <1>4, <2>1, <5>1, OnlyKids
        <5> QED
          BY <1>1, <5>2
      <4>3. m # Nil
        BY <2>1, NodesAreNumbers
      <4> QED
        BY <1>7, <3>2, <4>2, <4>3, TwoColors
    <3>4. m \notin Excuse(x, c, n)
      BY <1>11, <3>1 DEF Excuse
    <3>5. Color(t, q) = "black"
      BY <1>3, <2>2, <3>2, <3>4 DEF Reds
    <3> QED
      BY <1>9, <2>2, <2>4, <3>3, <3>5, NodesAreNumbers DEF Color
  <2> QED
    BY <2>3, <2>4
<1>12. Healthy(u, S, below, Lightened(black, p, s, n), x, c, short, {c})
  BY <1>9, <1>10, <1>11 DEF Healthy, Reds
<1>13. OneChild(u, x, c)
  <2>1. u.color[x] = t.color[x] /\ (c # Nil => u.color[c] = t.color[c])
    BY <1>2, <1>9, NodesAreNumbers
  <2>2. Color(u, c) = Color(t, c)
    BY <2>1 DEF Color
  <2> QED
    BY <1>3, <1>9, <2>1, <2>2, KeepsChild
<1>14. n \in below[p]
  <2>1. t.kids[d][p] = n
    BY <1>2, Zenon DEF Kin
  <2> QED
    BY <1>2, <1>3, <2>1, KidBelow
<1>15. /\ \E black2 : Healthy(u, S, below, black2, x, c, short, {c})
      /\ OneChild(u, x, c) /\ u.color[p] = "black" /\ n \in below[p] /\ p \in S /\ p # x
  BY <1>2, <1>9, <1>12, <1>13, <1>14
<1>16. /\ Shaped(t, S, below) /\ t \in Trees /\ S \subseteq Nodes /\ x \in S /\ x \in below[n]
      /\ c \in Pointers
  BY MissingParts
<1>17. p \in Nodes /\ p # Nil /\ p \in Pointers /\ Color(t, p) = t.color[p]
  <2>1. p \in Nodes /\ p # Nil /\ p \in Pointers
    BY <1>15, <1>16, NodesAreNumbers
  <2> QED
    BY <2>1 DEF Color
<1>18. ASSUME t.color[p] = "black"
      PROVE  Climbing(Paint(t, s, "red"), S, x, c, p)
  <2>1. Painted(t, w, s, "red")
    BY <1>4, <1>8, <1>16, PaintIs, TwoColors
  <2>2. w \in Trees /\ w.color[p] = "black"
    BY <1>4, <1>17, <1>18, <2>1 DEF Painted
  <2>3. u = Paint(w, p, "black")
    BY <1>8
  <2>4. u = w
    BY <1>17, <2>2, <2>3, PaintSame
  <2>5. PICK black2 : Healthy(w, S, below, black2, x, c, p, {c})
    BY <1>15, <1>18, <2>4
  <2>6. Excuse(x, c, p) = {c}
    BY <1>15 DEF Excuse
  <2>7. x \in below[p]
    <3>1. below[n] \subseteq below[p]
      BY <1>15, <1>16, <1>17, BelowInside
    <3> QED
      BY <1>16, <3>1
  <2>8. Missing(w, S, below, black2, x, c, p)
    BY <1>15, <1>16, <2>2, <2>4, <2>5, <2>6, <2>7 DEF Missing
  <2> QED
    BY <1>8, <2>8 DEF Climbing
<1>19. ASSUME t.color[p] = "red"
       PROVE  Closing(u, S, x, c)
  <2>1. short = Nil
    BY <1>19, TwoColors
  <2> QED
    BY <1>15, <1>16, <2>1 DEF Closing
<1> QED
  BY <1>17, <1>18, <1>19

\* After a red sibling was turned up.
LEMMA BlackFamilyNow ==
  ASSUME NEW q, NEW S, NEW x, NEW c, NEW n, Climbing(q, S, x, c, n), q.parent[n] # Nil,
         NEW t, t = Simplified(q, n), BlackFamily(t, n),
         NEW p, p = t.parent[n], NEW s, s = Sibling(t, n)
  PROVE  /\ p \in Nodes
         /\ Color(t, p) = "black" => Climbing(Paint(t, s, "red"), S, x, c, p)
         /\ Color(t, p) = "red" => Closing(Paint(Paint(t, s, "red"), p, "black"), S, x, c)
<1>1. PICK below0, black0 : Missing(q, S, below0, black0, x, c, n)
  BY DEF Climbing
<1>2. (\E below, black : Missing(t, S, below, black, x, c, n)) /\ t.parent[n] # Nil
  BY <1>1, SimplifyKeeps
<1>3. PICK below, black : Missing(t, S, below, black, x, c, n)
  BY <1>2
<1>4. PICK u : u = Paint(Paint(t, s, "red"), p, "black")
  OBVIOUS
<1>6. PICK short : (t.color[p] = "black" => short = p) /\ (t.color[p] # "black" => short = Nil)
  OBVIOUS
<1>5. /\ p \in Nodes
      /\ Color(t, p) = "black" => Climbing(Paint(t, s, "red"), S, x, c, p)
      /\ Color(t, p) = "red" => Closing(u, S, x, c)
  BY <1>2, <1>3, <1>4, <1>6, SiblingReddened
<1> QED
  BY <1>4, <1>5

\* What the assertions of tree_black_node_removed say.
LEMMA Asserted ==
  ASSUME NEW q, NEW S, NEW x, NEW c, NEW n, Climbing(q, S, x, c, n), q.parent[n] # Nil
  PROVE  /\ Sibling(q, n) # Nil
         /\ LET t == Simplified(q, n)
                u == FarRed(t, n)
            IN  \/ BlackFamily(t, n)
                \/ /\ Color(u, u.kids[Other(SideOf(u, n))][Sibling(u, n)]) = "red"
                   /\ \E below, black : Missing(u, S, below, black, x, c, n)
                   /\ u.parent[n] # Nil /\ Color(u, Sibling(u, n)) = "black"
<1>1. PICK below0, black0 : Missing(q, S, below0, black0, x, c, n)
  BY DEF Climbing
<1>2. Sibling(q, n) # Nil
  BY <1>1, MissingIs
<1>3. PICK t, u : t = Simplified(q, n) /\ u = FarRed(t, n)
  OBVIOUS
<1>4. /\ \E below, black : Missing(t, S, below, black, x, c, n)
      /\ t.parent[n] # Nil /\ Color(t, Sibling(t, n)) = "black"
  BY <1>1, <1>3, SimplifyKeeps
<1>5. PICK below, black : Missing(t, S, below, black, x, c, n)
  BY <1>4
<1>6. ASSUME ~BlackFamily(t, n)
      PROVE  /\ \E below2, black2 : Missing(u, S, below2, black2, x, c, n)
             /\ u.parent[n] # Nil
             /\ Color(u, Sibling(u, n)) = "black"
             /\ Color(u, u.kids[Other(SideOf(u, n))][Sibling(u, n)]) = "red"
  BY <1>3, <1>4, <1>5, <1>6, FarRedKeeps
<1> QED
  BY <1>2, <1>3, <1>6

\* A black sibling with a red child.
LEMMA RotatedNow ==
  ASSUME NEW q, NEW S, NEW x, NEW c, NEW n, Climbing(q, S, x, c, n), q.parent[n] # Nil,
         ~BlackFamily(Simplified(q, n), n)
  PROVE  Closing(RotatedDown(FarRed(Simplified(q, n), n), n), S, x, c)
<1>1. PICK t, u : t = Simplified(q, n) /\ u = FarRed(t, n)
  OBVIOUS
<1>2. /\ Color(u, u.kids[Other(SideOf(u, n))][Sibling(u, n)]) = "red"
      /\ \E below, black : Missing(u, S, below, black, x, c, n)
      /\ u.parent[n] # Nil /\ Color(u, Sibling(u, n)) = "black"
  BY <1>1, Asserted
<1>3. PICK below, black : Missing(u, S, below, black, x, c, n)
  BY <1>2
<1>4. PICK v : v = RotatedDown(u, n)
  OBVIOUS
<1>5. /\ \E below2, black2 : Healthy(v, S, below2, black2, x, c, Nil, {c})
      /\ OneChild(v, x, c)
  BY <1>2, <1>3, <1>4, RotatedDownKeeps
<1>6. x \in S
  BY <1>3 DEF Missing
<1> QED
  BY <1>1, <1>4, <1>5, <1>6 DEF Closing

\* The end of a removal.
LEMMA ReplacedNow ==
  ASSUME NEW t, NEW S, NEW x, NEW c, Closing(t, S, x, c),
         NEW r, r = ReplaceNode(t, x, c)
  PROVE  Quiet(Cleared(IF r.root = Nil THEN r ELSE Paint(r, r.root, "black"), x), S \ {x})
<1>1. PICK u : u = Cleared(IF r.root = Nil THEN r ELSE Paint(r, r.root, "black"), x)
  OBVIOUS
<1>2. PICK below, black : Healthy(t, S, below, black, x, c, Nil, {c})
  BY DEF Closing
<1>3. x \in S /\ OneChild(t, x, c)
  BY DEF Closing
<1>4. /\ \E below2, black2 : Healthy(u, S \ {x}, below2, black2, Nil, c, Nil, {})
      /\ Color(u, u.root) = "black"
  BY <1>1, <1>2, <1>3, ReplaceKeeps
<1>5. PICK below2, black2 : Healthy(u, S \ {x}, below2, black2, Nil, c, Nil, {})
  BY <1>4
<1>6. Healthy(u, S \ {x}, below2, black2, Nil, Nil, Nil, {})
  BY <1>5, AnyChild
<1> QED
  BY <1>1, <1>4, <1>6 DEF Quiet

-----------------------------------------------------------------------------
(* The invariant is inductive: it holds at first, and every step keeps it.  *)

\* The empty tree is at rest.
LEMMA EmptyIsQuiet == Quiet(Empty, {})
<1>1. PICK t : t = Empty
  OBVIOUS
<1>2. /\ t \in Trees /\ t.root = Nil
      /\ \A n \in Nodes : /\ t.parent[n] = Nil /\ t.color[n] = "red"
                          /\ t.kids["left"][n] = Nil /\ t.kids["right"][n] = Nil
                          /\ \A side \in Sides : t.kids[side][n] = Nil
  BY <1>1 DEF Empty, Trees, Pointers, Sides, Colors
<1>3. PICK below : below = [n \in Pointers |-> IF n = Nil THEN {} ELSE {n}]
  BY Zenon
<1>4. PICK black : black = [n \in Pointers |-> 1]
  OBVIOUS
<1>5. Nil \notin Nodes /\ Pointers = Nodes \cup {Nil}
  BY NodesAreNumbers
<1>6. /\ below \in [Pointers -> SUBSET Nodes] /\ below[Nil] = {}
      /\ \A n \in Nodes : below[n] = {n}
  BY <1>3, <1>5
<1>7. Shaped(t, {}, below)
  <2>1. IsFiniteSet({})
    BY FS_EmptySet
  <2> QED
    BY <1>2, <1>6, <2>1 DEF Shaped
<1>8. Ordered(t, {}, below, Nil) /\ Reds(t, {}, {})
  BY DEF Ordered, Reds
<1>9. Even(t, black, Nil, Nil, Nil)
  <2>1. black \in [Pointers -> Nat \ {0}] /\ black[Nil] = 1 /\ \A n \in Nodes : black[n] = 1
    BY <1>4, <1>5
  <2>2. ASSUME NEW n \in Nodes, NEW side \in Sides
        PROVE  black[n] = Height(black, t.kids[side][n], Nil) + Weight(t, n)
    <3>1. Height(black, t.kids[side][n], Nil) = 1
      BY <1>2, <2>1 DEF Height
    <3>2. Weight(t, n) = 0
      BY <1>2 DEF Weight
    <3> QED
      BY <2>1, <3>1, <3>2
  <2> QED
    BY <1>5, <2>1, <2>2 DEF Even
<1>10. Color(t, t.root) = "black"
  BY <1>2 DEF Color
<1> QED
  BY <1>1, <1>7, <1>8, <1>9, <1>10 DEF Quiet, Healthy

\* No operation has begun.
LEMMA InitHolds == Init => IInv
<1> SUFFICES ASSUME Init
             PROVE  IInv
  OBVIOUS
<1>1. Quiet(tree, present)
  BY EmptyIsQuiet DEF Init
<1> QED
  BY <1>1 DEF Init, IInv, TypeInv, Sweeping, TreeInv, Stages, Pointers

\* A key that is not found is added.
LEMMA InsertStartKeeps ==
  ASSUME IInv, NEW k \in Nodes, InsertStart(k)
  PROVE  IInv'
<1>1. /\ pc = "idle" /\ sweep = "none" /\ child \in Pointers /\ present \subseteq Nodes
      /\ Quiet(tree, present)
  BY DEF IInv, TypeInv, Sweeping, TreeInv, InsertStart
<1>2. k \notin present /\ k # Nil
  <2>1. Find(tree, k) = IF k \in present THEN k ELSE Nil
    BY <1>1, QuietFinds
  <2> QED
    BY <2>1, NodesAreNumbers DEF InsertStart
<1>3. CASE tree.root = Nil
  <2>1. /\ tree' = Paint([tree EXCEPT !.root = k], k, "red") /\ up' = k /\ pc' = "balance"
        /\ at' = k /\ present' = present \cup {k} /\ child' = child /\ sweep' = sweep
    BY <1>3 DEF InsertStart
  <2>2. Balancing(tree', present', up')
    BY <1>1, <1>3, <2>1, FirstInsert
  <2>3. TypeInv' /\ Sweeping'
    BY <1>1, <2>1 DEF TypeInv, Sweeping, Stages, Pointers
  <2> QED
    BY <2>1, <2>2, <2>3 DEF IInv, TreeInv
<1>4. CASE tree.root # Nil
  <2>1. /\ tree' = Paint(tree, k, "red") /\ up' = tree.root /\ pc' = "insert"
        /\ at' = k /\ present' = present \cup {k} /\ child' = child /\ sweep' = sweep
    BY <1>4 DEF InsertStart
  <2>2. Descending(tree', present', at', up')
    BY <1>1, <1>2, <1>4, <2>1, InsertInto
  <2>3. up' \in Pointers
    <3>1. tree.root \in present \cup {k}
      BY <2>1, <2>2 DEF Descending, OnItsWay
    <3> QED
      BY <1>1, <2>1, <3>1 DEF Pointers
  <2>4. TypeInv' /\ Sweeping'
    BY <1>1, <2>1, <2>3 DEF TypeInv, Sweeping, Stages, Pointers
  <2> QED
    BY <2>1, <2>2, <2>4 DEF IInv, TreeInv
<1> QED
  BY <1>3, <1>4

\* On the way down.
LEMMA DescendKeeps == IInv /\ Descend => IInv'
<1> SUFFICES ASSUME IInv, Descend
             PROVE  IInv'
  OBVIOUS
<1>1. /\ pc = "insert" /\ at \in Pointers /\ child \in Pointers /\ present \subseteq Nodes
      /\ sweep = "none" /\ Descending(tree, present, at, up)
  BY DEF IInv, TypeInv, Sweeping, TreeInv, Descend
<1>2. at \in Nodes
  BY <1>1 DEF Descending
<1>3. PICK m : m = tree.kids[Towards(up, at)][up]
  OBVIOUS
<1>4. /\ m # Nil /\ up' = m /\ tree' = tree /\ present' = present /\ at' = at
      /\ child' = child /\ sweep' = sweep /\ pc' = pc
  BY <1>3 DEF Descend
<1>5. Descending(tree, present, at, m) /\ m \in Nodes
  BY <1>1, <1>2, <1>3, <1>4, DescendOn
<1>6. TypeInv' /\ Sweeping'
  BY <1>1, <1>4, <1>5 DEF TypeInv, Sweeping, Stages, Pointers
<1> QED
  BY <1>1, <1>4, <1>5, <1>6 DEF IInv, TreeInv

\* At its end.
LEMMA AttachKeepsInv == IInv /\ Attach => IInv'
<1> SUFFICES ASSUME IInv, Attach
             PROVE  IInv'
  OBVIOUS
<1>1. /\ pc = "insert" /\ at \in Pointers /\ child \in Pointers /\ present \subseteq Nodes
      /\ sweep = "none" /\ Descending(tree, present, at, up)
  BY DEF IInv, TypeInv, Sweeping, TreeInv, Attach
<1>2. at \in Nodes
  BY <1>1 DEF Descending
<1>3. /\ tree.kids[Towards(up, at)][up] = Nil
      /\ tree' = Linked(tree, Towards(up, at), up, at) /\ up' = at /\ pc' = "balance"
      /\ present' = present /\ at' = at /\ child' = child /\ sweep' = sweep
  BY DEF Attach, Linked
<1>4. Balancing(tree', present', up')
  BY <1>1, <1>2, <1>3, AttachNew
<1>5. TypeInv' /\ Sweeping'
  BY <1>1, <1>3 DEF TypeInv, Sweeping, Stages
<1> QED
  BY <1>3, <1>4, <1>5 DEF IInv, TreeInv

\* Nothing is to be balanced any more.
LEMMA BalancedKeeps == IInv /\ Balanced => IInv'
<1> SUFFICES ASSUME IInv, Balanced
             PROVE  IInv'
  OBVIOUS
<1>1. present \subseteq Nodes /\ sweep = "none" /\ Balancing(tree, present, up)
  BY DEF IInv, TypeInv, Sweeping, TreeInv, Balanced
<1>2. /\ Color(tree, tree.parent[up]) = "black"
      /\ tree' = IF tree.parent[up] = Nil THEN Paint(tree, up, "black") ELSE tree
      /\ up' = Nil /\ child' = Nil /\ pc' = "idle" /\ at' = Nil
      /\ present' = present /\ sweep' = sweep
  BY DEF Balanced, Return
<1>3. Quiet(tree', present')
  BY <1>1, <1>2, BalancedNow
<1>4. TypeInv' /\ Sweeping'
  BY <1>1, <1>2 DEF TypeInv, Sweeping, Stages, Pointers
<1> QED
  BY <1>2, <1>3, <1>4 DEF IInv, TreeInv

\* A red uncle.
LEMMA RecolorKeepsInv == IInv /\ Recolor => IInv'
<1> SUFFICES ASSUME IInv, Recolor
             PROVE  IInv'
  OBVIOUS
<1>1. /\ present \subseteq Nodes /\ sweep = "none" /\ Balancing(tree, present, up)
      /\ at \in Pointers /\ child \in Pointers /\ pc = "balance"
  BY DEF IInv, TypeInv, Sweeping, TreeInv, Recolor
<1>2. /\ Color(tree, tree.parent[up]) = "red"
      /\ Color(tree, Sibling(tree, tree.parent[up])) = "red"
      /\ tree' = Paint(Paint(Paint(tree, tree.parent[up], "black"),
                             Sibling(tree, tree.parent[up]), "black"),
                       Grandparent(tree, up), "red")
      /\ up' = Grandparent(tree, up)
      /\ present' = present /\ at' = at /\ child' = child /\ sweep' = sweep /\ pc' = pc
  BY DEF Recolor, Uncle
<1>3. Balancing(tree', present', up')
  BY <1>1, <1>2, RecoloredNow
<1>4. up' \in Pointers
  BY <1>1, <1>2, <1>3 DEF Balancing, Pointers
<1>5. TypeInv' /\ Sweeping'
  BY <1>1, <1>2, <1>4 DEF TypeInv, Sweeping, Stages
<1> QED
  BY <1>1, <1>2, <1>3, <1>5 DEF IInv, TreeInv

\* A black uncle.
LEMMA RotateUpKeepsInv == IInv /\ RotateUp => IInv'
<1> SUFFICES ASSUME IInv, RotateUp
             PROVE  IInv'
  OBVIOUS
<1>1. present \subseteq Nodes /\ sweep = "none" /\ Balancing(tree, present, up)
  BY DEF IInv, TypeInv, Sweeping, TreeInv, RotateUp
<1>2. /\ Color(tree, tree.parent[up]) = "red"
      /\ Color(tree, Sibling(tree, tree.parent[up])) = "black"
      /\ tree' = LET s == Straightened(tree, up) IN RotatedUp(s.tree, s.node)
      /\ up' = Nil /\ child' = Nil /\ pc' = "idle" /\ at' = Nil
      /\ present' = present /\ sweep' = sweep
  BY DEF RotateUp, Return, Uncle
<1>3. Quiet(tree', present')
  BY <1>1, <1>2, RotatedUpNow
<1>4. TypeInv' /\ Sweeping'
  BY <1>1, <1>2 DEF TypeInv, Sweeping, Stages, Pointers
<1> QED
  BY <1>2, <1>3, <1>4 DEF IInv, TreeInv

\* A key that is found is removed.
LEMMA RemoveStartKeeps ==
  ASSUME IInv, NEW k \in Nodes, RemoveStart(k)
  PROVE  IInv'
<1>1. /\ pc = "idle" /\ sweep = "none" /\ child \in Pointers /\ up \in Pointers
      /\ present \subseteq Nodes /\ Quiet(tree, present)
  BY DEF IInv, TypeInv, Sweeping, TreeInv, RemoveStart
<1>2. k \in present
  <2>1. Find(tree, k) = IF k \in present THEN k ELSE Nil
    BY <1>1, QuietFinds
  <2> QED
    BY <2>1 DEF RemoveStart
<1>3. /\ at' = k /\ pc' = "remove" /\ tree' = tree /\ present' = present
      /\ up' = up /\ child' = child /\ sweep' = sweep
  BY DEF RemoveStart
<1>4. TypeInv' /\ Sweeping'
  BY <1>1, <1>3 DEF TypeInv, Sweeping, Stages, Pointers
<1> QED
  BY <1>1, <1>2, <1>3, <1>4 DEF IInv, TreeInv

\* The node is swapped down, if it has two children.
LEMMA RemoveFoundKeeps == IInv /\ RemoveFound => IInv'
<1> SUFFICES ASSUME IInv, RemoveFound
             PROVE  IInv'
  OBVIOUS
<1>1. /\ pc = "remove" /\ at \in present /\ present \subseteq Nodes /\ Quiet(tree, present)
      /\ at \in Pointers
  BY DEF IInv, TypeInv, TreeInv, RemoveFound
<1>2. PICK t : t = IF tree.kids["left"][at] # Nil /\ tree.kids["right"][at] # Nil
                   THEN SwapNodes(tree, at, Outermost(tree, "right", tree.kids["left"][at]))
                   ELSE tree
  OBVIOUS
<1>3. PICK c : c = IF t.kids["right"][at] # Nil THEN t.kids["right"][at] ELSE t.kids["left"][at]
  BY SMTT(30)
<1>4. /\ child' = c /\ present' = present /\ at' = at /\ sweep' = sweep
      /\ IF Color(t, at) = "black"
         THEN tree' = Paint(t, at, Color(t, c)) /\ up' = at /\ pc' = "rebalance"
         ELSE tree' = t /\ up' = Nil /\ pc' = "replace"
  BY <1>2, <1>3, SMTT(30) DEF RemoveFound, Recolored
<1>5. /\ c \in Pointers
      /\ Color(t, at) = "black" => Climbing(Paint(t, at, Color(t, c)), present, at, c, at)
      /\ Color(t, at) # "black" => Closing(t, present, at, c)
  BY <1>1, <1>2, <1>3, FoundNow
<1>6. Sweeping'
  BY <1>1, <1>4 DEF IInv, Sweeping
<1>7. CASE Color(t, at) = "black"
  <2>1. tree' = Paint(t, at, Color(t, c)) /\ up' = at /\ pc' = "rebalance"
    BY <1>4, <1>7
  <2>2. Climbing(tree', present', at', child', up')
    BY <1>4, <1>5, <1>7, <2>1
  <2>3. TypeInv'
    BY <1>1, <1>4, <1>5, <2>1 DEF TypeInv, Stages
  <2> QED
    BY <1>6, <2>1, <2>2, <2>3 DEF IInv, TreeInv
<1>8. CASE Color(t, at) # "black"
  <2>1. tree' = t /\ up' = Nil /\ pc' = "replace"
    BY <1>4, <1>8
  <2>2. Closing(tree', present', at', child')
    BY <1>4, <1>5, <1>8, <2>1
  <2>3. TypeInv'
    BY <1>1, <1>4, <1>5, <2>1 DEF TypeInv, Stages, Pointers
  <2> QED
    BY <1>6, <2>1, <2>2, <2>3 DEF IInv, TreeInv
<1> QED
  BY <1>7, <1>8

\* What stays the same as long as a node is to be replaced.
LEMMA StillGoing ==
  ASSUME IInv, pc = "rebalance", at' = at, present' = present, child' = child, sweep' = sweep,
         up' \in Pointers, pc' \in {"rebalance", "replace"}
  PROVE  TypeInv' /\ Sweeping'
BY DEF IInv, TypeInv, Sweeping, Stages

\* The climb has reached the root.
LEMMA RebalanceRootKeeps == IInv /\ RebalanceRoot => IInv'
<1> SUFFICES ASSUME IInv, RebalanceRoot
             PROVE  IInv'
  OBVIOUS
<1>1. Climbing(tree, present, at, child, up) /\ tree.parent[up] = Nil /\ pc = "rebalance"
  BY DEF IInv, TreeInv, RebalanceRoot
<1>2. /\ up' = Nil /\ pc' = "replace" /\ tree' = tree /\ present' = present
      /\ at' = at /\ child' = child /\ sweep' = sweep
  BY DEF RebalanceRoot
<1>3. Closing(tree', present', at', child')
  BY <1>1, <1>2, AtTheRoot
<1>4. TypeInv' /\ Sweeping'
  BY <1>1, <1>2, StillGoing DEF Pointers
<1> QED
  BY <1>2, <1>3, <1>4 DEF IInv, TreeInv

\* The black is missing one level further up.
LEMMA RebalanceUpKeeps == IInv /\ RebalanceUp => IInv'
<1> SUFFICES ASSUME IInv, RebalanceUp
             PROVE  IInv'
  OBVIOUS
<1>1. Climbing(tree, present, at, child, up) /\ tree.parent[up] # Nil /\ pc = "rebalance"
  BY DEF IInv, TreeInv, RebalanceUp
<1>2. PICK t : t = Simplified(tree, up)
  OBVIOUS
<1>3. PICK p, s : p = t.parent[up] /\ s = Sibling(t, up)
  OBVIOUS
<1>4. /\ Color(t, p) = "black" /\ BlackFamily(t, up)
      /\ tree' = Paint(t, s, "red") /\ up' = p
      /\ present' = present /\ at' = at /\ child' = child /\ sweep' = sweep /\ pc' = pc
  BY <1>2, <1>3 DEF RebalanceUp
<1>5. p \in Nodes /\ Climbing(Paint(t, s, "red"), present, at, child, p)
  BY <1>1, <1>2, <1>3, <1>4, BlackFamilyNow
<1>6. TypeInv' /\ Sweeping'
  BY <1>1, <1>4, <1>5, StillGoing DEF Pointers
<1>7. Climbing(tree', present', at', child', up')
  BY <1>4, <1>5
<1> QED
  BY <1>1, <1>4, <1>6, <1>7 DEF IInv, TreeInv

\* A red parent makes up for it.
LEMMA RebalanceSwapColorsKeeps == IInv /\ RebalanceSwapColors => IInv'
<1> SUFFICES ASSUME IInv, RebalanceSwapColors
             PROVE  IInv'
  OBVIOUS
<1>1. Climbing(tree, present, at, child, up) /\ tree.parent[up] # Nil /\ pc = "rebalance"
  BY DEF IInv, TreeInv, RebalanceSwapColors
<1>2. PICK t : t = Simplified(tree, up)
  OBVIOUS
<1>3. PICK p, s : p = t.parent[up] /\ s = Sibling(t, up)
  OBVIOUS
<1>4. /\ Color(t, p) = "red" /\ BlackFamily(t, up)
      /\ tree' = Paint(Paint(t, s, "red"), p, "black") /\ up' = Nil
      /\ present' = present /\ at' = at /\ child' = child /\ sweep' = sweep /\ pc' = "replace"
  BY <1>2, <1>3 DEF RebalanceSwapColors
<1>5. Closing(Paint(Paint(t, s, "red"), p, "black"), present, at, child)
  BY <1>1, <1>2, <1>3, <1>4, BlackFamilyNow
<1>6. TypeInv' /\ Sweeping'
  BY <1>1, <1>4, StillGoing DEF Pointers
<1>7. Closing(tree', present', at', child')
  BY <1>4, <1>5
<1> QED
  BY <1>4, <1>6, <1>7 DEF IInv, TreeInv

\* A rotation makes up for it.
LEMMA RebalanceRotateKeeps == IInv /\ RebalanceRotate => IInv'
<1> SUFFICES ASSUME IInv, RebalanceRotate
             PROVE  IInv'
  OBVIOUS
<1>1. Climbing(tree, present, at, child, up) /\ tree.parent[up] # Nil /\ pc = "rebalance"
  BY DEF IInv, TreeInv, RebalanceRotate
<1>2. /\ ~BlackFamily(Simplified(tree, up), up)
      /\ tree' = RotatedDown(FarRed(Simplified(tree, up), up), up)
      /\ up' = Nil /\ pc' = "replace"
      /\ present' = present /\ at' = at /\ child' = child /\ sweep' = sweep
  BY DEF RebalanceRotate
<1>3. Closing(tree', present', at', child')
  BY <1>1, <1>2, RotatedNow
<1>4. TypeInv' /\ Sweeping'
  BY <1>1, <1>2, StillGoing DEF Pointers
<1> QED
  BY <1>2, <1>3, <1>4 DEF IInv, TreeInv

\* The node is unlinked.
LEMMA ReplaceKeepsInv == IInv /\ Replace => IInv'
<1> SUFFICES ASSUME IInv, Replace
             PROVE  IInv'
  OBVIOUS
<1>1. /\ Closing(tree, present, at, child) /\ present \subseteq Nodes /\ at \in Pointers
      /\ pc = "replace" /\ Sweeping
  BY DEF IInv, TypeInv, TreeInv, Replace
<1>2. PICK r : r = ReplaceNode(tree, at, child)
  OBVIOUS
<1>3. /\ tree' = Cleared(IF r.root = Nil THEN r ELSE Paint(r, r.root, "black"), at)
      /\ present' = present \ {at} /\ sweep' = sweep /\ up' = Nil /\ child' = Nil
      /\ pc' = (IF sweep = "none" THEN "idle" ELSE "next")
      /\ at' = (IF pc' = "idle" THEN Nil ELSE at)
  BY <1>2 DEF Replace, Cleared, Return
<1>4. Quiet(tree', present')
  BY <1>1, <1>2, <1>3, ReplacedNow
<1>5. CASE sweep = "none"
  <2>1. pc' = "idle" /\ at' = Nil
    BY <1>3, <1>5
  <2>2. TypeInv' /\ Sweeping'
    BY <1>1, <1>3, <1>5, <2>1 DEF TypeInv, Sweeping, Stages, Pointers
  <2> QED
    BY <1>4, <2>1, <2>2 DEF IInv, TreeInv
<1>6. CASE sweep # "none"
  <2>1. pc' = "next" /\ at' = at
    BY <1>3, <1>6
  <2>2. TypeInv'
    BY <1>1, <1>3, <2>1 DEF TypeInv, Stages, Pointers
  <2>3. Sweeping'
    BY <1>1, <1>3, <1>6, <2>1 DEF Sweeping
  <2> QED
    BY <1>4, <2>1, <2>2, <2>3 DEF IInv, TreeInv
<1> QED
  BY <1>5, <1>6

\* The outermost node on the left is the least.
LEMMA LeftIsLeast ==
  ASSUME NEW m, NEW X, X \subseteq Nodes, Extreme("left", m, X)
  PROVE  m \in X /\ \A i \in X : m <= i
BY NodesAreNumbers DEF Extreme, Before

\* A sweep begins.
LEMMA SweepStartKeeps ==
  ASSUME IInv, NEW how \in {"walk", "empty"}, SweepStart(how)
  PROVE  IInv'
<1>1. /\ pc = "idle" /\ child \in Pointers /\ up \in Pointers
      /\ present \subseteq Nodes /\ Quiet(tree, present) /\ tree.root # Nil
  BY DEF IInv, TypeInv, TreeInv, SweepStart
<1>2. /\ at' = Outermost(tree, "left", tree.root) /\ pc' = "remove" /\ tree' = tree
      /\ present' = present /\ up' = up /\ child' = child /\ sweep' = how
  BY DEF SweepStart
<1>3. Extreme("left", Outermost(tree, "left", tree.root), present)
  BY <1>1, QuietFinds
<1>4. at' \in present /\ \A i \in present : at' <= i
  BY <1>1, <1>2, <1>3, LeftIsLeast
<1>5. TypeInv'
  BY <1>1, <1>2, <1>4 DEF TypeInv, Stages, Pointers
<1>6. Sweeping'
  BY <1>1, <1>2, <1>4 DEF Sweeping
<1> QED
  BY <1>1, <1>2, <1>4, <1>5, <1>6 DEF IInv, TreeInv

\* The next key to be removed is the least there is, if there is any.
LEMMA NextIsLeast ==
  ASSUME IInv, pc = "next"
  PROVE  /\ present = {} <=> NextOf(at) = Nil
         /\ present = {} <=> tree.root = Nil
         /\ present # {} => NextOf(at) \in present /\ \A i \in present : NextOf(at) <= i
<1>1. /\ present \subseteq Nodes /\ Quiet(tree, present) /\ at \in Nodes /\ at \notin present
      /\ \A i \in present : at <= i
      /\ sweep \in {"walk", "empty"}
  BY DEF IInv, TypeInv, Sweeping, TreeInv
<1>2. /\ present = {} <=> tree.root = Nil
      /\ present = {} => Outermost(tree, "left", tree.root) = Nil
      /\ present # {} => Extreme("left", Outermost(tree, "left", tree.root), present)
      /\ IsNext(GetNext(tree, at), present, at)
  BY <1>1, QuietFinds
<1>3. Nil \notin present
  BY <1>1, NodesAreNumbers
<1>4. CASE sweep = "walk"
  <2>1. PICK n : n = GetNext(tree, at) /\ NextOf(at) = n
    BY <1>4 DEF NextOf
  <2>2. Later(present, at) = present
    <3>1. \A i \in present : i > at
      BY <1>1, NodesAreNumbers
    <3> QED
      BY <3>1 DEF Later
  <2>3. IF present = {} THEN n = Nil ELSE n \in present /\ \A i \in present : n <= i
    BY <1>2, <2>1, <2>2 DEF IsNext
  <2> QED
    BY <1>2, <1>3, <2>1, <2>3
<1>5. CASE sweep = "empty"
  <2>1. PICK n : n = Outermost(tree, "left", tree.root) /\ NextOf(at) = n
    BY <1>5 DEF NextOf
  <2>2. present # {} => n \in present /\ \A i \in present : n <= i
    BY <1>1, <1>2, <2>1, LeftIsLeast
  <2> QED
    BY <1>2, <1>3, <2>1, <2>2
<1> QED
  BY <1>1, <1>4, <1>5

\* A sweep goes on or ends.
LEMMA SweepNextKeeps == IInv /\ SweepNext => IInv'
<1> SUFFICES ASSUME IInv, SweepNext
             PROVE  IInv'
  OBVIOUS
<1>1. /\ pc = "next" /\ child \in Pointers /\ up \in Pointers
      /\ present \subseteq Nodes /\ Quiet(tree, present) /\ sweep \in {"walk", "empty"}
  BY DEF IInv, TypeInv, Sweeping, TreeInv, SweepNext
<1>2. PICK n : n = NextOf(at)
  OBVIOUS
<1>3. /\ at' = n /\ pc' = (IF n = Nil THEN "idle" ELSE "remove")
      /\ sweep' = (IF n = Nil THEN "none" ELSE sweep)
      /\ tree' = tree /\ present' = present /\ up' = up /\ child' = child
  BY <1>2 DEF SweepNext
<1>4. /\ present = {} <=> n = Nil
      /\ present # {} => n \in present /\ \A i \in present : n <= i
  BY <1>1, <1>2, NextIsLeast
<1>5. CASE n = Nil
  <2>1. pc' = "idle" /\ sweep' = "none"
    BY <1>3, <1>5
  <2>2. TypeInv' /\ Sweeping'
    BY <1>1, <1>3, <1>5, <2>1 DEF TypeInv, Sweeping, Stages, Pointers
  <2> QED
    BY <1>1, <1>3, <2>1, <2>2 DEF IInv, TreeInv
<1>6. CASE n # Nil
  <2>1. pc' = "remove" /\ sweep' = sweep
    BY <1>3, <1>6
  <2>2. TypeInv'
    BY <1>1, <1>3, <1>4, <1>6, <2>1 DEF TypeInv, Stages, Pointers
  <2>3. Sweeping'
    BY <1>1, <1>3, <1>4, <1>6, <2>1 DEF Sweeping
  <2> QED
    BY <1>1, <1>3, <1>4, <1>6, <2>1, <2>2, <2>3 DEF IInv, TreeInv
<1> QED
  BY <1>5, <1>6

\* Every step keeps the invariant.
LEMMA NextHolds == IInv /\ [Next]_vars => IInv'
<1> SUFFICES ASSUME IInv, [Next]_vars
             PROVE  IInv'
  OBVIOUS
<1>1. ASSUME NEW k \in Nodes, InsertStart(k) \/ RemoveStart(k)
      PROVE  IInv'
  BY <1>1, InsertStartKeeps, RemoveStartKeeps
<1>2. ASSUME NEW how \in {"walk", "empty"}, SweepStart(how)
      PROVE  IInv'
  BY <1>2, SweepStartKeeps
<1>3. CASE Step
  BY <1>3, DescendKeeps, AttachKeepsInv, BalancedKeeps, RecolorKeepsInv, RotateUpKeepsInv,
     RemoveFoundKeeps, RebalanceRootKeeps, RebalanceUpKeeps, RebalanceSwapColorsKeeps,
     RebalanceRotateKeeps, ReplaceKeepsInv, SweepNextKeeps DEF Step
<1>4. CASE UNCHANGED vars
  BY <1>4 DEF vars, IInv, TypeInv, Sweeping, TreeInv
<1> QED
  BY <1>1, <1>2, <1>3, <1>4 DEF Next

-----------------------------------------------------------------------------
(* What follows from the invariant.                                        *)

\* Between operations, keys are found that are there, and the next one is the next.
LEMMA QuietFindsThem ==
  ASSUME NEW t, NEW S, Quiet(t, S), NEW k \in Nodes
  PROVE  /\ Find(t, k) = (IF k \in S THEN k ELSE Nil)
         /\ LET later == {j \in S : j > k}
            IN  GetNext(t, k) = IF later = {} THEN Nil
                                ELSE CHOOSE j \in later : \A i \in later : j <= i
<1>1. S \subseteq Nodes /\ IsNext(GetNext(t, k), S, k) /\ Find(t, k) = IF k \in S THEN k ELSE Nil
  BY QuietFinds
<1>2. PICK later, n : later = {j \in S : j > k} /\ n = GetNext(t, k)
  OBVIOUS
<1>3. Later(S, k) = later
  BY <1>2 DEF Later
<1>4. CASE later = {}
  <2>1. n = Nil
    BY <1>1, <1>2, <1>3, <1>4 DEF IsNext
  <2> QED
    BY <1>1, <1>2, <1>4, <2>1
<1>5. CASE later # {}
  <2>1. n \in later /\ \A i \in later : n <= i
    BY <1>1, <1>2, <1>3, <1>5 DEF IsNext
  <2>2. later \subseteq Nat
    BY <1>1, <1>2, NodesAreNumbers
  <2>3. \A j \in later : (\A i \in later : j <= i) => j = n
    BY <2>1, <2>2
  <2>4. (CHOOSE j \in later : \A i \in later : j <= i) = n
    BY <2>1, <2>3
  <2> QED
    BY <1>1, <1>2, <1>5, <2>4
<1> QED
  BY <1>4, <1>5

\* Between operations, what tree_verify asserts holds.
LEMMA QuietVerifies ==
  ASSUME NEW t, NEW S, Quiet(t, S)
  PROVE  /\ t.root # Nil => t.parent[t.root] = Nil
         /\ \A n \in S, side \in Sides :
              t.kids[side][n] # Nil => t.parent[t.kids[side][n]] = n
         /\ Color(t, t.root) = "black"
         /\ \A n \in S :
              /\ t.color[n] = "red" =>
                   \A m \in {t.parent[n], t.kids["left"][n], t.kids["right"][n]} :
                     Color(t, m) = "black"
              /\ t.parent[n] # Nil =>
                   n \in {t.kids["left"][t.parent[n]], t.kids["right"][t.parent[n]]}
         /\ BlackPath(t) # -1
<1>1. PICK below, black : Healthy(t, S, below, black, Nil, Nil, Nil, {})
  BY DEF Quiet
<1>2. /\ Shaped(t, S, below) /\ Even(t, black, Nil, Nil, Nil) /\ Reds(t, S, {})
      /\ S \subseteq Nodes /\ t \in Trees
  BY <1>1, HealthyIs
<1>3. BlackPath(t) # -1
  BY <1>2, BlackPathIs
<1>4. Color(t, t.root) = "black"
  BY DEF Quiet
<1>5. t.root # Nil => t.parent[t.root] = Nil
  <2>1. t.root \in Pointers
    BY <1>2 DEF Trees
  <2>2. CASE t.root \in Nodes
    BY <1>2, <2>2, ParentOf
  <2> QED
    BY <2>1, <2>2, NodesAreNumbers
<1>6. ASSUME NEW n \in S, NEW side \in Sides, t.kids[side][n] # Nil
      PROVE  t.parent[t.kids[side][n]] = n /\ t.kids[side][n] \in S
  <2>1. n \in Nodes
    BY <1>2
  <2> QED
    BY <1>2, <1>6, <2>1, KidBelow
<1>7. ASSUME NEW n \in S, t.color[n] = "red"
      PROVE  /\ Color(t, t.parent[n]) = "black"
             /\ \A side \in Sides : Color(t, t.kids[side][n]) = "black"
  <2>1. Color(t, t.parent[n]) = "black"
    BY <1>2, <1>7 DEF Reds
  <2>2. ASSUME NEW side \in Sides
        PROVE  Color(t, t.kids[side][n]) = "black"
    <3>1. CASE t.kids[side][n] = Nil
      BY <3>1 DEF Color
    <3>2. CASE t.kids[side][n] # Nil
      <4>1. PICK m \in S : m = t.kids[side][n] /\ t.parent[m] = n
        BY <1>6, <3>2
      <4>2. m \in Nodes /\ n \in Nodes /\ m # Nil /\ n # Nil
        BY <1>2, NodesAreNumbers
      <4>3. Color(t, n) = "red"
        BY <1>7, <4>2 DEF Color
      <4>4. t.color[m] # "red"
        BY <1>2, <4>1, <4>3 DEF Reds
      <4>5. Color(t, m) = "black"
        BY <1>2, <4>2, <4>4 DEF Color, Trees, Colors
      <4> QED
        BY <4>1, <4>5
    <3> QED
      BY <3>1, <3>2
  <2> QED
    BY <2>1, <2>2
<1>8. ASSUME NEW n \in S, t.parent[n] # Nil
      PROVE  n \in {t.kids["left"][t.parent[n]], t.kids["right"][t.parent[n]]}
  <2>1. \E side \in Sides : t.kids[side][t.parent[n]] = n
    BY <1>2, <1>8, ParentOf
  <2> QED
    BY <2>1 DEF Sides
<1>9. "left" \in Sides /\ "right" \in Sides
  BY DEF Sides
<1> QED
  BY <1>3, <1>4, <1>5, <1>6, <1>7, <1>8, <1>9

-----------------------------------------------------------------------------
(* The theorems.                                                           *)

\* The tree is at every moment what the stage of the operation makes of it.
THEOREM Invariance == Spec => []IInv
BY InitHolds, NextHolds, PTL DEF Spec

\* Between operations a key is found exactly if it was inserted and not removed,
\* and tree_get_next of any key is the next one that is there.
THEOREM KeysAreFound == Spec => []FindsWhatIsThere
<1>1. IInv => FindsWhatIsThere
  <2> SUFFICES ASSUME IInv, pc = "idle", NEW k \in Nodes
               PROVE  /\ Find(tree, k) = (IF k \in present THEN k ELSE Nil)
                      /\ LET later == {j \in present : j > k}
                         IN  GetNext(tree, k) = IF later = {} THEN Nil
                                                ELSE CHOOSE j \in later : \A i \in later : j <= i
    BY DEF FindsWhatIsThere
  <2>1. Quiet(tree, present)
    BY DEF IInv, TreeInv
  <2> QED
    BY <2>1, QuietFindsThem
<1> QED
  BY <1>1, Invariance, PTL

\* After each insertion and removal the nodes are linked both ways, and what
\* tree_verify asserts holds.
THEOREM TreeStaysRedBlack == Spec => []RedBlack
<1>1. IInv => RedBlack
  <2> SUFFICES ASSUME IInv, pc = "idle"
               PROVE  /\ tree.root # Nil => tree.parent[tree.root] = Nil
                      /\ \A n \in present, side \in Sides :
                           tree.kids[side][n] # Nil => tree.parent[tree.kids[side][n]] = n
                      /\ TreeVerify(tree)
    BY DEF RedBlack
  <2>1. Quiet(tree, present)
    BY DEF IInv, TreeInv
  <2>2. /\ tree.root # Nil => tree.parent[tree.root] = Nil
        /\ \A n \in present, side \in Sides :
             tree.kids[side][n] # Nil => tree.parent[tree.kids[side][n]] = n
    BY <2>1, QuietVerifies
  <2>3. TreeVerify(tree)
    BY <2>1, QuietVerifies DEF TreeVerify
  <2> QED
    BY <2>2, <2>3
<1> QED
  BY <1>1, Invariance, PTL

\* In tree_black_node_removed there is always a sibling, and if a rotation is due,
\* its far child is red.
THEOREM FarChildIsRed == Spec => []AssertionsHold
<1>1. IInv => AssertionsHold
  <2> SUFFICES ASSUME IInv, pc = "rebalance", tree.parent[up] # Nil
               PROVE  /\ Sibling(tree, up) # Nil
                      /\ LET t == Simplified(tree, up)
                             u == FarRed(t, up)
                             far == u.kids[Other(SideOf(u, up))][Sibling(u, up)]
                         IN  BlackFamily(t, up) \/ Color(u, far) = "red"
    BY DEF AssertionsHold
  <2>1. Climbing(tree, present, at, child, up)
    BY DEF IInv, TreeInv
  <2> QED
    BY <2>1, Asserted
<1> QED
  BY <1>1, Invariance, PTL

\* When a sweep ends the tree is empty, though each removal has reshaped the tree
\* it goes through.
THEOREM SweepsLeaveNothing == Spec => SweepRemovesAll
<1> DEFINE A == pc = "next" /\ pc' = "idle" => tree.root = Nil /\ present = {}
<1>1. IInv /\ [Next]_vars => [A]_vars
  <2> SUFFICES ASSUME IInv, Next, pc = "next", pc' = "idle"
               PROVE  tree.root = Nil /\ present = {}
    OBVIOUS
  <2>1. SweepNext
    BY DEF Next, Step, InsertStart, RemoveStart, SweepStart, Descend, Attach, Balanced, Recolor,
           RotateUp, RemoveFound, RebalanceRoot, RebalanceUp, RebalanceSwapColors,
           RebalanceRotate, Replace
  <2>2. NextOf(at) = Nil
    BY <2>1 DEF SweepNext
  <2> QED
    BY <2>2, NextIsLeast
<1> QED
  BY <1>1, Invariance, PTL DEF Spec, SweepRemovesAll
=============================================================================
