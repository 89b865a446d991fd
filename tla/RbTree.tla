------------------------------- MODULE RbTree -------------------------------
(***************************************************************************)
(* The out-of-line half of std::map in hle_cxx.c: stepping an iterator and *)
(* inserting with rebalancing, on the guest's nodes in place.  The guest   *)
(* has the descent inlined and calls for the rest.                         *)
(*                                                                         *)
(* A node is named by its key.  left and right are mirror images, so what  *)
(* the code spells out twice takes the side as a parameter here.           *)
(***************************************************************************)
EXTENDS Integers

CONSTANTS TreeSize,  \* bound: keys are 1..TreeSize
          RED, BLACK

ASSUME TreeAssumption == TreeSize \in Nat /\ RED # BLACK

VARIABLES
  node,  \* colour, parent, left and right of the header and of each node
  it     \* an iterator the guest holds

treeVars == <<node, it>>

NIL == 0
HEADER == TreeSize + 1
Keys == 1..TreeSize
Nodes == Keys \cup {HEADER}
In == {k \in Keys : node[k].parent # NIL}

TreeInit ==
  /\ node = [n \in Nodes |->
               IF n = HEADER
               THEN [colour |-> RED, parent |-> NIL, left |-> HEADER, right |-> HEADER]
               ELSE [colour |-> RED, parent |-> NIL, left |-> NIL, right |-> NIL]]
  /\ it = HEADER

Other(side) == IF side = "left" THEN "right" ELSE "left"

----------------------------------------------------------------------------
\* A loop goes on by step until it stays.  None passes more than every node.
Loop(start, step) ==
  LET at[i \in 0..HEADER] == IF i = 0 THEN start ELSE step[at[i - 1]]
  IN  at[CHOOSE i \in 0..HEADER : step[at[i]] = at[i]]

\* Down one side to its end.
Farthest(x, side) ==
  Loop(x, [y \in Nodes |-> IF node[y][side] = NIL THEN y ELSE node[y][side]])

\* Up while x is the child on that side: where the climb ended, and from where.
Climb(x, y, side) ==
  Loop(<<x, y>>, [c \in Nodes \X Nodes |->
                    IF c[1] = node[c[2]][side] THEN <<c[2], node[c[2]].parent>> ELSE c])

\* The last test is for a root that is the last member: its successor is the
\* header, where the climb began to go round.
RbIncrement(x) ==
  IF node[x].right # NIL THEN Farthest(node[x].right, "left")
  ELSE LET end == Climb(x, node[x].parent, "right")
       IN  IF node[end[1]].right # end[2] THEN end[2] ELSE end[1]

\* The header is told by its colour: red, and its own grandparent.
IsHeader(x) == node[x].colour = RED /\ node[node[x].parent].parent = x

\* Mutant: end() is not told from a member.
RbDecrementPlain(x) ==
  IF node[x].left # NIL THEN Farthest(node[x].left, "right")
  ELSE Climb(x, node[x].parent, "left")[2]

RbDecrement(x) ==
  IF IsHeader(x) THEN node[x].right
  ELSE IF node[x].left # NIL THEN Farthest(node[x].left, "right")
  ELSE Climb(x, node[x].parent, "left")[2]

----------------------------------------------------------------------------
\* t is a tree under repair: the nodes, and the root, which the header is told
\* of only at the end.
Turned(nd, x, y, side) ==
  LET inner == nd[y][side]
      turned == [nd EXCEPT ![x][Other(side)] = inner, ![x].parent = y,
                           ![y][side] = x, ![y].parent = nd[x].parent]
  IN  IF inner = NIL THEN turned ELSE [turned EXCEPT ![inner].parent = x]

Rotate(t, x, side) ==
  LET y == t.node[x][Other(side)]
      up == t.node[x].parent
      place == IF t.node[up][side] = x THEN side ELSE Other(side)
      turned == Turned(t.node, x, y, side)
  IN  IF x = t.root THEN [node |-> turned, root |-> y]
      ELSE [t EXCEPT !.node = [turned EXCEPT ![up][place] = y]]

\* Link the new node under p; the header keeps tracking the extremes.
Linked(left, x, p) ==
  LET side == IF left THEN "left" ELSE "right"
      fresh == [node EXCEPT ![x] = [colour |-> RED, parent |-> p, left |-> NIL, right |-> NIL],
                            ![p][side] = x]
  IN  IF p = HEADER /\ left
      THEN [node |-> [fresh EXCEPT ![HEADER].parent = x, ![HEADER].right = x], root |-> x]
      ELSE [node |-> IF p = node[HEADER][side] THEN [fresh EXCEPT ![HEADER][side] = x]
                     ELSE fresh,
            root |-> node[HEADER].parent]

\* Back up from x while its parent is red: a red uncle moves the problem up, a
\* black one ends it with a rotation or two.
Parent(t, x) == t.node[x].parent
Grand(t, x) == Parent(t, Parent(t, x))
Side(t, x) == IF t.node[Parent(t, x)].left = x THEN "left" ELSE "right"
Uncle(t, x) == t.node[Grand(t, x)][Other(Side(t, Parent(t, x)))]
Clash(t, x) == x # t.root /\ t.node[Parent(t, x)].colour = RED
RedUncle(t, x) == Uncle(t, x) # NIL /\ t.node[Uncle(t, x)].colour = RED

Recoloured(t, x) ==
  [t EXCEPT !.node[Parent(t, x)].colour = BLACK, !.node[Uncle(t, x)].colour = BLACK,
            !.node[Grand(t, x)].colour = RED]

Rotated(t, x) ==
  LET p == Parent(t, x)
      side == Side(t, p)
      inner == x = t.node[p][Other(side)]
      s == IF inner THEN Rotate(t, p, side) ELSE t
      top == IF inner THEN x ELSE p
  IN  Rotate([s EXCEPT !.node[top].colour = BLACK, !.node[Grand(t, x)].colour = RED],
             Grand(t, x), Other(side))

Node == [colour : {RED, BLACK}, parent : 0..HEADER, left : 0..HEADER, right : 0..HEADER]
Trees == [node : [Nodes -> Node], root : Nodes]

Restored(t, x) ==
  LET end == Loop(<<t, x>>, [r \in Trees \X Nodes |->
                               IF Clash(r[1], r[2]) /\ RedUncle(r[1], r[2])
                               THEN <<Recoloured(r[1], r[2]), Grand(r[1], r[2])>> ELSE r])
  IN  IF Clash(end[1], end[2]) THEN Rotated(end[1], end[2]) ELSE end[1]

\* Mutant: a stub that links and leaves the colours.
InsertOnly(left, x, p) ==
  LET t == Linked(left, x, p)
  IN  node' = [t.node EXCEPT ![HEADER].parent = t.root]

InsertAndRebalance(left, x, p) ==
  LET t == Restored(Linked(left, x, p), x)
  IN  node' = [t.node EXCEPT ![t.root].colour = BLACK, ![HEADER].parent = t.root]

----------------------------------------------------------------------------
\* The guest's inlined descent: the node to link under.
Below(x, k) ==
  LET Next(y) == IF k < y THEN node[y].left ELSE node[y].right
  IN  Loop(x, [y \in Keys |-> IF Next(y) = NIL THEN y ELSE Next(y)])

Insert(k) ==
  /\ k \notin In
  /\ LET p == IF node[HEADER].parent = NIL THEN HEADER ELSE Below(node[HEADER].parent, k)
     IN  InsertAndRebalance(p = HEADER \/ k < p, k, p)
  /\ UNCHANGED it

Begin == it' = node[HEADER].left /\ UNCHANGED node
Forward == it # HEADER /\ it' = RbIncrement(it) /\ UNCHANGED node

\* Before the first member is where no iterator of C++ may go.
Backward ==
  /\ it # node[HEADER].left
  /\ it' = RbDecrement(it)
  /\ UNCHANGED node

TreeNext == (\E k \in Keys : Insert(k)) \/ Begin \/ Forward \/ Backward

TreeSpec == TreeInit /\ [][TreeNext]_treeVars

----------------------------------------------------------------------------
TreeTypeOK ==
  /\ node \in [Nodes -> Node]
  /\ it \in In \cup {HEADER}

\* The black nodes on the way from x up to the root.
Blacks(x) ==
  Loop(<<x, 0>>, [c \in Nodes \X Nat |->
                    IF c[1] = HEADER THEN c
                    ELSE <<node[c[1]].parent,
                           c[2] + IF node[c[1]].colour = BLACK THEN 1 ELSE 0>>])[2]
Ends == {k \in In : NIL \in {node[k].left, node[k].right}}

\* After any insertions no red node has a red parent and every path down has
\* as many black nodes, so the tree an erase will walk is a red-black tree and
\* never a list; the links up and down agree, and no step of an iterator
\* stands still.
TreeBalanced ==
  /\ \A k, m \in Ends : Blacks(k) = Blacks(m)
  /\ In # {} => node[node[HEADER].parent].colour = BLACK
  /\ \A k \in In :
       LET p == node[k].parent IN
       /\ p # HEADER => k \in {node[p].left, node[p].right}
       /\ node[k].colour = RED => node[p].colour = BLACK
       /\ RbIncrement(k) # k
       /\ k # node[HEADER].left => RbDecrement(k) # k

\* To the guest it is an ordered set, whose iterators stay good.
Ordered == INSTANCE OrderedSet WITH END <- HEADER, members <- In, cursor <- it
ImplementsOrderedSet == Ordered!OrderedSetSpec
=============================================================================
