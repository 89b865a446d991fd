---------------------------- MODULE RbTree_proofs ----------------------------
(***************************************************************************)
(* Theorems about RbTree, for any number of keys: after any insertions the *)
(* tree is balanced, and to the guest it is an ordered set whose iterators *)
(* step to the neighbour.                                                  *)
(*                                                                         *)
(* The invariant gives each member k the open interval from lo[k] to hi[k] *)
(* that its subtree has to itself, and the number h[k] of black nodes on   *)
(* every way down from it.  The intervals make a tree of the links without *)
(* any recursion: a child halves its parent's, and intervals of different  *)
(* members are nested or apart.  An iterator climbs to a bound; a descent  *)
(* ends in a gap; a rotation gives two nodes each other's bounds; a repair *)
(* moves along widening intervals, so it ends.                             *)
(*                                                                         *)
(* Lemmas about one side are followed by those about the other, letter by  *)
(* letter the mirror image.                                                *)
(***************************************************************************)
EXTENDS RbTree, SequenceTheorems, WellFoundedInduction, TLAPS

(***************************************************************************)
(* Induction.  The library states it with an operator for the property,    *)
(* which the provers cannot instantiate; a set of numbers serves as well.  *)
(***************************************************************************)

\* A set of numbers has a least one.
LEMMA LeastNat ==
  ASSUME NEW T \in SUBSET Nat, T # {}
  PROVE  \E n \in T : \A m \in T : n <= m
<1> DEFINE R == {p \in Nat \X Nat : p[1] < p[2]}
<1>1. IsWellFoundedOn(R, Nat)
  <2>1. IsWellFoundedOn(OpToRel(<, Nat), Nat)
    BY NatLessThanWellFounded
  <2> QED BY <2>1 DEF OpToRel
<1> HIDE DEF R
<1>2. \E x \in T : \A y \in T : ~ (<<y, x>> \in R)
  BY <1>1, WFMin
<1>3. ASSUME NEW n \in T, NEW m \in T, <<m, n>> \notin R PROVE n <= m
  <2>1. m \in Nat /\ n \in Nat /\ <<m, n>> \in Nat \X Nat
    OBVIOUS
  <2>2. <<m, n>>[1] = m /\ <<m, n>>[2] = n
    OBVIOUS
  <2>3. ~(<<m, n>>[1] < <<m, n>>[2])
    BY <1>3, <2>1, Zenon DEF R
  <2> QED
    BY <2>1, <2>2, <2>3
<1> QED
  BY <1>2, <1>3

\* A set that holds zero, and with a number the next one, holds all.
LEMMA SetInduction ==
  ASSUME NEW S, 0 \in S, \A n \in Nat : n \in S => n + 1 \in S
  PROVE  Nat \subseteq S
<1> SUFFICES ASSUME Nat \ S # {} PROVE FALSE
  OBVIOUS
<1>1. PICK n \in Nat \ S : \A m \in Nat \ S : n <= m
  BY LeastNat
<1>2. n # 0 /\ n - 1 \in Nat
  BY <1>1
<1>3. n - 1 \in S
  BY <1>1, <1>2
<1> QED
  BY <1>1, <1>2, <1>3

\* f starts at base and goes on by F.
Unfolds(f, n, V, base, F) ==
  f \in [0..n -> V] /\ f[0] = base /\ \A i \in 1..n : f[i] = F[<<i, f[i - 1]>>]

\* What a recursion over a range of numbers defines.
LEMMA Recursion ==
  ASSUME NEW V, NEW base \in V, NEW n \in Nat, NEW F \in [(1..n) \X V -> V]
  PROVE  \E f : Unfolds(f, n, V, base, F)
<1> DEFINE Upto(m) == \E f \in [0..m -> V] : f[0] = base
      /\ \A i \in 1..m : f[i] = F[<<i, f[i - 1]>>]
           S == {m \in Nat : m <= n => Upto(m)}
<1>1. 0 \in S
  <2>1. [i \in 0..0 |-> base] \in [0..0 -> V] /\ [i \in 0..0 |-> base][0] = base
    OBVIOUS
  <2>2. 1..0 = {}
    OBVIOUS
  <2> QED
    BY <2>1, <2>2
<1>2. ASSUME NEW m \in Nat, m \in S PROVE m + 1 \in S
  <2> SUFFICES ASSUME m + 1 <= n PROVE Upto(m + 1)
    OBVIOUS
  <2>1. PICK f \in [0..m -> V] : f[0] = base /\ \A i \in 1..m : f[i] = F[<<i, f[i - 1]>>]
    BY <1>2
  <2> DEFINE g == [i \in 0..m + 1 |-> IF i = m + 1 THEN F[<<m + 1, f[m]>>] ELSE f[i]]
  <2>2. f[m] \in V /\ <<m + 1, f[m]>> \in (1..n) \X V
    OBVIOUS
  <2>3. g \in [0..m + 1 -> V]
    BY <2>2
  <2>4. g[0] = base
    BY <2>1
  <2>5. ASSUME NEW i \in 1..m + 1 PROVE g[i] = F[<<i, g[i - 1]>>]
    <3>1. CASE i = m + 1
      <4>1. g[i] = F[<<m + 1, f[m]>>] /\ g[i - 1] = f[m]
        BY <3>1
      <4> QED
        BY <3>1, <4>1
    <3>2. CASE i # m + 1
      <4>1. g[i] = f[i] /\ g[i - 1] = f[i - 1] /\ i \in 1..m
        BY <3>2
      <4> QED
        BY <2>1, <4>1
    <3> QED
      BY <3>1, <3>2
  <2> QED
    BY <2>3, <2>4, <2>5
<1> HIDE DEF S
<1>3. n \in S
  BY <1>1, <1>2, SetInduction
<1> QED
  BY <1>3 DEF S, Unfolds

LEMMA Size == TreeSize \in Nat /\ HEADER \in Nat \ {0} /\ HEADER = TreeSize + 1 /\ NIL = 0
BY TreeAssumption DEF HEADER, NIL

\* A loop within a set, whose steps count down, ends there.
LEMMA LoopEnds ==
  ASSUME NEW Q, NEW step, NEW q \in Q, NEW m \in [Q -> 0..HEADER],
         \A r \in Q : step[r] \in Q /\ (step[r] # r => m[step[r]] < m[r])
  PROVE  Loop(q, step) \in Q /\ step[Loop(q, step)] = Loop(q, step)
<1>0. PICK n \in Nat : n = HEADER
  BY Size
<1>1. PICK F \in [(1..n) \X Q -> Q] : \A i \in 1..n : \A v \in Q : F[<<i, v>>] = step[v]
  <2> DEFINE G == [p \in (1..n) \X Q |-> step[p[2]]]
  <2>1. G \in [(1..n) \X Q -> Q]
    OBVIOUS
  <2>2. \A i \in 1..n : \A v \in Q : G[<<i, v>>] = step[v]
    OBVIOUS
  <2> QED
    BY <2>1, <2>2
<1>2. PICK f : Unfolds(f, n, Q, q, F)
  BY Recursion, Zenon
<1>3. f \in [0..n -> Q] /\ f[0] = q
  BY <1>2 DEF Unfolds
<1>4. ASSUME NEW i \in 1..n PROVE i - 1 \in 0..n /\ f[i] = step[f[i - 1]]
  <2>1. i - 1 \in 0..n
    OBVIOUS
  <2>2. f[i - 1] \in Q
    BY <1>3, <2>1
  <2>3. f[i] = F[<<i, f[i - 1]>>]
    BY <1>2 DEF Unfolds
  <2> QED
    BY <1>1, <2>1, <2>2, <2>3
<1> DEFINE Body(g) == [i \in 0..n |-> IF i = 0 THEN q ELSE step[g[i - 1]]]
           C == CHOOSE g : g = Body(g)
<1>5. f = Body(f)
  <2>1. \A i \in 0..n : f[i] = IF i = 0 THEN q ELSE step[f[i - 1]]
    <3> SUFFICES ASSUME NEW i \in 0..n PROVE f[i] = IF i = 0 THEN q ELSE step[f[i - 1]]
      OBVIOUS
    <3>1. i # 0 => i \in 1..n
      OBVIOUS
    <3> QED
      BY <1>3, <1>4, <3>1, Zenon
  <2> QED
    BY <1>3, <2>1
<1>6. C = Body(C)
  BY <1>5
<1>7. Loop(q, step) = C[CHOOSE i \in 0..n : step[C[i]] = C[i]]
  BY <1>0 DEF Loop
<1> HIDE DEF C
<1>8. \A i \in 0..n : C[i] = IF i = 0 THEN q ELSE step[C[i - 1]]
  BY <1>6
<1>9. ASSUME NEW i \in Nat, i <= n PROVE C[i] = f[i]
  <2> DEFINE S == {j \in Nat : j <= n => C[j] = f[j]}
  <2>1. 0 \in S
    BY <1>3, <1>8
  <2>2. ASSUME NEW j \in Nat, j \in S PROVE j + 1 \in S
    <3> SUFFICES ASSUME j + 1 <= n PROVE C[j + 1] = f[j + 1]
      OBVIOUS
    <3>1. j + 1 \in 1..n /\ j + 1 \in 0..n /\ (j + 1) - 1 = j /\ j + 1 # 0 /\ C[j] = f[j]
      BY <2>2
    <3> QED
      BY <1>4, <1>8, <3>1
  <2> HIDE DEF S
  <2>3. i \in S
    BY <2>1, <2>2, SetInduction
  <2> QED
    BY <1>9, <2>3 DEF S
<1>10. \E i \in 0..n : step[f[i]] = f[i]
  <2> SUFFICES ASSUME \A i \in 0..n : step[f[i]] # f[i] PROVE FALSE
    OBVIOUS
  <2> DEFINE S == {j \in Nat : j <= n => m[f[j]] <= n - j}
  <2>1. 0 \in S
    <3>1. m[q] \in 0..n
      BY <1>0
    <3> QED
      BY <1>3, <3>1
  <2>2. ASSUME NEW j \in Nat, j \in S PROVE j + 1 \in S
    <3> SUFFICES ASSUME j + 1 <= n PROVE m[f[j + 1]] <= n - (j + 1)
      OBVIOUS
    <3>1. j + 1 \in 1..n /\ j \in 0..n /\ (j + 1) - 1 = j
      OBVIOUS
    <3>2. f[j] \in Q /\ f[j + 1] = step[f[j]] /\ step[f[j]] # f[j]
      BY <1>3, <1>4, <3>1
    <3>3. step[f[j]] \in Q /\ m[step[f[j]]] < m[f[j]]
      BY <3>2
    <3>4. m[f[j]] \in 0..n /\ m[f[j + 1]] \in 0..n /\ m[f[j + 1]] < m[f[j]]
      BY <1>0, <3>2, <3>3
    <3>5. m[f[j]] <= n - j
      BY <2>2
    <3> QED
      BY <3>4, <3>5
  <2> HIDE DEF S
  <2>3. n \in S
    BY <2>1, <2>2, SetInduction
  <2>4. m[f[n]] <= n - n
    BY <2>3 DEF S
  <2>5. n \in 0..n /\ f[n] \in Q
    BY <1>3
  <2>6. step[f[n]] \in Q /\ m[step[f[n]]] < m[f[n]]
    BY <2>5
  <2>7. m[f[n]] \in 0..n /\ m[step[f[n]]] \in 0..n
    BY <1>0, <2>5, <2>6
  <2> QED
    BY <2>4, <2>6, <2>7
<1>11. PICK i \in 0..n : step[C[i]] = C[i] /\ Loop(q, step) = C[i]
  <2>1. \E i \in 0..n : step[C[i]] = C[i]
    BY <1>9, <1>10
  <2> QED
    BY <1>7, <2>1
<1>12. C[i] = f[i] /\ f[i] \in Q
  BY <1>3, <1>9
<1> QED
  BY <1>11, <1>12

----------------------------------------------------------------------------
(* The shape of the tree.                                                 *)

LeftSide(nd, M, lo, hi, k) ==
  IF nd[k].left = NIL THEN \A m \in M : m <= lo[k] \/ k <= m
  ELSE nd[k].left \in M /\ nd[nd[k].left].parent = k /\ lo[nd[k].left] = lo[k] /\ hi[nd[k].left] = k
RightSide(nd, M, lo, hi, k) ==
  IF nd[k].right = NIL THEN \A m \in M : m <= k \/ hi[k] <= m
  ELSE nd[k].right \in M /\ nd[nd[k].right].parent = k /\ lo[nd[k].right] = k /\ hi[nd[k].right] = hi[k]
Apart(lo, hi, j, k) ==
  \/ lo[k] <= lo[j] /\ hi[j] <= k
  \/ j <= lo[k] /\ hi[k] <= hi[j]
  \/ hi[j] <= lo[k]

Shape(nd, root, M, lo, hi) ==
  /\ nd \in [Nodes -> Node] /\ M \subseteq Keys /\ root \in M
  /\ lo \in [M -> 0..HEADER] /\ hi \in [M -> 0..HEADER]
  /\ nd[root].parent = HEADER /\ lo[root] = 0 /\ hi[root] = HEADER
  /\ \A k \in Keys \ M : nd[k].parent = NIL
  /\ \A k \in M : lo[k] < k /\ k < hi[k]
  /\ \A k \in M : k # root =>
       nd[k].parent \in M /\ (k = nd[nd[k].parent].left \/ k = nd[nd[k].parent].right)
  /\ \A k \in M : LeftSide(nd, M, lo, hi, k) /\ RightSide(nd, M, lo, hi, k)
  /\ \A j, k \in M : j < k => Apart(lo, hi, j, k)

LEMMA MemberIs ==
  ASSUME NEW M, M \subseteq Keys, NEW k \in M
  PROVE  k \in Nat /\ k # NIL /\ k # HEADER /\ k < HEADER /\ k \in Nodes /\ k \in Keys
BY Size DEF Keys, Nodes

LEMMA NodesAre == Nodes = 1..HEADER /\ HEADER \in Nodes /\ NIL \notin Nodes /\ HEADER \notin Keys
BY Size DEF Keys, Nodes

LEMMA LeftEnd ==
  ASSUME NEW M, NEW lo, NEW hi, NEW root, Shape(node, root, M, lo, hi), NEW x \in M
  PROVE  LET f == Farthest(x, "left") IN
         /\ f \in M /\ lo[f] = lo[x] /\ f <= x
         /\ \A m \in M : m <= lo[x] \/ f <= m
<1> DEFINE Q == {y \in M : lo[y] = lo[x] /\ y <= x}
           step == [y \in Nodes |-> IF node[y]["left"] = NIL THEN y ELSE node[y]["left"]]
           m == [y \in Q |-> y]
<1>1. M \subseteq Keys /\ lo \in [M -> 0..HEADER]
  BY DEF Shape
<1>2. x \in Q
  BY <1>1, MemberIs
<1>3. m \in [Q -> 0..HEADER]
  <2> SUFFICES ASSUME NEW y \in Q PROVE y \in 0..HEADER
    OBVIOUS
  <2>1. y \in Nat /\ y < HEADER /\ HEADER \in Nat
    BY <1>1, MemberIs, Size
  <2> QED
    BY <2>1
<1>4. ASSUME NEW r \in Q
      PROVE  /\ step[r] \in Q /\ (step[r] # r => m[step[r]] < m[r])
             /\ step[r] = r => node[r].left = NIL
  <2>1. r \in M /\ r \in Nodes /\ r \in Nat /\ lo[r] = lo[x] /\ r <= x /\ x \in Nat
    BY <1>1, MemberIs
  <2>2. step[r] = IF node[r].left = NIL THEN r ELSE node[r].left
    BY <2>1
  <2>3. LeftSide(node, M, lo, hi, r) /\ \A k \in M : lo[k] < k /\ k < hi[k]
    BY <2>1 DEF Shape
  <2>4. CASE node[r].left = NIL
    BY <2>2, <2>4
  <2>5. CASE node[r].left # NIL
    <3>1. PICK l \in M : l = node[r].left /\ lo[l] = lo[r] /\ hi[l] = r /\ l < hi[l]
      BY <2>3, <2>5 DEF LeftSide
    <3>2. l \in Nat /\ l < r
      BY <1>1, <3>1, MemberIs
    <3>3. l \in Q
      BY <2>1, <3>1, <3>2
    <3> QED
      BY <2>2, <2>5, <3>1, <3>2, <3>3
  <2> QED
    BY <2>4, <2>5
<1>5. Farthest(x, "left") = Loop(x, step)
  BY DEF Farthest
<1> HIDE DEF step, m
<1>6. PICK f \in Q : f = Loop(x, step) /\ step[f] = f
  <2>1. \A r \in Q : step[r] \in Q /\ (step[r] # r => m[step[r]] < m[r])
    BY <1>4
  <2>2. Loop(x, step) \in Q /\ step[Loop(x, step)] = Loop(x, step)
    BY <1>2, <1>3, <2>1, LoopEnds, Zenon
  <2> QED
    BY <2>2, Zenon
<1>7. LeftSide(node, M, lo, hi, f) /\ node[f].left = NIL
  BY <1>4, <1>6 DEF Shape
<1> QED
  BY <1>5, <1>6, <1>7 DEF LeftSide

LEMMA RightEnd ==
  ASSUME NEW M, NEW lo, NEW hi, NEW root, Shape(node, root, M, lo, hi), NEW x \in M
  PROVE  LET f == Farthest(x, "right") IN
         /\ f \in M /\ hi[f] = hi[x] /\ x <= f
         /\ \A m \in M : m <= f \/ hi[x] <= m
<1> DEFINE Q == {y \in M : hi[y] = hi[x] /\ x <= y}
           step == [y \in Nodes |-> IF node[y]["right"] = NIL THEN y ELSE node[y]["right"]]
           m == [y \in Q |-> HEADER - y]
<1>1. M \subseteq Keys /\ hi \in [M -> 0..HEADER]
  BY DEF Shape
<1>2. x \in Q
  BY <1>1, MemberIs
<1>3. m \in [Q -> 0..HEADER]
  <2> SUFFICES ASSUME NEW y \in Q PROVE HEADER - y \in 0..HEADER
    OBVIOUS
  <2>1. y \in Nat /\ y < HEADER /\ HEADER \in Nat
    BY <1>1, MemberIs, Size
  <2> QED
    BY <2>1
<1>4. ASSUME NEW r \in Q
      PROVE  /\ step[r] \in Q /\ (step[r] # r => m[step[r]] < m[r])
             /\ step[r] = r => node[r].right = NIL
  <2>1. r \in M /\ r \in Nodes /\ r \in Nat /\ hi[r] = hi[x] /\ x <= r /\ x \in Nat
    BY <1>1, MemberIs
  <2>2. step[r] = IF node[r].right = NIL THEN r ELSE node[r].right
    BY <2>1
  <2>3. RightSide(node, M, lo, hi, r) /\ \A k \in M : lo[k] < k /\ k < hi[k]
    BY <2>1 DEF Shape
  <2>4. CASE node[r].right = NIL
    BY <2>2, <2>4
  <2>5. CASE node[r].right # NIL
    <3>1. PICK l \in M : l = node[r].right /\ hi[l] = hi[r] /\ lo[l] = r /\ lo[l] < l
      BY <2>3, <2>5 DEF RightSide
    <3>2. l \in Nat /\ r < l /\ HEADER \in Nat
      BY <1>1, <3>1, MemberIs, Size
    <3>3. l \in Q
      BY <2>1, <3>1, <3>2
    <3>4. HEADER - l < HEADER - r
      BY <2>1, <3>2
    <3> QED
      BY <2>2, <2>5, <3>1, <3>2, <3>3, <3>4
  <2> QED
    BY <2>4, <2>5
<1>5. Farthest(x, "right") = Loop(x, step)
  BY DEF Farthest
<1> HIDE DEF step, m
<1>6. PICK f \in Q : f = Loop(x, step) /\ step[f] = f
  <2>1. \A r \in Q : step[r] \in Q /\ (step[r] # r => m[step[r]] < m[r])
    BY <1>4
  <2>2. Loop(x, step) \in Q /\ step[Loop(x, step)] = Loop(x, step)
    BY <1>2, <1>3, <2>1, LoopEnds, Zenon
  <2> QED
    BY <2>2, Zenon
<1>7. RightSide(node, M, lo, hi, f) /\ node[f].right = NIL
  BY <1>4, <1>6 DEF Shape
<1> QED
  BY <1>5, <1>6, <1>7 DEF RightSide

----------------------------------------------------------------------------
(* Steps of an iterator.                                                  *)

\* A member's parent, and on which side it hangs.
LEMMA ParentOf ==
  ASSUME NEW nd, NEW M, NEW lo, NEW hi, NEW root, Shape(nd, root, M, lo, hi), NEW x \in M
  PROVE  \/ x = root /\ nd[x].parent = HEADER
         \/ /\ x # root /\ nd[x].parent \in M /\ nd[x].parent # HEADER
            /\ \/ /\ x = nd[nd[x].parent].left /\ x # nd[nd[x].parent].right
                  /\ lo[x] = lo[nd[x].parent] /\ hi[x] = nd[x].parent
               \/ /\ x = nd[nd[x].parent].right /\ x # nd[nd[x].parent].left
                  /\ hi[x] = hi[nd[x].parent] /\ lo[x] = nd[x].parent
<1>1. M \subseteq Keys /\ root \in M /\ nd[root].parent = HEADER
  BY DEF Shape
<1>2. CASE x = root
  BY <1>1, <1>2
<1>3. CASE x # root
  <2>1. PICK p \in M : p = nd[x].parent /\ (x = nd[p].left \/ x = nd[p].right)
    BY <1>3 DEF Shape
  <2>2. p # HEADER /\ x # NIL /\ p \in Nat /\ x \in Nat
    BY <1>1, MemberIs
  <2>3. LeftSide(nd, M, lo, hi, p) /\ RightSide(nd, M, lo, hi, p)
    BY DEF Shape
  <2>4. x = nd[p].left => lo[x] = lo[p] /\ hi[x] = p
    BY <2>2, <2>3 DEF LeftSide
  <2>5. x = nd[p].right => hi[x] = hi[p] /\ lo[x] = p
    BY <2>2, <2>3 DEF RightSide
  <2>6. lo[x] < x /\ x < hi[x] /\ lo[x] \in Nat /\ hi[x] \in Nat
    BY Size DEF Shape
  <2>7. ~(x = nd[p].left /\ x = nd[p].right)
    BY <2>2, <2>4, <2>5, <2>6
  <2> QED
    BY <1>3, <2>1, <2>2, <2>4, <2>5, <2>7
<1> QED
  BY <1>2, <1>3

LEMMA BoundsAre ==
  ASSUME NEW nd, NEW M, NEW lo, NEW hi, NEW root, Shape(nd, root, M, lo, hi), NEW x \in M
  PROVE  lo[x] \in Nat /\ hi[x] \in Nat /\ lo[x] < x /\ x < hi[x] /\ hi[x] <= HEADER /\ lo[x] < HEADER
         /\ x \in Nat /\ x # NIL /\ x # HEADER /\ x < HEADER /\ x \in Nodes /\ x \in Keys
<1>1. M \subseteq Keys /\ lo \in [M -> 0..HEADER] /\ hi \in [M -> 0..HEADER] /\ lo[x] < x /\ x < hi[x]
  BY DEF Shape
<1>2. lo[x] \in 0..HEADER /\ hi[x] \in 0..HEADER
  BY <1>1
<1> QED
  BY <1>1, <1>2, MemberIs, Size

\* Neither child is an ancestor.
LEMMA ChildIs ==
  ASSUME NEW nd, NEW M, NEW lo, NEW hi, NEW root, Shape(nd, root, M, lo, hi), NEW x \in M
  PROVE  /\ nd[x].left # NIL => nd[x].left \in M /\ nd[nd[x].left].parent = x
                                /\ lo[nd[x].left] = lo[x] /\ hi[nd[x].left] = x
         /\ nd[x].right # NIL => nd[x].right \in M /\ nd[nd[x].right].parent = x
                                /\ lo[nd[x].right] = x /\ hi[nd[x].right] = hi[x]
         /\ nd[x].left # HEADER /\ nd[x].right # HEADER
<1>1. LeftSide(nd, M, lo, hi, x) /\ RightSide(nd, M, lo, hi, x) /\ M \subseteq Keys
  BY DEF Shape
<1> QED
  BY <1>1, MemberIs, Size DEF LeftSide, RightSide

\* The header knows the root and the extremes, and is red.
Tracked(nd, root, M) ==
  /\ nd[HEADER].parent = root /\ nd[HEADER].colour = RED
  /\ nd[HEADER].left \in M /\ nd[HEADER].right \in M
  /\ \A k \in M : nd[HEADER].left <= k /\ k <= nd[HEADER].right

\* Up from a right end is the upper bound.
LEMMA ClimbRight ==
  ASSUME NEW M, NEW lo, NEW hi, NEW root, Shape(node, root, M, lo, hi), NEW x \in M,
         Tracked(node, root, M), node[x].right = NIL
  PROVE  RbIncrement(x) = hi[x] /\ hi[x] \in M \cup {HEADER}
<1> DEFINE Q == {c \in Nodes \X Nodes :
                   \/ c[1] \in M /\ c[2] = node[c[1]].parent /\ hi[c[1]] = hi[x]
                   \/ c[1] = HEADER /\ c[2] = root /\ hi[x] = HEADER /\ node[HEADER].right = root}
           step == [c \in Nodes \X Nodes |->
                      IF c[1] = node[c[2]]["right"] THEN <<c[2], node[c[2]].parent>> ELSE c]
           m == [c \in Q |-> IF c[1] \in M THEN lo[c[1]] + 1 ELSE 0]
           q == <<x, node[x].parent>>
<1>1. /\ M \subseteq Keys /\ root \in M /\ node[root].parent = HEADER /\ hi[root] = HEADER
      /\ node[HEADER].parent = root
  BY DEF Shape, Tracked
<1>2. HEADER \in Nodes /\ HEADER \notin M /\ M \subseteq Nodes /\ NIL \notin M
  BY <1>1, NodesAre DEF Nodes
<1>3. q \in Q
  <2>1. node[x].parent \in Nodes
    BY <1>2, ParentOf
  <2> QED
    BY <1>2, <2>1
<1>4. m \in [Q -> 0..HEADER]
  <2> SUFFICES ASSUME NEW c \in Q PROVE (IF c[1] \in M THEN lo[c[1]] + 1 ELSE 0) \in 0..HEADER
    OBVIOUS
  <2>1. c[1] \in M => lo[c[1]] \in Nat /\ lo[c[1]] < HEADER
    BY BoundsAre
  <2> QED
    BY <2>1, Size
<1>5. ASSUME NEW c \in Q
      PROVE  /\ step[c] \in Q /\ (step[c] # c => m[step[c]] < m[c])
             /\ step[c] = c => c[1] # node[c[2]].right
  <2>1. c = <<c[1], c[2]>> /\ c[1] \in Nodes /\ c[2] \in Nodes
    OBVIOUS
  <2>2. step[c] = IF c[1] = node[c[2]].right THEN <<c[2], node[c[2]].parent>> ELSE c
    OBVIOUS
  <2>3. CASE c[1] # node[c[2]].right
    BY <2>2, <2>3
  <2>4. CASE c[1] = node[c[2]].right /\ c[1] \in M /\ c[2] = HEADER
    <3>1. c[1] = root
      BY <1>2, <2>4, ParentOf
    <3>2. step[c] = <<HEADER, root>>
      BY <1>1, <2>2, <2>4
    <3>3. step[c] \in Q
      BY <1>1, <1>2, <2>4, <3>1, <3>2
    <3>4. m[step[c]] = 0 /\ m[c] = lo[root] + 1 /\ lo[root] \in Nat
      BY <1>1, <1>2, <2>4, <3>1, <3>2, <3>3, BoundsAre
    <3>5. step[c] # c
      BY <1>1, <1>2, <3>1, <3>2
    <3> QED
      BY <1>1, <1>2, <2>4, <3>1, <3>2, <3>3, <3>4
  <2>5. CASE c[1] = node[c[2]].right /\ c[1] \in M /\ c[2] # HEADER
    <3>1. PICK a \in M, p \in M : a = c[1] /\ p = c[2] /\ p = node[a].parent /\ hi[a] = hi[x]
                                  /\ a = node[p].right
      BY <1>2, <2>5, ParentOf
    <3>2. hi[a] = hi[p] /\ lo[a] = p /\ lo[p] < p /\ lo[p] \in Nat /\ p \in Nat
      <4>1. lo[p] < p /\ lo[p] \in Nat /\ p \in Nat
        BY BoundsAre
      <4>2. \/ a = root /\ node[a].parent = HEADER
            \/ /\ a # root /\ node[a].parent \in M /\ node[a].parent # HEADER
               /\ \/ /\ a = node[node[a].parent].left /\ a # node[node[a].parent].right
                     /\ lo[a] = lo[node[a].parent] /\ hi[a] = node[a].parent
                  \/ /\ a = node[node[a].parent].right /\ a # node[node[a].parent].left
                     /\ hi[a] = hi[node[a].parent] /\ lo[a] = node[a].parent
        BY ParentOf
      <4>3. p # HEADER
        BY <1>2
      <4> QED
        BY <3>1, <4>1, <4>2, <4>3, Zenon
    <3>3. node[p].parent \in Nodes
      BY <1>2, ParentOf
    <3>4. step[c] = <<p, node[p].parent>>
      BY <2>2, <2>5, <3>1, Zenon
    <3>5. step[c] \in Q
      BY <1>2, <3>1, <3>2, <3>3, <3>4, Zenon
    <3>6. m[step[c]] = lo[p] + 1 /\ m[c] = p + 1
      BY <3>1, <3>2, <3>4, <3>5, Zenon
    <3>7. lo[p] + 1 < p + 1
      BY <3>2
    <3>8. step[c] # c
      BY <3>2, <3>6
    <3> QED
      BY <3>5, <3>6, <3>7, <3>8, Zenon
  <2>6. CASE c[1] = node[c[2]].right /\ c[1] \notin M
    <3>1. c[1] = HEADER /\ c[2] \in M
      BY <1>1, <2>6
    <3>2. node[c[2]].right # HEADER
      BY <3>1, ChildIs
    <3> QED
      BY <2>6, <3>1, <3>2
  <2> QED
    BY <2>3, <2>4, <2>5, <2>6, SMTT(30)
<1>6. Climb(x, node[x].parent, "right") = Loop(q, step)
  BY DEF Climb
<1> HIDE DEF step, m, q, Q
<1>7. Loop(q, step) \in Q /\ step[Loop(q, step)] = Loop(q, step)
  <2>1. \A r \in Q : step[r] \in Q /\ (step[r] # r => m[step[r]] < m[r])
    BY <1>5
  <2> QED
    BY <1>3, <1>4, <2>1, LoopEnds, Zenon
<1>12. PICK c \in Q : c = Climb(x, node[x].parent, "right") /\ c[1] # node[c[2]].right
  BY <1>5, <1>6, <1>7
<1> USE DEF Q
<1>8. RbIncrement(x) = IF node[c[1]].right # c[2] THEN c[2] ELSE c[1]
  BY <1>12 DEF RbIncrement
<1>9. CASE c[1] = HEADER
  <2>1. c[2] = root /\ hi[x] = HEADER /\ node[HEADER].right = root
    BY <1>2, <1>9
  <2> QED
    BY <1>8, <1>9, <2>1
<1>10. CASE c[1] \in M /\ c[2] = HEADER
  <2>1. c[1] = root /\ hi[x] = HEADER
    BY <1>1, <1>2, <1>10, ParentOf
  <2>2. node[root].right # HEADER
    BY <1>1, ChildIs
  <2> QED
    BY <1>8, <1>10, <2>1, <2>2
<1>11. CASE c[1] \in M /\ c[2] # HEADER
  <2>1. PICK a \in M, p \in M : a = c[1] /\ p = c[2] /\ p = node[a].parent /\ hi[a] = hi[x]
    BY <1>2, <1>11, ParentOf
  <2>2. hi[a] = p
    BY <1>2, <1>12, <2>1, ParentOf
  <2>3. node[a].right # p
    <3>1. p < hi[p] /\ p \in Nat /\ p # NIL
      BY BoundsAre
    <3> QED
      BY <2>2, <3>1, ChildIs
  <2> QED
    BY <1>8, <2>1, <2>2, <2>3
<1> QED
  BY <1>9, <1>10, <1>11

\* Up from a left end is the lower bound, if there is one.
LEMMA ClimbLeft ==
  ASSUME NEW M, NEW lo, NEW hi, NEW root, Shape(node, root, M, lo, hi), NEW x \in M,
         node[x].left = NIL, lo[x] # 0
  PROVE  Climb(x, node[x].parent, "left")[2] = lo[x] /\ lo[x] \in M
<1> DEFINE Q == {c \in Nodes \X Nodes : c[1] \in M /\ c[2] = node[c[1]].parent /\ lo[c[1]] = lo[x]}
           step == [c \in Nodes \X Nodes |->
                      IF c[1] = node[c[2]]["left"] THEN <<c[2], node[c[2]].parent>> ELSE c]
           m == [c \in Q |-> HEADER - hi[c[1]]]
           q == <<x, node[x].parent>>
<1>1. M \subseteq Keys /\ root \in M /\ lo[root] = 0
  BY DEF Shape
<1>2. HEADER \in Nodes /\ HEADER \notin M /\ M \subseteq Nodes /\ NIL \notin M
  BY <1>1, NodesAre DEF Nodes
<1>3. q \in Q
  <2>1. node[x].parent \in Nodes
    BY <1>2, ParentOf
  <2> QED
    BY <1>2, <2>1
<1>4. m \in [Q -> 0..HEADER]
  <2> SUFFICES ASSUME NEW c \in Q PROVE HEADER - hi[c[1]] \in 0..HEADER
    OBVIOUS
  <2>1. hi[c[1]] \in Nat /\ hi[c[1]] <= HEADER
    BY BoundsAre
  <2> QED
    BY <2>1, Size
<1>5. ASSUME NEW c \in Q
      PROVE  \E a, p \in M : /\ c[1] = a /\ c[2] = p /\ p = node[a].parent /\ lo[a] = lo[x]
                             /\ \/ a = node[p].left /\ a # node[p].right /\ lo[a] = lo[p] /\ hi[a] = p
                                \/ a = node[p].right /\ a # node[p].left /\ lo[a] = p
  <2>1. PICK a \in M : a = c[1] /\ c[2] = node[a].parent /\ lo[a] = lo[x] /\ a # root
    BY <1>1
  <2> QED
    BY <2>1, ParentOf
<1>6. ASSUME NEW c \in Q
      PROVE  /\ step[c] \in Q /\ (step[c] # c => m[step[c]] < m[c])
             /\ step[c] = c => c[1] # node[c[2]].left
  <2>1. c = <<c[1], c[2]>> /\ c[1] \in Nodes /\ c[2] \in Nodes
    OBVIOUS
  <2>2. step[c] = IF c[1] = node[c[2]].left THEN <<c[2], node[c[2]].parent>> ELSE c
    OBVIOUS
  <2>3. PICK a \in M, p \in M :
               /\ c[1] = a /\ c[2] = p /\ p = node[a].parent /\ lo[a] = lo[x]
               /\ \/ a = node[p].left /\ a # node[p].right /\ lo[a] = lo[p] /\ hi[a] = p
                  \/ a = node[p].right /\ a # node[p].left /\ lo[a] = p
    BY <1>5
  <2>4. CASE a # node[p].left
    BY <2>2, <2>3, <2>4
  <2>5. CASE a = node[p].left
    <3>1. lo[a] = lo[p] /\ hi[a] = p /\ p < hi[p] /\ hi[p] \in Nat /\ p \in Nat /\ HEADER \in Nat
          /\ p <= HEADER /\ hi[p] <= HEADER
      <4>1. /\ p < hi[p] /\ hi[p] \in Nat /\ p \in Nat /\ p < HEADER /\ hi[p] <= HEADER
        BY BoundsAre
      <4>2. a # NIL /\ p # HEADER
        BY <1>2
      <4>3. lo[a] = lo[p] /\ hi[a] = p
        BY <2>3, <2>5, Zenon
      <4> QED
        BY <4>1, <4>3, Size
    <3>2. node[p].parent \in Nodes
      BY <1>2, ParentOf
    <3>3. step[c] = <<p, node[p].parent>>
      BY <2>2, <2>3, <2>5, Zenon
    <3>4. step[c] \in Q
      BY <1>2, <2>3, <3>1, <3>2, <3>3
    <3>5. m[step[c]] = HEADER - hi[p] /\ m[c] = HEADER - p
      BY <2>3, <3>1, <3>3, <3>4
    <3>6. HEADER - hi[p] < HEADER - p
      BY <3>1
    <3>7. step[c] # c
      BY <3>1, <3>5
    <3> QED
      BY <3>4, <3>5, <3>6, <3>7, Zenon
  <2> QED
    BY <2>4, <2>5
<1>7. Climb(x, node[x].parent, "left") = Loop(q, step)
  BY DEF Climb
<1> HIDE DEF step, m, q, Q
<1>8. Loop(q, step) \in Q /\ step[Loop(q, step)] = Loop(q, step)
  <2>1. \A r \in Q : step[r] \in Q /\ (step[r] # r => m[step[r]] < m[r])
    BY <1>6
  <2> QED
    BY <1>3, <1>4, <2>1, LoopEnds, Zenon
<1>9. PICK c \in Q : c = Climb(x, node[x].parent, "left") /\ c[1] # node[c[2]].left
  BY <1>6, <1>7, <1>8
<1>10. PICK a \in M, p \in M :
               /\ c[1] = a /\ c[2] = p /\ p = node[a].parent /\ lo[a] = lo[x]
               /\ \/ a = node[p].left /\ a # node[p].right /\ lo[a] = lo[p] /\ hi[a] = p
                  \/ a = node[p].right /\ a # node[p].left /\ lo[a] = p
  BY <1>5
<1> QED
  BY <1>9, <1>10

\* An iterator steps up to the next member, or to the end.
LEMMA IncrementIs ==
  ASSUME NEW M, NEW lo, NEW hi, NEW root, Shape(node, root, M, lo, hi), NEW x \in M,
         Tracked(node, root, M)
  PROVE  /\ RbIncrement(x) \in M \cup {HEADER} /\ x < RbIncrement(x)
         /\ \A k \in M : k <= x \/ RbIncrement(x) <= k
<1>1. RightSide(node, M, lo, hi, x) /\ x \in Nat /\ x < hi[x]
  BY BoundsAre DEF Shape
<1>2. CASE node[x].right = NIL
  <2>1. RbIncrement(x) = hi[x] /\ hi[x] \in M \cup {HEADER}
    BY <1>2, ClimbRight
  <2> QED
    BY <1>1, <1>2, <2>1 DEF RightSide
<1>3. CASE node[x].right # NIL
  <2>1. PICK r \in M : r = node[x].right /\ lo[r] = x
    BY <1>1, <1>3 DEF RightSide
  <2>2. PICK f \in M : f = Farthest(r, "left") /\ lo[f] = x /\ \A k \in M : k <= x \/ f <= k
    BY <2>1, LeftEnd
  <2>3. RbIncrement(x) = f
    BY <1>3, <2>1, <2>2 DEF RbIncrement
  <2>4. x < f
    BY <2>2, BoundsAre
  <2> QED
    BY <2>2, <2>3, <2>4
<1> QED
  BY <1>2, <1>3

\* The header is told from every member.
LEMMA HeaderTold ==
  ASSUME NEW M, NEW lo, NEW hi, NEW root, Shape(node, root, M, lo, hi),
         Tracked(node, root, M), node[root].colour = BLACK
  PROVE  IsHeader(HEADER) /\ \A x \in M : ~IsHeader(x)
<1>1. IsHeader(HEADER)
  BY DEF IsHeader, Tracked, Shape
<1>2. ASSUME NEW x \in M, IsHeader(x) PROVE FALSE
  <2>1. x # root
    BY <1>2, TreeAssumption DEF IsHeader
  <2>2. PICK p \in M : p = node[x].parent /\ node[p].parent = x
    BY <1>2, <2>1, ParentOf DEF IsHeader
  <2>3. lo[p] <= lo[x] /\ hi[x] <= hi[p] /\ (lo[x] = p \/ hi[x] = p)
    BY <2>1, <2>2, ParentOf, BoundsAre
  <2>4. x # HEADER
    BY BoundsAre
  <2>5. lo[x] <= lo[p] /\ hi[p] <= hi[x]
    BY <2>2, <2>4, ParentOf, BoundsAre
  <2>6. /\ lo[p] \in Nat /\ lo[x] \in Nat /\ hi[p] \in Nat /\ hi[x] \in Nat
        /\ lo[p] < p /\ p < hi[p] /\ p \in Nat
    BY BoundsAre
  <2> QED
    BY <2>3, <2>5, <2>6
<1> QED
  BY <1>1, <1>2

\* And down to the one before.
LEMMA DecrementIs ==
  ASSUME NEW M, NEW lo, NEW hi, NEW root, Shape(node, root, M, lo, hi),
         Tracked(node, root, M), node[root].colour = BLACK,
         NEW x \in M \cup {HEADER}, x # node[HEADER].left
  PROVE  /\ RbDecrement(x) \in M /\ RbDecrement(x) < x
         /\ \A k \in M : k <= RbDecrement(x) \/ x <= k
<1>1. CASE x = HEADER
  <2>1. RbDecrement(x) = node[HEADER].right
    BY <1>1, HeaderTold DEF RbDecrement
  <2> QED
    BY <1>1, <2>1, BoundsAre DEF Tracked
<1>2. CASE x \in M
  <2>1. LeftSide(node, M, lo, hi, x) /\ x \in Nat /\ lo[x] < x /\ lo[x] \in Nat
    BY <1>2, BoundsAre DEF Shape
  <2>2. ~IsHeader(x)
    BY <1>2, HeaderTold
  <2>3. CASE node[x].left = NIL
    <3>1. lo[x] # 0
      <4>1. PICK f \in M : f = node[HEADER].left /\ f <= x
        BY <1>2 DEF Tracked
      <4>2. f \in Nat /\ f # 0 /\ f # x
        BY <4>1, BoundsAre, Size
      <4>3. f <= lo[x] \/ x <= f
        BY <2>1, <2>3 DEF LeftSide
      <4> QED
        BY <2>1, <4>1, <4>2, <4>3
    <3>2. RbDecrement(x) = lo[x] /\ lo[x] \in M
      BY <1>2, <2>2, <2>3, <3>1, ClimbLeft DEF RbDecrement
    <3> QED
      BY <2>1, <2>3, <3>2 DEF LeftSide
  <2>4. CASE node[x].left # NIL
    <3>1. PICK r \in M : r = node[x].left /\ hi[r] = x
      BY <2>1, <2>4 DEF LeftSide
    <3>2. PICK f \in M : f = Farthest(r, "right") /\ hi[f] = x /\ \A k \in M : k <= f \/ x <= k
      BY <3>1, RightEnd
    <3>3. RbDecrement(x) = f
      BY <2>2, <2>4, <3>1, <3>2 DEF RbDecrement
    <3>4. f < x
      BY <3>2, BoundsAre
    <3> QED
      BY <3>2, <3>3, <3>4
  <2> QED
    BY <2>3, <2>4
<1> QED
  BY <1>1, <1>2

----------------------------------------------------------------------------
(* Rotations and the links.                                               *)

\* What a rotation does to the links.
TurnedLeft(nd, M, x, y, N) ==
  /\ N \in [Nodes -> Node]
  /\ \A k \in Nodes : N[k].colour = nd[k].colour
  /\ \A k \in Nodes : N[k].parent = IF k = x THEN y ELSE IF k = y THEN nd[x].parent
                                    ELSE IF k = nd[y].left THEN x ELSE nd[k].parent
  /\ \A k \in M : N[k].left = IF k = y THEN x ELSE IF nd[k].left = x THEN y ELSE nd[k].left
  /\ \A k \in M : N[k].right = IF k = x THEN nd[y].left
                                  ELSE IF nd[k].right = x THEN y ELSE nd[k].right
  /\ N[HEADER] = nd[HEADER]

LEMMA NodeIs ==
  ASSUME NEW nd \in [Nodes -> Node], NEW k \in Nodes
  PROVE  /\ nd[k].colour \in {RED, BLACK} /\ nd[k].parent \in 0..HEADER
         /\ nd[k].left \in 0..HEADER /\ nd[k].right \in 0..HEADER
         /\ nd[k] = [colour |-> nd[k].colour, parent |-> nd[k].parent,
                     left |-> nd[k].left, right |-> nd[k].right]
<1>1. nd[k] \in Node
  OBVIOUS
<1> QED
  BY <1>1 DEF Node

LEMMA RotateLeftIs ==
  ASSUME NEW M, NEW lo, NEW hi, NEW t, Shape(t.node, t.root, M, lo, hi),
         t = [node |-> t.node, root |-> t.root], NEW x \in M, t.node[x].right # NIL
  PROVE  LET r == Rotate(t, x, "left")  y == t.node[x].right IN
         /\ r = [node |-> r.node, root |-> r.root]
         /\ r.root = IF x = t.root THEN y ELSE t.root
         /\ TurnedLeft(t.node, M, x, y, r.node)
<1> DEFINE nd == t.node
<1>1. nd \in [Nodes -> Node] /\ M \subseteq Keys /\ M \subseteq Nodes /\ NIL \notin M /\ HEADER \notin M
  BY NodesAre DEF Shape, Nodes
<1>2. PICK y \in M : y = nd[x].right /\ nd[y].parent = x /\ lo[y] = x /\ hi[y] = hi[x]
  BY ChildIs
<1>3. PICK up \in Nodes : up = nd[x].parent /\ (x = t.root <=> up = HEADER) /\ (up # HEADER => up \in M)
  <2>1. nd[t.root].parent = HEADER /\ HEADER \in Nodes
    BY NodesAre DEF Shape
  <2> QED
    BY <1>1, <2>1, ParentOf
<1>4. PICK inner \in 0..HEADER : inner = nd[y].left
  BY <1>1, NodeIs
<1>5. x \in Nodes /\ y \in Nodes /\ x # y /\ x # HEADER /\ y # HEADER
  BY <1>1, <1>2, BoundsAre
<1>6. inner # NIL => inner \in M /\ nd[inner].parent = y /\ lo[inner] = x /\ hi[inner] = y
  BY <1>2, <1>4, ChildIs
<1>7. inner # x /\ inner # y /\ (inner = NIL \/ inner \in Nodes)
  <2>1. lo[y] < y /\ lo[x] < x /\ x \in Nat /\ y \in Nat
    BY BoundsAre
  <2>2. inner # NIL => lo[inner] < inner /\ inner < hi[inner] /\ inner \in Nat
    BY <1>6, BoundsAre
  <2>3. x # NIL /\ y # NIL
    BY <1>1
  <2> QED
    BY <1>1, <1>6, <2>1, <2>2, <2>3
<1>8. up # x /\ up # y
  <2>1. up # HEADER => lo[up] <= lo[x] /\ hi[x] <= hi[up] /\ (lo[x] = up \/ hi[x] = up)
    BY <1>3, ParentOf, BoundsAre
  <2>2. /\ lo[x] \in Nat /\ hi[x] \in Nat /\ lo[y] \in Nat /\ hi[y] \in Nat /\ lo[x] < x /\ x < hi[x]
        /\ lo[y] < y /\ y < hi[y] /\ x \in Nat /\ y \in Nat
    BY BoundsAre
  <2> QED
    BY <1>2, <1>5, <2>1, <2>2
<1> DEFINE turned == [nd EXCEPT ![x].right = inner, ![x].parent = y,
                                ![y].left = x, ![y].parent = up]
           joined == Turned(nd, x, y, "left")
           place == IF nd[up].left = x THEN "left" ELSE "right"
           r == Rotate(t, x, "left")
<1>9. r = IF x = t.root THEN [node |-> joined, root |-> y]
          ELSE [t EXCEPT !.node = [joined EXCEPT ![up][place] = y]]
  <2>1. nd[x][Other("left")] = y /\ nd[up]["left"] = nd[up].left /\ Other("left") = "right"
    BY <1>2 DEF Other
  <2> QED
    BY <1>2, <1>3, <2>1 DEF Rotate
<1>10. joined = IF inner = NIL THEN turned ELSE [turned EXCEPT ![inner].parent = x]
  <2> DEFINE raw == [nd EXCEPT ![x][Other("left")] = nd[y]["left"], ![x].parent = y,
                               ![y]["left"] = x, ![y].parent = nd[x].parent]
  <2>1. raw = turned
    BY <1>1, <1>3, <1>4, <1>5 DEF Other
  <2>2. nd[y]["left"] = inner
    BY <1>4
  <2>3. joined = IF nd[y]["left"] = NIL THEN raw ELSE [raw EXCEPT ![nd[y]["left"]].parent = x]
    BY DEF Turned
  <2> HIDE DEF raw, turned, joined
  <2> QED
    BY <2>1, <2>2, <2>3
<1>11. /\ turned[x] = [colour |-> nd[x].colour, parent |-> y, left |-> nd[x].left, right |-> inner]
       /\ turned[y] = [colour |-> nd[y].colour, parent |-> up, left |-> x, right |-> nd[y].right]
       /\ \A k \in Nodes : k # x /\ k # y => turned[k] = nd[k]
       /\ turned \in [Nodes -> Node]
  <2>1. x \in 0..HEADER /\ y \in 0..HEADER /\ up \in 0..HEADER
    BY <1>3, <1>5, NodesAre
  <2> QED
    <3>1. turned[x] = [colour |-> nd[x].colour, parent |-> y, left |-> nd[x].left, right |-> inner]
      BY <1>1, <1>5 DEF Node
    <3>2. turned[y] = [colour |-> nd[y].colour, parent |-> up, left |-> x, right |-> nd[y].right]
      BY <1>1, <1>5 DEF Node
    <3>3. \A k \in Nodes : k # x /\ k # y => turned[k] = nd[k]
      BY <1>1
    <3>4. turned = [k \in Nodes |-> turned[k]]
      BY <1>1
    <3>5. turned[x] \in Node /\ turned[y] \in Node
      BY <1>1, <1>4, <1>5, <2>1, <3>1, <3>2, NodeIs, SMTT(30) DEF Node
    <3> HIDE DEF turned
    <3>6. \A k \in Nodes : turned[k] \in Node
      BY <1>1, <3>3, <3>5
    <3>7. turned \in [Nodes -> Node]
      BY <3>4, <3>6
    <3> QED
      BY <3>1, <3>2, <3>3, <3>7, Zenon
<1> HIDE DEF turned
<1>12. /\ joined \in [Nodes -> Node]
       /\ \A k \in Nodes : joined[k] = IF k = inner THEN [turned[k] EXCEPT !.parent = x] ELSE turned[k]
  <2>1. CASE inner = NIL
    BY <1>10, <1>11, <2>1, NodesAre
  <2>2. CASE inner # NIL
    <3>1. inner \in Nodes /\ x \in 0..HEADER /\ turned[inner] \in Node
      BY <1>5, <1>7, <1>11, <2>2, NodesAre
    <3>2. [turned[inner] EXCEPT !.parent = x] \in Node
      BY <3>1 DEF Node
    <3>3. joined = [turned EXCEPT ![inner].parent = x]
      BY <1>10, <2>2
    <3>4. [turned EXCEPT ![inner].parent = x] = [turned EXCEPT ![inner] = [turned[inner] EXCEPT !.parent = x]]
      BY <3>1
    <3> QED
      BY <1>11, <3>1, <3>2, <3>3, <3>4
  <2> QED
    BY <2>1, <2>2
<1> HIDE DEF joined
<1>13. r.root = (IF x = t.root THEN y ELSE t.root) /\ r = [node |-> r.node, root |-> r.root]
       /\ r.node = IF x = t.root THEN joined ELSE [joined EXCEPT ![up][place] = y]
  BY <1>9
<1>14. ASSUME x # t.root
       PROVE  /\ r.node \in [Nodes -> Node]
              /\ \A k \in Nodes : k # up => r.node[k] = joined[k]
              /\ r.node[up].colour = joined[up].colour /\ r.node[up].parent = joined[up].parent
              /\ r.node[up].left = IF nd[up].left = x THEN y ELSE joined[up].left
              /\ r.node[up].right = IF nd[up].left = x THEN joined[up].right ELSE y
  <2>1. r.node = [joined EXCEPT ![up][place] = y] /\ joined \in [Nodes -> Node] /\ y \in 0..HEADER
    BY <1>5, <1>12, <1>13, <1>14, NodesAre
  <2>2. CASE nd[up].left = x
    <3>1. r.node = [joined EXCEPT ![up] = [joined[up] EXCEPT !.left = y]]
      BY <2>1, <2>2
    <3>2. joined[up] \in Node
      BY <2>1
    <3>3. [joined[up] EXCEPT !.left = y]
            = [colour |-> joined[up].colour, parent |-> joined[up].parent, left |-> y, right |-> joined[up].right]
      BY <3>2 DEF Node
    <3>4. [joined[up] EXCEPT !.left = y] \in Node
      BY <2>1, <3>2, <3>3, NodeIs DEF Node
    <3> QED
      BY <2>1, <2>2, <3>1, <3>3, <3>4, Zenon
  <2>3. CASE nd[up].left # x
    <3>1. r.node = [joined EXCEPT ![up] = [joined[up] EXCEPT !.right = y]]
      BY <2>1, <2>3
    <3>2. joined[up] \in Node
      BY <2>1
    <3>3. [joined[up] EXCEPT !.right = y]
            = [colour |-> joined[up].colour, parent |-> joined[up].parent, left |-> joined[up].left, right |-> y]
      BY <3>2 DEF Node
    <3>4. [joined[up] EXCEPT !.right = y] \in Node
      BY <2>1, <3>2, <3>3, NodeIs DEF Node
    <3> QED
      BY <2>1, <2>3, <3>1, <3>3, <3>4
  <2> QED
    BY <2>2, <2>3
<1>15. /\ \A k \in Nodes : joined[k].colour = nd[k].colour /\ joined[k].left = turned[k].left
                            /\ joined[k].right = turned[k].right
                            /\ joined[k].parent = IF k = inner THEN x ELSE turned[k].parent
  <2> SUFFICES ASSUME NEW k \in Nodes
               PROVE  /\ joined[k].colour = nd[k].colour /\ joined[k].left = turned[k].left
                      /\ joined[k].right = turned[k].right
                      /\ joined[k].parent = IF k = inner THEN x ELSE turned[k].parent
    OBVIOUS
  <2>1. turned[k] \in Node /\ turned[k].colour = nd[k].colour
    BY <1>11
  <2>2. joined[k] = IF k = inner THEN [turned[k] EXCEPT !.parent = x] ELSE turned[k]
    BY <1>12
  <2> QED
    BY <2>1, <2>2 DEF Node
\* Nobody but up has x for a child.
<1>16. ASSUME NEW k \in M, nd[k].left = x \/ nd[k].right = x PROVE k = up /\ x # t.root
  <2>1. nd[x].parent = k /\ x # NIL
    BY <1>1, <1>16, ChildIs
  <2> QED
    BY <1>1, <1>3, <2>1
<1>17. x # t.root => x = nd[up].left \/ x = nd[up].right
  BY <1>1, <1>3, ParentOf
<1>18. up # HEADER => nd[up].left # nd[up].right \/ nd[up].left = NIL
  <2> SUFFICES ASSUME up # HEADER, nd[up].left # NIL, nd[up].left = nd[up].right PROVE FALSE
    OBVIOUS
  <2>1. PICK c \in M : c = nd[up].left /\ hi[c] = up /\ lo[c] = up
    BY <1>3, ChildIs
  <2> QED
    BY <2>1, BoundsAre
<1> HIDE DEF joined, r, place
<1>19. ASSUME x = t.root PROVE TurnedLeft(nd, M, x, y, r.node)
  <2>1. r.node = joined /\ up = HEADER
    BY <1>3, <1>13, <1>19
  <2>2. \A k \in M : nd[k].left # x /\ nd[k].right # x
    BY <1>16, <1>19
  <2>3. HEADER # inner /\ HEADER \in Nodes /\ joined[HEADER] = nd[HEADER]
    BY <1>1, <1>5, <1>6, <1>11, <1>12, NodesAre
  <2>4. \A k \in M : joined[k].left = IF k = y THEN x ELSE nd[k].left
    BY <1>1, <1>5, <1>11, <1>15
  <2>5. \A k \in M : joined[k].right = IF k = x THEN inner ELSE nd[k].right
    BY <1>1, <1>5, <1>11, <1>15
  <2>6. \A k \in Nodes : joined[k].parent = IF k = x THEN y ELSE IF k = y THEN up
                                          ELSE IF k = inner THEN x ELSE nd[k].parent
    BY <1>1, <1>5, <1>7, <1>11, <1>15
  <2> QED
    BY <1>2, <1>3, <1>4, <1>12, <1>15, <2>1, <2>2, <2>3, <2>4, <2>5, <2>6, NodesAre DEF TurnedLeft
<1>20. ASSUME x # t.root PROVE TurnedLeft(nd, M, x, y, r.node)
  <2>1. up \in M /\ up # HEADER
    BY <1>3, <1>20
  <2>3. HEADER # inner /\ HEADER \in Nodes /\ r.node[HEADER] = nd[HEADER]
    BY <1>1, <1>5, <1>6, <1>11, <1>12, <1>14, <1>20, <2>1, NodesAre
  <2>4. \A k \in M : r.node[k].left = IF k = y THEN x ELSE IF nd[k].left = x THEN y ELSE nd[k].left
    <3> SUFFICES ASSUME NEW k \in M
                 PROVE  r.node[k].left = IF k = y THEN x ELSE IF nd[k].left = x THEN y ELSE nd[k].left
      OBVIOUS
    <3>1. joined[k].left = IF k = y THEN x ELSE nd[k].left
      BY <1>1, <1>5, <1>11, <1>15
    <3>2. nd[k].left = x => k = up
      BY <1>16
    <3> QED
      BY <1>1, <1>8, <1>14, <1>20, <3>1, <3>2
  <2>5. \A k \in M : r.node[k].right = IF k = x THEN nd[y].left ELSE IF nd[k].right = x THEN y ELSE nd[k].right
    <3> SUFFICES ASSUME NEW k \in M
                 PROVE  r.node[k].right = IF k = x THEN inner ELSE IF nd[k].right = x THEN y ELSE nd[k].right
      BY <1>4
    <3>1. joined[k].right = IF k = x THEN inner ELSE nd[k].right
      BY <1>1, <1>5, <1>11, <1>15
    <3>2. nd[k].right = x => k = up
      BY <1>16
    <3>3. nd[up].left = x <=> ~(nd[up].right = x)
      BY <1>1, <1>17, <1>18, <1>20, <2>1
    <3> QED
      BY <1>1, <1>8, <1>14, <1>20, <3>1, <3>2, <3>3
  <2>6. \A k \in Nodes : r.node[k].parent = IF k = x THEN y ELSE IF k = y THEN nd[x].parent
                                          ELSE IF k = nd[y].left THEN x ELSE nd[k].parent
    <3> SUFFICES ASSUME NEW k \in Nodes
                 PROVE  r.node[k].parent = IF k = x THEN y ELSE IF k = y THEN up
                                           ELSE IF k = inner THEN x ELSE nd[k].parent
      BY <1>3, <1>4
    <3>1. joined[k].parent = IF k = inner THEN x ELSE IF k = x THEN y ELSE IF k = y THEN up ELSE nd[k].parent
      BY <1>5, <1>11, <1>15
    <3>2. r.node[k].parent = joined[k].parent
      BY <1>14, <1>20
    <3> QED
      BY <1>7, <3>1, <3>2
  <2>7. \A k \in Nodes : r.node[k].colour = nd[k].colour
    BY <1>14, <1>15, <1>20
  <2> QED
    BY <1>14, <1>20, <2>3, <2>4, <2>5, <2>6, <2>7 DEF TurnedLeft
<1>21. TurnedLeft(nd, M, x, y, r.node)
  BY <1>19, <1>20
<1> QED
  BY <1>2, <1>13, <1>21 DEF r

TurnedRight(nd, M, x, y, N) ==
  /\ N \in [Nodes -> Node]
  /\ \A k \in Nodes : N[k].colour = nd[k].colour
  /\ \A k \in Nodes : N[k].parent = IF k = x THEN y ELSE IF k = y THEN nd[x].parent
                                    ELSE IF k = nd[y].right THEN x ELSE nd[k].parent
  /\ \A k \in M : N[k].right = IF k = y THEN x ELSE IF nd[k].right = x THEN y ELSE nd[k].right
  /\ \A k \in M : N[k].left = IF k = x THEN nd[y].right
                                  ELSE IF nd[k].left = x THEN y ELSE nd[k].left
  /\ N[HEADER] = nd[HEADER]

LEMMA RotateRightIs ==
  ASSUME NEW M, NEW lo, NEW hi, NEW t, Shape(t.node, t.root, M, lo, hi),
         t = [node |-> t.node, root |-> t.root], NEW x \in M, t.node[x].left # NIL
  PROVE  LET r == Rotate(t, x, "right")  y == t.node[x].left IN
         /\ r = [node |-> r.node, root |-> r.root]
         /\ r.root = IF x = t.root THEN y ELSE t.root
         /\ TurnedRight(t.node, M, x, y, r.node)
<1> DEFINE nd == t.node
<1>1. nd \in [Nodes -> Node] /\ M \subseteq Keys /\ M \subseteq Nodes /\ NIL \notin M /\ HEADER \notin M
  BY NodesAre DEF Shape, Nodes
<1>2. PICK y \in M : y = nd[x].left /\ nd[y].parent = x /\ hi[y] = x /\ lo[y] = lo[x]
  BY ChildIs
<1>3. PICK up \in Nodes : up = nd[x].parent /\ (x = t.root <=> up = HEADER) /\ (up # HEADER => up \in M)
  <2>1. nd[t.root].parent = HEADER /\ HEADER \in Nodes
    BY NodesAre DEF Shape
  <2> QED
    BY <1>1, <2>1, ParentOf
<1>4. PICK inner \in 0..HEADER : inner = nd[y].right
  BY <1>1, NodeIs
<1>5. x \in Nodes /\ y \in Nodes /\ x # y /\ x # HEADER /\ y # HEADER
  BY <1>1, <1>2, BoundsAre
<1>6. inner # NIL => inner \in M /\ nd[inner].parent = y /\ hi[inner] = x /\ lo[inner] = y
  BY <1>2, <1>4, ChildIs
<1>7. inner # x /\ inner # y /\ (inner = NIL \/ inner \in Nodes)
  <2>1. y < hi[y] /\ x < hi[x] /\ x \in Nat /\ y \in Nat
    BY BoundsAre
  <2>2. inner # NIL => inner < hi[inner] /\ lo[inner] < inner /\ inner \in Nat
    BY <1>6, BoundsAre
  <2>3. x # NIL /\ y # NIL
    BY <1>1
  <2> QED
    BY <1>1, <1>6, <2>1, <2>2, <2>3
<1>8. up # x /\ up # y
  <2>1. up # HEADER => hi[x] <= hi[up] /\ lo[up] <= lo[x] /\ (hi[x] = up \/ lo[x] = up)
    BY <1>3, ParentOf, BoundsAre
  <2>2. /\ hi[x] \in Nat /\ lo[x] \in Nat /\ hi[y] \in Nat /\ lo[y] \in Nat /\ x < hi[x] /\ lo[x] < x
        /\ y < hi[y] /\ lo[y] < y /\ x \in Nat /\ y \in Nat
    BY BoundsAre
  <2> QED
    BY <1>2, <1>5, <2>1, <2>2
<1> DEFINE turned == [nd EXCEPT ![x].left = inner, ![x].parent = y,
                                ![y].right = x, ![y].parent = up]
           joined == Turned(nd, x, y, "right")
           place == IF nd[up].right = x THEN "right" ELSE "left"
           r == Rotate(t, x, "right")
<1>9. r = IF x = t.root THEN [node |-> joined, root |-> y]
          ELSE [t EXCEPT !.node = [joined EXCEPT ![up][place] = y]]
  <2>1. nd[x][Other("right")] = y /\ nd[up]["right"] = nd[up].right /\ Other("right") = "left"
    BY <1>2 DEF Other
  <2> QED
    BY <1>2, <1>3, <2>1 DEF Rotate
<1>10. joined = IF inner = NIL THEN turned ELSE [turned EXCEPT ![inner].parent = x]
  <2> DEFINE raw == [nd EXCEPT ![x][Other("right")] = nd[y]["right"], ![x].parent = y,
                               ![y]["right"] = x, ![y].parent = nd[x].parent]
  <2>1. raw = turned
    BY <1>1, <1>3, <1>4, <1>5 DEF Other
  <2>2. nd[y]["right"] = inner
    BY <1>4
  <2>3. joined = IF nd[y]["right"] = NIL THEN raw ELSE [raw EXCEPT ![nd[y]["right"]].parent = x]
    BY DEF Turned
  <2> HIDE DEF raw, turned, joined
  <2> QED
    BY <2>1, <2>2, <2>3
<1>11. /\ turned[x] = [colour |-> nd[x].colour, parent |-> y, right |-> nd[x].right, left |-> inner]
       /\ turned[y] = [colour |-> nd[y].colour, parent |-> up, right |-> x, left |-> nd[y].left]
       /\ \A k \in Nodes : k # x /\ k # y => turned[k] = nd[k]
       /\ turned \in [Nodes -> Node]
  <2>1. x \in 0..HEADER /\ y \in 0..HEADER /\ up \in 0..HEADER
    BY <1>3, <1>5, NodesAre
  <2> QED
    <3>1. turned[x] = [colour |-> nd[x].colour, parent |-> y, right |-> nd[x].right, left |-> inner]
      BY <1>1, <1>5 DEF Node
    <3>2. turned[y] = [colour |-> nd[y].colour, parent |-> up, right |-> x, left |-> nd[y].left]
      BY <1>1, <1>5 DEF Node
    <3>3. \A k \in Nodes : k # x /\ k # y => turned[k] = nd[k]
      BY <1>1
    <3>4. turned = [k \in Nodes |-> turned[k]]
      BY <1>1
    <3>5. turned[x] \in Node /\ turned[y] \in Node
      BY <1>1, <1>4, <1>5, <2>1, <3>1, <3>2, NodeIs, SMTT(30) DEF Node
    <3> HIDE DEF turned
    <3>6. \A k \in Nodes : turned[k] \in Node
      BY <1>1, <3>3, <3>5
    <3>7. turned \in [Nodes -> Node]
      BY <3>4, <3>6
    <3> QED
      BY <3>1, <3>2, <3>3, <3>7, Zenon
<1> HIDE DEF turned
<1>12. /\ joined \in [Nodes -> Node]
       /\ \A k \in Nodes : joined[k] = IF k = inner THEN [turned[k] EXCEPT !.parent = x] ELSE turned[k]
  <2>1. CASE inner = NIL
    BY <1>10, <1>11, <2>1, NodesAre
  <2>2. CASE inner # NIL
    <3>1. inner \in Nodes /\ x \in 0..HEADER /\ turned[inner] \in Node
      BY <1>5, <1>7, <1>11, <2>2, NodesAre
    <3>2. [turned[inner] EXCEPT !.parent = x] \in Node
      BY <3>1 DEF Node
    <3>3. joined = [turned EXCEPT ![inner].parent = x]
      BY <1>10, <2>2
    <3>4. [turned EXCEPT ![inner].parent = x] = [turned EXCEPT ![inner] = [turned[inner] EXCEPT !.parent = x]]
      BY <3>1
    <3> QED
      BY <1>11, <3>1, <3>2, <3>3, <3>4
  <2> QED
    BY <2>1, <2>2
<1> HIDE DEF joined
<1>13. r.root = (IF x = t.root THEN y ELSE t.root) /\ r = [node |-> r.node, root |-> r.root]
       /\ r.node = IF x = t.root THEN joined ELSE [joined EXCEPT ![up][place] = y]
  BY <1>9
<1>14. ASSUME x # t.root
       PROVE  /\ r.node \in [Nodes -> Node]
              /\ \A k \in Nodes : k # up => r.node[k] = joined[k]
              /\ r.node[up].colour = joined[up].colour /\ r.node[up].parent = joined[up].parent
              /\ r.node[up].right = IF nd[up].right = x THEN y ELSE joined[up].right
              /\ r.node[up].left = IF nd[up].right = x THEN joined[up].left ELSE y
  <2>1. r.node = [joined EXCEPT ![up][place] = y] /\ joined \in [Nodes -> Node] /\ y \in 0..HEADER
    BY <1>5, <1>12, <1>13, <1>14, NodesAre
  <2>2. CASE nd[up].right = x
    <3>1. r.node = [joined EXCEPT ![up] = [joined[up] EXCEPT !.right = y]]
      BY <2>1, <2>2
    <3>2. joined[up] \in Node
      BY <2>1
    <3>3. [joined[up] EXCEPT !.right = y]
            = [colour |-> joined[up].colour, parent |-> joined[up].parent, right |-> y, left |-> joined[up].left]
      BY <3>2 DEF Node
    <3>4. [joined[up] EXCEPT !.right = y] \in Node
      BY <2>1, <3>2, <3>3, NodeIs DEF Node
    <3> QED
      BY <2>1, <2>2, <3>1, <3>3, <3>4, Zenon
  <2>3. CASE nd[up].right # x
    <3>1. r.node = [joined EXCEPT ![up] = [joined[up] EXCEPT !.left = y]]
      BY <2>1, <2>3
    <3>2. joined[up] \in Node
      BY <2>1
    <3>3. [joined[up] EXCEPT !.left = y]
            = [colour |-> joined[up].colour, parent |-> joined[up].parent, right |-> joined[up].right, left |-> y]
      BY <3>2 DEF Node
    <3>4. [joined[up] EXCEPT !.left = y] \in Node
      BY <2>1, <3>2, <3>3, NodeIs DEF Node
    <3> QED
      BY <2>1, <2>3, <3>1, <3>3, <3>4
  <2> QED
    BY <2>2, <2>3
<1>15. /\ \A k \in Nodes : joined[k].colour = nd[k].colour /\ joined[k].right = turned[k].right
                            /\ joined[k].left = turned[k].left
                            /\ joined[k].parent = IF k = inner THEN x ELSE turned[k].parent
  <2> SUFFICES ASSUME NEW k \in Nodes
               PROVE  /\ joined[k].colour = nd[k].colour /\ joined[k].right = turned[k].right
                      /\ joined[k].left = turned[k].left
                      /\ joined[k].parent = IF k = inner THEN x ELSE turned[k].parent
    OBVIOUS
  <2>1. turned[k] \in Node /\ turned[k].colour = nd[k].colour
    BY <1>11
  <2>2. joined[k] = IF k = inner THEN [turned[k] EXCEPT !.parent = x] ELSE turned[k]
    BY <1>12
  <2> QED
    BY <2>1, <2>2 DEF Node
\* Nobody but up has x for a child.
<1>16. ASSUME NEW k \in M, nd[k].right = x \/ nd[k].left = x PROVE k = up /\ x # t.root
  <2>1. nd[x].parent = k /\ x # NIL
    BY <1>1, <1>16, ChildIs
  <2> QED
    BY <1>1, <1>3, <2>1
<1>17. x # t.root => x = nd[up].right \/ x = nd[up].left
  BY <1>1, <1>3, ParentOf
<1>18. up # HEADER => nd[up].right # nd[up].left \/ nd[up].right = NIL
  <2> SUFFICES ASSUME up # HEADER, nd[up].right # NIL, nd[up].right = nd[up].left PROVE FALSE
    OBVIOUS
  <2>1. PICK c \in M : c = nd[up].right /\ lo[c] = up /\ hi[c] = up
    BY <1>3, ChildIs
  <2> QED
    BY <2>1, BoundsAre
<1> HIDE DEF joined, r, place
<1>19. ASSUME x = t.root PROVE TurnedRight(nd, M, x, y, r.node)
  <2>1. r.node = joined /\ up = HEADER
    BY <1>3, <1>13, <1>19
  <2>2. \A k \in M : nd[k].right # x /\ nd[k].left # x
    BY <1>16, <1>19
  <2>3. HEADER # inner /\ HEADER \in Nodes /\ joined[HEADER] = nd[HEADER]
    BY <1>1, <1>5, <1>6, <1>11, <1>12, NodesAre
  <2>4. \A k \in M : joined[k].right = IF k = y THEN x ELSE nd[k].right
    BY <1>1, <1>5, <1>11, <1>15
  <2>5. \A k \in M : joined[k].left = IF k = x THEN inner ELSE nd[k].left
    BY <1>1, <1>5, <1>11, <1>15
  <2>6. \A k \in Nodes : joined[k].parent = IF k = x THEN y ELSE IF k = y THEN up
                                          ELSE IF k = inner THEN x ELSE nd[k].parent
    BY <1>1, <1>5, <1>7, <1>11, <1>15
  <2> QED
    BY <1>2, <1>3, <1>4, <1>12, <1>15, <2>1, <2>2, <2>3, <2>4, <2>5, <2>6, NodesAre DEF TurnedRight
<1>20. ASSUME x # t.root PROVE TurnedRight(nd, M, x, y, r.node)
  <2>1. up \in M /\ up # HEADER
    BY <1>3, <1>20
  <2>3. HEADER # inner /\ HEADER \in Nodes /\ r.node[HEADER] = nd[HEADER]
    BY <1>1, <1>5, <1>6, <1>11, <1>12, <1>14, <1>20, <2>1, NodesAre
  <2>4. \A k \in M : r.node[k].right = IF k = y THEN x ELSE IF nd[k].right = x THEN y ELSE nd[k].right
    <3> SUFFICES ASSUME NEW k \in M
                 PROVE  r.node[k].right = IF k = y THEN x ELSE IF nd[k].right = x THEN y ELSE nd[k].right
      OBVIOUS
    <3>1. joined[k].right = IF k = y THEN x ELSE nd[k].right
      BY <1>1, <1>5, <1>11, <1>15
    <3>2. nd[k].right = x => k = up
      BY <1>16
    <3> QED
      BY <1>1, <1>8, <1>14, <1>20, <3>1, <3>2
  <2>5. \A k \in M : r.node[k].left = IF k = x THEN nd[y].right ELSE IF nd[k].left = x THEN y ELSE nd[k].left
    <3> SUFFICES ASSUME NEW k \in M
                 PROVE  r.node[k].left = IF k = x THEN inner ELSE IF nd[k].left = x THEN y ELSE nd[k].left
      BY <1>4
    <3>1. joined[k].left = IF k = x THEN inner ELSE nd[k].left
      BY <1>1, <1>5, <1>11, <1>15
    <3>2. nd[k].left = x => k = up
      BY <1>16
    <3>3. nd[up].right = x <=> ~(nd[up].left = x)
      BY <1>1, <1>17, <1>18, <1>20, <2>1
    <3> QED
      BY <1>1, <1>8, <1>14, <1>20, <3>1, <3>2, <3>3
  <2>6. \A k \in Nodes : r.node[k].parent = IF k = x THEN y ELSE IF k = y THEN nd[x].parent
                                          ELSE IF k = nd[y].right THEN x ELSE nd[k].parent
    <3> SUFFICES ASSUME NEW k \in Nodes
                 PROVE  r.node[k].parent = IF k = x THEN y ELSE IF k = y THEN up
                                           ELSE IF k = inner THEN x ELSE nd[k].parent
      BY <1>3, <1>4
    <3>1. joined[k].parent = IF k = inner THEN x ELSE IF k = x THEN y ELSE IF k = y THEN up ELSE nd[k].parent
      BY <1>5, <1>11, <1>15
    <3>2. r.node[k].parent = joined[k].parent
      BY <1>14, <1>20
    <3> QED
      BY <1>7, <3>1, <3>2
  <2>7. \A k \in Nodes : r.node[k].colour = nd[k].colour
    BY <1>14, <1>15, <1>20
  <2> QED
    BY <1>14, <1>20, <2>3, <2>4, <2>5, <2>6, <2>7 DEF TurnedRight
<1>21. TurnedRight(nd, M, x, y, r.node)
  BY <1>19, <1>20
<1> QED
  BY <1>2, <1>13, <1>21 DEF r

----------------------------------------------------------------------------
(* Rotations and the intervals.                                           *)

\* A left rotation hands x's interval to y and cuts x's at y.
LEMMA TurnedLeftApart ==
  ASSUME NEW nd, NEW M, NEW lo, NEW hi, NEW root, Shape(nd, root, M, lo, hi), NEW x \in M,
         NEW y \in M, y = nd[x].right, NEW lo2, NEW hi2,
         lo2 = [lo EXCEPT ![y] = lo[x]], hi2 = [hi EXCEPT ![x] = y]
  PROVE  \A j, k \in M : j < k => Apart(lo2, hi2, j, k)
<1>1. /\ \A k \in M : lo[k] \in Nat /\ hi[k] \in Nat /\ lo[k] < k /\ k < hi[k] /\ k \in Nat
      /\ \A j, k \in M : j < k => Apart(lo, hi, j, k)
  <2>1. ASSUME NEW k \in M PROVE lo[k] \in Nat /\ hi[k] \in Nat /\ lo[k] < k /\ k < hi[k] /\ k \in Nat
    BY BoundsAre
  <2> QED
    BY <2>1 DEF Shape
<1>2. lo[y] = x /\ hi[y] = hi[x]
  <2>1. y # NIL
    BY BoundsAre
  <2> QED
    BY <2>1, ChildIs
<1>3. /\ \A k \in M : lo2[k] = IF k = y THEN lo[x] ELSE lo[k]
      /\ \A k \in M : hi2[k] = IF k = x THEN y ELSE hi[k]
  BY DEF Shape
<1> SUFFICES ASSUME NEW j \in M, NEW k \in M, j < k PROVE Apart(lo2, hi2, j, k)
  OBVIOUS
<1>4. /\ j < x => Apart(lo, hi, j, x)
      /\ j < y => Apart(lo, hi, j, y)
      /\ x < k => Apart(lo, hi, x, k)
      /\ y < k => Apart(lo, hi, y, k)
      /\ k < y => Apart(lo, hi, k, y)
      /\ Apart(lo, hi, j, k)
  BY <1>1
<1>5. CASE j = x /\ k = y
  BY <1>1, <1>2, <1>3, <1>5 DEF Apart
<1>6. CASE j = x /\ k # y
  <2>1. lo2[x] = lo[x] /\ hi2[x] = y /\ lo2[k] = lo[k] /\ hi2[k] = hi[k]
    BY <1>1, <1>2, <1>3, <1>6
  <2> QED
    BY <1>1, <1>2, <1>4, <1>6, <2>1 DEF Apart
<1>7. CASE j = y
  <2>1. lo2[y] = lo[x] /\ hi2[y] = hi[y] /\ lo2[k] = lo[k] /\ hi2[k] = hi[k]
    BY <1>1, <1>2, <1>3, <1>7
  <2> QED
    BY <1>1, <1>2, <1>4, <1>7, <2>1 DEF Apart
<1>8. CASE j # x /\ j # y /\ k = x
  <2>1. lo2[x] = lo[x] /\ hi2[x] = y /\ lo2[j] = lo[j] /\ hi2[j] = hi[j]
    BY <1>1, <1>2, <1>3, <1>8
  <2> QED
    BY <1>1, <1>2, <1>4, <1>8, <2>1 DEF Apart
<1>9. CASE j # x /\ j # y /\ k = y
  <2>1. lo2[y] = lo[x] /\ hi2[y] = hi[y] /\ lo2[j] = lo[j] /\ hi2[j] = hi[j]
    BY <1>1, <1>2, <1>3, <1>9
  <2> QED
    BY <1>1, <1>2, <1>4, <1>9, <2>1 DEF Apart
<1>10. CASE j # x /\ j # y /\ k # x /\ k # y
  BY <1>3, <1>4, <1>10 DEF Apart
<1> QED
  BY <1>5, <1>6, <1>7, <1>8, <1>9, <1>10

\* What a rotation is given and makes.
TurningLeft(nd, root, M, lo, hi, x, y, N, root2, lo2, hi2) ==
  /\ Shape(nd, root, M, lo, hi) /\ x \in M /\ y \in M /\ y = nd[x].right
  /\ TurnedLeft(nd, M, x, y, N)
  /\ root2 = IF x = root THEN y ELSE root
  /\ lo2 = [lo EXCEPT ![y] = lo[x]] /\ hi2 = [hi EXCEPT ![x] = y]

LEMMA TurnedLeftShape ==
  ASSUME NEW nd, NEW M, NEW lo, NEW hi, NEW root, NEW x, NEW y, NEW N, NEW root2, NEW lo2, NEW hi2,
         TurningLeft(nd, root, M, lo, hi, x, y, N, root2, lo2, hi2)
  PROVE  Shape(N, root2, M, lo2, hi2)
<1> SUFFICES ASSUME Shape(nd, root, M, lo, hi), x \in M, y \in M, y = nd[x].right,
                    TurnedLeft(nd, M, x, y, N), lo2 = [lo EXCEPT ![y] = lo[x]], hi2 = [hi EXCEPT ![x] = y]
             PROVE  Shape(N, IF x = root THEN y ELSE root, M, lo2, hi2)
  BY DEF TurningLeft
<1> DEFINE top == IF x = root THEN y ELSE root
<1>1. /\ M \subseteq Keys /\ M \subseteq Nodes /\ NIL \notin M /\ HEADER \notin M /\ root \in M
      /\ Keys \subseteq Nodes
      /\ nd[root].parent = HEADER /\ lo[root] = 0 /\ hi[root] = HEADER
  BY NodesAre DEF Shape, Nodes
<1>2. nd[y].parent = x /\ lo[y] = x /\ hi[y] = hi[x]
  <2>1. y # NIL
    BY <1>1
  <2> QED
    BY <2>1, ChildIs
<1>3. \A k \in M : /\ lo[k] \in Nat /\ hi[k] \in Nat /\ lo[k] < k /\ k < hi[k] /\ k \in Nat
                   /\ lo[k] \in 0..HEADER /\ hi[k] \in 0..HEADER
  <2> SUFFICES ASSUME NEW k \in M
               PROVE  /\ lo[k] \in Nat /\ hi[k] \in Nat /\ lo[k] < k /\ k < hi[k] /\ k \in Nat
                      /\ lo[k] \in 0..HEADER /\ hi[k] \in 0..HEADER
    OBVIOUS
  <2>1. lo[k] \in Nat /\ hi[k] \in Nat /\ lo[k] < k /\ k < hi[k] /\ k \in Nat
    BY BoundsAre
  <2> QED
    BY <2>1 DEF Shape
<1>4. /\ \A k \in M : lo2[k] = IF k = y THEN lo[x] ELSE lo[k]
      /\ \A k \in M : hi2[k] = IF k = x THEN y ELSE hi[k]
  BY DEF Shape
<1>5. PICK inner, up : inner = nd[y].left /\ up = nd[x].parent
  OBVIOUS
<1>6. inner # NIL => inner \in M /\ nd[inner].parent = y /\ lo[inner] = x /\ hi[inner] = y
  BY <1>2, <1>5, ChildIs
<1>7. \/ x = root /\ up = HEADER
      \/ /\ x # root /\ up \in M /\ up # HEADER
         /\ \/ x = nd[up].left /\ x # nd[up].right /\ lo[x] = lo[up] /\ hi[x] = up
            \/ x = nd[up].right /\ x # nd[up].left /\ hi[x] = hi[up] /\ lo[x] = up
  BY <1>5, ParentOf
<1>8. x < y /\ x # y /\ inner # x /\ inner # y /\ up # x /\ up # y
  <2>1. x < y
    BY <1>2, <1>3
  <2>2. inner # x /\ inner # y
    BY <1>1, <1>3, <1>6
  <2>3. up # x /\ up # y
    BY <1>1, <1>2, <1>3, <1>7, <2>1
  <2> QED
    BY <1>3, <2>1, <2>2, <2>3
<1>9. N \in [Nodes -> Node] /\ \A k \in Nodes : N[k].parent = IF k = x THEN y ELSE IF k = y THEN up
                                    ELSE IF k = inner THEN x ELSE nd[k].parent
  BY <1>5 DEF TurnedLeft
<1>10. /\ \A k \in M : N[k].left = IF k = y THEN x ELSE IF nd[k].left = x THEN y ELSE nd[k].left
       /\ \A k \in M : N[k].right = IF k = x THEN inner
                                    ELSE IF nd[k].right = x THEN y ELSE nd[k].right
  BY <1>5 DEF TurnedLeft
<1>11. \A k \in M : /\ nd[k].left # NIL => nd[k].left \in M /\ nd[nd[k].left].parent = k
                                           /\ lo[nd[k].left] = lo[k] /\ hi[nd[k].left] = k
                    /\ nd[k].right # NIL => nd[k].right \in M /\ nd[nd[k].right].parent = k
                                           /\ lo[nd[k].right] = k /\ hi[nd[k].right] = hi[k]
  BY ChildIs
<1>12. top \in M /\ N[top].parent = HEADER /\ lo2[top] = 0 /\ hi2[top] = HEADER
  <2>1. CASE x = root
    BY <1>1, <1>2, <1>4, <1>7, <1>8, <1>9, <2>1
  <2>2. CASE x # root
    <3>1. root # y /\ root # inner
      BY <1>1, <1>2, <1>6
    <3> QED
      BY <1>1, <1>4, <1>9, <2>2, <3>1
  <2> QED
    BY <2>1, <2>2
<1>13. lo2 \in [M -> 0..HEADER] /\ hi2 \in [M -> 0..HEADER]
  <2>1. y \in 0..HEADER
    BY BoundsAre, Size
  <2> QED
    BY <1>3, <2>1 DEF Shape
<1>14. \A k \in Keys \ M : N[k].parent = NIL
  <2> SUFFICES ASSUME NEW k \in Keys \ M PROVE N[k].parent = NIL
    OBVIOUS
  <2>1. nd[k].parent = NIL
    BY DEF Shape
  <2>2. k # inner \/ inner = NIL
    BY <1>6
  <2>3. k # NIL /\ k \in Nodes
    BY <1>1, NodesAre
  <2> QED
    BY <1>9, <2>1, <2>2, <2>3
<1>15. \A k \in M : lo2[k] < k /\ k < hi2[k]
  BY <1>2, <1>3, <1>4, <1>8
<1>16. ASSUME NEW k \in M, k # top
       PROVE  N[k].parent \in M /\ (k = N[N[k].parent].left \/ k = N[N[k].parent].right)
  <2>1. CASE k = x
    BY <1>1, <1>9, <1>10, <2>1
  <2>2. CASE k = y
    <3>1. x # root /\ N[y].parent = up
      BY <1>1, <1>8, <1>9, <1>16, <2>2
    <3> QED
      BY <1>7, <1>8, <1>10, <2>2, <3>1
  <2>3. CASE k = inner
    <3>1. N[k].parent = x /\ N[x].right = inner
      BY <1>1, <1>8, <1>9, <1>10, <2>3
    <3> QED
      BY <2>3, <3>1
  <2>4. CASE k # x /\ k # y /\ k # inner
    <3>1. k # root
      BY <1>16, <2>4
    <3>2. PICK p \in M : p = nd[k].parent /\ (k = nd[p].left \/ k = nd[p].right)
      BY <3>1 DEF Shape
    <3>3. N[k].parent = p
      BY <1>1, <1>9, <2>4, <3>2
    <3>4. k = nd[p].left => N[p].left = k
      BY <1>5, <1>10, <2>4, <3>2, Zenon
    <3>5. k = nd[p].right => N[p].right = k
      BY <1>5, <1>10, <2>4, <3>2, Zenon
    <3> QED
      BY <3>2, <3>3, <3>4, <3>5
  <2> QED
    BY <2>1, <2>2, <2>3, <2>4
<1>17. ASSUME NEW k \in M PROVE LeftSide(N, M, lo2, hi2, k)
  <2>1. CASE k = y
    <3>1. N[y].left = x /\ N[x].parent = y /\ lo2[x] = lo[x] /\ lo2[y] = lo[x] /\ hi2[x] = y
      BY <1>1, <1>4, <1>8, <1>9, <1>10
    <3> QED
      BY <1>1, <2>1, <3>1 DEF LeftSide
  <2>2. CASE k # y /\ nd[k].left = NIL
    <3>1. LeftSide(nd, M, lo, hi, k)
      BY DEF Shape
    <3>2. N[k].left = NIL /\ lo2[k] = lo[k]
      BY <1>1, <1>4, <1>10, <2>2
    <3> QED
      BY <2>2, <3>1, <3>2 DEF LeftSide
  <2>3. CASE k # y /\ nd[k].left = x
    <3>1. N[k].left = y /\ lo2[k] = lo[k] /\ up = k /\ lo2[y] = lo[x] /\ hi2[y] = hi[y] /\ N[y].parent = up
      BY <1>1, <1>4, <1>5, <1>8, <1>9, <1>10, <1>11, <2>3
    <3>2. lo[x] = lo[k] /\ hi[x] = k
      BY <1>1, <1>11, <2>3
    <3> QED
      BY <1>1, <1>2, <3>1, <3>2 DEF LeftSide
  <2>4. CASE k # y /\ nd[k].left # x /\ nd[k].left # NIL
    <3>1. PICK l \in M : l = nd[k].left /\ nd[l].parent = k /\ lo[l] = lo[k] /\ hi[l] = k
      BY <1>11, <2>4
    <3>2. l # y /\ l # x /\ l # inner
      BY <1>1, <1>2, <1>3, <1>6, <1>8, <2>4, <3>1
    <3>3. N[k].left = l /\ N[l].parent = k /\ lo2[l] = lo[l] /\ lo2[k] = lo[k] /\ hi2[l] = hi[l]
      BY <1>1, <1>4, <1>9, <1>10, <2>4, <3>1, <3>2
    <3> QED
      BY <2>4, <3>1, <3>3 DEF LeftSide
  <2> QED
    BY <2>1, <2>2, <2>3, <2>4
<1>18. ASSUME NEW k \in M PROVE RightSide(N, M, lo2, hi2, k)
  <2>1. CASE k = x /\ inner = NIL
    <3>1. LeftSide(nd, M, lo, hi, y) /\ nd[y].left = NIL
      BY <1>5, <2>1 DEF Shape
    <3>2. N[x].right = NIL /\ hi2[x] = y
      BY <1>4, <1>10, <2>1
    <3> QED
      BY <1>2, <2>1, <3>1, <3>2 DEF LeftSide, RightSide
  <2>2. CASE k = x /\ inner # NIL
    <3>1. N[x].right = inner /\ hi2[x] = y /\ N[inner].parent = x /\ lo2[inner] = x /\ hi2[inner] = y
      BY <1>1, <1>4, <1>6, <1>8, <1>9, <1>10, <2>2
    <3> QED
      BY <1>6, <2>2, <3>1 DEF RightSide
  <2>3. CASE k # x /\ nd[k].right = NIL
    <3>1. RightSide(nd, M, lo, hi, k)
      BY DEF Shape
    <3>2. N[k].right = NIL /\ hi2[k] = hi[k]
      BY <1>1, <1>4, <1>10, <2>3
    <3> QED
      BY <2>3, <3>1, <3>2 DEF RightSide
  <2>4. CASE k # x /\ nd[k].right = x
    <3>1. up = k
      BY <1>1, <1>5, <1>11, <2>4
    <3>2. N[k].right = y /\ hi2[k] = hi[k] /\ lo2[y] = lo[x] /\ hi2[y] = hi[y] /\ N[y].parent = up
      BY <1>1, <1>4, <1>8, <1>9, <1>10, <2>4, <3>1
    <3>3. hi[x] = hi[k] /\ lo[x] = k
      BY <1>1, <1>11, <2>4
    <3> QED
      BY <1>1, <1>2, <3>1, <3>2, <3>3 DEF RightSide
  <2>5. CASE k # x /\ nd[k].right # x /\ nd[k].right # NIL
    <3>1. PICK l \in M : l = nd[k].right /\ nd[l].parent = k /\ lo[l] = k /\ hi[l] = hi[k]
      BY <1>11, <2>5
    <3>2. l # y /\ l # x /\ l # inner
      BY <1>1, <1>2, <1>3, <1>6, <1>8, <2>5, <3>1
    <3>3. N[k].right = l /\ N[l].parent = k /\ lo2[l] = lo[l] /\ hi2[k] = hi[k] /\ hi2[l] = hi[l]
      BY <1>1, <1>4, <1>9, <1>10, <2>5, <3>1, <3>2
    <3> QED
      BY <2>5, <3>1, <3>3 DEF RightSide
  <2> QED
    BY <2>1, <2>2, <2>3, <2>4, <2>5
<1>19. \A j, k \in M : j < k => Apart(lo2, hi2, j, k)
  BY TurnedLeftApart
<1> HIDE DEF top
<1>20. Shape(N, top, M, lo2, hi2)
  BY <1>1, <1>9, <1>12, <1>13, <1>14, <1>15, <1>16, <1>17, <1>18, <1>19 DEF Shape
<1> QED
  BY <1>20 DEF top

LEMMA TurnedRightApart ==
  ASSUME NEW nd, NEW M, NEW lo, NEW hi, NEW root, Shape(nd, root, M, lo, hi), NEW x \in M,
         NEW y \in M, y = nd[x].left, NEW hi2, NEW lo2,
         hi2 = [hi EXCEPT ![y] = hi[x]], lo2 = [lo EXCEPT ![x] = y]
  PROVE  \A j, k \in M : k < j => Apart(lo2, hi2, k, j)
<1>1. /\ \A k \in M : hi[k] \in Nat /\ lo[k] \in Nat /\ k < hi[k] /\ lo[k] < k /\ k \in Nat
      /\ \A j, k \in M : k < j => Apart(lo, hi, k, j)
  <2>1. ASSUME NEW k \in M PROVE hi[k] \in Nat /\ lo[k] \in Nat /\ k < hi[k] /\ lo[k] < k /\ k \in Nat
    BY BoundsAre
  <2> QED
    BY <2>1 DEF Shape
<1>2. hi[y] = x /\ lo[y] = lo[x]
  <2>1. y # NIL
    BY BoundsAre
  <2> QED
    BY <2>1, ChildIs
<1>3. /\ \A k \in M : hi2[k] = IF k = y THEN hi[x] ELSE hi[k]
      /\ \A k \in M : lo2[k] = IF k = x THEN y ELSE lo[k]
  BY DEF Shape
<1> SUFFICES ASSUME NEW j \in M, NEW k \in M, k < j PROVE Apart(lo2, hi2, k, j)
  OBVIOUS
<1>4. /\ x < j => Apart(lo, hi, x, j)
      /\ y < j => Apart(lo, hi, y, j)
      /\ k < x => Apart(lo, hi, k, x)
      /\ k < y => Apart(lo, hi, k, y)
      /\ y < k => Apart(lo, hi, y, k)
      /\ Apart(lo, hi, k, j)
  BY <1>1
<1>5. CASE j = x /\ k = y
  BY <1>1, <1>2, <1>3, <1>5 DEF Apart
<1>6. CASE j = x /\ k # y
  <2>1. hi2[x] = hi[x] /\ lo2[x] = y /\ hi2[k] = hi[k] /\ lo2[k] = lo[k]
    BY <1>1, <1>2, <1>3, <1>6
  <2> QED
    BY <1>1, <1>2, <1>4, <1>6, <2>1 DEF Apart
<1>7. CASE j = y
  <2>1. hi2[y] = hi[x] /\ lo2[y] = lo[y] /\ hi2[k] = hi[k] /\ lo2[k] = lo[k]
    BY <1>1, <1>2, <1>3, <1>7
  <2> QED
    BY <1>1, <1>2, <1>4, <1>7, <2>1 DEF Apart
<1>8. CASE j # x /\ j # y /\ k = x
  <2>1. hi2[x] = hi[x] /\ lo2[x] = y /\ hi2[j] = hi[j] /\ lo2[j] = lo[j]
    BY <1>1, <1>2, <1>3, <1>8
  <2> QED
    BY <1>1, <1>2, <1>4, <1>8, <2>1 DEF Apart
<1>9. CASE j # x /\ j # y /\ k = y
  <2>1. hi2[y] = hi[x] /\ lo2[y] = lo[y] /\ hi2[j] = hi[j] /\ lo2[j] = lo[j]
    BY <1>1, <1>2, <1>3, <1>9
  <2> QED
    BY <1>1, <1>2, <1>4, <1>9, <2>1 DEF Apart
<1>10. CASE j # x /\ j # y /\ k # x /\ k # y
  BY <1>3, <1>4, <1>10 DEF Apart
<1> QED
  BY <1>5, <1>6, <1>7, <1>8, <1>9, <1>10

TurningRight(nd, root, M, lo, hi, x, y, N, root2, lo2, hi2) ==
  /\ Shape(nd, root, M, lo, hi) /\ x \in M /\ y \in M /\ y = nd[x].left
  /\ TurnedRight(nd, M, x, y, N)
  /\ root2 = IF x = root THEN y ELSE root
  /\ hi2 = [hi EXCEPT ![y] = hi[x]] /\ lo2 = [lo EXCEPT ![x] = y]

LEMMA TurnedRightShape ==
  ASSUME NEW nd, NEW M, NEW lo, NEW hi, NEW root, NEW x, NEW y, NEW N, NEW root2, NEW hi2, NEW lo2,
         TurningRight(nd, root, M, lo, hi, x, y, N, root2, lo2, hi2)
  PROVE  Shape(N, root2, M, lo2, hi2)
<1> SUFFICES ASSUME Shape(nd, root, M, lo, hi), x \in M, y \in M, y = nd[x].left,
                    TurnedRight(nd, M, x, y, N), hi2 = [hi EXCEPT ![y] = hi[x]], lo2 = [lo EXCEPT ![x] = y]
             PROVE  Shape(N, IF x = root THEN y ELSE root, M, lo2, hi2)
  BY DEF TurningRight
<1> DEFINE top == IF x = root THEN y ELSE root
<1>1. /\ M \subseteq Keys /\ M \subseteq Nodes /\ NIL \notin M /\ HEADER \notin M /\ root \in M
      /\ Keys \subseteq Nodes
      /\ nd[root].parent = HEADER /\ hi[root] = HEADER /\ lo[root] = 0
  BY NodesAre DEF Shape, Nodes
<1>2. nd[y].parent = x /\ hi[y] = x /\ lo[y] = lo[x]
  <2>1. y # NIL
    BY <1>1
  <2> QED
    BY <2>1, ChildIs
<1>3. \A k \in M : /\ hi[k] \in Nat /\ lo[k] \in Nat /\ k < hi[k] /\ lo[k] < k /\ k \in Nat
                   /\ hi[k] \in 0..HEADER /\ lo[k] \in 0..HEADER
  <2> SUFFICES ASSUME NEW k \in M
               PROVE  /\ hi[k] \in Nat /\ lo[k] \in Nat /\ k < hi[k] /\ lo[k] < k /\ k \in Nat
                      /\ hi[k] \in 0..HEADER /\ lo[k] \in 0..HEADER
    OBVIOUS
  <2>1. hi[k] \in Nat /\ lo[k] \in Nat /\ k < hi[k] /\ lo[k] < k /\ k \in Nat
    BY BoundsAre
  <2> QED
    BY <2>1 DEF Shape
<1>4. /\ \A k \in M : hi2[k] = IF k = y THEN hi[x] ELSE hi[k]
      /\ \A k \in M : lo2[k] = IF k = x THEN y ELSE lo[k]
  BY DEF Shape
<1>5. PICK inner, up : inner = nd[y].right /\ up = nd[x].parent
  OBVIOUS
<1>6. inner # NIL => inner \in M /\ nd[inner].parent = y /\ hi[inner] = x /\ lo[inner] = y
  BY <1>2, <1>5, ChildIs
<1>7. \/ x = root /\ up = HEADER
      \/ /\ x # root /\ up \in M /\ up # HEADER
         /\ \/ x = nd[up].right /\ x # nd[up].left /\ hi[x] = hi[up] /\ lo[x] = up
            \/ x = nd[up].left /\ x # nd[up].right /\ lo[x] = lo[up] /\ hi[x] = up
  BY <1>5, ParentOf
<1>8. y < x /\ x # y /\ inner # x /\ inner # y /\ up # x /\ up # y
  <2>1. y < x
    BY <1>2, <1>3
  <2>2. inner # x /\ inner # y
    BY <1>1, <1>3, <1>6
  <2>3. up # x /\ up # y
    BY <1>1, <1>2, <1>3, <1>7, <2>1
  <2> QED
    BY <1>3, <2>1, <2>2, <2>3
<1>9. N \in [Nodes -> Node] /\ \A k \in Nodes : N[k].parent = IF k = x THEN y ELSE IF k = y THEN up
                                    ELSE IF k = inner THEN x ELSE nd[k].parent
  BY <1>5 DEF TurnedRight
<1>10. /\ \A k \in M : N[k].right = IF k = y THEN x ELSE IF nd[k].right = x THEN y ELSE nd[k].right
       /\ \A k \in M : N[k].left = IF k = x THEN inner
                                    ELSE IF nd[k].left = x THEN y ELSE nd[k].left
  BY <1>5 DEF TurnedRight
<1>11. \A k \in M : /\ nd[k].right # NIL => nd[k].right \in M /\ nd[nd[k].right].parent = k
                                           /\ hi[nd[k].right] = hi[k] /\ lo[nd[k].right] = k
                    /\ nd[k].left # NIL => nd[k].left \in M /\ nd[nd[k].left].parent = k
                                           /\ hi[nd[k].left] = k /\ lo[nd[k].left] = lo[k]
  BY ChildIs
<1>12. top \in M /\ N[top].parent = HEADER /\ hi2[top] = HEADER /\ lo2[top] = 0
  <2>1. CASE x = root
    BY <1>1, <1>2, <1>4, <1>7, <1>8, <1>9, <2>1
  <2>2. CASE x # root
    <3>1. root # y /\ root # inner
      BY <1>1, <1>2, <1>6
    <3> QED
      BY <1>1, <1>4, <1>9, <2>2, <3>1
  <2> QED
    BY <2>1, <2>2
<1>13. hi2 \in [M -> 0..HEADER] /\ lo2 \in [M -> 0..HEADER]
  <2>1. y \in 0..HEADER
    BY BoundsAre, Size
  <2> QED
    BY <1>3, <2>1 DEF Shape
<1>14. \A k \in Keys \ M : N[k].parent = NIL
  <2> SUFFICES ASSUME NEW k \in Keys \ M PROVE N[k].parent = NIL
    OBVIOUS
  <2>1. nd[k].parent = NIL
    BY DEF Shape
  <2>2. k # inner \/ inner = NIL
    BY <1>6
  <2>3. k # NIL /\ k \in Nodes
    BY <1>1, NodesAre
  <2> QED
    BY <1>9, <2>1, <2>2, <2>3
<1>15. \A k \in M : k < hi2[k] /\ lo2[k] < k
  BY <1>2, <1>3, <1>4, <1>8
<1>16. ASSUME NEW k \in M, k # top
       PROVE  N[k].parent \in M /\ (k = N[N[k].parent].right \/ k = N[N[k].parent].left)
  <2>1. CASE k = x
    BY <1>1, <1>9, <1>10, <2>1
  <2>2. CASE k = y
    <3>1. x # root /\ N[y].parent = up
      BY <1>1, <1>8, <1>9, <1>16, <2>2
    <3> QED
      BY <1>7, <1>8, <1>10, <2>2, <3>1
  <2>3. CASE k = inner
    <3>1. N[k].parent = x /\ N[x].left = inner
      BY <1>1, <1>8, <1>9, <1>10, <2>3
    <3> QED
      BY <2>3, <3>1
  <2>4. CASE k # x /\ k # y /\ k # inner
    <3>1. k # root
      BY <1>16, <2>4
    <3>2. PICK p \in M : p = nd[k].parent /\ (k = nd[p].right \/ k = nd[p].left)
      BY <3>1 DEF Shape
    <3>3. N[k].parent = p
      BY <1>1, <1>9, <2>4, <3>2
    <3>4. k = nd[p].right => N[p].right = k
      BY <1>5, <1>10, <2>4, <3>2, Zenon
    <3>5. k = nd[p].left => N[p].left = k
      BY <1>5, <1>10, <2>4, <3>2, Zenon
    <3> QED
      BY <3>2, <3>3, <3>4, <3>5
  <2> QED
    BY <2>1, <2>2, <2>3, <2>4
<1>17. ASSUME NEW k \in M PROVE RightSide(N, M, lo2, hi2, k)
  <2>1. CASE k = y
    <3>1. N[y].right = x /\ N[x].parent = y /\ hi2[x] = hi[x] /\ hi2[y] = hi[x] /\ lo2[x] = y
      BY <1>1, <1>4, <1>8, <1>9, <1>10
    <3> QED
      BY <1>1, <2>1, <3>1 DEF RightSide
  <2>2. CASE k # y /\ nd[k].right = NIL
    <3>1. RightSide(nd, M, lo, hi, k)
      BY DEF Shape
    <3>2. N[k].right = NIL /\ hi2[k] = hi[k]
      BY <1>1, <1>4, <1>10, <2>2
    <3> QED
      BY <2>2, <3>1, <3>2 DEF RightSide
  <2>3. CASE k # y /\ nd[k].right = x
    <3>1. N[k].right = y /\ hi2[k] = hi[k] /\ up = k /\ hi2[y] = hi[x] /\ lo2[y] = lo[y] /\ N[y].parent = up
      BY <1>1, <1>4, <1>5, <1>8, <1>9, <1>10, <1>11, <2>3
    <3>2. hi[x] = hi[k] /\ lo[x] = k
      BY <1>1, <1>11, <2>3
    <3> QED
      BY <1>1, <1>2, <3>1, <3>2 DEF RightSide
  <2>4. CASE k # y /\ nd[k].right # x /\ nd[k].right # NIL
    <3>1. PICK l \in M : l = nd[k].right /\ nd[l].parent = k /\ hi[l] = hi[k] /\ lo[l] = k
      BY <1>11, <2>4
    <3>2. l # y /\ l # x /\ l # inner
      BY <1>1, <1>2, <1>3, <1>6, <1>8, <2>4, <3>1
    <3>3. N[k].right = l /\ N[l].parent = k /\ hi2[l] = hi[l] /\ hi2[k] = hi[k] /\ lo2[l] = lo[l]
      BY <1>1, <1>4, <1>9, <1>10, <2>4, <3>1, <3>2
    <3> QED
      BY <2>4, <3>1, <3>3 DEF RightSide
  <2> QED
    BY <2>1, <2>2, <2>3, <2>4
<1>18. ASSUME NEW k \in M PROVE LeftSide(N, M, lo2, hi2, k)
  <2>1. CASE k = x /\ inner = NIL
    <3>1. RightSide(nd, M, lo, hi, y) /\ nd[y].right = NIL
      BY <1>5, <2>1 DEF Shape
    <3>2. N[x].left = NIL /\ lo2[x] = y
      BY <1>4, <1>10, <2>1
    <3> QED
      BY <1>2, <2>1, <3>1, <3>2 DEF RightSide, LeftSide
  <2>2. CASE k = x /\ inner # NIL
    <3>1. N[x].left = inner /\ lo2[x] = y /\ N[inner].parent = x /\ hi2[inner] = x /\ lo2[inner] = y
      BY <1>1, <1>4, <1>6, <1>8, <1>9, <1>10, <2>2
    <3> QED
      BY <1>6, <2>2, <3>1 DEF LeftSide
  <2>3. CASE k # x /\ nd[k].left = NIL
    <3>1. LeftSide(nd, M, lo, hi, k)
      BY DEF Shape
    <3>2. N[k].left = NIL /\ lo2[k] = lo[k]
      BY <1>1, <1>4, <1>10, <2>3
    <3> QED
      BY <2>3, <3>1, <3>2 DEF LeftSide
  <2>4. CASE k # x /\ nd[k].left = x
    <3>1. up = k
      BY <1>1, <1>5, <1>11, <2>4
    <3>2. N[k].left = y /\ lo2[k] = lo[k] /\ hi2[y] = hi[x] /\ lo2[y] = lo[y] /\ N[y].parent = up
      BY <1>1, <1>4, <1>8, <1>9, <1>10, <2>4, <3>1
    <3>3. lo[x] = lo[k] /\ hi[x] = k
      BY <1>1, <1>11, <2>4
    <3> QED
      BY <1>1, <1>2, <3>1, <3>2, <3>3 DEF LeftSide
  <2>5. CASE k # x /\ nd[k].left # x /\ nd[k].left # NIL
    <3>1. PICK l \in M : l = nd[k].left /\ nd[l].parent = k /\ hi[l] = k /\ lo[l] = lo[k]
      BY <1>11, <2>5
    <3>2. l # y /\ l # x /\ l # inner
      BY <1>1, <1>2, <1>3, <1>6, <1>8, <2>5, <3>1
    <3>3. N[k].left = l /\ N[l].parent = k /\ hi2[l] = hi[l] /\ lo2[k] = lo[k] /\ lo2[l] = lo[l]
      BY <1>1, <1>4, <1>9, <1>10, <2>5, <3>1, <3>2
    <3> QED
      BY <2>5, <3>1, <3>3 DEF LeftSide
  <2> QED
    BY <2>1, <2>2, <2>3, <2>4, <2>5
<1>19. \A j, k \in M : k < j => Apart(lo2, hi2, k, j)
  BY TurnedRightApart
<1> HIDE DEF top
<1>20. Shape(N, top, M, lo2, hi2)
  BY <1>1, <1>9, <1>12, <1>13, <1>14, <1>15, <1>16, <1>17, <1>18, <1>19 DEF Shape
<1> QED
  BY <1>20 DEF top

----------------------------------------------------------------------------
(* Colours.                                                               *)

\* The same links.
SameLinks(a, b) ==
  \A k \in Nodes : a[k].parent = b[k].parent /\ a[k].left = b[k].left /\ a[k].right = b[k].right

LEMMA ColoursAside ==
  ASSUME NEW a, NEW b \in [Nodes -> Node], NEW M, NEW lo, NEW hi, NEW root,
         Shape(a, root, M, lo, hi), SameLinks(a, b)
  PROVE  Shape(b, root, M, lo, hi)
<1>1. M \subseteq Nodes /\ root \in M /\ M \subseteq Keys /\ Keys \subseteq Nodes
  BY NodesAre DEF Shape, Nodes
<1>2. \A k \in Nodes : a[k].parent = b[k].parent /\ a[k].left = b[k].left /\ a[k].right = b[k].right
  BY DEF SameLinks
<1>3. \A k \in M : a[k].left # NIL => a[k].left \in M
  BY ChildIs
<1>4. \A k \in M : a[k].right # NIL => a[k].right \in M
  BY ChildIs
<1>5. ASSUME NEW k \in M PROVE LeftSide(b, M, lo, hi, k) /\ RightSide(b, M, lo, hi, k)
  <2>1. LeftSide(a, M, lo, hi, k) /\ RightSide(a, M, lo, hi, k)
    BY DEF Shape
  <2> QED
    BY <1>1, <1>2, <1>3, <1>4, <2>1 DEF LeftSide, RightSide
<1>6. ASSUME NEW k \in M, k # root
      PROVE  b[k].parent \in M /\ (k = b[b[k].parent].left \/ k = b[b[k].parent].right)
  <2>1. a[k].parent \in M /\ (k = a[a[k].parent].left \/ k = a[a[k].parent].right)
    BY <1>6 DEF Shape
  <2> QED
    BY <1>1, <1>2, <2>1
<1>7. b[root].parent = HEADER /\ \A k \in Keys \ M : b[k].parent = NIL
  BY <1>1, <1>2 DEF Shape
<1> QED
  BY <1>5, <1>6, <1>7 DEF Shape

Black(nd, k) == IF nd[k].colour = BLACK THEN 1 ELSE 0
Height(h, c) == IF c = NIL THEN 0 ELSE h[c]

\* h is the number of black nodes on the way down from a node, whichever way.
Level(nd, M, h) ==
  /\ h \in [M -> Nat]
  /\ \A k \in M : /\ Height(h, nd[k].left) = Height(h, nd[k].right)
                  /\ h[k] = Height(h, nd[k].left) + Black(nd, k)

\* A red node has a black parent, but for x.
Reds(nd, root, M, x) ==
  \A k \in M : nd[k].colour = RED /\ k # root /\ k # x => nd[nd[k].parent].colour = BLACK

\* While x may clash with its parent.
Fixing(nd, root, M, h, x) ==
  /\ Level(nd, M, h) /\ Reds(nd, root, M, x)
  /\ x \in M /\ nd[x].colour = RED
  /\ x # root => nd[root].colour = BLACK

LEMMA ColourIs ==
  ASSUME NEW nd \in [Nodes -> Node], NEW k \in Nodes
  PROVE  nd[k].colour \in {RED, BLACK} /\ RED # BLACK
BY NodeIs, TreeAssumption

\* x clashes with its parent p, whose parent is g.
Clashing(nd, root, M, h, x, p, g) ==
  /\ Fixing(nd, root, M, h, x)
  /\ x # root /\ p = nd[x].parent /\ nd[p].colour = RED /\ g = nd[p].parent

LEMMA FamilyIs ==
  ASSUME NEW nd, NEW M, NEW lo, NEW hi, NEW root, NEW h, NEW x, NEW p, NEW g,
         Shape(nd, root, M, lo, hi), Clashing(nd, root, M, h, x, p, g)
  PROVE  /\ p \in M /\ p # root /\ g \in M /\ nd[g].colour = BLACK
         /\ x # p /\ p # g /\ x # g
         /\ \/ x = nd[p].left /\ x # nd[p].right
            \/ x = nd[p].right /\ x # nd[p].left
         /\ \/ p = nd[g].left /\ p # nd[g].right
            \/ p = nd[g].right /\ p # nd[g].left
         /\ hi[x] - lo[x] < hi[g] - lo[g]
<1>0. /\ Fixing(nd, root, M, h, x)
      /\ x # root /\ p = nd[x].parent /\ nd[p].colour = RED /\ g = nd[p].parent
  BY DEF Clashing
<1>1. /\ p \in M
      /\ \/ x = nd[p].left /\ x # nd[p].right /\ lo[x] = lo[p] /\ hi[x] = p
         \/ x = nd[p].right /\ x # nd[p].left /\ hi[x] = hi[p] /\ lo[x] = p
  BY <1>0, ParentOf DEF Fixing
<1>2. p # root
  BY <1>0, TreeAssumption DEF Fixing
<1>3. /\ g \in M
      /\ \/ p = nd[g].left /\ p # nd[g].right /\ lo[p] = lo[g] /\ hi[p] = g
         \/ p = nd[g].right /\ p # nd[g].left /\ hi[p] = hi[g] /\ lo[p] = g
  BY <1>0, <1>1, <1>2, ParentOf
<1>4. x \in M
  BY <1>0 DEF Fixing
<1>5. /\ lo[x] < x /\ x < hi[x] /\ lo[p] < p /\ p < hi[p] /\ lo[g] < g /\ g < hi[g]
      /\ x \in Nat /\ p \in Nat /\ g \in Nat
      /\ lo[x] \in Nat /\ hi[x] \in Nat /\ lo[p] \in Nat /\ hi[p] \in Nat /\ lo[g] \in Nat /\ hi[g] \in Nat
  BY <1>1, <1>3, <1>4, BoundsAre
<1>6. x # p /\ p # g /\ x # g /\ hi[x] - lo[x] < hi[g] - lo[g]
  BY <1>1, <1>3, <1>5
<1>7. nd[g].colour = BLACK
  BY <1>0, <1>1, <1>2, <1>3, <1>6, SMTT(30) DEF Fixing, Reds
<1> QED
  BY <1>1, <1>2, <1>3, <1>6, <1>7

\* n is m with q of colour d.
Coloured(m, n, q, d) ==
  /\ n \in [Nodes -> Node] /\ SameLinks(m, n)
  /\ \A k \in Nodes : n[k].colour = IF k = q THEN d ELSE m[k].colour
  /\ \A k \in Nodes : k # q => n[k] = m[k]

LEMMA OneColoured ==
  ASSUME NEW m \in [Nodes -> Node], NEW q \in Nodes, NEW d \in {RED, BLACK}
  PROVE  Coloured(m, [m EXCEPT ![q].colour = d], q, d)
<1> DEFINE n == [m EXCEPT ![q].colour = d]
<1>1. n[q] = [colour |-> d, parent |-> m[q].parent, left |-> m[q].left, right |-> m[q].right]
  BY DEF Node
<1>2. \A k \in Nodes : k # q => n[k] = m[k]
  OBVIOUS
<1>3. n = [k \in Nodes |-> n[k]]
  OBVIOUS
<1>4. n[q] \in Node
  BY <1>1, NodeIs DEF Node
<1> HIDE DEF n
<1>5. n \in [Nodes -> Node]
  BY <1>2, <1>3, <1>4
<1>6. SameLinks(m, n)
  BY <1>1, <1>2 DEF SameLinks
<1>7. \A k \in Nodes : n[k].colour = IF k = q THEN d ELSE m[k].colour
  BY <1>1, <1>2
<1>8. Coloured(m, n, q, d)
  BY <1>2, <1>5, <1>6, <1>7 DEF Coloured
<1> QED
  BY <1>8 DEF n

\* Two nodes and then a third are given a colour.
Repainted(nd, N, p, u, g, a, b, c) ==
  /\ N \in [Nodes -> Node] /\ SameLinks(nd, N)
  /\ \A k \in Nodes : N[k].colour = IF k = g THEN c ELSE IF k = u THEN b
                                    ELSE IF k = p THEN a ELSE nd[k].colour
  /\ \A k \in Nodes : k # p /\ k # u /\ k # g => N[k] = nd[k]

LEMMA Painted ==
  ASSUME NEW nd \in [Nodes -> Node], NEW p \in Nodes, NEW u \in Nodes, NEW g \in Nodes,
         NEW a \in {RED, BLACK}, NEW b \in {RED, BLACK}, NEW c \in {RED, BLACK}
  PROVE  Repainted(nd, [[[nd EXCEPT ![p].colour = a] EXCEPT ![u].colour = b] EXCEPT ![g].colour = c],
                   p, u, g, a, b, c)
<1> DEFINE n1 == [nd EXCEPT ![p].colour = a]
           n2 == [n1 EXCEPT ![u].colour = b]
           n3 == [n2 EXCEPT ![g].colour = c]
<1>1. Coloured(nd, n1, p, a)
  BY OneColoured, Zenon
<1> HIDE DEF n1
<1>2. n1 \in [Nodes -> Node]
  BY <1>1 DEF Coloured
<1>3. Coloured(n1, n2, u, b)
  BY <1>2, OneColoured, Zenon
<1> HIDE DEF n2
<1>4. n2 \in [Nodes -> Node]
  BY <1>3 DEF Coloured
<1>5. Coloured(n2, n3, g, c)
  BY <1>4, OneColoured, Zenon
<1> HIDE DEF n3
<1>6. SameLinks(nd, n3)
  BY <1>1, <1>3, <1>5 DEF SameLinks, Coloured
<1>7. \A k \in Nodes : n3[k].colour = IF k = g THEN c ELSE IF k = u THEN b
                                      ELSE IF k = p THEN a ELSE nd[k].colour
  BY <1>1, <1>3, <1>5 DEF Coloured
<1>8. \A k \in Nodes : k # p /\ k # u /\ k # g => n3[k] = nd[k]
  BY <1>1, <1>3, <1>5 DEF Coloured
<1>9. n3 \in [Nodes -> Node]
  BY <1>5 DEF Coloured
<1>10. Repainted(nd, n3, p, u, g, a, b, c)
  BY <1>6, <1>7, <1>8, <1>9 DEF Repainted
<1> QED
  BY <1>10 DEF n1, n2, n3

LEMMA RecolourKeeps ==
  ASSUME NEW nd, NEW M, NEW lo, NEW hi, NEW root, NEW h, NEW x, NEW p, NEW g, NEW u, NEW N, NEW h2,
         Shape(nd, root, M, lo, hi), Clashing(nd, root, M, h, x, p, g),
         u \in M, u # p, (p = nd[g].left /\ u = nd[g].right) \/ (p = nd[g].right /\ u = nd[g].left), nd[u].colour = RED,
         Repainted(nd, N, p, u, g, BLACK, BLACK, RED),
         h2 = [h EXCEPT ![p] = h[p] + 1, ![u] = h[u] + 1]
  PROVE  Fixing(N, root, M, h2, g)
<1>11. /\ N \in [Nodes -> Node] /\ SameLinks(nd, N)
       /\ \A k \in Nodes : N[k].colour = IF k = g THEN RED ELSE IF k = u THEN BLACK
                                          ELSE IF k = p THEN BLACK ELSE nd[k].colour
  BY DEF Repainted
<1>0. /\ Fixing(nd, root, M, h, x)
      /\ x # root /\ p = nd[x].parent /\ nd[p].colour = RED /\ g = nd[p].parent
  BY DEF Clashing
<1>1. p \in M /\ p # root /\ g \in M /\ nd[g].colour = BLACK /\ x # p /\ p # g /\ x # g
  BY FamilyIs
<1>2. nd \in [Nodes -> Node] /\ M \subseteq Nodes /\ NIL \notin M /\ root \in M /\ HEADER \notin M
  BY NodesAre DEF Shape, Nodes
<1>3. h \in [M -> Nat] /\ x \in M /\ nd[x].colour = RED /\ nd[root].colour = BLACK /\ RED # BLACK
  BY <1>0, TreeAssumption DEF Fixing, Level
<1>4. u # g /\ u # x /\ nd[u].parent = g /\ nd[p].parent = g /\ u # root
  <2>1. nd[u].parent = g
    BY <1>1, <1>2, ChildIs
  <2> QED
    BY <1>0, <1>1, <1>2, <1>3, <2>1
<1>5. h2 \in [M -> Nat] /\ \A k \in M : h2[k] = IF k = p \/ k = u THEN h[k] + 1 ELSE h[k]
  <2>1. h2 \in [M -> Nat]
    BY <1>1, <1>3
  <2>2. \A k \in M : h2[k] = IF k = p \/ k = u THEN h[k] + 1 ELSE h[k]
    BY <1>1, <1>3
  <2> QED
    BY <2>1, <2>2
<1>6. \A k \in Nodes : N[k].parent = nd[k].parent /\ N[k].left = nd[k].left /\ N[k].right = nd[k].right
  BY <1>11 DEF SameLinks
<1>7. ASSUME NEW k \in M
      PROVE  /\ Height(h2, N[k].left) = Height(h2, N[k].right)
             /\ h2[k] = Height(h2, N[k].left) + Black(N, k)
  <2>1. /\ nd[k].left # NIL => nd[k].left \in M /\ nd[nd[k].left].parent = k
        /\ nd[k].right # NIL => nd[k].right \in M /\ nd[nd[k].right].parent = k
    BY ChildIs
  <2>2. /\ Height(h, nd[k].left) = Height(h, nd[k].right)
        /\ h[k] = Height(h, nd[k].left) + Black(nd, k)
    BY <1>0 DEF Fixing, Level
  <2>3. CASE k = g
    <3>1. h[p] = h[u] /\ h[g] = h[p] + 1
      BY <1>1, <1>2, <1>3, <2>2, <2>3 DEF Height, Black
    <3>2. Height(h2, N[k].left) = h[p] + 1 /\ Height(h2, N[k].right) = h[p] + 1
      <4>1. h2[p] = h[p] + 1 /\ h2[u] = h[p] + 1 /\ p # NIL /\ u # NIL
        BY <1>1, <1>2, <1>5, <3>1
      <4>2. N[k].left = nd[g].left /\ N[k].right = nd[g].right
        BY <1>1, <1>2, <1>6, <2>3
      <4> QED
        BY <4>1, <4>2 DEF Height
    <3>3. h2[k] = h[g] /\ Black(N, k) = 0 /\ h[g] \in Nat
      BY <1>1, <1>2, <1>3, <1>4, <1>5, <1>11, <2>3 DEF Black
    <3> QED
      BY <3>1, <3>2, <3>3
  <2>4. CASE k # g
    <3>1. nd[k].left \notin {p, u} /\ nd[k].right \notin {p, u}
      BY <1>1, <1>2, <1>4, <2>1, <2>4
    <3>2. Height(h2, N[k].left) = Height(h, nd[k].left) /\ Height(h2, N[k].right) = Height(h, nd[k].right)
      BY <1>2, <1>5, <1>6, <2>1, <3>1 DEF Height
    <3>3. h2[k] = h[k] + Black(N, k) - Black(nd, k)
      <4>1. CASE k = p \/ k = u
        <5>1. h2[k] = h[k] + 1 /\ h[k] \in Nat
          BY <1>3, <1>5, <4>1
        <5>2. N[k].colour = BLACK /\ nd[k].colour = RED
          BY <1>0, <1>1, <1>2, <1>4, <1>11, <2>4, <4>1, SMTT(30)
        <5> QED
          BY <1>3, <5>1, <5>2 DEF Black
      <4>2. CASE k # p /\ k # u
        <5>1. N[k].colour = nd[k].colour
          BY <1>2, <1>11, <2>4, <4>2
        <5>2. h2[k] = h[k] /\ h[k] \in Nat /\ Black(nd, k) \in Nat /\ Black(N, k) = Black(nd, k)
          BY <1>3, <1>5, <4>2, <5>1 DEF Black
        <5> QED
          BY <5>2
      <4> QED
        BY <4>1, <4>2
    <3>4. h[k] \in Nat /\ Height(h, nd[k].left) \in Nat /\ Black(N, k) \in Nat /\ Black(nd, k) \in Nat
      BY <1>3, <2>1 DEF Height, Black
    <3> QED
      BY <2>2, <3>2, <3>3, <3>4
  <2> QED
    BY <2>3, <2>4
<1>8. Level(N, M, h2)
  BY <1>5, <1>7 DEF Level
<1>9. ASSUME NEW k \in M, N[k].colour = RED, k # root, k # g PROVE N[N[k].parent].colour = BLACK
  <2>1. k # p /\ k # u /\ nd[k].colour = RED
    BY <1>2, <1>3, <1>9, <1>11
  <2>2. nd[k].parent \in M
    BY <1>9 DEF Shape
  <2>3. CASE k = x
    BY <1>0, <1>1, <1>2, <1>4, <1>6, <1>11, <2>3, SMTT(30)
  <2>4. CASE k # x
    <3>1. nd[nd[k].parent].colour = BLACK
      BY <1>0, <1>9, <2>1, <2>4 DEF Fixing, Reds
    <3>2. nd[k].parent # g
      <4>1. k = nd[nd[k].parent].left \/ k = nd[nd[k].parent].right
        BY <1>9 DEF Shape
      <4> QED
        BY <2>1, <4>1
    <3> QED
      BY <1>2, <1>6, <1>11, <2>2, <3>1, <3>2
  <2> QED
    BY <2>3, <2>4
<1>10. N[g].colour = RED /\ (g # root => N[root].colour = BLACK)
  BY <1>1, <1>2, <1>3, <1>11
<1> QED
  BY <1>1, <1>8, <1>9, <1>10 DEF Fixing, Reds

----------------------------------------------------------------------------
(* Rotations and the colours.                                             *)

\* The rules hold.
Settled(nd, root, M, h) ==
  Level(nd, M, h) /\ Reds(nd, root, M, NIL) /\ nd[root].colour = BLACK

\* A red y under g may clash with its outer child only.
ReadyLeft(nd, root, M, h, g, y) ==
  /\ Level(nd, M, h) /\ g \in M /\ y \in M
  /\ nd[g].colour = BLACK /\ nd[y].colour = RED /\ nd[root].colour = BLACK
  /\ y = nd[g].left /\ (nd[g].right = NIL \/ nd[nd[g].right].colour = BLACK)
  /\ Reds(nd, root, M, nd[y].left)

\* g is painted red, y black, and g turned down.
Topping(nd, g, y, nd2) ==
  /\ nd2 \in [Nodes -> Node] /\ SameLinks(nd, nd2)
  /\ \A k \in Nodes : nd2[k].colour = IF k = g THEN RED ELSE IF k = y THEN BLACK ELSE nd[k].colour

ToppingLeft(nd, root, M, lo, hi, h, g, y, nd2, N, root2, h2) ==
  /\ Shape(nd, root, M, lo, hi) /\ ReadyLeft(nd, root, M, h, g, y)
  /\ Topping(nd, g, y, nd2) /\ TurnedRight(nd2, M, g, y, N)
  /\ root2 = IF g = root THEN y ELSE root
  /\ h2 = [h EXCEPT ![g] = h[y], ![y] = h[g]]

LEMMA TopLeft ==
  ASSUME NEW nd, NEW M, NEW lo, NEW hi, NEW root, NEW h, NEW g, NEW y, NEW nd2, NEW N, NEW h2, NEW root2,
         ToppingLeft(nd, root, M, lo, hi, h, g, y, nd2, N, root2, h2)
  PROVE  Settled(N, root2, M, h2)
<1> SUFFICES ASSUME Shape(nd, root, M, lo, hi), ReadyLeft(nd, root, M, h, g, y),
                    nd2 \in [Nodes -> Node], SameLinks(nd, nd2),
                    \A k \in Nodes : nd2[k].colour = IF k = g THEN RED ELSE IF k = y THEN BLACK ELSE nd[k].colour,
                    TurnedRight(nd2, M, g, y, N),
                    root2 = IF g = root THEN y ELSE root,
                    h2 = [h EXCEPT ![g] = h[y], ![y] = h[g]]
             PROVE  Settled(N, root2, M, h2)
  BY DEF ToppingLeft, Topping
<1>1. /\ h \in [M -> Nat] /\ g \in M /\ y \in M /\ y = nd[g].left
      /\ nd[g].colour = BLACK /\ nd[y].colour = RED /\ nd[root].colour = BLACK
      /\ nd[g].right = NIL \/ nd[nd[g].right].colour = BLACK
  BY DEF ReadyLeft, Level
<1>2. nd \in [Nodes -> Node] /\ M \subseteq Nodes /\ NIL \notin M /\ root \in M /\ HEADER \notin M
  BY NodesAre DEF Shape, Nodes
<1>3. RED # BLACK
  BY TreeAssumption
<1>4. ASSUME NEW k \in M
      PROVE  /\ nd[k].left # NIL => nd[k].left \in M /\ nd[nd[k].left].parent = k
             /\ nd[k].right # NIL => nd[k].right \in M /\ nd[nd[k].right].parent = k
             /\ nd[k].left # k /\ nd[k].right # k
             /\ nd[k].left # NIL => nd[k].left # nd[k].right
  <2>1. /\ nd[k].left # NIL => nd[k].left \in M /\ nd[nd[k].left].parent = k /\ hi[nd[k].left] = k
        /\ nd[k].right # NIL => nd[k].right \in M /\ nd[nd[k].right].parent = k /\ lo[nd[k].right] = k
    BY ChildIs
  <2>2. ASSUME NEW j \in M PROVE lo[j] < j /\ j < hi[j] /\ j \in Nat /\ lo[j] \in Nat /\ hi[j] \in Nat
    BY BoundsAre
  <2> QED
    BY <1>2, <2>1, <2>2
<1>5. nd[y].parent = g /\ y # g /\ nd[y].left # g /\ nd[y].right # g /\ nd[g].right # y
  <2>1. nd[y].parent = g /\ y # g /\ nd[g].right # y
    BY <1>1, <1>2, <1>4
  <2>2. nd[g].parent # y
    <3>1. hi[y] = g /\ lo[y] = lo[g] /\ g < hi[g] /\ lo[g] < g /\ g \in Nat /\ hi[g] \in Nat /\ lo[g] \in Nat
          /\ lo[y] < y /\ y < hi[y] /\ y \in Nat
      <4>1. hi[y] = g /\ lo[y] = lo[g]
        BY <1>1, <1>2, ChildIs
      <4> QED
        BY <1>1, <4>1, BoundsAre
    <3>2. nd[g].parent = y => lo[g] = y \/ hi[g] = y
      BY <1>1, <1>2, ParentOf
    <3> QED
      BY <3>1, <3>2
  <2> QED
    BY <1>1, <1>2, <1>4, <2>1, <2>2
<1>14. ASSUME NEW c, c = nd[y].left \/ c = nd[y].right \/ c = nd[g].right
       PROVE  c # y /\ c # g /\ (c \in M \/ c = NIL)
  BY <1>1, <1>4, <1>5, <1>14
<1>6. h2 \in [M -> Nat] /\ \A k \in M : h2[k] = IF k = y THEN h[g] ELSE IF k = g THEN h[y] ELSE h[k]
  <2>1. h2 \in [M -> Nat]
    BY <1>1
  <2>2. \A k \in M : h2[k] = IF k = y THEN h[g] ELSE IF k = g THEN h[y] ELSE h[k]
    BY <1>1
  <2> QED
    BY <2>1, <2>2
<1>7. /\ \A k \in Nodes : N[k].colour = IF k = g THEN RED ELSE IF k = y THEN BLACK ELSE nd[k].colour
      /\ \A k \in Nodes : N[k].parent = IF k = g THEN y ELSE IF k = y THEN nd[g].parent
                                        ELSE IF k = nd[y].right THEN g ELSE nd[k].parent
      /\ \A k \in M : N[k].right = IF k = y THEN g ELSE IF nd[k].right = g THEN y ELSE nd[k].right
      /\ \A k \in M : N[k].left = IF k = g THEN nd[y].right
                                  ELSE IF nd[k].left = g THEN y ELSE nd[k].left
  BY <1>1, <1>2 DEF TurnedRight, SameLinks
<1>8. ASSUME NEW k \in M
      PROVE  /\ Height(h, nd[k].left) = Height(h, nd[k].right) /\ Height(h, nd[k].left) \in Nat
             /\ h[k] = Height(h, nd[k].left) + Black(nd, k) /\ h[k] \in Nat
  <2>1. /\ Height(h, nd[k].left) = Height(h, nd[k].right)
        /\ h[k] = Height(h, nd[k].left) + Black(nd, k)
    BY DEF ReadyLeft, Level
  <2>2. Height(h, nd[k].left) \in Nat
    BY <1>1, <1>4 DEF Height
  <2> QED
    BY <1>1, <2>1, <2>2
<1>9. /\ Height(h, nd[y].left) = h[y] /\ Height(h, nd[y].right) = h[y]
      /\ Height(h, nd[g].right) = h[y] /\ h[g] = h[y] + 1
  <2>1. Black(nd, y) = 0 /\ Black(nd, g) = 1
    BY <1>1, <1>3 DEF Black
  <2>2. Height(h, nd[g].left) = h[y]
    BY <1>1, <1>2 DEF Height
  <2> QED
    BY <1>1, <1>8, <2>1, <2>2
<1>10. \A c : c # y /\ c # g /\ (c \in M \/ c = NIL) => Height(h2, c) = Height(h, c)
  BY <1>6 DEF Height
<1>11. ASSUME NEW k \in M
       PROVE  /\ Height(h2, N[k].left) = Height(h2, N[k].right)
              /\ h2[k] = Height(h2, N[k].left) + Black(N, k)
  <2>1. CASE k = y
    <3>1. N[k].left = nd[y].left /\ N[k].right = g
      BY <1>1, <1>5, <1>7, <2>1
    <3>2. Height(h2, N[k].left) = h[y]
      BY <1>9, <1>10, <1>14, <3>1
    <3>3. Height(h2, N[k].right) = h[y]
      BY <1>1, <1>2, <1>5, <1>6, <3>1 DEF Height
    <3>4. h2[k] = h[y] + 1 /\ Black(N, k) = 1
      BY <1>1, <1>2, <1>5, <1>6, <1>7, <1>9, <2>1 DEF Black
    <3> QED
      BY <3>2, <3>3, <3>4
  <2>2. CASE k = g
    <3>1. N[k].left = nd[y].right /\ N[k].right = nd[g].right
      BY <1>1, <1>4, <1>5, <1>7, <2>2
    <3>2. Height(h2, N[k].left) = h[y]
      BY <1>9, <1>10, <1>14, <3>1
    <3>3. Height(h2, N[k].right) = h[y]
      BY <1>9, <1>10, <1>14, <3>1
    <3>4. h2[k] = h[y] /\ Black(N, k) = 0 /\ h[y] \in Nat
      BY <1>1, <1>2, <1>3, <1>5, <1>6, <1>7, <2>2 DEF Black
    <3> QED
      BY <3>2, <3>3, <3>4
  <2>3. CASE k # y /\ k # g
    <3>1. nd[k].left # y /\ nd[k].right # y
      BY <1>1, <1>2, <1>4, <1>5, <2>3
    <3>2. Height(h2, y) = Height(h, g)
      BY <1>1, <1>2, <1>6 DEF Height
    <3>3. Height(h2, N[k].left) = Height(h, nd[k].left)
      BY <1>4, <1>7, <1>10, <2>3, <3>1, <3>2
    <3>4. Height(h2, N[k].right) = Height(h, nd[k].right)
      BY <1>4, <1>7, <1>10, <2>3, <3>1, <3>2
    <3>5. h2[k] = h[k] /\ Black(N, k) = Black(nd, k)
      BY <1>2, <1>6, <1>7, <2>3 DEF Black
    <3> QED
      BY <1>8, <3>3, <3>4, <3>5
  <2> QED
    BY <2>1, <2>2, <2>3
<1>12. ASSUME NEW k \in M, N[k].colour = RED, k # root2
       PROVE  N[N[k].parent].colour = BLACK
  <2>1. k # y
    BY <1>1, <1>2, <1>3, <1>5, <1>7, <1>12
  <2>2. CASE k = g
    BY <1>1, <1>2, <1>5, <1>7, <2>2
  <2>3. CASE k # g
    <3>1. k # root /\ nd[k].colour = RED
      BY <1>2, <1>7, <1>12, <2>1, <2>3
    <3>2. nd[k].parent \in M /\ (k = nd[nd[k].parent].left \/ k = nd[nd[k].parent].right)
      BY <3>1 DEF Shape
    <3>3. k # nd[y].left => nd[nd[k].parent].colour = BLACK
      BY <3>1 DEF ReadyLeft, Reds
    <3>4. k # nd[y].right
      <4>1. k = nd[y].right => nd[k].parent = y /\ k # nd[y].left
        BY <1>1, <1>2, <1>4
      <4> QED
        BY <1>1, <1>3, <3>3, <4>1
    <3>5. N[k].parent = nd[k].parent
      BY <1>2, <1>7, <2>1, <2>3, <3>4
    <3>6. nd[k].parent # g
      BY <1>1, <1>2, <1>3, <2>1, <3>1, <3>2
    <3>7. CASE nd[k].parent = y
      BY <1>1, <1>2, <1>5, <1>7, <3>5, <3>7
    <3>8. CASE nd[k].parent # y
      <4>1. k # nd[y].left
        BY <1>1, <1>2, <1>4, <3>8
      <4> QED
        BY <1>2, <1>7, <3>2, <3>3, <3>5, <3>6, <3>8, <4>1
    <3> QED
      BY <3>7, <3>8
  <2> QED
    BY <2>2, <2>3
<1>13. N[root2].colour = BLACK
  <2>1. root # y
    BY <1>1, <1>3
  <2> QED
    BY <1>1, <1>2, <1>5, <1>7, <2>1
<1> QED
  BY <1>6, <1>11, <1>12, <1>13 DEF Settled, Level, Reds

LEMMA OuterLeft ==
  ASSUME NEW nd, NEW M, NEW lo, NEW hi, NEW root, NEW h, NEW x, NEW p, NEW g,
         Shape(nd, root, M, lo, hi), Clashing(nd, root, M, h, x, p, g),
         p = nd[g].left, x = nd[p].left, nd[g].right = NIL \/ nd[nd[g].right].colour = BLACK
  PROVE  ReadyLeft(nd, root, M, h, g, p)
<1>0. /\ Fixing(nd, root, M, h, x)
      /\ x # root /\ p = nd[x].parent /\ nd[p].colour = RED /\ g = nd[p].parent
  BY Zenon DEF Clashing
<1>1. p \in M /\ g \in M /\ nd[g].colour = BLACK
  BY FamilyIs
<1> QED
  BY <1>0, <1>1, Zenon DEF ReadyLeft, Fixing

LEMMA InnerLeft ==
  ASSUME NEW nd, NEW M, NEW lo, NEW hi, NEW root, NEW h, NEW x, NEW p, NEW g, NEW N,
         Shape(nd, root, M, lo, hi), Clashing(nd, root, M, h, x, p, g),
         p = nd[g].left, x = nd[p].right, nd[g].right = NIL \/ nd[nd[g].right].colour = BLACK,
         TurnedLeft(nd, M, p, x, N)
  PROVE  ReadyLeft(N, root, M, h, g, x)
<1>0. /\ Fixing(nd, root, M, h, x)
      /\ x # root /\ p = nd[x].parent /\ nd[p].colour = RED /\ g = nd[p].parent
  BY Zenon DEF Clashing
<1>1. p \in M /\ p # root /\ g \in M /\ nd[g].colour = BLACK /\ x # p /\ p # g /\ x # g
  BY FamilyIs
<1>2. nd \in [Nodes -> Node] /\ M \subseteq Nodes /\ NIL \notin M /\ root \in M /\ HEADER \notin M
  BY NodesAre DEF Shape, Nodes
<1>3. /\ RED # BLACK /\ h \in [M -> Nat] /\ x \in M /\ nd[x].colour = RED /\ nd[root].colour = BLACK
  BY <1>0, TreeAssumption, Zenon DEF Fixing, Level
<1>4. ASSUME NEW k \in M
      PROVE  /\ nd[k].left # NIL => nd[k].left \in M /\ nd[nd[k].left].parent = k
             /\ nd[k].right # NIL => nd[k].right \in M /\ nd[nd[k].right].parent = k
  BY ChildIs
<1>5. /\ \A k \in Nodes : N[k].colour = nd[k].colour
      /\ \A k \in Nodes : N[k].parent = IF k = p THEN x ELSE IF k = x THEN g
                                        ELSE IF k = nd[x].left THEN p ELSE nd[k].parent
      /\ \A k \in M : N[k].left = IF k = x THEN p ELSE IF nd[k].left = p THEN x ELSE nd[k].left
      /\ \A k \in M : N[k].right = IF k = p THEN nd[x].left
                                  ELSE IF nd[k].right = p THEN x ELSE nd[k].right
  BY <1>0, Zenon DEF TurnedLeft
<1>6. ASSUME NEW k \in M
      PROVE  /\ Height(h, nd[k].left) = Height(h, nd[k].right)
             /\ h[k] = Height(h, nd[k].left) + Black(nd, k)
             /\ nd[k].colour = RED => h[k] = Height(h, nd[k].left)
  <2>1. /\ Height(h, nd[k].left) = Height(h, nd[k].right)
        /\ h[k] = Height(h, nd[k].left) + Black(nd, k)
    BY <1>0, Zenon DEF Fixing, Level
  <2>2. Height(h, nd[k].left) \in Nat
    BY <1>3, <1>4 DEF Height
  <2> QED
    BY <1>3, <2>1, <2>2 DEF Black
<1>7. h[p] = h[x] /\ Height(h, p) = h[x] /\ Height(h, x) = h[x]
  <2>1. h[p] = Height(h, x)
    BY <1>0, <1>1, <1>6, Zenon
  <2> QED
    BY <1>1, <1>2, <1>3, <2>1 DEF Height
<1>8. ASSUME NEW k \in M
      PROVE  /\ Height(h, N[k].left) = Height(h, N[k].right)
             /\ h[k] = Height(h, N[k].left) + Black(N, k)
  <2>1. Black(N, k) = Black(nd, k)
    BY <1>2, <1>5 DEF Black
  <2>2. CASE k = x
    <3>1. N[k].left = p /\ Height(h, nd[x].right) = h[x]
      <4>1. N[x].left = p
        BY <1>3, <1>5, Zenon
      <4>2. Height(h, nd[x].right) = h[x]
        BY <1>3, <1>6, Zenon
      <4> QED
        BY <2>2, <4>1, <4>2, Zenon
    <3>2. nd[x].right # p
      <4>1. nd[p].parent = g /\ x # g
        BY <1>0, <1>1, Zenon
      <4> QED
        BY <1>1, <1>2, <1>3, <1>4
    <3>3. N[k].right = nd[x].right
      BY <1>1, <1>3, <1>5, <2>2, <3>2, Zenon
    <3>4. Black(nd, x) = 0 /\ h[x] \in Nat
      BY <1>3 DEF Black
    <3> QED
      BY <1>7, <2>1, <2>2, <3>1, <3>3, <3>4
  <2>3. CASE k = p
    <3>1. N[k].right = nd[x].left /\ Height(h, nd[x].left) = h[x]
      <4>1. N[p].right = nd[x].left
        BY <1>1, <1>5, Zenon
      <4>2. Height(h, nd[x].left) = h[x]
        BY <1>3, <1>6, Zenon
      <4> QED
        BY <2>3, <4>1, <4>2, Zenon
    <3>2. nd[p].left # p
      BY <1>1, <1>2, <1>4
    <3>3. N[k].left = nd[p].left /\ Height(h, nd[p].left) = h[p]
      BY <1>0, <1>1, <1>5, <1>6, <2>3, <3>2, Zenon
    <3>4. Black(nd, p) = 0 /\ h[p] \in Nat
      BY <1>0, <1>1, <1>3, Zenon DEF Black
    <3> QED
      BY <1>7, <2>1, <2>3, <3>1, <3>3, <3>4
  <2>4. CASE k # x /\ k # p
    <3>1. Height(h, N[k].left) = Height(h, nd[k].left) /\ Height(h, N[k].right) = Height(h, nd[k].right)
      <4>1. N[k].left = IF nd[k].left = p THEN x ELSE nd[k].left
        BY <1>5, <2>4, Zenon
      <4>2. N[k].right = IF nd[k].right = p THEN x ELSE nd[k].right
        BY <1>5, <2>4, Zenon
      <4>3. Height(h, p) = Height(h, x)
        BY <1>7, Zenon
      <4>4. Height(h, N[k].left) = Height(h, nd[k].left)
        BY <4>1, <4>3, Zenon
      <4>5. Height(h, N[k].right) = Height(h, nd[k].right)
        BY <4>2, <4>3, Zenon
      <4> QED
        BY <4>4, <4>5, Zenon
    <3> QED
      BY <1>6, <2>1, <3>1
  <2> QED
    BY <2>2, <2>3, <2>4
<1>9. N[x].left = p /\ x = N[g].left /\ N[g].right = nd[g].right
  <2>1. nd[g].right # p
    BY <1>1, FamilyIs
  <2> QED
    BY <1>1, <1>3, <1>5, <2>1, SMTT(30)
<1>10. ASSUME NEW k \in M, N[k].colour = RED, k # root, k # p
       PROVE  N[N[k].parent].colour = BLACK
  <2>1. nd[k].colour = RED /\ nd[k].parent \in M
    BY <1>2, <1>5, <1>10, SMTT(30) DEF Shape
  <2>2. CASE k = x
    <3>1. x \in Nodes /\ g \in Nodes
      BY <1>1, <1>2, <1>3
    <3>2. N[x].parent = g
      BY <1>1, <1>5, <3>1, Zenon
    <3>3. N[g].colour = BLACK
      BY <1>1, <1>5, <3>1, Zenon
    <3> QED
      BY <2>2, <3>2, <3>3, Zenon
  <2>3. CASE k # x
    <3>1. nd[nd[k].parent].colour = BLACK
      BY <1>0, <1>10, <2>1, <2>3, Zenon DEF Fixing, Reds
    <3>2. k # nd[x].left
      BY <1>2, <1>3, <1>4, <3>1
    <3> QED
      BY <1>2, <1>5, <1>10, <2>1, <2>3, <3>1, <3>2, SMTT(30)
  <2> QED
    BY <2>2, <2>3
<1>11. N[g].colour = BLACK /\ N[x].colour = RED /\ N[root].colour = BLACK
       /\ (N[g].right = NIL \/ N[N[g].right].colour = BLACK)
  <2>1. nd[g].right # NIL => nd[g].right \in Nodes
    BY <1>1, <1>2, <1>4
  <2> QED
    BY <1>1, <1>2, <1>3, <1>5, <1>9, <2>1
<1>12. Level(N, M, h) /\ Reds(N, root, M, N[x].left)
  BY <1>3, <1>8, <1>9, <1>10 DEF Level, Reds
<1> QED
  BY <1>1, <1>3, <1>9, <1>11, <1>12 DEF ReadyLeft

ReadyRight(nd, root, M, h, g, y) ==
  /\ Level(nd, M, h) /\ g \in M /\ y \in M
  /\ nd[g].colour = BLACK /\ nd[y].colour = RED /\ nd[root].colour = BLACK
  /\ y = nd[g].right /\ (nd[g].left = NIL \/ nd[nd[g].left].colour = BLACK)
  /\ Reds(nd, root, M, nd[y].right)

ToppingRight(nd, root, M, lo, hi, h, g, y, nd2, N, root2, h2) ==
  /\ Shape(nd, root, M, lo, hi) /\ ReadyRight(nd, root, M, h, g, y)
  /\ Topping(nd, g, y, nd2) /\ TurnedLeft(nd2, M, g, y, N)
  /\ root2 = IF g = root THEN y ELSE root
  /\ h2 = [h EXCEPT ![g] = h[y], ![y] = h[g]]

LEMMA TopRight ==
  ASSUME NEW nd, NEW M, NEW lo, NEW hi, NEW root, NEW h, NEW g, NEW y, NEW nd2, NEW N, NEW h2, NEW root2,
         ToppingRight(nd, root, M, lo, hi, h, g, y, nd2, N, root2, h2)
  PROVE  Settled(N, root2, M, h2)
<1> SUFFICES ASSUME Shape(nd, root, M, lo, hi), ReadyRight(nd, root, M, h, g, y),
                    nd2 \in [Nodes -> Node], SameLinks(nd, nd2),
                    \A k \in Nodes : nd2[k].colour = IF k = g THEN RED ELSE IF k = y THEN BLACK ELSE nd[k].colour,
                    TurnedLeft(nd2, M, g, y, N),
                    root2 = IF g = root THEN y ELSE root,
                    h2 = [h EXCEPT ![g] = h[y], ![y] = h[g]]
             PROVE  Settled(N, root2, M, h2)
  BY DEF ToppingRight, Topping
<1>1. /\ h \in [M -> Nat] /\ g \in M /\ y \in M /\ y = nd[g].right
      /\ nd[g].colour = BLACK /\ nd[y].colour = RED /\ nd[root].colour = BLACK
      /\ nd[g].left = NIL \/ nd[nd[g].left].colour = BLACK
  BY DEF ReadyRight, Level
<1>2. nd \in [Nodes -> Node] /\ M \subseteq Nodes /\ NIL \notin M /\ root \in M /\ HEADER \notin M
  BY NodesAre DEF Shape, Nodes
<1>3. RED # BLACK
  BY TreeAssumption
<1>4. ASSUME NEW k \in M
      PROVE  /\ nd[k].right # NIL => nd[k].right \in M /\ nd[nd[k].right].parent = k
             /\ nd[k].left # NIL => nd[k].left \in M /\ nd[nd[k].left].parent = k
             /\ nd[k].right # k /\ nd[k].left # k
             /\ nd[k].right # NIL => nd[k].right # nd[k].left
  <2>1. /\ nd[k].right # NIL => nd[k].right \in M /\ nd[nd[k].right].parent = k /\ lo[nd[k].right] = k
        /\ nd[k].left # NIL => nd[k].left \in M /\ nd[nd[k].left].parent = k /\ hi[nd[k].left] = k
    BY ChildIs
  <2>2. ASSUME NEW j \in M PROVE j < hi[j] /\ lo[j] < j /\ j \in Nat /\ hi[j] \in Nat /\ lo[j] \in Nat
    BY BoundsAre
  <2> QED
    BY <1>2, <2>1, <2>2
<1>5. nd[y].parent = g /\ y # g /\ nd[y].right # g /\ nd[y].left # g /\ nd[g].left # y
  <2>1. nd[y].parent = g /\ y # g /\ nd[g].left # y
    BY <1>1, <1>2, <1>4
  <2>2. nd[g].parent # y
    <3>1. lo[y] = g /\ hi[y] = hi[g] /\ lo[g] < g /\ g < hi[g] /\ g \in Nat /\ lo[g] \in Nat /\ hi[g] \in Nat
          /\ y < hi[y] /\ lo[y] < y /\ y \in Nat
      <4>1. lo[y] = g /\ hi[y] = hi[g]
        BY <1>1, <1>2, ChildIs
      <4> QED
        BY <1>1, <4>1, BoundsAre
    <3>2. nd[g].parent = y => hi[g] = y \/ lo[g] = y
      BY <1>1, <1>2, ParentOf
    <3> QED
      BY <3>1, <3>2
  <2> QED
    BY <1>1, <1>2, <1>4, <2>1, <2>2
<1>14. ASSUME NEW c, c = nd[y].right \/ c = nd[y].left \/ c = nd[g].left
       PROVE  c # y /\ c # g /\ (c \in M \/ c = NIL)
  BY <1>1, <1>4, <1>5, <1>14
<1>6. h2 \in [M -> Nat] /\ \A k \in M : h2[k] = IF k = y THEN h[g] ELSE IF k = g THEN h[y] ELSE h[k]
  <2>1. h2 \in [M -> Nat]
    BY <1>1
  <2>2. \A k \in M : h2[k] = IF k = y THEN h[g] ELSE IF k = g THEN h[y] ELSE h[k]
    BY <1>1
  <2> QED
    BY <2>1, <2>2
<1>7. /\ \A k \in Nodes : N[k].colour = IF k = g THEN RED ELSE IF k = y THEN BLACK ELSE nd[k].colour
      /\ \A k \in Nodes : N[k].parent = IF k = g THEN y ELSE IF k = y THEN nd[g].parent
                                        ELSE IF k = nd[y].left THEN g ELSE nd[k].parent
      /\ \A k \in M : N[k].left = IF k = y THEN g ELSE IF nd[k].left = g THEN y ELSE nd[k].left
      /\ \A k \in M : N[k].right = IF k = g THEN nd[y].left
                                  ELSE IF nd[k].right = g THEN y ELSE nd[k].right
  BY <1>1, <1>2, SMTT(30) DEF TurnedLeft, SameLinks
<1>8. ASSUME NEW k \in M
      PROVE  /\ Height(h, nd[k].right) = Height(h, nd[k].left) /\ Height(h, nd[k].right) \in Nat
             /\ h[k] = Height(h, nd[k].right) + Black(nd, k) /\ h[k] \in Nat
  <2>1. /\ Height(h, nd[k].right) = Height(h, nd[k].left)
        /\ h[k] = Height(h, nd[k].right) + Black(nd, k)
    BY DEF ReadyRight, Level
  <2>2. Height(h, nd[k].right) \in Nat
    BY <1>1, <1>4 DEF Height
  <2> QED
    BY <1>1, <2>1, <2>2
<1>9. /\ Height(h, nd[y].right) = h[y] /\ Height(h, nd[y].left) = h[y]
      /\ Height(h, nd[g].left) = h[y] /\ h[g] = h[y] + 1
  <2>1. Black(nd, y) = 0 /\ Black(nd, g) = 1
    BY <1>1, <1>3 DEF Black
  <2>2. Height(h, nd[g].right) = h[y]
    BY <1>1, <1>2 DEF Height
  <2> QED
    BY <1>1, <1>8, <2>1, <2>2
<1>10. \A c : c # y /\ c # g /\ (c \in M \/ c = NIL) => Height(h2, c) = Height(h, c)
  BY <1>6 DEF Height
<1>11. ASSUME NEW k \in M
       PROVE  /\ Height(h2, N[k].right) = Height(h2, N[k].left)
              /\ h2[k] = Height(h2, N[k].right) + Black(N, k)
  <2>1. CASE k = y
    <3>1. N[k].right = nd[y].right /\ N[k].left = g
      BY <1>1, <1>5, <1>7, <2>1
    <3>2. Height(h2, N[k].right) = h[y]
      BY <1>9, <1>10, <1>14, <3>1
    <3>3. Height(h2, N[k].left) = h[y]
      BY <1>1, <1>2, <1>5, <1>6, <3>1 DEF Height
    <3>4. h2[k] = h[y] + 1 /\ Black(N, k) = 1
      BY <1>1, <1>2, <1>5, <1>6, <1>7, <1>9, <2>1 DEF Black
    <3> QED
      BY <3>2, <3>3, <3>4
  <2>2. CASE k = g
    <3>1. N[k].right = nd[y].left /\ N[k].left = nd[g].left
      BY <1>1, <1>4, <1>5, <1>7, <2>2
    <3>2. Height(h2, N[k].right) = h[y]
      BY <1>9, <1>10, <1>14, <3>1
    <3>3. Height(h2, N[k].left) = h[y]
      BY <1>9, <1>10, <1>14, <3>1
    <3>4. h2[k] = h[y] /\ Black(N, k) = 0 /\ h[y] \in Nat
      BY <1>1, <1>2, <1>3, <1>5, <1>6, <1>7, <2>2 DEF Black
    <3> QED
      BY <3>2, <3>3, <3>4
  <2>3. CASE k # y /\ k # g
    <3>1. nd[k].right # y /\ nd[k].left # y
      BY <1>1, <1>2, <1>4, <1>5, <2>3
    <3>2. Height(h2, y) = Height(h, g)
      BY <1>1, <1>2, <1>6 DEF Height
    <3>3. Height(h2, N[k].right) = Height(h, nd[k].right)
      BY <1>4, <1>7, <1>10, <2>3, <3>1, <3>2
    <3>4. Height(h2, N[k].left) = Height(h, nd[k].left)
      BY <1>4, <1>7, <1>10, <2>3, <3>1, <3>2
    <3>5. h2[k] = h[k] /\ Black(N, k) = Black(nd, k)
      BY <1>2, <1>6, <1>7, <2>3 DEF Black
    <3> QED
      BY <1>8, <3>3, <3>4, <3>5
  <2> QED
    BY <2>1, <2>2, <2>3
<1>12. ASSUME NEW k \in M, N[k].colour = RED, k # root2
       PROVE  N[N[k].parent].colour = BLACK
  <2>1. k # y
    BY <1>1, <1>2, <1>3, <1>5, <1>7, <1>12
  <2>2. CASE k = g
    BY <1>1, <1>2, <1>5, <1>7, <2>2
  <2>3. CASE k # g
    <3>1. k # root /\ nd[k].colour = RED
      BY <1>2, <1>7, <1>12, <2>1, <2>3
    <3>2. nd[k].parent \in M /\ (k = nd[nd[k].parent].right \/ k = nd[nd[k].parent].left)
      BY <3>1 DEF Shape
    <3>3. k # nd[y].right => nd[nd[k].parent].colour = BLACK
      BY <3>1 DEF ReadyRight, Reds
    <3>4. k # nd[y].left
      <4>1. k = nd[y].left => nd[k].parent = y /\ k # nd[y].right
        BY <1>1, <1>2, <1>4
      <4> QED
        BY <1>1, <1>3, <3>3, <4>1
    <3>5. N[k].parent = nd[k].parent
      BY <1>2, <1>7, <2>1, <2>3, <3>4
    <3>6. nd[k].parent # g
      BY <1>1, <1>2, <1>3, <2>1, <3>1, <3>2
    <3>7. CASE nd[k].parent = y
      BY <1>1, <1>2, <1>5, <1>7, <3>5, <3>7
    <3>8. CASE nd[k].parent # y
      <4>1. k # nd[y].right
        BY <1>1, <1>2, <1>4, <3>8
      <4> QED
        BY <1>2, <1>7, <3>2, <3>3, <3>5, <3>6, <3>8, <4>1
    <3> QED
      BY <3>7, <3>8
  <2> QED
    BY <2>2, <2>3
<1>13. N[root2].colour = BLACK
  <2>1. root # y
    BY <1>1, <1>3
  <2> QED
    BY <1>1, <1>2, <1>5, <1>7, <2>1
<1> QED
  BY <1>6, <1>11, <1>12, <1>13 DEF Settled, Level, Reds

LEMMA OuterRight ==
  ASSUME NEW nd, NEW M, NEW lo, NEW hi, NEW root, NEW h, NEW x, NEW p, NEW g,
         Shape(nd, root, M, lo, hi), Clashing(nd, root, M, h, x, p, g),
         p = nd[g].right, x = nd[p].right, nd[g].left = NIL \/ nd[nd[g].left].colour = BLACK
  PROVE  ReadyRight(nd, root, M, h, g, p)
<1>0. /\ Fixing(nd, root, M, h, x)
      /\ x # root /\ p = nd[x].parent /\ nd[p].colour = RED /\ g = nd[p].parent
  BY Zenon DEF Clashing
<1>1. p \in M /\ g \in M /\ nd[g].colour = BLACK
  BY FamilyIs
<1> QED
  BY <1>0, <1>1, Zenon DEF ReadyRight, Fixing

LEMMA InnerRight ==
  ASSUME NEW nd, NEW M, NEW lo, NEW hi, NEW root, NEW h, NEW x, NEW p, NEW g, NEW N,
         Shape(nd, root, M, lo, hi), Clashing(nd, root, M, h, x, p, g),
         p = nd[g].right, x = nd[p].left, nd[g].left = NIL \/ nd[nd[g].left].colour = BLACK,
         TurnedRight(nd, M, p, x, N)
  PROVE  ReadyRight(N, root, M, h, g, x)
<1>0. /\ Fixing(nd, root, M, h, x)
      /\ x # root /\ p = nd[x].parent /\ nd[p].colour = RED /\ g = nd[p].parent
  BY Zenon DEF Clashing
<1>1. p \in M /\ p # root /\ g \in M /\ nd[g].colour = BLACK /\ x # p /\ p # g /\ x # g
  BY FamilyIs
<1>2. nd \in [Nodes -> Node] /\ M \subseteq Nodes /\ NIL \notin M /\ root \in M /\ HEADER \notin M
  BY NodesAre DEF Shape, Nodes
<1>3. /\ RED # BLACK /\ h \in [M -> Nat] /\ x \in M /\ nd[x].colour = RED /\ nd[root].colour = BLACK
  BY <1>0, TreeAssumption, Zenon DEF Fixing, Level
<1>4. ASSUME NEW k \in M
      PROVE  /\ nd[k].right # NIL => nd[k].right \in M /\ nd[nd[k].right].parent = k
             /\ nd[k].left # NIL => nd[k].left \in M /\ nd[nd[k].left].parent = k
  BY ChildIs
<1>5. /\ \A k \in Nodes : N[k].colour = nd[k].colour
      /\ \A k \in Nodes : N[k].parent = IF k = p THEN x ELSE IF k = x THEN g
                                        ELSE IF k = nd[x].right THEN p ELSE nd[k].parent
      /\ \A k \in M : N[k].right = IF k = x THEN p ELSE IF nd[k].right = p THEN x ELSE nd[k].right
      /\ \A k \in M : N[k].left = IF k = p THEN nd[x].right
                                  ELSE IF nd[k].left = p THEN x ELSE nd[k].left
  BY <1>0, Zenon DEF TurnedRight
<1>6. ASSUME NEW k \in M
      PROVE  /\ Height(h, nd[k].right) = Height(h, nd[k].left)
             /\ h[k] = Height(h, nd[k].right) + Black(nd, k)
             /\ nd[k].colour = RED => h[k] = Height(h, nd[k].right)
  <2>1. /\ Height(h, nd[k].right) = Height(h, nd[k].left)
        /\ h[k] = Height(h, nd[k].right) + Black(nd, k)
    BY <1>0, Zenon DEF Fixing, Level
  <2>2. Height(h, nd[k].right) \in Nat
    BY <1>3, <1>4 DEF Height
  <2> QED
    BY <1>3, <2>1, <2>2 DEF Black
<1>7. h[p] = h[x] /\ Height(h, p) = h[x] /\ Height(h, x) = h[x]
  <2>1. h[p] = Height(h, x)
    BY <1>0, <1>1, <1>6, Zenon
  <2> QED
    BY <1>1, <1>2, <1>3, <2>1 DEF Height
<1>8. ASSUME NEW k \in M
      PROVE  /\ Height(h, N[k].right) = Height(h, N[k].left)
             /\ h[k] = Height(h, N[k].right) + Black(N, k)
  <2>1. Black(N, k) = Black(nd, k)
    BY <1>2, <1>5, SMTT(30) DEF Black
  <2>2. CASE k = x
    <3>1. N[k].right = p /\ Height(h, nd[x].left) = h[x]
      <4>1. N[x].right = p
        BY <1>3, <1>5, Zenon
      <4>2. Height(h, nd[x].left) = h[x]
        BY <1>3, <1>6, Zenon
      <4> QED
        BY <2>2, <4>1, <4>2, Zenon
    <3>2. nd[x].left # p
      <4>1. nd[p].parent = g /\ x # g
        BY <1>0, <1>1, Zenon
      <4> QED
        BY <1>1, <1>2, <1>3, <1>4
    <3>3. N[k].left = nd[x].left
      BY <1>1, <1>3, <1>5, <2>2, <3>2, Zenon
    <3>4. Black(nd, x) = 0 /\ h[x] \in Nat
      BY <1>3 DEF Black
    <3> QED
      BY <1>7, <2>1, <2>2, <3>1, <3>3, <3>4
  <2>3. CASE k = p
    <3>1. N[k].left = nd[x].right /\ Height(h, nd[x].right) = h[x]
      <4>1. N[p].left = nd[x].right
        BY <1>1, <1>5, Zenon
      <4>2. Height(h, nd[x].right) = h[x]
        BY <1>3, <1>6, Zenon
      <4> QED
        BY <2>3, <4>1, <4>2, Zenon
    <3>2. nd[p].right # p
      BY <1>1, <1>2, <1>4
    <3>3. N[k].right = nd[p].right /\ Height(h, nd[p].right) = h[p]
      BY <1>0, <1>1, <1>5, <1>6, <2>3, <3>2, Zenon
    <3>4. Black(nd, p) = 0 /\ h[p] \in Nat
      BY <1>0, <1>1, <1>3, Zenon DEF Black
    <3> QED
      BY <1>7, <2>1, <2>3, <3>1, <3>3, <3>4
  <2>4. CASE k # x /\ k # p
    <3>1. Height(h, N[k].right) = Height(h, nd[k].right) /\ Height(h, N[k].left) = Height(h, nd[k].left)
      <4>1. N[k].right = IF nd[k].right = p THEN x ELSE nd[k].right
        BY <1>5, <2>4, Zenon
      <4>2. N[k].left = IF nd[k].left = p THEN x ELSE nd[k].left
        BY <1>5, <2>4, Zenon
      <4>3. Height(h, p) = Height(h, x)
        BY <1>7, Zenon
      <4>4. Height(h, N[k].right) = Height(h, nd[k].right)
        BY <4>1, <4>3, Zenon
      <4>5. Height(h, N[k].left) = Height(h, nd[k].left)
        BY <4>2, <4>3, Zenon
      <4> QED
        BY <4>4, <4>5, Zenon
    <3> QED
      BY <1>6, <2>1, <3>1
  <2> QED
    BY <2>2, <2>3, <2>4
<1>9. N[x].right = p /\ x = N[g].right /\ N[g].left = nd[g].left
  <2>1. nd[g].left # p
    BY <1>1, FamilyIs
  <2> QED
    BY <1>1, <1>3, <1>5, <2>1, SMTT(30)
<1>10. ASSUME NEW k \in M, N[k].colour = RED, k # root, k # p
       PROVE  N[N[k].parent].colour = BLACK
  <2>1. nd[k].colour = RED /\ nd[k].parent \in M
    BY <1>2, <1>5, <1>10, SMTT(30) DEF Shape
  <2>2. CASE k = x
    <3>1. x \in Nodes /\ g \in Nodes
      BY <1>1, <1>2, <1>3
    <3>2. N[x].parent = g
      BY <1>1, <1>5, <3>1, Zenon
    <3>3. N[g].colour = BLACK
      BY <1>1, <1>5, <3>1, Zenon
    <3> QED
      BY <2>2, <3>2, <3>3, Zenon
  <2>3. CASE k # x
    <3>1. nd[nd[k].parent].colour = BLACK
      BY <1>0, <1>10, <2>1, <2>3, Zenon DEF Fixing, Reds
    <3>2. k # nd[x].right
      BY <1>2, <1>3, <1>4, <3>1
    <3> QED
      BY <1>2, <1>5, <1>10, <2>1, <2>3, <3>1, <3>2, SMTT(30)
  <2> QED
    BY <2>2, <2>3
<1>11. N[g].colour = BLACK /\ N[x].colour = RED /\ N[root].colour = BLACK
       /\ (N[g].left = NIL \/ N[N[g].left].colour = BLACK)
  <2>1. nd[g].left # NIL => nd[g].left \in Nodes
    BY <1>1, <1>2, <1>4
  <2> QED
    BY <1>1, <1>2, <1>3, <1>5, <1>9, <2>1
<1>12. Level(N, M, h) /\ Reds(N, root, M, N[x].right)
  BY <1>3, <1>8, <1>9, <1>10 DEF Level, Reds
<1> QED
  BY <1>1, <1>3, <1>9, <1>11, <1>12 DEF ReadyRight

----------------------------------------------------------------------------
(* Linking a new node.                                                    *)

New(p) == [colour |-> RED, parent |-> p, left |-> NIL, right |-> NIL]

\* k is new under p, on its left.
HungLeft(k, p, N) ==
  /\ N \in [Nodes -> Node] /\ N[k] = New(p)
  /\ \A j \in Nodes : j # k => N[j].colour = node[j].colour /\ N[j].parent = node[j].parent
  /\ \A j \in Nodes : j # k /\ j # HEADER => N[j].right = node[j].right
                                   /\ N[j].left = IF j = p THEN k ELSE node[j].left
  /\ N[HEADER].right = node[HEADER].right
  /\ N[HEADER].left = IF p = node[HEADER].left THEN k ELSE node[HEADER].left

HasLeft(m, n, q, k) ==
  /\ n \in [Nodes -> Node] /\ \A j \in Nodes : j # q => n[j] = m[j]
  /\ n[q].colour = m[q].colour /\ n[q].parent = m[q].parent
  /\ n[q].left = k /\ n[q].right = m[q].right

LEMMA OneLeft ==
  ASSUME NEW m \in [Nodes -> Node], NEW q \in Nodes, NEW k \in 0..HEADER
  PROVE  HasLeft(m, [m EXCEPT ![q].left = k], q, k)
<1> DEFINE n == [m EXCEPT ![q].left = k]
<1>1. n[q] = [colour |-> m[q].colour, parent |-> m[q].parent, left |-> k, right |-> m[q].right]
  BY DEF Node
<1>2. \A j \in Nodes : j # q => n[j] = m[j]
  OBVIOUS
<1>3. n = [j \in Nodes |-> n[j]]
  OBVIOUS
<1>4. n[q] \in Node
  BY <1>1, NodeIs DEF Node
<1> HIDE DEF n
<1>5. n \in [Nodes -> Node]
  BY <1>2, <1>3, <1>4
<1>6. HasLeft(m, n, q, k)
  BY <1>1, <1>2, <1>5 DEF HasLeft
<1> QED
  BY <1>6 DEF n

LEMMA LinkedLeftIs ==
  ASSUME node \in [Nodes -> Node], NEW k \in Nodes, NEW p \in Nodes, p # k, p # HEADER, k # HEADER, NEW t,
         t = Linked(TRUE, k, p)
  PROVE  /\ t = [node |-> t.node, root |-> node[HEADER].parent]
         /\ HungLeft(k, p, t.node)
<1>1. HEADER \in Nodes /\ k \in 0..HEADER /\ p \in 0..HEADER /\ 0 \in 0..HEADER
  BY NodesAre, Size
<1> DEFINE n1 == [node EXCEPT ![k] = New(p)]
           n2 == [n1 EXCEPT ![p].left = k]
           n3 == [n2 EXCEPT ![HEADER].left = k]
           N == IF p = node[HEADER].left THEN n3 ELSE n2
<1>2. t = [node |-> N, root |-> node[HEADER].parent]
  <2>1. [node EXCEPT ![k] = [colour |-> RED, parent |-> p, left |-> NIL, right |-> NIL], ![p]["left"] = k]
          = n2
    BY <1>1 DEF New
  <2>2. node[HEADER]["left"] = node[HEADER].left
    OBVIOUS
  <2> DEFINE raw == [node EXCEPT ![k] = [colour |-> RED, parent |-> p, left |-> NIL, right |-> NIL],
                                 ![p]["left"] = k]
  <2>3. raw = n2
    BY <2>1
  <2>4. t = [node |-> IF p = node[HEADER]["left"] THEN [raw EXCEPT ![HEADER]["left"] = k] ELSE raw,
             root |-> node[HEADER].parent]
    BY DEF Linked
  <2> HIDE DEF raw, n2
  <2>5. [raw EXCEPT ![HEADER]["left"] = k] = n3
    BY <2>3
  <2> HIDE DEF n3
  <2> QED
    BY <2>2, <2>3, <2>4, <2>5
<1>3. New(p) \in Node /\ NIL \in 0..HEADER
  BY <1>1, Size DEF New, Node
<1>4. n1 \in [Nodes -> Node] /\ n1[k] = New(p) /\ \A j \in Nodes : j # k => n1[j] = node[j]
  BY <1>3
<1> HIDE DEF n1
<1>5. HasLeft(n1, n2, p, k)
  BY <1>1, <1>4, OneLeft, Zenon
<1> HIDE DEF n2
<1>6. n2 \in [Nodes -> Node]
  BY <1>5 DEF HasLeft
<1>7. HasLeft(n2, n3, HEADER, k)
  BY <1>1, <1>6, OneLeft, Zenon
<1> HIDE DEF n3
<1>8. HungLeft(k, p, N)
  <2>1. CASE p = node[HEADER].left
    BY <1>1, <1>4, <1>5, <1>7, <2>1 DEF HungLeft, HasLeft
  <2>2. CASE p # node[HEADER].left
    BY <1>1, <1>4, <1>5, <2>2 DEF HungLeft, HasLeft
  <2> QED
    BY <2>1, <2>2
<1> HIDE DEF N
<1>9. t.node = N
  <2>1. [node |-> N, root |-> node[HEADER].parent].node = N
    OBVIOUS
  <2> QED
    BY <1>2, <2>1, Zenon
<1> QED
  BY <1>2, <1>8, <1>9

\* The new node halves the gap on p's left.
LEMMA HungLeftShape ==
  ASSUME NEW M, NEW lo, NEW hi, NEW root, Shape(node, root, M, lo, hi), NEW k \in Keys \ M, NEW p \in M,
         k < p, lo[p] < k, node[p].left = NIL, NEW N, HungLeft(k, p, N), NEW lo2, NEW hi2,
         lo2 = [j \in M \cup {k} |-> IF j = k THEN lo[p] ELSE lo[j]],
         hi2 = [j \in M \cup {k} |-> IF j = k THEN p ELSE hi[j]]
  PROVE  Shape(N, root, M \cup {k}, lo2, hi2)
<1> DEFINE MM == M \cup {k}
<1>1. /\ M \subseteq Keys /\ Keys \subseteq Nodes /\ NIL \notin Keys /\ HEADER \notin Keys /\ root \in M
      /\ k \in Nodes /\ k \in Nat /\ k # p /\ HEADER \in Nodes
      /\ node[root].parent = HEADER /\ lo[root] = 0 /\ hi[root] = HEADER
  BY NodesAre, Size DEF Shape, Nodes, Keys
<1>2. ASSUME NEW j \in M
      PROVE  /\ lo[j] \in Nat /\ hi[j] \in Nat /\ lo[j] < j /\ j < hi[j] /\ j \in Nat
             /\ lo[j] \in 0..HEADER /\ hi[j] \in 0..HEADER
  <2>1. lo[j] \in Nat /\ hi[j] \in Nat /\ lo[j] < j /\ j < hi[j] /\ j \in Nat
    BY BoundsAre
  <2> QED
    BY <2>1 DEF Shape
<1>3. \A j \in MM : lo2[j] = IF j = k THEN lo[p] ELSE lo[j]
  OBVIOUS
<1>4. \A j \in MM : hi2[j] = IF j = k THEN p ELSE hi[j]
  OBVIOUS
<1>5. /\ N \in [Nodes -> Node] /\ N[k].parent = p /\ N[k].left = NIL /\ N[k].right = NIL
      /\ \A j \in Nodes : j # k => N[j].parent = node[j].parent
      /\ \A j \in Nodes : j # k /\ j # HEADER =>
           N[j].right = node[j].right /\ N[j].left = IF j = p THEN k ELSE node[j].left
  BY DEF HungLeft, New
<1>6. ASSUME NEW j \in M
      PROVE  /\ node[j].left # NIL => node[j].left \in M /\ node[node[j].left].parent = j
                                      /\ lo[node[j].left] = lo[j] /\ hi[node[j].left] = j
             /\ node[j].right # NIL => node[j].right \in M /\ node[node[j].right].parent = j
                                      /\ lo[node[j].right] = j /\ hi[node[j].right] = hi[j]
             /\ node[j].left # k /\ node[j].right # k
  <2>1. k # NIL
    BY <1>1
  <2> QED
    BY <2>1, ChildIs
<1>7. \A m \in M : m <= lo[p] \/ p <= m
  BY DEF Shape, LeftSide
<1>8. ASSUME NEW j \in M, j < p PROVE j <= lo[p]
  BY <1>2, <1>7, <1>8
<1>9. lo2 \in [MM -> 0..HEADER] /\ hi2 \in [MM -> 0..HEADER]
  <2>1. p \in 0..HEADER
    BY BoundsAre, Size
  <2> QED
    BY <1>2, <2>1
<1>10. \A j \in MM : lo2[j] < j /\ j < hi2[j]
  BY <1>2, <1>3, <1>4
<1>11. ASSUME NEW j \in MM, j # root
       PROVE  N[j].parent \in MM /\ (j = N[N[j].parent].left \/ j = N[N[j].parent].right)
  <2>1. CASE j = k
    BY <1>1, <1>5, <2>1
  <2>2. CASE j # k
    <3>1. PICK q \in M : q = node[j].parent /\ (j = node[q].left \/ j = node[q].right)
      BY <1>11, <2>2 DEF Shape
    <3>2. N[j].parent = q
      BY <1>1, <1>5, <2>2, <3>1
    <3>3. j # NIL /\ q # k /\ q # HEADER /\ q \in Nodes
      BY <1>1, <2>2
    <3> QED
      BY <1>5, <3>1, <3>2, <3>3
  <2> QED
    BY <2>1, <2>2
<1>12. ASSUME NEW j \in MM PROVE LeftSide(N, MM, lo2, hi2, j)
  <2>1. CASE j = k
    <3>1. ASSUME NEW m \in MM PROVE m <= lo[p] \/ k <= m
      BY <1>1, <1>2, <1>7
    <3>2. N[k].left = NIL /\ lo2[k] = lo[p]
      BY <1>3, <1>5
    <3> QED
      BY <2>1, <3>1, <3>2 DEF LeftSide
  <2>2. CASE j = p
    <3>1. N[p].left = k /\ N[k].parent = p /\ lo2[k] = lo[p] /\ lo2[p] = lo[p] /\ hi2[k] = p /\ k # NIL
      BY <1>1, <1>3, <1>4, <1>5
    <3> QED
      BY <2>2, <3>1 DEF LeftSide
  <2>3. CASE j # k /\ j # p /\ node[j].left = NIL
    <3>1. j \in M /\ N[j].left = NIL /\ lo2[j] = lo[j]
      BY <1>1, <1>3, <1>5, <2>3
    <3>2. \A m \in M : m <= lo[j] \/ j <= m
      BY <2>3, <3>1 DEF Shape, LeftSide
    <3>3. k <= lo[j] \/ j <= k
      <4>1. p <= lo[j] \/ j <= p
        BY <3>2
      <4>2. j < p => j <= lo[p]
        BY <1>8, <3>1
      <4> QED
        BY <1>1, <1>2, <2>3, <3>1, <4>1, <4>2
    <3> QED
      BY <3>1, <3>2, <3>3 DEF LeftSide
  <2>4. CASE j # k /\ j # p /\ node[j].left # NIL
    <3>1. PICK l \in M : l = node[j].left /\ node[l].parent = j /\ lo[l] = lo[j] /\ hi[l] = j
      BY <1>6, <2>4
    <3>2. N[j].left = l /\ N[l].parent = j /\ lo2[l] = lo[l] /\ lo2[j] = lo[j] /\ hi2[l] = hi[l]
      BY <1>1, <1>3, <1>4, <1>5, <2>4, <3>1
    <3> QED
      BY <2>4, <3>1, <3>2 DEF LeftSide
  <2> QED
    BY <2>1, <2>2, <2>3, <2>4
<1>13. ASSUME NEW j \in MM PROVE RightSide(N, MM, lo2, hi2, j)
  <2>1. CASE j = k
    <3>1. \A m \in M : m <= k \/ p <= m
      <4> SUFFICES ASSUME NEW m \in M PROVE m <= k \/ p <= m
        OBVIOUS
      <4> QED
        BY <1>1, <1>2, <1>7
    <3> QED
      BY <1>1, <1>4, <1>5, <2>1, <3>1 DEF RightSide
  <2>2. CASE j # k /\ node[j].right = NIL
    <3>1. j \in M /\ N[j].right = NIL /\ hi2[j] = hi[j]
      BY <1>1, <1>4, <1>5, <2>2
    <3>2. \A m \in M : m <= j \/ hi[j] <= m
      BY <2>2, <3>1 DEF Shape, RightSide
    <3>3. k <= j \/ hi[j] <= k
      <4>1. p <= j \/ hi[j] <= p
        BY <3>2
      <4>2. j < p => j <= lo[p] /\ Apart(lo, hi, j, p)
        BY <1>8, <3>1 DEF Shape
      <4> QED
        BY <1>1, <1>2, <3>1, <4>1, <4>2 DEF Apart
    <3> QED
      BY <3>1, <3>2, <3>3 DEF RightSide
  <2>3. CASE j # k /\ node[j].right # NIL
    <3>1. PICK l \in M : l = node[j].right /\ node[l].parent = j /\ lo[l] = j /\ hi[l] = hi[j]
      BY <1>6, <2>3
    <3>2. N[j].right = l /\ N[l].parent = j /\ lo2[l] = lo[l] /\ hi2[j] = hi[j] /\ hi2[l] = hi[l]
      BY <1>1, <1>3, <1>4, <1>5, <2>3, <3>1
    <3> QED
      BY <2>3, <3>1, <3>2 DEF RightSide
  <2> QED
    BY <2>1, <2>2, <2>3
<1>14. ASSUME NEW i \in MM, NEW j \in MM, i < j PROVE Apart(lo2, hi2, i, j)
  <2>1. CASE i # k /\ j # k
    <3>1. Apart(lo, hi, i, j)
      BY <1>14, <2>1 DEF Shape
    <3> QED
      BY <1>3, <1>4, <2>1, <3>1 DEF Apart
  <2>2. CASE j = k
    <3>1. i \in M /\ i <= lo[p] /\ i < p /\ Apart(lo, hi, i, p)
      <4>1. i \in M /\ i < p
        BY <1>1, <1>2, <1>14, <2>2
      <4> QED
        BY <1>8, <4>1 DEF Shape
    <3>2. lo2[i] = lo[i] /\ hi2[i] = hi[i] /\ lo2[k] = lo[p] /\ hi2[k] = p
      BY <1>1, <1>3, <1>4, <3>1
    <3> QED
      BY <1>1, <1>2, <2>2, <3>1, <3>2 DEF Apart
  <2>3. CASE i = k
    <3>1. j \in M /\ p <= j
      BY <1>1, <1>2, <1>7, <1>14, <2>3
    <3>2. p < j => Apart(lo, hi, p, j)
      BY <3>1 DEF Shape
    <3>3. lo2[j] = lo[j] /\ hi2[j] = hi[j] /\ lo2[k] = lo[p] /\ hi2[k] = p
      BY <1>1, <1>3, <1>4, <3>1
    <3>4. CASE j = p
      BY <1>2, <2>3, <3>3, <3>4 DEF Apart
    <3>5. CASE j # p
      BY <1>1, <1>2, <2>3, <3>1, <3>2, <3>3, <3>5 DEF Apart
    <3> QED
      BY <3>4, <3>5
  <2> QED
    BY <2>1, <2>2, <2>3
<1>15. /\ root \in MM /\ N[root].parent = HEADER /\ lo2[root] = 0 /\ hi2[root] = HEADER
       /\ \A j \in Keys \ MM : N[j].parent = NIL
  BY <1>1, <1>3, <1>4, <1>5 DEF Shape
<1> QED
  BY <1>1, <1>5, <1>9, <1>10, <1>11, <1>12, <1>13, <1>14, <1>15 DEF Shape

HungRight(k, p, N) ==
  /\ N \in [Nodes -> Node] /\ N[k] = New(p)
  /\ \A j \in Nodes : j # k => N[j].colour = node[j].colour /\ N[j].parent = node[j].parent
  /\ \A j \in Nodes : j # k /\ j # HEADER => N[j].left = node[j].left
                                   /\ N[j].right = IF j = p THEN k ELSE node[j].right
  /\ N[HEADER].left = node[HEADER].left
  /\ N[HEADER].right = IF p = node[HEADER].right THEN k ELSE node[HEADER].right

HasRight(m, n, q, k) ==
  /\ n \in [Nodes -> Node] /\ \A j \in Nodes : j # q => n[j] = m[j]
  /\ n[q].colour = m[q].colour /\ n[q].parent = m[q].parent
  /\ n[q].right = k /\ n[q].left = m[q].left

LEMMA OneRight ==
  ASSUME NEW m \in [Nodes -> Node], NEW q \in Nodes, NEW k \in 0..HEADER
  PROVE  HasRight(m, [m EXCEPT ![q].right = k], q, k)
<1> DEFINE n == [m EXCEPT ![q].right = k]
<1>1. n[q] = [colour |-> m[q].colour, parent |-> m[q].parent, right |-> k, left |-> m[q].left]
  BY DEF Node
<1>2. \A j \in Nodes : j # q => n[j] = m[j]
  OBVIOUS
<1>3. n = [j \in Nodes |-> n[j]]
  OBVIOUS
<1>4. n[q] \in Node
  BY <1>1, NodeIs DEF Node
<1> HIDE DEF n
<1>5. n \in [Nodes -> Node]
  BY <1>2, <1>3, <1>4
<1>6. HasRight(m, n, q, k)
  BY <1>1, <1>2, <1>5 DEF HasRight
<1> QED
  BY <1>6 DEF n

LEMMA LinkedRightIs ==
  ASSUME node \in [Nodes -> Node], NEW k \in Nodes, NEW p \in Nodes, p # k, p # HEADER, k # HEADER, NEW t,
         t = Linked(FALSE, k, p)
  PROVE  /\ t = [node |-> t.node, root |-> node[HEADER].parent]
         /\ HungRight(k, p, t.node)
<1>1. HEADER \in Nodes /\ k \in 0..HEADER /\ p \in 0..HEADER /\ 0 \in 0..HEADER
  BY NodesAre, Size
<1> DEFINE n1 == [node EXCEPT ![k] = New(p)]
           n2 == [n1 EXCEPT ![p].right = k]
           n3 == [n2 EXCEPT ![HEADER].right = k]
           N == IF p = node[HEADER].right THEN n3 ELSE n2
<1>2. t = [node |-> N, root |-> node[HEADER].parent]
  <2>1. [node EXCEPT ![k] = [colour |-> RED, parent |-> p, right |-> NIL, left |-> NIL], ![p]["right"] = k]
          = n2
    BY <1>1 DEF New
  <2>2. node[HEADER]["right"] = node[HEADER].right
    OBVIOUS
  <2> DEFINE raw == [node EXCEPT ![k] = [colour |-> RED, parent |-> p, right |-> NIL, left |-> NIL],
                                 ![p]["right"] = k]
  <2>3. raw = n2
    BY <2>1
  <2>4. t = [node |-> IF p = node[HEADER]["right"] THEN [raw EXCEPT ![HEADER]["right"] = k] ELSE raw,
             root |-> node[HEADER].parent]
    BY DEF Linked
  <2> HIDE DEF raw, n2
  <2>5. [raw EXCEPT ![HEADER]["right"] = k] = n3
    BY <2>3
  <2> HIDE DEF n3
  <2> QED
    BY <2>2, <2>3, <2>4, <2>5
<1>3. New(p) \in Node /\ NIL \in 0..HEADER
  BY <1>1, Size DEF New, Node
<1>4. n1 \in [Nodes -> Node] /\ n1[k] = New(p) /\ \A j \in Nodes : j # k => n1[j] = node[j]
  BY <1>3
<1> HIDE DEF n1
<1>5. HasRight(n1, n2, p, k)
  BY <1>1, <1>4, OneRight, Zenon
<1> HIDE DEF n2
<1>6. n2 \in [Nodes -> Node]
  BY <1>5 DEF HasRight
<1>7. HasRight(n2, n3, HEADER, k)
  BY <1>1, <1>6, OneRight, Zenon
<1> HIDE DEF n3
<1>8. HungRight(k, p, N)
  <2>1. CASE p = node[HEADER].right
    BY <1>1, <1>4, <1>5, <1>7, <2>1 DEF HungRight, HasRight
  <2>2. CASE p # node[HEADER].right
    BY <1>1, <1>4, <1>5, <2>2 DEF HungRight, HasRight
  <2> QED
    BY <2>1, <2>2
<1> HIDE DEF N
<1>9. t.node = N
  <2>1. [node |-> N, root |-> node[HEADER].parent].node = N
    OBVIOUS
  <2> QED
    BY <1>2, <2>1, Zenon
<1> QED
  BY <1>2, <1>8, <1>9

LEMMA HungRightShape ==
  ASSUME NEW M, NEW lo, NEW hi, NEW root, Shape(node, root, M, lo, hi), NEW k \in Keys \ M, NEW p \in M,
         p < k, k < hi[p], node[p].right = NIL, NEW N, HungRight(k, p, N), NEW hi2, NEW lo2,
         hi2 = [j \in M \cup {k} |-> IF j = k THEN hi[p] ELSE hi[j]],
         lo2 = [j \in M \cup {k} |-> IF j = k THEN p ELSE lo[j]]
  PROVE  Shape(N, root, M \cup {k}, lo2, hi2)
<1> DEFINE MM == M \cup {k}
<1>1. /\ M \subseteq Keys /\ Keys \subseteq Nodes /\ NIL \notin Keys /\ HEADER \notin Keys /\ root \in M
      /\ k \in Nodes /\ k \in Nat /\ k # p /\ HEADER \in Nodes
      /\ node[root].parent = HEADER /\ hi[root] = HEADER /\ lo[root] = 0
  BY NodesAre, Size DEF Shape, Nodes, Keys
<1>2. ASSUME NEW j \in M
      PROVE  /\ hi[j] \in Nat /\ lo[j] \in Nat /\ j < hi[j] /\ lo[j] < j /\ j \in Nat
             /\ hi[j] \in 0..HEADER /\ lo[j] \in 0..HEADER
  <2>1. hi[j] \in Nat /\ lo[j] \in Nat /\ j < hi[j] /\ lo[j] < j /\ j \in Nat
    BY BoundsAre
  <2> QED
    BY <2>1 DEF Shape
<1>3. \A j \in MM : hi2[j] = IF j = k THEN hi[p] ELSE hi[j]
  OBVIOUS
<1>4. \A j \in MM : lo2[j] = IF j = k THEN p ELSE lo[j]
  OBVIOUS
<1>5. /\ N \in [Nodes -> Node] /\ N[k].parent = p /\ N[k].right = NIL /\ N[k].left = NIL
      /\ \A j \in Nodes : j # k => N[j].parent = node[j].parent
      /\ \A j \in Nodes : j # k /\ j # HEADER =>
           N[j].left = node[j].left /\ N[j].right = IF j = p THEN k ELSE node[j].right
  BY DEF HungRight, New
<1>6. ASSUME NEW j \in M
      PROVE  /\ node[j].right # NIL => node[j].right \in M /\ node[node[j].right].parent = j
                                      /\ hi[node[j].right] = hi[j] /\ lo[node[j].right] = j
             /\ node[j].left # NIL => node[j].left \in M /\ node[node[j].left].parent = j
                                      /\ hi[node[j].left] = j /\ lo[node[j].left] = lo[j]
             /\ node[j].right # k /\ node[j].left # k
  <2>1. k # NIL
    BY <1>1
  <2> QED
    BY <2>1, ChildIs
<1>7. \A m \in M : hi[p] <= m \/ m <= p
  BY DEF Shape, RightSide
<1>8. ASSUME NEW j \in M, p < j PROVE hi[p] <= j
  BY <1>2, <1>7, <1>8
<1>9. hi2 \in [MM -> 0..HEADER] /\ lo2 \in [MM -> 0..HEADER]
  <2>1. p \in 0..HEADER
    BY BoundsAre, Size
  <2> QED
    BY <1>2, <2>1
<1>10. \A j \in MM : j < hi2[j] /\ lo2[j] < j
  BY <1>2, <1>3, <1>4
<1>11. ASSUME NEW j \in MM, j # root
       PROVE  N[j].parent \in MM /\ (j = N[N[j].parent].right \/ j = N[N[j].parent].left)
  <2>1. CASE j = k
    BY <1>1, <1>5, <2>1
  <2>2. CASE j # k
    <3>1. PICK q \in M : q = node[j].parent /\ (j = node[q].right \/ j = node[q].left)
      BY <1>11, <2>2 DEF Shape
    <3>2. N[j].parent = q
      BY <1>1, <1>5, <2>2, <3>1
    <3>3. j # NIL /\ q # k /\ q # HEADER /\ q \in Nodes
      BY <1>1, <2>2
    <3> QED
      BY <1>5, <3>1, <3>2, <3>3
  <2> QED
    BY <2>1, <2>2
<1>12. ASSUME NEW j \in MM PROVE RightSide(N, MM, lo2, hi2, j)
  <2>1. CASE j = k
    <3>1. ASSUME NEW m \in MM PROVE hi[p] <= m \/ m <= k
      BY <1>1, <1>2, <1>7
    <3>2. N[k].right = NIL /\ hi2[k] = hi[p]
      BY <1>3, <1>5
    <3> QED
      BY <2>1, <3>1, <3>2 DEF RightSide
  <2>2. CASE j = p
    <3>1. N[p].right = k /\ N[k].parent = p /\ hi2[k] = hi[p] /\ hi2[p] = hi[p] /\ lo2[k] = p /\ k # NIL
      BY <1>1, <1>3, <1>4, <1>5
    <3> QED
      BY <2>2, <3>1 DEF RightSide
  <2>3. CASE j # k /\ j # p /\ node[j].right = NIL
    <3>1. j \in M /\ N[j].right = NIL /\ hi2[j] = hi[j]
      BY <1>1, <1>3, <1>5, <2>3
    <3>2. \A m \in M : hi[j] <= m \/ m <= j
      BY <2>3, <3>1 DEF Shape, RightSide
    <3>3. hi[j] <= k \/ k <= j
      <4>1. hi[j] <= p \/ p <= j
        BY <3>2
      <4>2. p < j => hi[p] <= j
        BY <1>8, <3>1
      <4> QED
        BY <1>1, <1>2, <2>3, <3>1, <4>1, <4>2
    <3> QED
      BY <3>1, <3>2, <3>3 DEF RightSide
  <2>4. CASE j # k /\ j # p /\ node[j].right # NIL
    <3>1. PICK l \in M : l = node[j].right /\ node[l].parent = j /\ hi[l] = hi[j] /\ lo[l] = j
      BY <1>6, <2>4
    <3>2. N[j].right = l /\ N[l].parent = j /\ hi2[l] = hi[l] /\ hi2[j] = hi[j] /\ lo2[l] = lo[l]
      BY <1>1, <1>3, <1>4, <1>5, <2>4, <3>1
    <3> QED
      BY <2>4, <3>1, <3>2 DEF RightSide
  <2> QED
    BY <2>1, <2>2, <2>3, <2>4
<1>13. ASSUME NEW j \in MM PROVE LeftSide(N, MM, lo2, hi2, j)
  <2>1. CASE j = k
    <3>1. \A m \in M : k <= m \/ m <= p
      <4> SUFFICES ASSUME NEW m \in M PROVE k <= m \/ m <= p
        OBVIOUS
      <4> QED
        BY <1>1, <1>2, <1>7
    <3> QED
      BY <1>1, <1>4, <1>5, <2>1, <3>1 DEF LeftSide
  <2>2. CASE j # k /\ node[j].left = NIL
    <3>1. j \in M /\ N[j].left = NIL /\ lo2[j] = lo[j]
      BY <1>1, <1>4, <1>5, <2>2
    <3>2. \A m \in M : j <= m \/ m <= lo[j]
      BY <2>2, <3>1 DEF Shape, LeftSide
    <3>3. j <= k \/ k <= lo[j]
      <4>1. j <= p \/ p <= lo[j]
        BY <3>2
      <4>2. p < j => hi[p] <= j /\ Apart(lo, hi, p, j)
        BY <1>8, <3>1 DEF Shape
      <4> QED
        BY <1>1, <1>2, <3>1, <4>1, <4>2 DEF Apart
    <3> QED
      BY <3>1, <3>2, <3>3 DEF LeftSide
  <2>3. CASE j # k /\ node[j].left # NIL
    <3>1. PICK l \in M : l = node[j].left /\ node[l].parent = j /\ hi[l] = j /\ lo[l] = lo[j]
      BY <1>6, <2>3
    <3>2. N[j].left = l /\ N[l].parent = j /\ hi2[l] = hi[l] /\ lo2[j] = lo[j] /\ lo2[l] = lo[l]
      BY <1>1, <1>3, <1>4, <1>5, <2>3, <3>1
    <3> QED
      BY <2>3, <3>1, <3>2 DEF LeftSide
  <2> QED
    BY <2>1, <2>2, <2>3
<1>14. ASSUME NEW i \in MM, NEW j \in MM, j < i PROVE Apart(lo2, hi2, j, i)
  <2>1. CASE i # k /\ j # k
    <3>1. Apart(lo, hi, j, i)
      BY <1>14, <2>1 DEF Shape
    <3> QED
      BY <1>3, <1>4, <2>1, <3>1 DEF Apart
  <2>2. CASE j = k
    <3>1. i \in M /\ hi[p] <= i /\ p < i /\ Apart(lo, hi, p, i)
      <4>1. i \in M /\ p < i
        BY <1>1, <1>2, <1>14, <2>2
      <4> QED
        BY <1>8, <4>1 DEF Shape
    <3>2. hi2[i] = hi[i] /\ lo2[i] = lo[i] /\ hi2[k] = hi[p] /\ lo2[k] = p
      BY <1>1, <1>3, <1>4, <3>1
    <3> QED
      BY <1>1, <1>2, <2>2, <3>1, <3>2 DEF Apart
  <2>3. CASE i = k
    <3>1. j \in M /\ j <= p
      BY <1>1, <1>2, <1>7, <1>14, <2>3
    <3>2. j < p => Apart(lo, hi, j, p)
      BY <3>1 DEF Shape
    <3>3. hi2[j] = hi[j] /\ lo2[j] = lo[j] /\ hi2[k] = hi[p] /\ lo2[k] = p
      BY <1>1, <1>3, <1>4, <3>1
    <3>4. CASE j = p
      BY <1>2, <2>3, <3>3, <3>4 DEF Apart
    <3>5. CASE j # p
      BY <1>1, <1>2, <2>3, <3>1, <3>2, <3>3, <3>5 DEF Apart
    <3> QED
      BY <3>4, <3>5
  <2> QED
    BY <2>1, <2>2, <2>3
<1>15. /\ root \in MM /\ N[root].parent = HEADER /\ hi2[root] = HEADER /\ lo2[root] = 0
       /\ \A j \in Keys \ MM : N[j].parent = NIL
  BY <1>1, <1>3, <1>4, <1>5 DEF Shape
<1> QED
  BY <1>1, <1>5, <1>9, <1>10, <1>11, <1>12, <1>13, <1>14, <1>15 DEF Shape

----------------------------------------------------------------------------
(* A tree under repair.                                                   *)

\* The header tells the extremes.
Extremes(nd, M) ==
  /\ nd[HEADER].colour = RED /\ nd[HEADER].left \in M /\ nd[HEADER].right \in M
  /\ \A k \in M : nd[HEADER].left <= k /\ k <= nd[HEADER].right

Sound(nd, root, M, lo, hi, h) ==
  Shape(nd, root, M, lo, hi) /\ Settled(nd, root, M, h) /\ Tracked(nd, root, M)

\* A tree under repair, whose header is told of the root at the end.
Repairing(t, M, lo, hi, h, x) ==
  /\ t = [node |-> t.node, root |-> t.root]
  /\ Shape(t.node, t.root, M, lo, hi) /\ Fixing(t.node, t.root, M, h, x) /\ Extremes(t.node, M)

LEMMA LinkLeft ==
  ASSUME NEW M, NEW lo, NEW hi, NEW h, NEW root, Sound(node, root, M, lo, hi, h), NEW k \in Keys \ M, NEW p \in M,
         k < p, lo[p] < k, node[p].left = NIL, NEW t, t = Linked(TRUE, k, p)
  PROVE  \E lo2, hi2, h2 : Repairing(t, M \cup {k}, lo2, hi2, h2, k)
<1> DEFINE MM == M \cup {k}
           N == t.node
           h2 == [j \in M \cup {k} |-> IF j = k THEN 0 ELSE h[j]]
<1>0. PICK lo2, hi2 : /\ lo2 = [j \in M \cup {k} |-> IF j = k THEN lo[p] ELSE lo[j]]
                      /\ hi2 = [j \in M \cup {k} |-> IF j = k THEN p ELSE hi[j]]
  OBVIOUS
<1>1. Shape(node, root, M, lo, hi) /\ Settled(node, root, M, h) /\ Tracked(node, root, M)
  BY DEF Sound
<1>2. /\ M \subseteq Keys /\ Keys \subseteq Nodes /\ NIL \notin Keys /\ HEADER \notin Keys /\ root \in M
      /\ k \in Nodes /\ k \in Nat /\ k # p /\ HEADER \in Nodes /\ node \in [Nodes -> Node]
  BY <1>1, NodesAre, Size DEF Shape, Nodes, Keys
<1>3. t = [node |-> N, root |-> root] /\ HungLeft(k, p, N)
  <2>1. p \in Nodes /\ p # HEADER /\ k # HEADER
    BY <1>2
  <2>2. t = [node |-> N, root |-> node[HEADER].parent] /\ HungLeft(k, p, N)
    BY <1>2, <2>1, LinkedLeftIs
  <2> QED
    BY <1>1, <2>2 DEF Tracked
<1>4. t.root = root
  <2>1. [node |-> N, root |-> root].root = root
    OBVIOUS
  <2> QED
    BY <1>3, <2>1, Zenon
<1>5. Shape(N, root, M \cup {k}, lo2, hi2)
  <2> HIDE DEF N
  <2>1. Shape(node, root, M, lo, hi) /\ HungLeft(k, p, N)
    BY <1>1, <1>3
  <2>2. /\ lo2 = [j \in M \cup {k} |-> IF j = k THEN lo[p] ELSE lo[j]]
        /\ hi2 = [j \in M \cup {k} |-> IF j = k THEN p ELSE hi[j]]
    BY <1>0
  <2> QED
    BY <2>1, <2>2, HungLeftShape
<1>6. /\ N[k] = New(p) /\ N[k].colour = RED /\ N[k].left = NIL /\ N[k].right = NIL
      /\ \A j \in Nodes : j # k => N[j].colour = node[j].colour /\ N[j].parent = node[j].parent
      /\ \A j \in Nodes : j # k /\ j # HEADER => N[j].right = node[j].right
                                   /\ N[j].left = IF j = p THEN k ELSE node[j].left
      /\ N[HEADER].right = node[HEADER].right
      /\ N[HEADER].left = IF p = node[HEADER].left THEN k ELSE node[HEADER].left
  <2>1. N[k] = New(p)
    BY <1>3 DEF HungLeft
  <2>2. New(p).colour = RED /\ New(p).left = NIL /\ New(p).right = NIL
    BY DEF New
  <2> HIDE DEF N
  <2> QED
    BY <1>3, <2>1, <2>2 DEF HungLeft
<1>7. /\ h \in [M -> Nat] /\ RED # BLACK /\ node[root].colour = BLACK
  BY <1>1, TreeAssumption DEF Settled, Level
<1> HIDE DEF N
<1>8. Level(N, MM, h2)
  <2>1. h2 \in [MM -> Nat] /\ (\A j \in MM : h2[j] = IF j = k THEN 0 ELSE h[j])
    BY <1>7
  <2> HIDE DEF h2
  <2>2. ASSUME NEW j \in MM
        PROVE  /\ Height(h2, N[j].left) = Height(h2, N[j].right)
               /\ h2[j] = Height(h2, N[j].left) + Black(N, j)
    <3>1. CASE j = k
      BY <1>6, <1>7, <2>1, <3>1 DEF Height, Black
    <3>2. CASE j # k
      <4>1. /\ Height(h, node[j].left) = Height(h, node[j].right)
            /\ h[j] = Height(h, node[j].left) + Black(node, j)
        BY <1>1, <3>2 DEF Settled, Level
      <4>2. Black(N, j) = Black(node, j) /\ h2[j] = h[j]
        BY <1>2, <1>6, <2>1, <3>2 DEF Black
      <4>3. (node[j].left # NIL => node[j].left \in M) /\ (node[j].right # NIL => node[j].right \in M)
        BY <1>1, <3>2, ChildIs
      <4>4. Height(h2, N[j].right) = Height(h, node[j].right)
        BY <1>2, <1>6, <2>1, <3>2, <4>3 DEF Height
      <4>5. Height(h2, N[j].left) = Height(h, node[j].left)
        <5>1. CASE j = p
          <6>1. N[j].left = k /\ h2[k] = 0 /\ k # NIL
            BY <1>2, <1>6, <2>1, <3>2, <5>1
          <6> QED
            BY <5>1, <6>1 DEF Height
        <5>2. CASE j # p
          BY <1>2, <1>6, <2>1, <3>2, <4>3, <5>2 DEF Height
        <5> QED
          BY <5>1, <5>2
      <4> QED
        BY <4>1, <4>2, <4>4, <4>5
    <3> QED
      BY <3>1, <3>2
  <2> QED
    BY <2>1, <2>2 DEF Level
<1>9. ASSUME NEW j \in MM, N[j].colour = RED, j # root, j # k PROVE N[N[j].parent].colour = BLACK
  <2>1. node[j].parent \in M
    BY <1>1, <1>9 DEF Shape
  <2>2. node[j].colour = RED /\ N[j].parent = node[j].parent
    BY <1>2, <1>6, <1>9
  <2>3. node[node[j].parent].colour = BLACK
    BY <1>1, <1>2, <1>9, <2>2 DEF Settled, Reds
  <2> QED
    BY <1>2, <1>6, <2>1, <2>2, <2>3
<1>10. Fixing(N, root, MM, h2, k)
  BY <1>2, <1>6, <1>7, <1>8, <1>9 DEF Fixing, Reds
<1>11. Extremes(N, MM)
  <2>1. /\ node[HEADER].colour = RED /\ node[HEADER].left \in M /\ node[HEADER].right \in M
        /\ \A j \in M : node[HEADER].left <= j /\ j <= node[HEADER].right
    BY <1>1 DEF Tracked
  <2>2. \A j \in M : j <= lo[p] \/ p <= j
    BY <1>1 DEF Shape, LeftSide
  <2>3. \A j \in M : j \in Nat
    BY <1>2, MemberIs
  <2>4. lo[p] \in Nat
    BY <1>1, BoundsAre
  <2>5. CASE p = node[HEADER].left
    <3>1. N[HEADER].left = k /\ N[HEADER].right = node[HEADER].right /\ N[HEADER].colour = RED
      BY <1>2, <1>6, <2>1, <2>5
    <3>2. \A j \in M : k <= j
      BY <1>2, <2>1, <2>3, <2>5
    <3>3. k <= node[HEADER].right
      BY <2>1, <3>2
    <3> QED
      BY <1>2, <2>1, <3>1, <3>2, <3>3 DEF Extremes
  <2>6. CASE p # node[HEADER].left
    <3>1. PICK f \in M : f = node[HEADER].left /\ f # p
      BY <2>1, <2>6
    <3>2. N[HEADER].left = f /\ N[HEADER].right = node[HEADER].right /\ N[HEADER].colour = RED
      BY <1>2, <1>6, <2>1, <2>6, <3>1
    <3>3. f <= lo[p]
      <4>1. f <= p
        BY <2>1, <3>1
      <4> QED
        BY <2>2, <2>3, <3>1, <4>1
    <3>4. f <= k
      BY <1>2, <2>3, <2>4, <3>3
    <3>5. p <= node[HEADER].right /\ node[HEADER].right \in Nat /\ p \in Nat
      BY <2>1, <2>3
    <3>6. k <= node[HEADER].right
      BY <1>2, <3>5
    <3> QED
      BY <2>1, <3>1, <3>2, <3>4, <3>6 DEF Extremes
  <2> QED
    BY <2>5, <2>6
<1>12. Repairing(t, MM, lo2, hi2, h2, k)
  BY <1>3, <1>4, <1>5, <1>10, <1>11, Zenon DEF Repairing, N
<1> QED
  BY <1>12

LEMMA LinkRight ==
  ASSUME NEW M, NEW lo, NEW hi, NEW h, NEW root, Sound(node, root, M, lo, hi, h), NEW k \in Keys \ M, NEW p \in M,
         p < k, k < hi[p], node[p].right = NIL, NEW t, t = Linked(FALSE, k, p)
  PROVE  \E lo2, hi2, h2 : Repairing(t, M \cup {k}, lo2, hi2, h2, k)
<1> DEFINE MM == M \cup {k}
           N == t.node
           h2 == [j \in M \cup {k} |-> IF j = k THEN 0 ELSE h[j]]
<1>0. PICK lo2, hi2 : /\ hi2 = [j \in M \cup {k} |-> IF j = k THEN hi[p] ELSE hi[j]]
                      /\ lo2 = [j \in M \cup {k} |-> IF j = k THEN p ELSE lo[j]]
  OBVIOUS
<1>1. Shape(node, root, M, lo, hi) /\ Settled(node, root, M, h) /\ Tracked(node, root, M)
  BY DEF Sound
<1>2. /\ M \subseteq Keys /\ Keys \subseteq Nodes /\ NIL \notin Keys /\ HEADER \notin Keys /\ root \in M
      /\ k \in Nodes /\ k \in Nat /\ k # p /\ HEADER \in Nodes /\ node \in [Nodes -> Node]
  BY <1>1, NodesAre, Size DEF Shape, Nodes, Keys
<1>3. t = [node |-> N, root |-> root] /\ HungRight(k, p, N)
  <2>1. p \in Nodes /\ p # HEADER /\ k # HEADER
    BY <1>2
  <2>2. t = [node |-> N, root |-> node[HEADER].parent] /\ HungRight(k, p, N)
    BY <1>2, <2>1, LinkedRightIs
  <2> QED
    BY <1>1, <2>2 DEF Tracked
<1>4. t.root = root
  <2>1. [node |-> N, root |-> root].root = root
    OBVIOUS
  <2> QED
    BY <1>3, <2>1, Zenon
<1>5. Shape(N, root, M \cup {k}, lo2, hi2)
  <2> HIDE DEF N
  <2>1. Shape(node, root, M, lo, hi) /\ HungRight(k, p, N)
    BY <1>1, <1>3
  <2>2. /\ hi2 = [j \in M \cup {k} |-> IF j = k THEN hi[p] ELSE hi[j]]
        /\ lo2 = [j \in M \cup {k} |-> IF j = k THEN p ELSE lo[j]]
    BY <1>0
  <2> QED
    BY <2>1, <2>2, HungRightShape
<1>6. /\ N[k] = New(p) /\ N[k].colour = RED /\ N[k].right = NIL /\ N[k].left = NIL
      /\ \A j \in Nodes : j # k => N[j].colour = node[j].colour /\ N[j].parent = node[j].parent
      /\ \A j \in Nodes : j # k /\ j # HEADER => N[j].left = node[j].left
                                   /\ N[j].right = IF j = p THEN k ELSE node[j].right
      /\ N[HEADER].left = node[HEADER].left
      /\ N[HEADER].right = IF p = node[HEADER].right THEN k ELSE node[HEADER].right
  <2>1. N[k] = New(p)
    BY <1>3 DEF HungRight
  <2>2. New(p).colour = RED /\ New(p).right = NIL /\ New(p).left = NIL
    BY DEF New
  <2> HIDE DEF N
  <2> QED
    BY <1>3, <2>1, <2>2 DEF HungRight
<1>7. /\ h \in [M -> Nat] /\ RED # BLACK /\ node[root].colour = BLACK
  BY <1>1, TreeAssumption DEF Settled, Level
<1> HIDE DEF N
<1>8. Level(N, MM, h2)
  <2>1. h2 \in [MM -> Nat] /\ (\A j \in MM : h2[j] = IF j = k THEN 0 ELSE h[j])
    BY <1>7
  <2> HIDE DEF h2
  <2>2. ASSUME NEW j \in MM
        PROVE  /\ Height(h2, N[j].right) = Height(h2, N[j].left)
               /\ h2[j] = Height(h2, N[j].right) + Black(N, j)
    <3>1. CASE j = k
      BY <1>6, <1>7, <2>1, <3>1 DEF Height, Black
    <3>2. CASE j # k
      <4>1. /\ Height(h, node[j].right) = Height(h, node[j].left)
            /\ h[j] = Height(h, node[j].right) + Black(node, j)
        BY <1>1, <3>2 DEF Settled, Level
      <4>2. Black(N, j) = Black(node, j) /\ h2[j] = h[j]
        BY <1>2, <1>6, <2>1, <3>2 DEF Black
      <4>3. (node[j].right # NIL => node[j].right \in M) /\ (node[j].left # NIL => node[j].left \in M)
        BY <1>1, <3>2, ChildIs
      <4>4. Height(h2, N[j].left) = Height(h, node[j].left)
        BY <1>2, <1>6, <2>1, <3>2, <4>3 DEF Height
      <4>5. Height(h2, N[j].right) = Height(h, node[j].right)
        <5>1. CASE j = p
          <6>1. N[j].right = k /\ h2[k] = 0 /\ k # NIL
            BY <1>2, <1>6, <2>1, <3>2, <5>1
          <6> QED
            BY <5>1, <6>1 DEF Height
        <5>2. CASE j # p
          BY <1>2, <1>6, <2>1, <3>2, <4>3, <5>2 DEF Height
        <5> QED
          BY <5>1, <5>2
      <4> QED
        BY <4>1, <4>2, <4>4, <4>5
    <3> QED
      BY <3>1, <3>2
  <2> QED
    BY <2>1, <2>2 DEF Level
<1>9. ASSUME NEW j \in MM, N[j].colour = RED, j # root, j # k PROVE N[N[j].parent].colour = BLACK
  <2>1. node[j].parent \in M
    BY <1>1, <1>9 DEF Shape
  <2>2. node[j].colour = RED /\ N[j].parent = node[j].parent
    BY <1>2, <1>6, <1>9
  <2>3. node[node[j].parent].colour = BLACK
    BY <1>1, <1>2, <1>9, <2>2 DEF Settled, Reds
  <2> QED
    BY <1>2, <1>6, <2>1, <2>2, <2>3
<1>10. Fixing(N, root, MM, h2, k)
  BY <1>2, <1>6, <1>7, <1>8, <1>9 DEF Fixing, Reds
<1>11. Extremes(N, MM)
  <2>1. /\ node[HEADER].colour = RED /\ node[HEADER].right \in M /\ node[HEADER].left \in M
        /\ \A j \in M : j <= node[HEADER].right /\ node[HEADER].left <= j
    BY <1>1 DEF Tracked
  <2>2. \A j \in M : hi[p] <= j \/ j <= p
    BY <1>1 DEF Shape, RightSide
  <2>3. \A j \in M : j \in Nat
    BY <1>2, MemberIs
  <2>4. hi[p] \in Nat
    BY <1>1, BoundsAre
  <2>5. CASE p = node[HEADER].right
    <3>1. N[HEADER].right = k /\ N[HEADER].left = node[HEADER].left /\ N[HEADER].colour = RED
      BY <1>2, <1>6, <2>1, <2>5
    <3>2. \A j \in M : j <= k
      BY <1>2, <2>1, <2>3, <2>5
    <3>3. node[HEADER].left <= k
      BY <2>1, <3>2
    <3> QED
      BY <1>2, <2>1, <3>1, <3>2, <3>3 DEF Extremes
  <2>6. CASE p # node[HEADER].right
    <3>1. PICK f \in M : f = node[HEADER].right /\ f # p
      BY <2>1, <2>6
    <3>2. N[HEADER].right = f /\ N[HEADER].left = node[HEADER].left /\ N[HEADER].colour = RED
      BY <1>2, <1>6, <2>1, <2>6, <3>1
    <3>3. hi[p] <= f
      <4>1. p <= f
        BY <2>1, <3>1
      <4> QED
        BY <2>2, <2>3, <3>1, <4>1
    <3>4. k <= f
      BY <1>2, <2>3, <2>4, <3>3
    <3>5. node[HEADER].left <= p /\ node[HEADER].left \in Nat /\ p \in Nat
      BY <2>1, <2>3
    <3>6. node[HEADER].left <= k
      BY <1>2, <3>5
    <3> QED
      BY <2>1, <3>1, <3>2, <3>4, <3>6 DEF Extremes
  <2> QED
    BY <2>5, <2>6
<1>12. Repairing(t, MM, lo2, hi2, h2, k)
  BY <1>3, <1>4, <1>5, <1>10, <1>11, Zenon DEF Repairing, N
<1> QED
  BY <1>12

----------------------------------------------------------------------------
(* The repair.                                                            *)

\* Who is who when x clashes with its parent.
LEMMA Kin ==
  ASSUME NEW t, NEW M, NEW lo, NEW hi, NEW h, NEW x, Repairing(t, M, lo, hi, h, x), Clash(t, x),
         NEW p, NEW g, NEW u, p = Parent(t, x), g = Grand(t, x), u = Uncle(t, x)
  PROVE  /\ Clashing(t.node, t.root, M, h, x, p, g)
         /\ x \in M /\ p \in M /\ g \in M /\ p # g /\ x # p
         /\ \/ p = t.node[g].left /\ p # t.node[g].right /\ u = t.node[g].right /\ Side(t, p) = "left"
            \/ p = t.node[g].right /\ p # t.node[g].left /\ u = t.node[g].left /\ Side(t, p) = "right"
<1>1. Shape(t.node, t.root, M, lo, hi) /\ Fixing(t.node, t.root, M, h, x)
  BY DEF Repairing
<1>2. p = t.node[x].parent /\ g = t.node[p].parent /\ x # t.root /\ t.node[p].colour = RED
  BY DEF Parent, Grand, Clash
<1>3. Clashing(t.node, t.root, M, h, x, p, g)
  BY <1>1, <1>2 DEF Clashing
<1>4. /\ x \in M /\ p \in M /\ g \in M /\ p # g /\ x # p
      /\ \/ p = t.node[g].left /\ p # t.node[g].right
         \/ p = t.node[g].right /\ p # t.node[g].left
  BY <1>1, <1>3, FamilyIs DEF Fixing
<1>5. Side(t, p) = IF t.node[g].left = p THEN "left" ELSE "right"
  BY <1>2 DEF Side, Parent
<1>6. u = t.node[g][Other(Side(t, p))]
  BY DEF Uncle, Grand
<1>7. CASE p = t.node[g].left /\ p # t.node[g].right
  <2>1. Side(t, p) = "left"
    BY <1>5, <1>7
  <2>2. u = t.node[g].right
    BY <1>6, <2>1 DEF Other
  <2> QED
    BY <1>3, <1>4, <1>7, <2>1, <2>2
<1>8. CASE p = t.node[g].right /\ p # t.node[g].left
  <2>1. Side(t, p) = "right"
    BY <1>5, <1>8
  <2>2. u = t.node[g].left
    BY <1>6, <2>1 DEF Other
  <2> QED
    BY <1>3, <1>4, <1>8, <2>1, <2>2
<1> QED
  BY <1>4, <1>7, <1>8

\* A step of the loop moves the clash up and mends what is below.
LEMMA RecolourStep ==
  ASSUME NEW t, NEW M, NEW lo, NEW hi, NEW h, NEW x, Repairing(t, M, lo, hi, h, x), Clash(t, x), RedUncle(t, x)
  PROVE  /\ \E h2 : Repairing(Recoloured(t, x), M, lo, hi, h2, Grand(t, x))
         /\ x \in M /\ Grand(t, x) \in M
         /\ hi[x] - lo[x] < hi[Grand(t, x)] - lo[Grand(t, x)]
<1>1. /\ t = [node |-> t.node, root |-> t.root]
      /\ Shape(t.node, t.root, M, lo, hi) /\ Extremes(t.node, M)
  BY DEF Repairing
<1>2. PICK p, g, u : p = Parent(t, x) /\ g = Grand(t, x) /\ u = Uncle(t, x)
  OBVIOUS
<1>3. /\ Clashing(t.node, t.root, M, h, x, p, g)
      /\ x \in M /\ p \in M /\ g \in M /\ p # g /\ x # p
      /\ \/ p = t.node[g].left /\ p # t.node[g].right /\ u = t.node[g].right /\ Side(t, p) = "left"
         \/ p = t.node[g].right /\ p # t.node[g].left /\ u = t.node[g].left /\ Side(t, p) = "right"
  BY <1>2, Kin
<1>4. u # NIL /\ t.node[u].colour = RED
  BY <1>2 DEF RedUncle
<1>5. u \in M /\ u # p /\ ((p = t.node[g].left /\ u = t.node[g].right) \/ (p = t.node[g].right /\ u = t.node[g].left))
  BY <1>1, <1>3, <1>4, ChildIs
<1>6. hi[x] - lo[x] < hi[g] - lo[g]
  BY <1>1, <1>3, FamilyIs
<1>7. PICK r, nd, root : r = Recoloured(t, x) /\ nd = t.node /\ root = t.root
  OBVIOUS
<1>8. t = [node |-> nd, root |-> root] /\ nd \in [Nodes -> Node] /\ Shape(nd, root, M, lo, hi)
      /\ Clashing(nd, root, M, h, x, p, g) /\ nd[u].colour = RED
      /\ ((p = nd[g].left /\ u = nd[g].right) \/ (p = nd[g].right /\ u = nd[g].left))
  BY <1>1, <1>3, <1>4, <1>5, <1>7 DEF Shape
<1>9. p \in Nodes /\ u \in Nodes /\ g \in Nodes /\ HEADER \notin M /\ HEADER \in Nodes
  BY <1>1, <1>3, <1>5, NodesAre DEF Shape, Nodes
<1>10. PICK N : r = [node |-> N, root |-> root] /\ Repainted(nd, N, p, u, g, BLACK, BLACK, RED)
  <2>1. RED \in {RED, BLACK} /\ BLACK \in {RED, BLACK}
    OBVIOUS
  <2> DEFINE n1 == [nd EXCEPT ![p].colour = BLACK]
             n2 == [n1 EXCEPT ![u].colour = BLACK]
             n3 == [n2 EXCEPT ![g].colour = RED]
  <2>2. r = [t EXCEPT !.node[p].colour = BLACK, !.node[u].colour = BLACK, !.node[g].colour = RED]
    BY <1>2, <1>7 DEF Recoloured
  <2>3. Repainted(nd, n3, p, u, g, BLACK, BLACK, RED)
    BY <1>8, <1>9, <2>1, Painted, Zenon
  <2>4. r = [node |-> n3, root |-> root]
    <3>1. r = [[[t EXCEPT !.node[p].colour = BLACK] EXCEPT !.node[u].colour = BLACK]
                  EXCEPT !.node[g].colour = RED]
      BY <2>2
    <3>2. [t EXCEPT !.node[p].colour = BLACK] = [node |-> n1, root |-> root]
      BY <1>8
    <3> HIDE DEF n1
    <3>3. [[node |-> n1, root |-> root] EXCEPT !.node[u].colour = BLACK] = [node |-> n2, root |-> root]
      OBVIOUS
    <3> HIDE DEF n2
    <3>4. [[node |-> n2, root |-> root] EXCEPT !.node[g].colour = RED] = [node |-> n3, root |-> root]
      OBVIOUS
    <3> HIDE DEF n3
    <3> QED
      BY <3>1, <3>2, <3>3, <3>4
  <2> HIDE DEF n3
  <2> QED
    BY <2>3, <2>4
<1>11. r.root = root /\ r.node = N
  <2>1. [node |-> N, root |-> root].root = root /\ [node |-> N, root |-> root].node = N
    OBVIOUS
  <2> QED
    BY <1>10, <2>1, Zenon
<1>12. PICK h2 : h2 = [h EXCEPT ![p] = h[p] + 1, ![u] = h[u] + 1]
  OBVIOUS
<1>13. Fixing(N, root, M, h2, g)
  BY <1>5, <1>8, <1>10, <1>12, RecolourKeeps
<1>14. Shape(N, root, M, lo, hi)
  <2>1. N \in [Nodes -> Node] /\ SameLinks(nd, N)
    BY <1>10 DEF Repainted
  <2> QED
    BY <1>8, <2>1, ColoursAside, Zenon
<1>15. Extremes(N, M)
  <2>1. N[HEADER] = nd[HEADER]
    BY <1>3, <1>5, <1>9, <1>10 DEF Repainted
  <2> QED
    BY <1>1, <1>7, <2>1 DEF Extremes
<1>16. Repairing(r, M, lo, hi, h2, g)
  BY <1>7, <1>10, <1>11, <1>13, <1>14, <1>15, Zenon DEF Repairing
<1> QED
  BY <1>2, <1>3, <1>6, <1>7, <1>16

LEMMA LoopRepairs ==
  ASSUME NEW t, NEW M, NEW lo, NEW hi, NEW h, NEW x, Repairing(t, M, lo, hi, h, x), NEW step, NEW end,
         step = [r \in Trees \X Nodes |->
                   IF Clash(r[1], r[2]) /\ RedUncle(r[1], r[2])
                   THEN <<Recoloured(r[1], r[2]), Grand(r[1], r[2])>> ELSE r],
         end = Loop(<<t, x>>, step)
  PROVE  /\ \E h2 : Repairing(end[1], M, lo, hi, h2, end[2])
         /\ ~(Clash(end[1], end[2]) /\ RedUncle(end[1], end[2]))
<1> DEFINE Good(s, y) == \E h2 : Repairing(s, M, lo, hi, h2, y)
           Q == {r \in Trees \X Nodes : Good(r[1], r[2])}
           m == [r \in Q |-> HEADER - (hi[r[2]] - lo[r[2]])]
           q == <<t, x>>
<1>1. ASSUME NEW s, NEW y, NEW h2, Repairing(s, M, lo, hi, h2, y) PROVE s \in Trees /\ y \in Nodes /\ y \in M
  <2>1. /\ s = [node |-> s.node, root |-> s.root] /\ s.node \in [Nodes -> Node] /\ s.root \in M /\ y \in M
        /\ M \subseteq Keys
    BY <1>1 DEF Repairing, Shape, Fixing
  <2>2. s.root \in Nodes /\ y \in Nodes
    BY <2>1 DEF Nodes
  <2>3. [node |-> s.node, root |-> s.root] \in Trees
    BY <2>1, <2>2 DEF Trees
  <2> QED
    BY <2>1, <2>2, <2>3, Zenon
<1>2. q \in Q
  <2>1. t \in Trees /\ x \in Nodes
    BY <1>1
  <2>2. q[1] = t /\ q[2] = x /\ q \in Trees \X Nodes
    BY <2>1
  <2> QED
    BY <2>2
<1>3. ASSUME NEW y \in M
      PROVE  hi[y] - lo[y] \in 0..HEADER /\ HEADER - (hi[y] - lo[y]) \in 0..HEADER
  <2>1. Shape(t.node, t.root, M, lo, hi)
    BY DEF Repairing
  <2>2. lo[y] \in Nat /\ hi[y] \in Nat /\ lo[y] < y /\ y < hi[y] /\ y \in Nat /\ hi[y] <= HEADER
    BY <2>1, BoundsAre
  <2> QED
    BY <2>2, Size
<1>4. m \in [Q -> 0..HEADER]
  <2> SUFFICES ASSUME NEW r \in Q PROVE HEADER - (hi[r[2]] - lo[r[2]]) \in 0..HEADER
    OBVIOUS
  <2>1. r[2] \in M
    BY <1>1
  <2> QED
    BY <1>3, <2>1
<1>5. ASSUME NEW r \in Q
      PROVE  /\ step[r] \in Q /\ (step[r] # r => m[step[r]] < m[r])
             /\ step[r] = r => ~(Clash(r[1], r[2]) /\ RedUncle(r[1], r[2]))
  <2>1. PICK s, y, h2 : r = <<s, y>> /\ Repairing(s, M, lo, hi, h2, y)
    OBVIOUS
  <2>2. r \in Trees \X Nodes /\ r[1] = s /\ r[2] = y
    BY <2>1
  <2>3. step[r] = IF Clash(s, y) /\ RedUncle(s, y) THEN <<Recoloured(s, y), Grand(s, y)>> ELSE r
    BY <2>2
  <2>4. CASE ~(Clash(s, y) /\ RedUncle(s, y))
    BY <2>2, <2>3, <2>4
  <2>5. CASE Clash(s, y) /\ RedUncle(s, y)
    <3>1. PICK s2, y2 : s2 = Recoloured(s, y) /\ y2 = Grand(s, y)
      OBVIOUS
    <3>2. /\ \E h3 : Repairing(s2, M, lo, hi, h3, y2)
          /\ y \in M /\ y2 \in M /\ hi[y] - lo[y] < hi[y2] - lo[y2]
      BY <2>1, <2>5, <3>1, RecolourStep
    <3>3. s2 \in Trees /\ y2 \in Nodes
      BY <1>1, <3>2
    <3>4. step[r] = <<s2, y2>> /\ <<s2, y2>>[1] = s2 /\ <<s2, y2>>[2] = y2 /\ <<s2, y2>> \in Trees \X Nodes
      BY <2>3, <2>5, <3>1, <3>3
    <3>5. step[r] \in Q
      BY <3>2, <3>4
    <3>6. m[step[r]] = HEADER - (hi[y2] - lo[y2]) /\ m[r] = HEADER - (hi[y] - lo[y])
      BY <2>2, <3>4, <3>5
    <3>7. /\ hi[y] - lo[y] \in 0..HEADER /\ hi[y2] - lo[y2] \in 0..HEADER
      BY <1>3, <3>2
    <3>8. m[step[r]] < m[r]
      BY <3>2, <3>6, <3>7, Size
    <3>9. step[r] # r
      BY <2>2, <3>2, <3>4, <3>7
    <3> QED
      BY <3>5, <3>8, <3>9, Zenon
  <2> QED
    BY <2>4, <2>5
<1> HIDE DEF m, q, Q
<1>6. Loop(q, step) \in Q /\ step[Loop(q, step)] = Loop(q, step)
  <2>1. \A r \in Q : step[r] \in Q /\ (step[r] # r => m[step[r]] < m[r])
    BY <1>5
  <2> QED
    BY <1>2, <1>4, <2>1, LoopEnds, Zenon
<1>7. end = Loop(q, step)
  BY DEF q
<1>8. end \in Q /\ ~(Clash(end[1], end[2]) /\ RedUncle(end[1], end[2]))
  BY <1>5, <1>6, <1>7, SMTT(30)
<1> QED
  BY <1>8 DEF Q

Mended(r, M) ==
  /\ r = [node |-> r.node, root |-> r.root]
  /\ \E lo, hi, h : Shape(r.node, r.root, M, lo, hi) /\ Settled(r.node, r.root, M, h) /\ Extremes(r.node, M)

LEMMA SettleLeft ==
  ASSUME NEW nd, NEW M, NEW lo, NEW hi, NEW root, NEW h, NEW g, NEW y, NEW s, NEW r,
         Shape(nd, root, M, lo, hi), ReadyLeft(nd, root, M, h, g, y), Extremes(nd, M),
         s = [node |-> nd, root |-> root],
         r = Rotate([s EXCEPT !.node[y].colour = BLACK, !.node[g].colour = RED], g, "right")
  PROVE  Mended(r, M)
<1>1. /\ nd \in [Nodes -> Node] /\ M \subseteq Nodes /\ HEADER \notin M /\ HEADER \in Nodes /\ NIL \notin M
      /\ y \in M /\ g \in M /\ y = nd[g].left
  BY NodesAre DEF Shape, Nodes, ReadyLeft
<1> DEFINE n1 == [nd EXCEPT ![y].colour = BLACK]
           n2 == [n1 EXCEPT ![g].colour = RED]
           s2 == [s EXCEPT !.node[y].colour = BLACK, !.node[g].colour = RED]
<1>2. Coloured(nd, n1, y, BLACK)
  <2>1. y \in Nodes /\ BLACK \in {RED, BLACK}
    BY <1>1
  <2> QED
    BY <1>1, <2>1, OneColoured, Zenon
<1>3. s2 = [[s EXCEPT !.node[y].colour = BLACK] EXCEPT !.node[g].colour = RED]
  OBVIOUS
<1>4. [s EXCEPT !.node[y].colour = BLACK] = [node |-> n1, root |-> root]
  BY <1>1
<1> HIDE DEF n1
<1>5. [[node |-> n1, root |-> root] EXCEPT !.node[g].colour = RED] = [node |-> n2, root |-> root]
  OBVIOUS
<1>6. Coloured(n1, n2, g, RED)
  <2>1. n1 \in [Nodes -> Node] /\ g \in Nodes /\ RED \in {RED, BLACK}
    BY <1>1, <1>2 DEF Coloured
  <2> QED
    BY <2>1, OneColoured, Zenon
<1> HIDE DEF n2, s2
<1>7. s2 = [node |-> n2, root |-> root]
  BY <1>3, <1>4, <1>5
<1>8. s2.node = n2 /\ s2.root = root
  <2>1. [node |-> n2, root |-> root].root = root /\ [node |-> n2, root |-> root].node = n2
    OBVIOUS
  <2> QED
    BY <1>7, <2>1, Zenon
<1>9. /\ n2 \in [Nodes -> Node] /\ SameLinks(nd, n2)
      /\ \A k \in Nodes : n2[k].colour = IF k = g THEN RED ELSE IF k = y THEN BLACK ELSE nd[k].colour
      /\ n2[HEADER] = nd[HEADER]
  BY <1>1, <1>2, <1>6 DEF Coloured, SameLinks
<1>10. Shape(n2, root, M, lo, hi)
  BY <1>9, ColoursAside, Zenon
<1>11. n2[g].left = y /\ n2[g].left # NIL
  BY <1>1, <1>9 DEF SameLinks
<1>12. r = Rotate(s2, g, "right")
  BY DEF s2
<1>13. /\ r = [node |-> r.node, root |-> r.root]
       /\ r.root = IF g = root THEN y ELSE root
       /\ TurnedRight(n2, M, g, y, r.node)
  <2>1. Shape(s2.node, s2.root, M, lo, hi) /\ s2 = [node |-> s2.node, root |-> s2.root]
        /\ g \in M /\ s2.node[g].left # NIL
    BY <1>1, <1>7, <1>8, <1>10, <1>11, Zenon
  <2>2. LET q == Rotate(s2, g, "right")  z == s2.node[g].left IN
         /\ q = [node |-> q.node, root |-> q.root]
         /\ q.root = IF g = s2.root THEN z ELSE s2.root
         /\ TurnedRight(s2.node, M, g, z, q.node)
    BY <2>1, RotateRightIs, Zenon
  <2> QED
    BY <1>8, <1>11, <1>12, <2>2
<1>14. PICK N, root2, lo2, hi2, h2 :
         /\ N = r.node /\ root2 = r.root
         /\ lo2 = [lo EXCEPT ![g] = y]
         /\ hi2 = [hi EXCEPT ![y] = hi[g]]
         /\ h2 = [h EXCEPT ![g] = h[y], ![y] = h[g]]
  OBVIOUS
<1>15. TurnedRight(n2, M, g, y, N) /\ root2 = IF g = root THEN y ELSE root
  BY <1>13, <1>14
<1>16. Shape(N, root2, M, lo2, hi2)
  <2>1. TurningRight(n2, root, M, lo, hi, g, y, N, root2, lo2, hi2)
    BY <1>1, <1>10, <1>11, <1>14, <1>15 DEF TurningRight
  <2> QED
    BY <2>1, TurnedRightShape, Zenon
<1>17. Settled(N, root2, M, h2)
  <2>1. ToppingLeft(nd, root, M, lo, hi, h, g, y, n2, N, root2, h2)
    BY <1>9, <1>14, <1>15 DEF ToppingLeft, Topping
  <2> QED
    BY <2>1, TopLeft, Zenon
<1>18. Extremes(N, M)
  <2>1. N[HEADER] = nd[HEADER]
    BY <1>9, <1>15 DEF TurnedRight
  <2> QED
    BY <2>1 DEF Extremes
<1> QED
  BY <1>13, <1>14, <1>16, <1>17, <1>18 DEF Mended

LEMMA MendLeft ==
  ASSUME NEW t, NEW M, NEW lo, NEW hi, NEW h, NEW x, Repairing(t, M, lo, hi, h, x), Clash(t, x),
         ~RedUncle(t, x), Side(t, Parent(t, x)) = "left"
  PROVE  Mended(Rotated(t, x), M)
<1>1. PICK p, g, u, nd, root : p = Parent(t, x) /\ g = Grand(t, x) /\ u = Uncle(t, x)
                               /\ nd = t.node /\ root = t.root
  OBVIOUS
<1>2. /\ Clashing(nd, root, M, h, x, p, g)
      /\ x \in M /\ p \in M /\ g \in M /\ p # g /\ x # p
      /\ p = nd[g].left /\ u = nd[g].right
  BY <1>1, Kin
<1>3. t = [node |-> nd, root |-> root] /\ Shape(nd, root, M, lo, hi) /\ Extremes(nd, M)
  BY <1>1 DEF Repairing
<1>4. /\ M \subseteq Nodes /\ HEADER \notin M /\ HEADER \in Nodes /\ NIL \notin M /\ nd \in [Nodes -> Node]
  BY <1>3, NodesAre DEF Shape, Nodes
<1>5. nd[g].right = NIL \/ nd[nd[g].right].colour = BLACK
  <2>1. u = NIL \/ nd[u].colour # RED
    BY <1>1 DEF RedUncle
  <2>2. u # NIL => u \in Nodes
    BY <1>2, <1>3, <1>4, ChildIs
  <2> QED
    BY <1>2, <1>4, <2>1, <2>2, ColourIs
<1>6. (x = nd[p].left /\ x # nd[p].right) \/ (x = nd[p].right /\ x # nd[p].left)
  BY <1>2, <1>3, FamilyIs
<1>7. PICK r : r = Rotated(t, x)
  OBVIOUS
<1>8. CASE x = nd[p].left /\ x # nd[p].right
  <2>1. nd[p][Other("left")] # x
    BY <1>8 DEF Other
  <2>2. r = Rotate([t EXCEPT !.node[p].colour = BLACK, !.node[g].colour = RED], g, "right")
    <3>1. Other("left") = "right"
      BY DEF Other
    <3> QED
      BY <1>1, <1>7, <2>1, <3>1 DEF Rotated
  <2>3. ReadyLeft(nd, root, M, h, g, p)
    BY <1>2, <1>3, <1>5, <1>8, OuterLeft
  <2> QED
    BY <1>3, <1>7, <2>2, <2>3, SettleLeft
<1>9. CASE x = nd[p].right /\ x # nd[p].left
  <2>1. PICK s, N : s = Rotate(t, p, "left") /\ N = s.node
    OBVIOUS
  <2>2. r = Rotate([s EXCEPT !.node[x].colour = BLACK, !.node[g].colour = RED], g, "right")
    <3>1. Other("left") = "right" /\ nd[p][Other("left")] = x
      BY <1>9 DEF Other
    <3> QED
      BY <1>1, <1>7, <2>1, <3>1 DEF Rotated
  <2>3. p # root
    BY <1>2, <1>3, FamilyIs
  <2>4. s = [node |-> N, root |-> root] /\ TurnedLeft(nd, M, p, x, N)
    <3>1. Shape(t.node, t.root, M, lo, hi) /\ t = [node |-> t.node, root |-> t.root]
          /\ p \in M /\ t.node[p].right # NIL
      BY <1>1, <1>2, <1>3, <1>4, <1>9, Zenon
    <3>2. LET q == Rotate(t, p, "left")  z == t.node[p].right IN
           /\ q = [node |-> q.node, root |-> q.root]
           /\ q.root = IF p = t.root THEN z ELSE t.root
           /\ TurnedLeft(t.node, M, p, z, q.node)
      BY <3>1, RotateLeftIs, Zenon
    <3> QED
      BY <1>1, <1>9, <2>1, <2>3, <3>2
  <2>5. PICK lo2, hi2 : lo2 = [lo EXCEPT ![x] = lo[p]] /\ hi2 = [hi EXCEPT ![p] = x]
    OBVIOUS
  <2>6. Shape(N, root, M, lo2, hi2)
    <3>1. TurningLeft(nd, root, M, lo, hi, p, x, N, root, lo2, hi2)
      BY <1>2, <1>3, <1>9, <2>3, <2>4, <2>5 DEF TurningLeft
    <3> QED
      BY <3>1, TurnedLeftShape, Zenon
  <2>7. ReadyLeft(N, root, M, h, g, x)
    BY <1>2, <1>3, <1>5, <1>9, <2>4, InnerLeft
  <2>8. Extremes(N, M)
    <3>1. N[HEADER] = nd[HEADER]
      BY <2>4 DEF TurnedLeft
    <3> QED
      BY <1>3, <3>1 DEF Extremes
  <2> QED
    BY <1>7, <2>2, <2>4, <2>6, <2>7, <2>8, SettleLeft
<1> QED
  BY <1>6, <1>8, <1>9

LEMMA SettleRight ==
  ASSUME NEW nd, NEW M, NEW lo, NEW hi, NEW root, NEW h, NEW g, NEW y, NEW s, NEW r,
         Shape(nd, root, M, lo, hi), ReadyRight(nd, root, M, h, g, y), Extremes(nd, M),
         s = [node |-> nd, root |-> root],
         r = Rotate([s EXCEPT !.node[y].colour = BLACK, !.node[g].colour = RED], g, "left")
  PROVE  Mended(r, M)
<1>1. /\ nd \in [Nodes -> Node] /\ M \subseteq Nodes /\ HEADER \notin M /\ HEADER \in Nodes /\ NIL \notin M
      /\ y \in M /\ g \in M /\ y = nd[g].right
  BY NodesAre DEF Shape, Nodes, ReadyRight
<1> DEFINE n1 == [nd EXCEPT ![y].colour = BLACK]
           n2 == [n1 EXCEPT ![g].colour = RED]
           s2 == [s EXCEPT !.node[y].colour = BLACK, !.node[g].colour = RED]
<1>2. Coloured(nd, n1, y, BLACK)
  <2>1. y \in Nodes /\ BLACK \in {RED, BLACK}
    BY <1>1
  <2> QED
    BY <1>1, <2>1, OneColoured, Zenon
<1>3. s2 = [[s EXCEPT !.node[y].colour = BLACK] EXCEPT !.node[g].colour = RED]
  OBVIOUS
<1>4. [s EXCEPT !.node[y].colour = BLACK] = [node |-> n1, root |-> root]
  BY <1>1
<1> HIDE DEF n1
<1>5. [[node |-> n1, root |-> root] EXCEPT !.node[g].colour = RED] = [node |-> n2, root |-> root]
  OBVIOUS
<1>6. Coloured(n1, n2, g, RED)
  <2>1. n1 \in [Nodes -> Node] /\ g \in Nodes /\ RED \in {RED, BLACK}
    BY <1>1, <1>2 DEF Coloured
  <2> QED
    BY <2>1, OneColoured, Zenon
<1> HIDE DEF n2, s2
<1>7. s2 = [node |-> n2, root |-> root]
  BY <1>3, <1>4, <1>5
<1>8. s2.node = n2 /\ s2.root = root
  <2>1. [node |-> n2, root |-> root].root = root /\ [node |-> n2, root |-> root].node = n2
    OBVIOUS
  <2> QED
    BY <1>7, <2>1, Zenon
<1>9. /\ n2 \in [Nodes -> Node] /\ SameLinks(nd, n2)
      /\ \A k \in Nodes : n2[k].colour = IF k = g THEN RED ELSE IF k = y THEN BLACK ELSE nd[k].colour
      /\ n2[HEADER] = nd[HEADER]
  BY <1>1, <1>2, <1>6 DEF Coloured, SameLinks
<1>10. Shape(n2, root, M, lo, hi)
  BY <1>9, ColoursAside, Zenon
<1>11. n2[g].right = y /\ n2[g].right # NIL
  BY <1>1, <1>9 DEF SameLinks
<1>12. r = Rotate(s2, g, "left")
  BY DEF s2
<1>13. /\ r = [node |-> r.node, root |-> r.root]
       /\ r.root = IF g = root THEN y ELSE root
       /\ TurnedLeft(n2, M, g, y, r.node)
  <2>1. Shape(s2.node, s2.root, M, lo, hi) /\ s2 = [node |-> s2.node, root |-> s2.root]
        /\ g \in M /\ s2.node[g].right # NIL
    BY <1>1, <1>7, <1>8, <1>10, <1>11, Zenon
  <2>2. LET q == Rotate(s2, g, "left")  z == s2.node[g].right IN
         /\ q = [node |-> q.node, root |-> q.root]
         /\ q.root = IF g = s2.root THEN z ELSE s2.root
         /\ TurnedLeft(s2.node, M, g, z, q.node)
    BY <2>1, RotateLeftIs, Zenon
  <2> QED
    BY <1>8, <1>11, <1>12, <2>2
<1>14. PICK N, root2, lo2, hi2, h2 :
         /\ N = r.node /\ root2 = r.root
         /\ hi2 = [hi EXCEPT ![g] = y]
         /\ lo2 = [lo EXCEPT ![y] = lo[g]]
         /\ h2 = [h EXCEPT ![g] = h[y], ![y] = h[g]]
  OBVIOUS
<1>15. TurnedLeft(n2, M, g, y, N) /\ root2 = IF g = root THEN y ELSE root
  BY <1>13, <1>14
<1>16. Shape(N, root2, M, lo2, hi2)
  <2>1. TurningLeft(n2, root, M, lo, hi, g, y, N, root2, lo2, hi2)
    BY <1>1, <1>10, <1>11, <1>14, <1>15 DEF TurningLeft
  <2> QED
    BY <2>1, TurnedLeftShape, Zenon
<1>17. Settled(N, root2, M, h2)
  <2>1. ToppingRight(nd, root, M, lo, hi, h, g, y, n2, N, root2, h2)
    BY <1>9, <1>14, <1>15 DEF ToppingRight, Topping
  <2> QED
    BY <2>1, TopRight, Zenon
<1>18. Extremes(N, M)
  <2>1. N[HEADER] = nd[HEADER]
    BY <1>9, <1>15 DEF TurnedLeft
  <2> QED
    BY <2>1 DEF Extremes
<1> QED
  BY <1>13, <1>14, <1>16, <1>17, <1>18 DEF Mended

LEMMA MendRight ==
  ASSUME NEW t, NEW M, NEW lo, NEW hi, NEW h, NEW x, Repairing(t, M, lo, hi, h, x), Clash(t, x),
         ~RedUncle(t, x), Side(t, Parent(t, x)) = "right"
  PROVE  Mended(Rotated(t, x), M)
<1>1. PICK p, g, u, nd, root : p = Parent(t, x) /\ g = Grand(t, x) /\ u = Uncle(t, x)
                               /\ nd = t.node /\ root = t.root
  OBVIOUS
<1>2. /\ Clashing(nd, root, M, h, x, p, g)
      /\ x \in M /\ p \in M /\ g \in M /\ p # g /\ x # p
      /\ p = nd[g].right /\ u = nd[g].left
  BY <1>1, Kin
<1>3. t = [node |-> nd, root |-> root] /\ Shape(nd, root, M, lo, hi) /\ Extremes(nd, M)
  BY <1>1 DEF Repairing
<1>4. /\ M \subseteq Nodes /\ HEADER \notin M /\ HEADER \in Nodes /\ NIL \notin M /\ nd \in [Nodes -> Node]
  BY <1>3, NodesAre DEF Shape, Nodes
<1>5. nd[g].left = NIL \/ nd[nd[g].left].colour = BLACK
  <2>1. u = NIL \/ nd[u].colour # RED
    BY <1>1 DEF RedUncle
  <2>2. u # NIL => u \in Nodes
    BY <1>2, <1>3, <1>4, ChildIs
  <2> QED
    BY <1>2, <1>4, <2>1, <2>2, ColourIs
<1>6. (x = nd[p].right /\ x # nd[p].left) \/ (x = nd[p].left /\ x # nd[p].right)
  BY <1>2, <1>3, FamilyIs
<1>7. PICK r : r = Rotated(t, x)
  OBVIOUS
<1>8. CASE x = nd[p].right /\ x # nd[p].left
  <2>1. nd[p][Other("right")] # x
    BY <1>8 DEF Other
  <2>2. r = Rotate([t EXCEPT !.node[p].colour = BLACK, !.node[g].colour = RED], g, "left")
    <3>1. Other("right") = "left"
      BY DEF Other
    <3> QED
      BY <1>1, <1>7, <2>1, <3>1 DEF Rotated
  <2>3. ReadyRight(nd, root, M, h, g, p)
    BY <1>2, <1>3, <1>5, <1>8, OuterRight
  <2> QED
    BY <1>3, <1>7, <2>2, <2>3, SettleRight
<1>9. CASE x = nd[p].left /\ x # nd[p].right
  <2>1. PICK s, N : s = Rotate(t, p, "right") /\ N = s.node
    OBVIOUS
  <2>2. r = Rotate([s EXCEPT !.node[x].colour = BLACK, !.node[g].colour = RED], g, "left")
    <3>1. Other("right") = "left" /\ nd[p][Other("right")] = x
      BY <1>9 DEF Other
    <3> QED
      BY <1>1, <1>7, <2>1, <3>1 DEF Rotated
  <2>3. p # root
    BY <1>2, <1>3, FamilyIs
  <2>4. s = [node |-> N, root |-> root] /\ TurnedRight(nd, M, p, x, N)
    <3>1. Shape(t.node, t.root, M, lo, hi) /\ t = [node |-> t.node, root |-> t.root]
          /\ p \in M /\ t.node[p].left # NIL
      BY <1>1, <1>2, <1>3, <1>4, <1>9, Zenon
    <3>2. LET q == Rotate(t, p, "right")  z == t.node[p].left IN
           /\ q = [node |-> q.node, root |-> q.root]
           /\ q.root = IF p = t.root THEN z ELSE t.root
           /\ TurnedRight(t.node, M, p, z, q.node)
      BY <3>1, RotateRightIs, Zenon
    <3> QED
      BY <1>1, <1>9, <2>1, <2>3, <3>2
  <2>5. PICK lo2, hi2 : hi2 = [hi EXCEPT ![x] = hi[p]] /\ lo2 = [lo EXCEPT ![p] = x]
    OBVIOUS
  <2>6. Shape(N, root, M, lo2, hi2)
    <3>1. TurningRight(nd, root, M, lo, hi, p, x, N, root, lo2, hi2)
      BY <1>2, <1>3, <1>9, <2>3, <2>4, <2>5 DEF TurningRight
    <3> QED
      BY <3>1, TurnedRightShape, Zenon
  <2>7. ReadyRight(N, root, M, h, g, x)
    BY <1>2, <1>3, <1>5, <1>9, <2>4, InnerRight
  <2>8. Extremes(N, M)
    <3>1. N[HEADER] = nd[HEADER]
      BY <2>4 DEF TurnedRight
    <3> QED
      BY <1>3, <3>1 DEF Extremes
  <2> QED
    BY <1>7, <2>2, <2>4, <2>6, <2>7, <2>8, SettleRight
<1> QED
  BY <1>6, <1>8, <1>9

----------------------------------------------------------------------------
(* The end of the repair.                                                 *)

\* All is well but for the root's colour, and the header's idea of the root.
NearlySound(r, M, lo, hi, h) ==
  /\ r = [node |-> r.node, root |-> r.root]
  /\ Shape(r.node, r.root, M, lo, hi) /\ Level(r.node, M, h) /\ Reds(r.node, r.root, M, NIL)
  /\ Extremes(r.node, M)

LEMMA Restores ==
  ASSUME NEW t, NEW M, NEW lo, NEW hi, NEW h, NEW x, Repairing(t, M, lo, hi, h, x)
  PROVE  \E lo2, hi2, h2 : NearlySound(Restored(t, x), M, lo2, hi2, h2)
<1> DEFINE step == [r \in Trees \X Nodes |->
                      IF Clash(r[1], r[2]) /\ RedUncle(r[1], r[2])
                      THEN <<Recoloured(r[1], r[2]), Grand(r[1], r[2])>> ELSE r]
<1>1. PICK end, s, y : end = Loop(<<t, x>>, step) /\ s = end[1] /\ y = end[2]
  OBVIOUS
<1>2. Restored(t, x) = IF Clash(s, y) THEN Rotated(s, y) ELSE s
  BY <1>1 DEF Restored
<1>3. /\ \E h2 : Repairing(s, M, lo, hi, h2, y)
      /\ ~(Clash(s, y) /\ RedUncle(s, y))
  BY <1>1, LoopRepairs
<1> HIDE DEF step
<1>4. PICK h2 : Repairing(s, M, lo, hi, h2, y)
  BY <1>3
<1>5. CASE Clash(s, y)
  <2>1. Side(s, Parent(s, y)) \in {"left", "right"}
    BY DEF Side
  <2>2. Side(s, Parent(s, y)) = "left" => Mended(Rotated(s, y), M)
    <3>1. ~RedUncle(s, y)
      BY <1>3, <1>5
    <3> QED
      BY <1>4, <1>5, <3>1, MendLeft, Zenon
  <2>3. Side(s, Parent(s, y)) = "right" => Mended(Rotated(s, y), M)
    <3>1. ~RedUncle(s, y)
      BY <1>3, <1>5
    <3> QED
      BY <1>4, <1>5, <3>1, MendRight, Zenon
  <2>4. Mended(Rotated(s, y), M)
    BY <2>1, <2>2, <2>3
  <2>5. PICK r : r = Rotated(s, y)
    OBVIOUS
  <2>6. /\ r = [node |-> r.node, root |-> r.root]
        /\ \E lo3, hi3, h3 : Shape(r.node, r.root, M, lo3, hi3) /\ Settled(r.node, r.root, M, h3) /\ Extremes(r.node, M)
    BY <2>4, <2>5 DEF Mended
  <2>7. PICK lo3, hi3, h3 : Shape(r.node, r.root, M, lo3, hi3) /\ Settled(r.node, r.root, M, h3) /\ Extremes(r.node, M)
    BY <2>6
  <2>8. NearlySound(r, M, lo3, hi3, h3)
    BY <2>6, <2>7 DEF NearlySound, Settled
  <2> QED
    BY <1>2, <1>5, <2>5, <2>8
<1>6. CASE ~Clash(s, y)
  <2>1. /\ s = [node |-> s.node, root |-> s.root] /\ Shape(s.node, s.root, M, lo, hi)
        /\ Extremes(s.node, M) /\ Level(s.node, M, h2) /\ Reds(s.node, s.root, M, y)
        /\ y \in M /\ s.node \in [Nodes -> Node]
    BY <1>4 DEF Repairing, Fixing, Shape
  <2>2. y # s.root => s.node[s.node[y].parent].colour = BLACK
    <3>1. ASSUME y # s.root PROVE s.node[y].parent \in Nodes
      <4>1. s.node[y].parent \in M /\ M \subseteq Nodes
        BY <2>1, <3>1, ParentOf, NodesAre DEF Shape, Nodes
      <4> QED
        BY <4>1
    <3>2. ASSUME y # s.root PROVE s.node[s.node[y].parent].colour # RED
      BY <1>6, <3>2 DEF Clash, Parent
    <3> QED
      BY <2>1, <3>1, <3>2, ColourIs
  <2>3. Reds(s.node, s.root, M, NIL)
    BY <2>1, <2>2 DEF Reds
  <2>4. NearlySound(s, M, lo, hi, h2)
    BY <2>1, <2>3 DEF NearlySound
  <2> QED
    BY <1>2, <1>6, <2>4
<1> QED
  BY <1>5, <1>6

LEMMA Blackens ==
  ASSUME NEW r, NEW M, NEW lo, NEW hi, NEW h, NearlySound(r, M, lo, hi, h), NEW N,
         N = [r.node EXCEPT ![r.root].colour = BLACK, ![HEADER].parent = r.root]
  PROVE  \E h2 : Sound(N, r.root, M, lo, hi, h2)
<1>1. PICK nd, root : nd = r.node /\ root = r.root
  OBVIOUS
<1>2. Shape(nd, root, M, lo, hi) /\ Level(nd, M, h) /\ Reds(nd, root, M, NIL) /\ Extremes(nd, M)
  BY <1>1 DEF NearlySound
<1>3. /\ nd \in [Nodes -> Node] /\ root \in M /\ M \subseteq Nodes /\ M \subseteq Keys
      /\ HEADER \in Nodes /\ HEADER \notin M /\ NIL \notin M /\ root \in 0..HEADER /\ nd[root].parent = HEADER
  BY <1>2, NodesAre, Size DEF Shape, Nodes, Keys
<1>4. PICK n1 : n1 = [nd EXCEPT ![root].colour = BLACK]
  OBVIOUS
<1>5. Coloured(nd, n1, root, BLACK)
  <2>1. root \in Nodes /\ BLACK \in {RED, BLACK}
    BY <1>3
  <2>2. Coloured(nd, [nd EXCEPT ![root].colour = BLACK], root, BLACK)
    BY <1>3, <2>1, OneColoured, Zenon
  <2> QED
    BY <1>4, <2>2
<1>6. N = [n1 EXCEPT ![HEADER].parent = root]
  BY <1>1, <1>4
<1>7. n1 \in [Nodes -> Node] /\ n1[HEADER] = nd[HEADER]
  BY <1>3, <1>5 DEF Coloured
<1>8. N[HEADER] = [colour |-> nd[HEADER].colour, parent |-> root, left |-> nd[HEADER].left, right |-> nd[HEADER].right]
  <2>1. N[HEADER] = [n1[HEADER] EXCEPT !.parent = root]
    BY <1>3, <1>6, <1>7
  <2>2. nd[HEADER] = [colour |-> nd[HEADER].colour, parent |-> nd[HEADER].parent,
                     left |-> nd[HEADER].left, right |-> nd[HEADER].right]
    BY <1>3, NodeIs
  <2> QED
    BY <1>7, <2>1, <2>2
<1>9. \A k \in Nodes : k # HEADER => N[k] = n1[k]
  BY <1>6, <1>7
<1>10. N \in [Nodes -> Node]
  <2>1. N[HEADER] \in Node
    BY <1>3, <1>8, NodeIs DEF Node
  <2>2. N = [k \in Nodes |-> N[k]]
    BY <1>6, <1>7
  <2> QED
    BY <1>7, <1>9, <2>1, <2>2
<1>11. /\ \A k \in M : /\ N[k].parent = nd[k].parent /\ N[k].left = nd[k].left /\ N[k].right = nd[k].right
                       /\ N[k].colour = IF k = root THEN BLACK ELSE nd[k].colour
       /\ \A k \in Keys : N[k].parent = nd[k].parent
  <2>1. ASSUME NEW k \in Keys PROVE N[k] = n1[k] /\ k \in Nodes
    BY <1>3, <1>9, NodesAre DEF Nodes
  <2>2. ASSUME NEW k \in Nodes
        PROVE  /\ n1[k].parent = nd[k].parent /\ n1[k].left = nd[k].left /\ n1[k].right = nd[k].right
               /\ n1[k].colour = IF k = root THEN BLACK ELSE nd[k].colour
    BY <1>5 DEF Coloured, SameLinks
  <2> QED
    BY <1>3, <2>1, <2>2
<1>12. Shape(N, root, M, lo, hi)
  <2>1. \A k \in M : N[k].left # NIL => N[k].left \in M
    BY <1>2, <1>11, ChildIs
  <2>2. \A k \in M : N[k].right # NIL => N[k].right \in M
    BY <1>2, <1>11, ChildIs
  <2>3. ASSUME NEW k \in M PROVE LeftSide(N, M, lo, hi, k)
    <3>1. LeftSide(nd, M, lo, hi, k) /\ N[k].left = nd[k].left
      BY <1>2, <1>11 DEF Shape
    <3>2. nd[k].left # NIL => nd[k].left \in M /\ N[nd[k].left].parent = nd[nd[k].left].parent
      BY <1>11, <2>1
    <3> QED
      BY <3>1, <3>2 DEF LeftSide
  <2>4. ASSUME NEW k \in M PROVE RightSide(N, M, lo, hi, k)
    <3>1. RightSide(nd, M, lo, hi, k) /\ N[k].right = nd[k].right
      BY <1>2, <1>11 DEF Shape
    <3>2. nd[k].right # NIL => nd[k].right \in M /\ N[nd[k].right].parent = nd[nd[k].right].parent
      BY <1>11, <2>2
    <3> QED
      BY <3>1, <3>2 DEF RightSide
  <2>5. ASSUME NEW k \in M, k # root
        PROVE  N[k].parent \in M /\ (k = N[N[k].parent].left \/ k = N[N[k].parent].right)
    <3>1. nd[k].parent \in M /\ (k = nd[nd[k].parent].left \/ k = nd[nd[k].parent].right)
      BY <1>2, <2>5 DEF Shape
    <3> QED
      BY <1>11, <3>1
  <2>6. N[root].parent = HEADER /\ \A k \in Keys \ M : N[k].parent = NIL
    BY <1>2, <1>3, <1>11 DEF Shape
  <2> QED
    BY <1>2, <1>10, <2>3, <2>4, <2>5, <2>6, Zenon DEF Shape
<1>13. PICK h2 : h2 = IF nd[root].colour = RED THEN [h EXCEPT ![root] = h[root] + 1] ELSE h
  OBVIOUS
<1>14. h \in [M -> Nat] /\ h2 \in [M -> Nat] /\ (\A k \in M : k # root => h2[k] = h[k])
       /\ h2[root] = IF nd[root].colour = RED THEN h[root] + 1 ELSE h[root]
  BY <1>2, <1>3, <1>13 DEF Level
<1>15. ASSUME NEW k \in M
       PROVE  /\ Height(h2, N[k].left) = Height(h, nd[k].left)
              /\ Height(h2, N[k].right) = Height(h, nd[k].right)
  <2>1. nd[k].left # NIL => nd[k].left \in M /\ nd[nd[k].left].parent = k
    BY <1>2, ChildIs
  <2>2. nd[k].right # NIL => nd[k].right \in M /\ nd[nd[k].right].parent = k
    BY <1>2, ChildIs
  <2>3. nd[k].left # root /\ nd[k].right # root
    BY <1>3, <2>1, <2>2
  <2> QED
    BY <1>11, <1>14, <2>1, <2>2, <2>3, SMTT(30) DEF Height
<1>16. Level(N, M, h2)
  <2>1. ASSUME NEW k \in M PROVE h2[k] = Height(h, nd[k].left) + Black(N, k)
    <3>1. h[k] = Height(h, nd[k].left) + Black(nd, k) /\ h[k] \in Nat
      BY <1>2 DEF Level
    <3>2. Height(h, nd[k].left) \in Nat
      BY <1>2, <1>14, ChildIs DEF Height
    <3>3. RED # BLACK /\ nd[k].colour \in {RED, BLACK}
      BY <1>3, ColourIs
    <3>4. CASE k # root
      BY <1>11, <1>14, <3>1, <3>4 DEF Black
    <3>5. CASE k = root
      <4>1. Black(N, k) = 1
        BY <1>11, <3>5 DEF Black
      <4>2. CASE nd[k].colour = RED
        <5>1. Black(nd, k) = 0 /\ h2[k] = h[k] + 1
          BY <1>14, <3>3, <3>5, <4>2 DEF Black
        <5> QED
          BY <3>1, <3>2, <4>1, <5>1
      <4>3. CASE nd[k].colour = BLACK
        <5>1. Black(nd, k) = 1 /\ h2[k] = h[k]
          BY <1>14, <3>3, <3>5, <4>3 DEF Black
        <5> QED
          BY <3>1, <3>2, <4>1, <5>1
      <4> QED
        BY <3>3, <4>2, <4>3
    <3> QED
      BY <3>4, <3>5
  <2>2. \A k \in M : Height(h, nd[k].left) = Height(h, nd[k].right)
    BY <1>2 DEF Level
  <2> QED
    BY <1>14, <1>15, <2>1, <2>2 DEF Level
<1>17. Reds(N, root, M, NIL) /\ N[root].colour = BLACK
  <2>1. ASSUME NEW k \in M, N[k].colour = RED, k # root PROVE N[N[k].parent].colour = BLACK
    <3>1. nd[k].colour = RED /\ k # NIL
      BY <1>3, <1>11, <2>1
    <3>2. nd[k].parent \in M /\ nd[nd[k].parent].colour = BLACK
      BY <1>2, <2>1, <3>1, ParentOf DEF Reds
    <3> QED
      BY <1>11, <3>2
  <2> QED
    BY <1>3, <1>11, <2>1 DEF Reds
<1>18. Settled(N, root, M, h2)
  BY <1>16, <1>17 DEF Settled
<1>19. Tracked(N, root, M)
  <2>1. N[HEADER].parent = root /\ N[HEADER].colour = nd[HEADER].colour
        /\ N[HEADER].left = nd[HEADER].left /\ N[HEADER].right = nd[HEADER].right
    BY <1>8
  <2> QED
    BY <1>2, <2>1 DEF Extremes, Tracked
<1> QED
  BY <1>1, <1>12, <1>18, <1>19 DEF Sound

----------------------------------------------------------------------------
(* Where a key is linked.                                                 *)

\* The guest's descent ends at the gap the key belongs in.
LEMMA BelowEnds ==
  ASSUME NEW M, NEW lo, NEW hi, NEW root, Shape(node, root, M, lo, hi), NEW k \in Keys \ M
  PROVE  LET p == Below(root, k) IN
         /\ p \in M /\ lo[p] < k /\ k < hi[p]
         /\ \/ k < p /\ node[p].left = NIL
            \/ p < k /\ node[p].right = NIL
<1> DEFINE Q == {y \in M : lo[y] < k /\ k < hi[y]}
           Side2(y) == IF k < y THEN node[y].left ELSE node[y].right
           step == [y \in Keys |-> IF Side2(y) = NIL THEN y ELSE Side2(y)]
           m == [y \in Q |-> hi[y] - lo[y]]
<1>1. M \subseteq Keys /\ root \in M /\ lo[root] = 0 /\ hi[root] = HEADER /\ k \in Nat /\ 0 < k /\ k < HEADER
      /\ k \notin M
  <2>1. k \in Nat /\ 0 < k /\ k < HEADER
    BY Size DEF Keys
  <2> QED
    BY <2>1 DEF Shape
<1>2. root \in Q
  BY <1>1
<1>3. m \in [Q -> 0..HEADER]
  <2> SUFFICES ASSUME NEW y \in Q PROVE hi[y] - lo[y] \in 0..HEADER
    OBVIOUS
  <2>1. lo[y] \in Nat /\ hi[y] \in Nat /\ lo[y] < y /\ y < hi[y] /\ hi[y] <= HEADER /\ y \in Nat
    BY BoundsAre
  <2> QED
    BY <2>1, Size
<1>4. ASSUME NEW r \in Q
      PROVE  /\ step[r] \in Q /\ (step[r] # r => m[step[r]] < m[r])
             /\ step[r] = r => \/ k < r /\ node[r].left = NIL
                               \/ r < k /\ node[r].right = NIL
  <2>1. r \in M /\ r \in Keys /\ r # k /\ lo[r] \in Nat /\ hi[r] \in Nat /\ r \in Nat /\ lo[r] < r /\ r < hi[r]
        /\ lo[r] < k /\ k < hi[r]
    <3>1. r \in M /\ lo[r] < k /\ k < hi[r]
      OBVIOUS
    <3>2. lo[r] \in Nat /\ hi[r] \in Nat /\ lo[r] < r /\ r < hi[r] /\ r \in Nat
      BY <3>1, BoundsAre
    <3> QED
      BY <1>1, <3>1, <3>2
  <2>2. step[r] = IF Side2(r) = NIL THEN r ELSE Side2(r)
    BY <2>1
  <2>3. m[r] = hi[r] - lo[r]
    OBVIOUS
  <2>4. CASE k < r
    <3>1. Side2(r) = node[r].left
      BY <2>4
    <3>2. CASE node[r].left = NIL
      BY <2>2, <2>4, <3>1, <3>2
    <3>3. CASE node[r].left # NIL
      <4>0. node[r].left \in M /\ lo[node[r].left] = lo[r] /\ hi[node[r].left] = r
        <5>1. r \in M
          BY <2>1
        <5>2. Shape(node, root, M, lo, hi)
          OBVIOUS
        <5> HIDE DEF Q, m, step
        <5> QED
          BY <3>3, <5>1, <5>2, ChildIs
      <4>1. PICK l \in M : l = node[r].left /\ lo[l] = lo[r] /\ hi[l] = r
        BY <4>0
      <4>2. l \in Q /\ m[l] = r - lo[r] /\ l # r
        BY <1>1, <2>1, <2>4, <4>1
      <4>3. step[r] = l
        BY <2>2, <3>1, <3>3, <4>1
      <4> QED
        BY <2>1, <2>3, <4>2, <4>3
    <3> QED
      BY <3>2, <3>3
  <2>5. CASE r < k
    <3>1. Side2(r) = node[r].right
      BY <1>1, <2>1, <2>5
    <3>2. CASE node[r].right = NIL
      BY <2>2, <2>5, <3>1, <3>2
    <3>3. CASE node[r].right # NIL
      <4>0. node[r].right \in M /\ lo[node[r].right] = r /\ hi[node[r].right] = hi[r]
        <5>1. r \in M
          BY <2>1
        <5>2. Shape(node, root, M, lo, hi)
          OBVIOUS
        <5> HIDE DEF Q, m, step
        <5> QED
          BY <3>3, <5>1, <5>2, ChildIs
      <4>1. PICK l \in M : l = node[r].right /\ lo[l] = r /\ hi[l] = hi[r]
        BY <4>0
      <4>2. l \in Q /\ m[l] = hi[r] - r /\ l # r
        BY <1>1, <2>1, <2>5, <4>1
      <4>3. step[r] = l
        BY <2>2, <3>1, <3>3, <4>1
      <4> QED
        BY <2>1, <2>3, <4>2, <4>3
    <3> QED
      BY <3>2, <3>3
  <2> QED
    BY <1>1, <2>1, <2>4, <2>5
<1>5. Below(root, k) = Loop(root, step)
  BY DEF Below
<1> HIDE DEF step, m
<1>6. PICK p \in Q : p = Loop(root, step) /\ step[p] = p
  <2>1. \A r \in Q : step[r] \in Q /\ (step[r] # r => m[step[r]] < m[r])
    BY <1>4
  <2>2. Loop(root, step) \in Q /\ step[Loop(root, step)] = Loop(root, step)
    BY <1>2, <1>3, <2>1, LoopEnds, Zenon
  <2> QED
    BY <2>2, Zenon
<1> QED
  BY <1>4, <1>5, <1>6

\* A tree without members.
Vacant(nd) ==
  /\ nd \in [Nodes -> Node] /\ \A k \in Keys : nd[k].parent = NIL
  /\ nd[HEADER] = [colour |-> RED, parent |-> NIL, left |-> HEADER, right |-> HEADER]

LEMMA LinkFirst ==
  ASSUME Vacant(node), NEW k \in Keys, NEW t, t = Linked(TRUE, k, HEADER)
  PROVE  \E lo, hi, h : Repairing(t, {k}, lo, hi, h, k)
<1>1. /\ HEADER \in Nodes /\ k \in Nodes /\ k \in 0..HEADER /\ HEADER \in 0..HEADER /\ 0 \in 0..HEADER /\ NIL = 0
      /\ k # HEADER /\ k # NIL /\ node \in [Nodes -> Node] /\ HEADER # NIL /\ 0 < k /\ k < HEADER /\ k \in Nat
      /\ Keys \subseteq Nodes /\ HEADER \notin Keys
  BY NodesAre, Size DEF Vacant, Keys, Nodes
<1> DEFINE raw == [node EXCEPT ![k] = [colour |-> RED, parent |-> HEADER, left |-> NIL, right |-> NIL],
                               ![HEADER]["left"] = k]
           N == [raw EXCEPT ![HEADER].parent = k, ![HEADER].right = k]
<1>2. t = [node |-> N, root |-> k]
  BY DEF Linked
<1>3. t.node = N /\ t.root = k
  <2>1. [node |-> N, root |-> k].node = N /\ [node |-> N, root |-> k].root = k
    OBVIOUS
  <2> HIDE DEF N
  <2> QED
    BY <1>2, <2>1, Zenon
<1>4. raw[HEADER] = [node[HEADER] EXCEPT !.left = k] /\ raw[k] = New(HEADER)
      /\ \A j \in Nodes : j # k /\ j # HEADER => raw[j] = node[j]
  BY <1>1 DEF New
<1>5. raw[HEADER] = [colour |-> RED, parent |-> NIL, left |-> k, right |-> HEADER]
  BY <1>4 DEF Vacant
<1>6. raw = [j \in Nodes |-> raw[j]]
  BY <1>1
<1> HIDE DEF raw
<1>7. N[HEADER] = [raw[HEADER] EXCEPT !.parent = k, !.right = k] /\ N[k] = New(HEADER)
      /\ (\A j \in Nodes : j # k /\ j # HEADER => N[j] = node[j]) /\ N = [j \in Nodes |-> N[j]]
  BY <1>1, <1>4, <1>6
<1> HIDE DEF N
<1>8. N[HEADER] = [colour |-> RED, parent |-> k, left |-> k, right |-> k]
  <2> DEFINE e == [colour |-> RED, parent |-> NIL, left |-> k, right |-> HEADER]
  <2>0. [e EXCEPT !.parent = k] = [colour |-> RED, parent |-> k, left |-> k, right |-> HEADER]
    OBVIOUS
  <2>3. [[colour |-> RED, parent |-> k, left |-> k, right |-> HEADER] EXCEPT !.right = k]
          = [colour |-> RED, parent |-> k, left |-> k, right |-> k]
    OBVIOUS
  <2>2. [[e EXCEPT !.parent = k] EXCEPT !.right = k] = [colour |-> RED, parent |-> k, left |-> k, right |-> k]
    BY <2>0, <2>3, Zenon
  <2>1. [e EXCEPT !.parent = k, !.right = k]
          = [colour |-> RED, parent |-> k, left |-> k, right |-> k]
    BY <2>2
  <2> QED
    BY <1>5, <1>7, <2>1, Zenon
<1>9. N \in [Nodes -> Node]
  <2>1. N[HEADER] \in Node /\ N[k] \in Node
    BY <1>1, <1>7, <1>8 DEF Node, New
  <2> QED
    BY <1>1, <1>7, <2>1
<1>10. /\ N[k].colour = RED /\ N[k].parent = HEADER /\ N[k].left = NIL /\ N[k].right = NIL
       /\ N[HEADER].colour = RED /\ N[HEADER].left = k /\ N[HEADER].right = k
  <2>1. /\ New(HEADER).colour = RED /\ New(HEADER).parent = HEADER
        /\ New(HEADER).left = NIL /\ New(HEADER).right = NIL
    BY DEF New
  <2>2. N[k] = New(HEADER)
    BY <1>7
  <2>3. N[HEADER].colour = RED /\ N[HEADER].left = k /\ N[HEADER].right = k
    BY <1>8
  <2> QED
    BY <2>1, <2>2, <2>3
<1>11. PICK lo, hi, h : lo = [j \in {k} |-> 0] /\ hi = [j \in {k} |-> HEADER] /\ h = [j \in {k} |-> 0]
  OBVIOUS
<1>12. lo[k] = 0 /\ hi[k] = HEADER /\ h[k] = 0
  BY <1>11
<1>13. Shape(N, k, {k}, lo, hi)
  <2>1. lo \in [{k} -> 0..HEADER] /\ hi \in [{k} -> 0..HEADER]
    BY <1>1, <1>11
  <2>2. \A j \in Keys \ {k} : N[j].parent = NIL
    BY <1>1, <1>7 DEF Vacant
  <2>3. LeftSide(N, {k}, lo, hi, k) /\ RightSide(N, {k}, lo, hi, k)
    BY <1>1, <1>10 DEF LeftSide, RightSide
  <2> QED
    BY <1>1, <1>9, <1>10, <1>12, <2>1, <2>2, <2>3 DEF Shape
<1>14. Fixing(N, k, {k}, h, k)
  <2>1. Level(N, {k}, h)
    <3>1. h \in [{k} -> Nat]
      BY <1>11
    <3>2. Height(h, N[k].left) = 0 /\ Height(h, N[k].right) = 0 /\ Black(N, k) = 0
      BY <1>10, TreeAssumption DEF Height, Black
    <3> QED
      BY <1>12, <3>1, <3>2 DEF Level
  <2> QED
    BY <1>10, <2>1 DEF Fixing, Reds
<1>15. Extremes(N, {k})
  BY <1>1, <1>10 DEF Extremes
<1> QED
  BY <1>2, <1>3, <1>13, <1>14, <1>15 DEF Repairing

----------------------------------------------------------------------------
(* The invariant.                                                         *)

TreeSound == \E root, lo, hi, h : Sound(node, root, In, lo, hi, h)

TreeInv ==
  /\ it \in In \cup {HEADER}
  /\ Vacant(node) \/ TreeSound

LEMMA MembersAre ==
  ASSUME NEW nd, NEW M, NEW lo, NEW hi, NEW root, Shape(nd, root, M, lo, hi)
  PROVE  {k \in Keys : nd[k].parent # NIL} = M
<1>1. M \subseteq Keys /\ \A k \in Keys \ M : nd[k].parent = NIL
  BY DEF Shape
<1>2. ASSUME NEW k \in M PROVE nd[k].parent # NIL
  <2>1. nd[k].parent = HEADER \/ nd[k].parent \in M
    BY ParentOf
  <2> QED
    BY <1>1, <2>1, MemberIs, Size
<1> QED
  BY <1>1, <1>2

LEMMA NoMembers ==
  ASSUME Vacant(node)
  PROVE  In = {} /\ node[HEADER].parent = NIL /\ node[HEADER].left = HEADER
BY DEF Vacant, In

LEMMA Inserted ==
  ASSUME TreeInv, NEW k \in Keys, Insert(k)
  PROVE  \E root, lo, hi, h : Sound(node', root, In \cup {k}, lo, hi, h)
<1>1. PICK p, t : /\ p = IF node[HEADER].parent = NIL THEN HEADER ELSE Below(node[HEADER].parent, k)
                  /\ t = Linked(p = HEADER \/ k < p, k, p)
  OBVIOUS
<1>2. PICK r : r = Restored(t, k)
  OBVIOUS
<1>3. node' = [r.node EXCEPT ![r.root].colour = BLACK, ![HEADER].parent = r.root]
  BY <1>1, <1>2, Zenon DEF Insert, InsertAndRebalance
<1>4. \E lo, hi, h : Repairing(t, In \cup {k}, lo, hi, h, k)
  <2>1. CASE Vacant(node)
    <3>1. In \cup {k} = {k} /\ p = HEADER
      BY <1>1, <2>1, NoMembers
    <3>2. (p = HEADER \/ k < p) = TRUE
      BY <3>1
    <3>3. t = Linked(TRUE, k, HEADER)
      BY <1>1, <3>1, <3>2
    <3>4. \E lo, hi, h : Repairing(t, {k}, lo, hi, h, k)
      BY <2>1, <3>3, LinkFirst, Zenon
    <3> QED
      BY <3>1, <3>4
  <2>2. CASE TreeSound
    <3>1. PICK root, lo, hi, h : Sound(node, root, In, lo, hi, h)
      BY <2>2 DEF TreeSound
    <3>2. Shape(node, root, In, lo, hi) /\ node[HEADER].parent = root
      BY <3>1 DEF Sound, Tracked
    <3>3. k \in Keys \ In
      BY DEF Insert
    <3>4. root # NIL
      <4>1. root \in In
        BY <3>2 DEF Shape
      <4> QED
        BY <3>2, <4>1, BoundsAre
    <3>5. p = Below(root, k)
      BY <1>1, <3>2, <3>4
    <3>6. /\ p \in In /\ lo[p] < k /\ k < hi[p]
          /\ \/ k < p /\ node[p].left = NIL
             \/ p < k /\ node[p].right = NIL
      BY <3>2, <3>3, <3>5, BelowEnds
    <3>7. p # HEADER /\ p \in Nat /\ k \in Nat
      BY <3>2, <3>6, BoundsAre DEF Keys
    <3>8. CASE k < p /\ node[p].left = NIL
      <4>1. (p = HEADER \/ k < p) = TRUE
        BY <3>8
      <4>2. t = Linked(TRUE, k, p)
        BY <1>1, <4>1
      <4> QED
        BY <3>1, <3>3, <3>6, <3>8, <4>2, LinkLeft
    <3>9. CASE p < k /\ node[p].right = NIL
      <4>1. (p = HEADER \/ k < p) = FALSE
        BY <3>7, <3>9
      <4>2. t = Linked(FALSE, k, p)
        BY <1>1, <4>1
      <4> QED
        BY <3>1, <3>3, <3>6, <3>9, <4>2, LinkRight
    <3> QED
      BY <3>6, <3>8, <3>9
  <2> QED
    BY <2>1, <2>2 DEF TreeInv
<1>5. \E lo, hi, h : NearlySound(r, In \cup {k}, lo, hi, h)
  BY <1>2, <1>4, Restores
<1>6. PICK N : N = node'
  OBVIOUS
<1>7. \E lo, hi, h : Sound(N, r.root, In \cup {k}, lo, hi, h)
  BY <1>3, <1>5, <1>6, Blackens
<1> QED
  BY <1>6, <1>7

LEMMA TreeStarts ==
  ASSUME TreeInit
  PROVE  TreeInv
<1>1. node \in [Nodes -> Node]
  BY NodesAre, Size DEF TreeInit, Node, Nodes, Keys
<1>2. HEADER \in Nodes /\ HEADER \notin Keys /\ Keys \subseteq Nodes
  BY NodesAre DEF Nodes
<1> QED
  BY <1>1, <1>2 DEF TreeInv, Vacant, TreeInit

LEMMA TreeSteps ==
  ASSUME TreeInv, [TreeNext]_treeVars
  PROVE  TreeInv'
<1>1. ASSUME NEW k \in Keys, Insert(k) PROVE TreeInv'
  <2>1. PICK root, lo, hi, h : Sound(node', root, In \cup {k}, lo, hi, h)
    BY <1>1, Inserted
  <2>2. PICK N : N = node'
    OBVIOUS
  <2>3. {j \in Keys : N[j].parent # NIL} = In \cup {k}
    BY <2>1, <2>2, MembersAre DEF Sound
  <2>4. In' = In \cup {k}
    BY <2>2, <2>3 DEF In
  <2> QED
    BY <1>1, <2>1, <2>4 DEF Insert, TreeInv, TreeSound
<1>2. ASSUME UNCHANGED node PROVE In' = In /\ (TreeSound => TreeSound') /\ (Vacant(node) => Vacant(node'))
  <2>1. In' = In
    BY <1>2 DEF In
  <2> QED
    BY <1>2, <2>1 DEF TreeSound
<1>3. ASSUME TreeSound
      PROVE  \E root, lo, hi : Shape(node, root, In, lo, hi) /\ Tracked(node, root, In) /\ node[root].colour = BLACK
  BY <1>3 DEF TreeSound, Sound, Settled
<1>4. ASSUME Begin PROVE TreeInv'
  <2>1. node[HEADER].left \in In \cup {HEADER}
    BY <1>3, NoMembers DEF TreeInv, Tracked
  <2> QED
    BY <1>2, <1>4, <2>1 DEF Begin, TreeInv
<1>5. ASSUME Forward PROVE TreeInv'
  <2>1. it \in In /\ TreeSound
    BY <1>5, NoMembers DEF Forward, TreeInv
  <2>2. RbIncrement(it) \in In \cup {HEADER}
    BY <1>3, <2>1, IncrementIs
  <2> QED
    BY <1>2, <1>5, <2>1, <2>2 DEF Forward, TreeInv
<1>6. ASSUME Backward PROVE TreeInv'
  <2>1. TreeSound
    BY <1>6, NoMembers DEF Backward, TreeInv
  <2>2. it \in In \cup {HEADER} /\ it # node[HEADER].left
    BY <1>6 DEF Backward, TreeInv
  <2>3. RbDecrement(it) \in In
    BY <1>3, <2>1, <2>2, DecrementIs
  <2> QED
    BY <1>2, <1>6, <2>1, <2>3 DEF Backward, TreeInv
<1>7. ASSUME UNCHANGED treeVars PROVE TreeInv'
  BY <1>2, <1>7 DEF treeVars, TreeInv
<1> QED
  BY <1>1, <1>4, <1>5, <1>6, <1>7 DEF TreeNext

----------------------------------------------------------------------------
(* Balance.                                                               *)

LEMMA BlacksAre ==
  ASSUME NEW M, NEW lo, NEW hi, NEW root, NEW h, Sound(node, root, M, lo, hi, h), NEW k \in M,
         NIL \in {node[k].left, node[k].right}
  PROVE  Blacks(k) = h[root]
<1>1. Shape(node, root, M, lo, hi) /\ Level(node, M, h)
  BY DEF Sound, Settled
<1>2. /\ M \subseteq Nodes /\ HEADER \notin M /\ HEADER \in Nodes /\ root \in M
      /\ lo[root] = 0 /\ hi[root] = HEADER /\ h \in [M -> Nat]
  BY <1>1, NodesAre DEF Shape, Nodes, Level
<1>3. ASSUME NEW y \in M
      PROVE  /\ Height(h, node[y].left) \in Nat /\ h[y] \in Nat
             /\ Height(h, node[y].left) = Height(h, node[y].right)
             /\ h[y] = Height(h, node[y].left) + Black(node, y)
  BY <1>1, <1>2, ChildIs DEF Level, Height
<1> DEFINE Q == {c \in Nodes \X Nat : \/ c[1] \in M /\ c[2] = Height(h, node[c[1]].left)
                                      \/ c[1] = HEADER /\ c[2] = h[root]}
           step == [c \in Nodes \X Nat |->
                      IF c[1] = HEADER THEN c
                      ELSE <<node[c[1]].parent,
                             c[2] + IF node[c[1]].colour = BLACK THEN 1 ELSE 0>>]
           m == [c \in Q |-> IF c[1] \in M THEN HEADER - (hi[c[1]] - lo[c[1]]) + 1 ELSE 0]
           q == <<k, 0>>
<1>4. q \in Q
  <2>1. Height(h, node[k].left) = 0
    BY <1>3 DEF Height
  <2>2. q \in Nodes \X Nat /\ q[1] = k /\ q[2] = 0
    BY <1>2
  <2> QED
    BY <2>1, <2>2
<1>5. ASSUME NEW y \in M
      PROVE  /\ HEADER - (hi[y] - lo[y]) + 1 \in 0..HEADER /\ lo[y] \in Nat /\ hi[y] \in Nat
             /\ 0 < HEADER - (hi[y] - lo[y]) + 1
  <2>1. lo[y] \in Nat /\ hi[y] \in Nat /\ lo[y] < y /\ y < hi[y] /\ y \in Nat /\ hi[y] <= HEADER
    BY <1>1, BoundsAre
  <2> QED
    BY <2>1, Size
<1>6. m \in [Q -> 0..HEADER]
  <2> SUFFICES ASSUME NEW c \in Q PROVE (IF c[1] \in M THEN HEADER - (hi[c[1]] - lo[c[1]]) + 1 ELSE 0) \in 0..HEADER
    OBVIOUS
  <2> QED
    BY <1>5, Size
<1>7. ASSUME NEW r \in Q
      PROVE  /\ step[r] \in Q /\ (step[r] # r => m[step[r]] < m[r])
             /\ step[r] = r => r[1] = HEADER /\ r[2] = h[root]
  <2>1. PICK y, n : r = <<y, n>> /\ y \in Nodes /\ n \in Nat
    OBVIOUS
  <2>2. r[1] = y /\ r[2] = n
    BY <2>1
  <2>3. (y \in M /\ n = Height(h, node[y].left)) \/ (y = HEADER /\ n = h[root])
    BY <2>2
  <2>4. step[r] = IF y = HEADER THEN r
                  ELSE <<node[y].parent, n + IF node[y].colour = BLACK THEN 1 ELSE 0>>
    BY <2>1, <2>2
  <2>5. CASE y = HEADER /\ n = h[root]
    BY <2>2, <2>4, <2>5
  <2>6. CASE y \in M /\ n = Height(h, node[y].left)
    <3>1. step[r] = <<node[y].parent, h[y]>>
      <4>1. h[y] = n + Black(node, y)
        BY <1>3, <2>6
      <4>2. y # HEADER
        BY <1>2, <2>6
      <4> QED
        BY <2>4, <4>1, <4>2 DEF Black
    <3>2. PICK s, up : s = step[r] /\ up = node[y].parent
      OBVIOUS
    <3>3. m[r] = HEADER - (hi[y] - lo[y]) + 1
      BY <2>2, <2>6
    <3>4. CASE y = root
      <4>1. up = HEADER
        BY <1>1, <3>2, <3>4 DEF Shape
      <4>2. s = <<HEADER, h[root]>> /\ s[1] = HEADER /\ s[2] = h[root] /\ s \in Nodes \X Nat
        BY <1>2, <1>3, <2>6, <3>1, <3>2, <3>4, <4>1
      <4>3. s \in Q /\ m[s] = 0
        BY <1>2, <4>2
      <4>4. s # r
        BY <1>2, <2>2, <2>6, <4>2
      <4> QED
        BY <1>5, <2>6, <3>2, <3>3, <4>3, <4>4
    <3>5. CASE y # root
      <4>1. /\ up \in M /\ up # HEADER
            /\ \/ y = node[up].left /\ lo[y] = lo[up] /\ hi[y] = up
               \/ y = node[up].right /\ hi[y] = hi[up] /\ lo[y] = up
        <5>1. y \in M
          BY <2>6
        <5> HIDE DEF Q, m, step
        <5> QED
          BY <1>1, <3>2, <3>5, <5>1, ParentOf
      <4>2. Height(h, node[up].left) = h[y]
        <5>1. y # NIL
          BY <1>2, <2>6, NodesAre
        <5>2. Height(h, y) = h[y]
          BY <5>1 DEF Height
        <5>3. Height(h, node[up].left) = Height(h, node[up].right)
          BY <1>3, <4>1
        <5> QED
          BY <4>1, <5>2, <5>3
      <4>3. s = <<up, h[y]>> /\ s[1] = up /\ s[2] = h[y] /\ s \in Nodes \X Nat
        BY <1>2, <1>3, <2>6, <3>1, <3>2, <4>1
      <4>4. s \in Q /\ m[s] = HEADER - (hi[up] - lo[up]) + 1
        BY <4>1, <4>2, <4>3
      <4>5. lo[up] < up /\ up < hi[up] /\ up \in Nat /\ lo[up] \in Nat /\ hi[up] \in Nat
        <5> HIDE DEF Q, m, step
        <5> QED
          BY <1>1, <4>1, BoundsAre
      <4>6. m[s] < m[r]
        BY <1>5, <2>6, <3>3, <4>1, <4>4, <4>5, Size
      <4>7. s # r
        BY <3>3, <4>4, <4>6, <1>5, <2>6
      <4> QED
        BY <3>2, <4>4, <4>6, <4>7, Zenon
    <3> QED
      BY <3>4, <3>5, SMTT(30)
  <2> QED
    BY <2>3, <2>5, <2>6, SMTT(30)
<1>8. Blacks(k) = Loop(q, step)[2]
  BY DEF Blacks
<1> HIDE DEF step, m, q, Q
<1>9. Loop(q, step) \in Q /\ step[Loop(q, step)] = Loop(q, step)
  <2>1. \A r \in Q : step[r] \in Q /\ (step[r] # r => m[step[r]] < m[r])
    BY <1>7
  <2> QED
    BY <1>4, <1>6, <2>1, LoopEnds, Zenon
<1> QED
  BY <1>7, <1>8, <1>9

LEMMA TreeIsBalanced ==
  ASSUME TreeInv
  PROVE  TreeBalanced
<1>1. CASE Vacant(node)
  <2>1. In = {}
    BY <1>1, NoMembers
  <2> QED
    BY <2>1 DEF TreeBalanced, Ends
<1>2. CASE TreeSound
  <2>1. PICK root, lo, hi, h : Sound(node, root, In, lo, hi, h)
    BY <1>2 DEF TreeSound
  <2>2. /\ Shape(node, root, In, lo, hi) /\ Tracked(node, root, In) /\ node[root].colour = BLACK
        /\ node[HEADER].parent = root /\ Reds(node, root, In, NIL) /\ RED # BLACK
    BY <2>1, TreeAssumption DEF Sound, Settled, Tracked
  <2>3. \A k \in Ends : Blacks(k) = h[root]
    BY <2>1, BlacksAre DEF Ends
  <2>4. ASSUME NEW k \in In
        PROVE  LET p == node[k].parent IN
               /\ p # HEADER => k \in {node[p].left, node[p].right}
               /\ node[k].colour = RED => node[p].colour = BLACK
               /\ RbIncrement(k) # k
               /\ k # node[HEADER].left => RbDecrement(k) # k
    <3>1. node[k].parent # HEADER => k \in {node[node[k].parent].left, node[node[k].parent].right}
      BY <2>2, ParentOf
    <3>2. node[k].colour = RED => node[node[k].parent].colour = BLACK
      <4>1. k # NIL
        BY <2>2, BoundsAre
      <4> QED
        BY <2>2, <4>1 DEF Reds
    <3>3. k \in Nat
      BY <2>2, BoundsAre
    <3>4. k < RbIncrement(k) /\ RbIncrement(k) \in Nat
      <4>1. k < RbIncrement(k) /\ RbIncrement(k) \in In \cup {HEADER}
        BY <2>2, IncrementIs
      <4> QED
        BY <2>2, <4>1, BoundsAre, Size
    <3>5. k # node[HEADER].left => RbDecrement(k) < k /\ RbDecrement(k) \in Nat
      <4>1. k # node[HEADER].left => RbDecrement(k) < k /\ RbDecrement(k) \in In
        BY <2>2, DecrementIs
      <4> QED
        BY <2>2, <4>1, BoundsAre
    <3> QED
      BY <3>1, <3>2, <3>3, <3>4, <3>5
  <2> QED
    BY <2>2, <2>3, <2>4 DEF TreeBalanced
<1> QED
  BY <1>1, <1>2 DEF TreeInv

----------------------------------------------------------------------------
(* The ordered set.                                                       *)

LEMMA LeastIs ==
  ASSUME NEW S, S \subseteq Nat, NEW x \in S, \A y \in S : x <= y
  PROVE  Ordered!Min(S) = x
<1>1. \A z \in S : (\A y \in S : z =< y) => z = x
  OBVIOUS
<1> QED
  BY <1>1 DEF Ordered!Min

LEMMA GreatestIs ==
  ASSUME NEW S, S \subseteq Nat, NEW x \in S, \A y \in S : y <= x
  PROVE  Ordered!Max(S) = x
<1>1. \A z \in S : (\A y \in S : z >= y) => z = x
  OBVIOUS
<1> QED
  BY <1>1 DEF Ordered!Max

LEMMA TreeStepsAsSet ==
  ASSUME TreeInv, [TreeNext]_treeVars
  PROVE  [Ordered!SetNext]_<<In, it>>
<1>1. In \subseteq Nat /\ HEADER \notin In /\ In \subseteq Keys /\ \A k \in In : k < HEADER
  BY Size DEF In, Keys
<1>2. ASSUME TreeSound
      PROVE  \E root, lo, hi : /\ Shape(node, root, In, lo, hi) /\ Tracked(node, root, In)
                               /\ node[root].colour = BLACK /\ In # {}
  BY <1>2 DEF TreeSound, Sound, Settled, Shape
<1>3. UNCHANGED node => In' = In
  BY DEF In
<1>4. ASSUME NEW k \in Keys, Insert(k) PROVE Ordered!Insert(k)
  <2>1. PICK root, lo, hi, h : Sound(node', root, In \cup {k}, lo, hi, h)
    BY <1>4, Inserted
  <2>2. PICK N : N = node'
    OBVIOUS
  <2>3. {j \in Keys : N[j].parent # NIL} = In \cup {k}
    BY <2>1, <2>2, MembersAre DEF Sound
  <2>4. In' = In \cup {k}
    BY <2>2, <2>3 DEF In
  <2> QED
    BY <1>4, <2>4 DEF Insert, Ordered!Insert
<1>5. ASSUME Begin PROVE Ordered!Begin
  <2>1. CASE Vacant(node)
    BY <1>3, <1>5, <2>1, NoMembers DEF Begin, Ordered!Begin
  <2>2. CASE TreeSound
    <3>1. node[HEADER].left \in In /\ \A k \in In : node[HEADER].left <= k
      BY <1>2, <2>2 DEF Tracked
    <3>2. Ordered!Min(In) = node[HEADER].left
      BY <1>1, <3>1, LeastIs
    <3> QED
      BY <1>3, <1>5, <3>1, <3>2 DEF Begin, Ordered!Begin
  <2> QED
    BY <2>1, <2>2 DEF TreeInv
<1>6. ASSUME Forward PROVE Ordered!Forward
  <2>1. it \in In /\ TreeSound
    BY <1>6, NoMembers DEF Forward, TreeInv
  <2>2. PICK n : n = RbIncrement(it)
    OBVIOUS
  <2>3. n \in In \cup {HEADER} /\ it < n /\ \A k \in In : k <= it \/ n <= k
    BY <1>2, <2>1, <2>2, IncrementIs
  <2>6. Ordered!Above(it) = {k \in In : k > it} /\ it \in Nat /\ \A k \in In : k \in Nat /\ k < HEADER
    BY <1>1, <2>1 DEF Ordered!Above
  <2>4. CASE n = HEADER
    <3>1. Ordered!Above(it) = {}
      <4>1. ASSUME NEW k \in In PROVE ~(k > it)
        BY <2>3, <2>4, <2>6, Size
      <4> QED
        BY <2>6, <4>1
    <3> QED
      BY <1>3, <1>6, <2>2, <2>4, <3>1 DEF Forward, Ordered!Forward
  <2>5. CASE n \in In
    <3>1. n \in Ordered!Above(it) /\ Ordered!Above(it) \subseteq Nat /\ \A k \in Ordered!Above(it) : n <= k
      BY <2>3, <2>5, <2>6
    <3>2. Ordered!Min(Ordered!Above(it)) = n
      BY <3>1, LeastIs
    <3> QED
      BY <1>3, <1>6, <2>2, <3>1, <3>2 DEF Forward, Ordered!Forward
  <2> QED
    BY <2>3, <2>4, <2>5
<1>7. ASSUME Backward PROVE Ordered!Backward
  <2>1. TreeSound /\ it \in In \cup {HEADER} /\ it # node[HEADER].left
    BY <1>7, NoMembers DEF Backward, TreeInv
  <2>2. PICK n : n = RbDecrement(it)
    OBVIOUS
  <2>3. n \in In /\ n < it /\ \A k \in In : k <= n \/ it <= k
    BY <1>2, <2>1, <2>2, DecrementIs
  <2>4. n \in Ordered!Below(it) /\ Ordered!Below(it) \subseteq Nat /\ \A k \in Ordered!Below(it) : k <= n
    <3>1. Ordered!Below(it) = {k \in In : it = HEADER \/ k < it}
      BY DEF Ordered!Below
    <3>2. it \in Nat /\ \A k \in In : k \in Nat /\ k < HEADER
      BY <1>1, <2>1, Size
    <3> QED
      BY <2>3, <3>1, <3>2, Size
  <2>5. Ordered!Max(Ordered!Below(it)) = n
    BY <2>4, GreatestIs
  <2> QED
    BY <1>3, <1>7, <2>2, <2>4, <2>5 DEF Backward, Ordered!Backward
<1>8. ASSUME UNCHANGED treeVars PROVE UNCHANGED <<In, it>>
  BY <1>3, <1>8 DEF treeVars
<1> QED
  BY <1>4, <1>5, <1>6, <1>7, <1>8 DEF TreeNext, Ordered!SetNext

LEMMA TreeStartsAsSet ==
  ASSUME TreeInit
  PROVE  Ordered!SetInit
BY TreeStarts, Size DEF TreeInit, Ordered!SetInit, In, Keys, Nodes

\* After any insertions no red node has a red parent, every way down passes as
\* many black nodes, links up and down agree, and no iterator stands still, for
\* trees of any size (hle_cxx.c:47-175).
THEOREM TreesAreBalanced == TreeSpec => []TreeBalanced
<1>1. TreeInit => TreeInv
  BY TreeStarts
<1>2. TreeInv /\ [TreeNext]_treeVars => TreeInv'
  BY TreeSteps
<1>3. TreeInv => TreeBalanced
  BY TreeIsBalanced
<1> QED
  BY <1>1, <1>2, <1>3, PTL DEF TreeSpec

\* To the guest the tree is an ordered set: an insertion adds its key and
\* leaves every iterator where it is, and an iterator steps to the next member
\* or the one before, from either end too (hle_cxx.c:47-190).
THEOREM TreesAreSets == TreeSpec => ImplementsOrderedSet
<1>1. TreeInit => TreeInv /\ Ordered!SetInit
  BY TreeStarts, TreeStartsAsSet
<1>2. TreeInv /\ [TreeNext]_treeVars => TreeInv'
  BY TreeSteps
<1>3. TreeInv /\ [TreeNext]_treeVars => [Ordered!SetNext]_<<In, it>>
  BY TreeStepsAsSet
<1> QED
  BY <1>1, <1>2, <1>3, PTL DEF TreeSpec, ImplementsOrderedSet, Ordered!OrderedSetSpec

==============================================================================
