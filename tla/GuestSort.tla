------------------------------ MODULE GuestSort ------------------------------
(***************************************************************************)
(* qsort in hle_libc.c: an insertion sort in the guest's own array, every  *)
(* comparison a call back into lifted code, which may answer anything.     *)
(***************************************************************************)
EXTENDS Integers

CONSTANTS
  SortKeys,     \* what elements are compared by
  Comparators,  \* bound: the guest's functions, of two keys to -1, 0 or 1
  MaxSort,      \* bound: the longest array
  SortLimit     \* elements beyond which the call is refused

ASSUME SortAssumption ==
  /\ SortKeys # {} /\ MaxSort \in Nat \ {0} /\ SortLimit \in Nat
  /\ Comparators \subseteq [SortKeys \X SortKeys -> Int]

VARIABLE sort

(* a is the array, its elements tagged with where they were; tmp the element
   in hand, j the hole it left. *)
NoElement == [key |-> CHOOSE k \in SortKeys : TRUE, was |-> -1]
SortInit ==
  sort = [phase |-> "idle", n |-> 0, a |-> <<>>, i |-> 0, j |-> 0,
          tmp |-> NoElement, cmp |-> CHOOSE f \in Comparators : TRUE]

Places(n) == 0..(n - 1)

\* h_qsort's entry: fewer than two elements need no sorting, and a call beyond
\* the limits is refused; both return with the array as it was.
Sort(n, keys, f) ==
  sort' = [phase |-> IF n < 2 \/ n > SortLimit THEN "done" ELSE "pick",
              n |-> n, a |-> [p \in Places(n) |-> [key |-> keys[p], was |-> p]],
              i |-> 1, j |-> 0, tmp |-> NoElement, cmp |-> f]

\* The outer loop takes an element out, or ends.
Pick ==
  /\ sort.phase = "pick"
  /\ sort' = IF sort.i < sort.n
             THEN [sort EXCEPT !.phase = "shift", !.tmp = sort.a[sort.i], !.j = sort.i]
             ELSE [sort EXCEPT !.phase = "done"]

\* Mutant: equal elements change places.
StaysStrictly(left) == sort.cmp[left.key, sort.tmp.key] < 0

\* The guest says the element on the left is in place.
Stays(left) == sort.cmp[left.key, sort.tmp.key] <= 0

\* The inner loop: move one element up, or put the one in hand down.
Shift ==
  /\ sort.phase = "shift" /\ sort.j > 0
  /\ ~Stays(sort.a[sort.j - 1])
  /\ sort' = [sort EXCEPT !.a[sort.j] = sort.a[sort.j - 1], !.j = @ - 1]

PutDown ==
  /\ sort.phase = "shift"
  /\ sort.j > 0 => Stays(sort.a[sort.j - 1])
  /\ sort' = [sort EXCEPT !.phase = "pick", !.a[sort.j] = sort.tmp, !.i = @ + 1]

SortReturn ==
  /\ sort.phase = "done"
  /\ sort' = [phase |-> "idle", n |-> 0, a |-> <<>>, i |-> 0, j |-> 0,
              tmp |-> NoElement, cmp |-> CHOOSE f \in Comparators : TRUE]

SortNext ==
  \/ /\ sort.phase = "idle"
     /\ \E n \in 0..MaxSort : \E keys \in [Places(n) -> SortKeys], f \in Comparators :
       Sort(n, keys, f)
  \/ Pick \/ Shift \/ PutDown \/ SortReturn

SortSpec == SortInit /\ [][SortNext]_sort

----------------------------------------------------------------------------
SortTypeOK ==
  /\ sort.phase \in {"idle", "pick", "shift", "done"}
  /\ sort.n \in 0..MaxSort /\ sort.i \in 0..MaxSort /\ sort.j \in 0..MaxSort
  /\ sort.phase # "idle" => DOMAIN sort.a = Places(sort.n)

Orders(f) ==
  \A x, y, z \in SortKeys :
    /\ f[x, y] = -f[y, x]
    /\ f[x, y] <= 0 /\ f[y, z] <= 0 => f[x, z] <= 0

\* Whatever the guest's function answers, no element is lost or doubled, in
\* the midst of the sort either; and with one that orders, the array comes out
\* in its order, equals as they stood.
SortSound ==
  /\ LET a == IF sort.phase = "shift" THEN [sort.a EXCEPT ![sort.j] = sort.tmp] ELSE sort.a
     IN  sort.phase # "idle" => {a[p].was : p \in Places(sort.n)} = Places(sort.n)
  /\ sort.phase = "done" /\ sort.n <= SortLimit /\ Orders(sort.cmp) =>
       \A p, q \in Places(sort.n) : p < q =>
         LET d == sort.cmp[sort.a[p].key, sort.a[q].key]
         IN  d < 0 \/ (d = 0 /\ sort.a[p].was < sort.a[q].was)
=============================================================================
